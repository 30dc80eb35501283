--------------------------- MODULE DataGameProofs ---------------------------
(***************************************************************************)
(* The solver of the data game misses no vertex, and the strategy it       *)
(* records never runs out of moves, for every game, every data, every      *)
(* number of rounds and every failed or repeated step.                     *)
(***************************************************************************)
EXTENDS DataGame, FiniteSetTheorems, WellFoundedInduction, TLAPS

Picks(i) == arena[i].picks

(* What build_data_arena makes sure of: every window has an edge, what the  *)
(* environment may do does not depend on the output, what nobody picks at   *)
(* is a coloured state or a sink, and the players take turns.               *)
EdgesOK(i) ==
    /\ \E n \in Nat : DOMAIN Edges(i) = 1 .. n
    /\ \A j \in DOMAIN Edges(i) :
           /\ Edges(i)[j].label \in SUBSET Window
           /\ Edges(i)[j].dst \in V
           /\ Owner(i) = 0 => Edges(i)[j].shift = FALSE
           /\ Owner(i) = 1 => Edges(i)[j].shift = TRUE
    /\ \A w \in Window : \E j \in DOMAIN Edges(i) : w \in Edges(i)[j].label

OutFree(S) == \A w \in S, x \in Val : [w EXCEPT !.o = x] \in S
InFree(S)  == \A w \in S, x \in Val : [w EXCEPT !.i = x] \in S

EnvOK(i) ==
    /\ Picks(i) \in {"inputs", "none"}
    /\ \A j \in DOMAIN Edges(i) : OutFree(Edges(i)[j].label)

PassedOK(i) ==
    /\ DOMAIN Edges(i) = {1}
    /\ Edges(i)[1].label = Window
    /\ Edges(i)[1].dst = i \/ Picks(Edges(i)[1].dst) # "none"

ArenaOK ==
    /\ V \in SUBSET (Nat \ {0})
    /\ \A i \in V :
           /\ Owner(i) \in {0, 1}
           /\ arena[i].priority \in 0 .. MaxColor + 2
           /\ EdgesOK(i)
           /\ Owner(i) = 0 => EnvOK(i)
           /\ Owner(i) = 1 => Picks(i) = "outputs"
           /\ Picks(i) = "none" => PassedOK(i)
    /\ game.init \in V
    /\ \A i \in V : ColorAt(i) \in -1 .. MaxColor + 1

TurnsOK ==
    /\ Picks(game.init) = "inputs"
    /\ \A i \in V : Picks(i) # "none" => \A j \in DOMAIN Edges(i) :
           Picks(Follow(Edges(i)[j].dst)) # Picks(i)

-----------------------------------------------------------------------------
(* Types. *)

Regions == [V -> SUBSET Window]
Slots(i) == IF Owner(i) = 1 THEN DOMAIN Edges(i) ELSE {}
MoveRows == UNION {[Slots(i) -> SUBSET Window] : i \in V}
Moves == {m \in [V -> MoveRows] : \A i \in V : DOMAIN m[i] = Slots(i)}
Results == [env : Regions, sys : Regions, moves : Moves]
Frames == [stage : {"enter", "attract", "sub", "attract lost", "rest"}, p : {0, 1},
           G : Regions, U : Regions, attracted : Moves, sub : Results, kept : Moves,
           B : Regions]
Attractors == [p : {0, 1}, Y : Regions, G : Regions, record : BOOLEAN, moves : Moves,
               dirty : SUBSET V, next : Nat, changed : BOOLEAN, round : Nat]
Modes == {"codes", "formulas", "closed"}

TypeOK ==
    /\ game \in Games
    /\ arena = BuildArena(game)
    /\ modes \in Seq(Modes)
    /\ pc \in {"solve", "attract", "return", "decide", "undecided", "unrealizable",
               "realizable", "won", "play"}
    /\ stack \in Seq(Frames)
    /\ att \in Attractors \cup {NoAttractor}
    /\ won \in Results \cup {NoWinner}
    /\ expired \in BOOLEAN
    /\ at \in [vertex : V, input : {<<>>} \cup [1 .. 1 -> Val]]
    /\ prev \in Val
    /\ seen \in -1 .. MaxColor + 1
    \* there is a frame, and a representation to try, as long as it is solved
    /\ pc \in {"solve", "attract", "return"} => stack # <<>>
    /\ pc \in {"solve", "attract", "return", "decide"} => modes # <<>>
    /\ pc = "attract" => att \in Attractors
    /\ pc # "undecided" => Readable(game)
    /\ pc \in {"return", "decide", "won", "play"} => won \in Results

-----------------------------------------------------------------------------
(* Regions and moves. *)

Within(X, Y) == \A i \in V : X[i] \subseteq Y[i]

\* A region tells windows apart only by what has been picked at its vertex.
Free(R) == \A i \in V : OutFree(R[i]) /\ (Picks(i) = "inputs" => InFree(R[i]))

\* The system has a move from each of its windows in S, and moves into S.
Covered(m, S) ==
    \A k \in V : Owner(k) = 1 => \A w \in S[k] :
        \E j \in DOMAIN Edges(k), x \in Val : [w EXCEPT !.o = x] \in m[k][j]

Into(m, S) ==
    \A k \in V : Owner(k) = 1 => \A j \in DOMAIN Edges(k) : m[k][j] \subseteq Move(k, j, S)

\* From X the environment does not leave S but by a move out of the subgame.
Keeps(X, S, G) ==
    \A k \in V : Owner(k) = 0 => \A j \in DOMAIN Edges(k) :
        \A w \in X[k] \intersect Edges(k)[j].label :
            w \in S[Edges(k)[j].dst] \/ w \notin G[Edges(k)[j].dst]

Closed(S, m, G) == Covered(m, S) /\ Into(m, S) /\ Keeps(S, S, G)

\* A result of solve: the subgame is shared out, and the system's share is
\* closed under its moves.
Result(G, r) ==
    /\ Free(r.env)
    /\ Free(r.sys)
    /\ \A i \in V : r.env[i] \cup r.sys[i] = G[i]
    /\ Closed(r.sys, r.moves, G)

\* A subgame: the system can stay in it.
NoDead(G) ==
    \A k \in V : Owner(k) = 1 => \A w \in G[k] :
        \E j \in DOMAIN Edges(k), x \in Val : [w EXCEPT !.o = x] \in Move(k, j, G)

Subgame(G) == Free(G) /\ NoDead(G)

-----------------------------------------------------------------------------
(* The frames, and the subgame G1 a frame has had solved. *)

FrameOK(f) ==
    /\ Subgame(f.G)
    /\ f.stage # "enter" => Free(f.U) /\ Within(f.U, f.G)

SubLink(f, G1) ==
    /\ Within(G1, f.G)
    /\ \A i \in V : f.U[i] \intersect G1[i] = {}
    /\ f.p = 0 => Keeps(G1, G1, f.G)
    /\ f.p = 1 => /\ Into(f.attracted, f.G)
                  /\ Covered(f.attracted, Without(Without(f.G, G1), f.U))

RestLink(f, G1) ==
    /\ Free(f.B)
    /\ Within(f.B, f.G)
    /\ G1 = Without(f.G, f.B)
    /\ f.p = 1 => Keeps(G1, G1, f.G)
    /\ f.p = 0 => Closed(f.B, AddMoves(f.sub.moves, f.kept), f.G)

Link(f, G1) ==
    \/ f.stage = "sub" /\ SubLink(f, G1)
    \/ f.stage = "rest" /\ RestLink(f, G1)

StackOK ==
    /\ \A n \in 1 .. Len(stack) : FrameOK(stack[n])
    /\ \A n \in 1 .. Len(stack) - 1 : Link(stack[n], stack[n + 1].G)
    /\ stack # <<>> => stack[1].G = All

(* The attractor under way.  From what it has attracted the system has      *)
(* moves into it, and the environment cannot leave it.                      *)
Base == IF Top.stage = "attract" THEN Top.U ELSE Lost(Top, Top.sub)

Holds(B, Y, m, G) ==
    Into(m, Y) /\ Covered(m, Without(Y, B)) /\ Keeps(Without(Y, B), Y, G)

AttractorOK ==
    /\ Top.stage \in {"attract", "attract lost"}
    /\ att.G = Top.G
    /\ att.p = IF Top.stage = "attract" THEN Top.p ELSE 1 - Top.p
    /\ att.record = (att.p = 1)
    /\ Free(att.Y)
    /\ Within(Base, att.Y)
    /\ Within(att.Y, att.G)
    /\ att.p = 1 => Holds(Base, att.Y, att.moves, att.G)
    /\ Top.stage = "attract lost" /\ att.p = 1 => Closed(Base, Top.sub.moves, att.G)
    /\ ~att.changed => \A k \in att.dirty : k >= att.next

SolveInv ==
    /\ pc = "solve" => Top.stage = "enter"
    /\ pc = "attract" => AttractorOK
    /\ pc = "return" => LET G1 == Joined(won.env, won.sys)
                        IN Link(Top, G1) /\ Result(G1, won)
    /\ pc \in {"decide", "won", "play"} => Result(All, won)

(* At its vertex the strategy is in a winning window whatever is picked.    *)
PlayInv ==
    /\ pc = "won" => won.sys[game.init] # {}
    /\ pc = "play" =>
         /\ Follow(at.vertex) = at.vertex
         /\ Picks(at.vertex) = "inputs" =>
                /\ at.input = <<>>
                /\ \A w \in Window : w.o1 = prev => w \in won.sys[at.vertex]
         /\ Picks(at.vertex) = "outputs" =>
                /\ at.input # <<>>
                /\ \A w \in Window : w.o1 = prev /\ w.i = at.input[1] => w \in won.sys[at.vertex]

IInv == TypeOK /\ StackOK /\ SolveInv /\ NothingMissed /\ PlayInv

-----------------------------------------------------------------------------
(* Least and greatest numbers.                                              *)
LEMMA Smallest ==
    ASSUME NEW T, T \subseteq Nat, T # {}
    PROVE  \E n \in T : \A m \in T : n <= m
<1>1. PICK less : /\ IsWellFoundedOn(less, Nat)
                  /\ \A m, n \in Nat : m < n => <<m, n>> \in less
  <2>1. \A m, n \in Nat : m < n => <<m, n>> \in OpToRel(<, Nat)
    BY DEF OpToRel
  <2> QED BY <2>1, NatLessThanWellFounded, Zenon
<1>2. PICK n \in T : \A m \in T : ~ (<<m, n>> \in less)
  <2>1. IsWellFoundedOn(less, Nat)
    BY <1>1
  <2> QED BY <2>1, WFMin, Zenon
<1>3. \A m \in T : ~(m < n)
  BY <1>1, <1>2
<1> QED BY <1>2, <1>3

LEMMA LowestIn ==
    ASSUME NEW S, S \subseteq Nat, S # {}
    PROVE  Lowest(S) \in S /\ \A y \in S : Lowest(S) <= y
<1>1. \E x \in S : \A y \in S : x <= y
  BY Smallest
<1> QED BY <1>1 DEF Lowest

LEMMA HighestIn ==
    ASSUME NEW a \in Int, NEW b \in Int, NEW S, S \subseteq a .. b, S # {}
    PROVE  Highest(S) \in S
<1> DEFINE T == {b - x : x \in S}
<1>1. T \subseteq Nat /\ T # {}
  OBVIOUS
<1>2. PICK n \in T : \A m \in T : n <= m
  <2> HIDE DEF T
  <2> QED BY <1>1, Smallest
<1>3. PICK x \in S : n = b - x
  BY <1>2
<1>4. \A y \in S : y <= x
  <2> TAKE y \in S
  <2>1. n <= b - y
    BY <1>2
  <2> QED BY <1>3, <2>1
<1> QED BY <1>4 DEF Highest

-----------------------------------------------------------------------------
(* The arena.                                                               *)

\* The coloured targets are numbered, each once.
LEMMA TargetsNumbered ==
    ASSUME NEW g, IsGame(g)
    PROVE  /\ ColoredTargets(g) \in Seq((DOMAIN g.player) \X (0 .. MaxColor))
           /\ \A q \in DOMAIN g.player : \A j \in DOMAIN g.trans[q] :
                  g.trans[q][j].color >= 0 =>
                      \E k \in DOMAIN ColoredTargets(g) :
                          ColoredTargets(g)[k] = <<g.trans[q][j].next, g.trans[q][j].color>>
<1> DEFINE Q == DOMAIN g.player
           edges == UNION {Range(g.trans[q]) : q \in Q}
           S == {<<e.next, e.color>> : e \in {d \in edges : d.color >= 0}}
           T == ColoredTargets(g)
<1>1. edges \subseteq [guard : SUBSET Window, next : Q, color : -1 .. MaxColor]
  <2> DEFINE E == [guard : SUBSET Window, next : Q, color : -1 .. MaxColor]
  <2>1. \A q \in Q : g.trans[q] \in Seq(E)
    BY DEF IsGame
  <2> HIDE DEF E
  <2>2. \A q \in Q : Range(g.trans[q]) \subseteq E
    BY <2>1 DEF Range
  <2>3. edges \subseteq E
    BY <2>2
  <2> QED BY <2>3 DEF E
<1>2. S \subseteq Q \X (0 .. MaxColor)
  BY <1>1, ConstantsAssumption DEF ConstantsAssumption
<1>3. IsFiniteSet(S)
  <2>1. Q = 1 .. Len(g.player) /\ Len(g.player) \in Nat
    BY DEF IsGame
  <2>2. IsFiniteSet(Q) /\ IsFiniteSet(0 .. MaxColor)
    <3> DEFINE n == Len(g.player)
    <3>a. n \in Int
      BY <2>1
    <3> HIDE DEF n
    <3>b. IsFiniteSet(1 .. n)
      BY <3>a, FS_Interval
    <3>1. IsFiniteSet(1 .. Len(g.player))
      BY <3>b DEF n
    <3>2. MaxColor \in Int
      BY ConstantsAssumption DEF ConstantsAssumption
    <3>3. IsFiniteSet(0 .. MaxColor)
      BY <3>2, FS_Interval
    <3> QED BY <2>1, <3>1, <3>3
  <2>3. IsFiniteSet(Q \X (0 .. MaxColor))
    BY <2>2, FS_Product
  <2> QED BY <1>2, <2>3, FS_Subset
<1> DEFINE c == Cardinality(S)
<1>4. c \in Nat /\ ExistsBijection(1 .. c, S)
  <2> HIDE DEF S
  <2> QED BY <1>3, FS_CardinalityType
<1>5. T \in [1 .. c -> S] /\ IsInjective(T)
  <2>1. \E f \in [1 .. c -> S] : IsInjective(f)
    BY <1>4 DEF ExistsBijection, Bijection, Injection
  <2>2. T = SetToSeq(S)
    BY DEF ColoredTargets
  <2> HIDE DEF S, T
  <2> QED BY <2>1, <2>2 DEF SetToSeq
<1>6. \A s \in S : \E k \in 1 .. c : T[k] = s
  <2> HIDE DEF S, T
  <2>1. T \in Injection(1 .. c, S)
    BY <1>5 DEF Injection
  <2>2. Cardinality(1 .. c) = Cardinality(S)
    BY <1>4, FS_Interval
  <2>3. T \in Surjection(1 .. c, S)
    BY <1>3, <2>1, <2>2, FS_Injection
  <2> QED BY <2>3 DEF Surjection
<1>7. T \in Seq(Q \X (0 .. MaxColor)) /\ DOMAIN T = 1 .. c
  <2> HIDE DEF S, T, Q
  <2> QED BY <1>2, <1>4, <1>5
<1>8. ASSUME NEW q \in Q, NEW j \in DOMAIN g.trans[q], g.trans[q][j].color >= 0
      PROVE  \E k \in DOMAIN T : T[k] = <<g.trans[q][j].next, g.trans[q][j].color>>
  <2>1. g.trans[q][j] \in edges
    BY DEF Range
  <2>2. <<g.trans[q][j].next, g.trans[q][j].color>> \in S
    BY <1>8, <2>1
  <2> HIDE DEF S, T, Q, edges
  <2> QED BY <1>6, <1>7, <2>2
<1>9. \A q \in Q : \A j \in DOMAIN g.trans[q] :
          g.trans[q][j].color >= 0 =>
              \E k \in DOMAIN T : T[k] = <<g.trans[q][j].next, g.trans[q][j].color>>
  BY <1>8
<1> QED BY <1>7, <1>9

LEMMA GameEdge ==
    ASSUME NEW g, IsGame(g), NEW q \in DOMAIN g.player, NEW j \in DOMAIN g.trans[q]
    PROVE  g.trans[q][j] \in [guard : SUBSET Window, next : DOMAIN g.player,
                              color : -1 .. MaxColor]
<1> DEFINE E == [guard : SUBSET Window, next : DOMAIN g.player, color : -1 .. MaxColor]
<1>1. g.trans[q] \in Seq(E)
  BY DEF IsGame
<1> HIDE DEF E
<1>2. g.trans[q][j] \in E
  BY <1>1
<1> QED BY <1>2 DEF E

\* The edges of a state, the last one for the windows without a move.
Rest(g, q) == Window \ UNION {g.trans[q][j].guard : j \in DOMAIN g.trans[q]}

LEMMA StateEdges ==
    ASSUME NEW g, IsGame(g), NEW q \in DOMAIN g.player
    PROVE  LET E == StateVertex(g, q).edges
               m == Len(g.trans[q])
           IN /\ m \in Nat
              /\ DOMAIN g.trans[q] = 1 .. m
              /\ DOMAIN E = 1 .. m + 1
              /\ \A j \in 1 .. m : E[j].label = g.trans[q][j].guard
              /\ \A j \in 1 .. m : E[j].dst = Target(g, g.trans[q][j])
              /\ E[m + 1].label = Rest(g, q)
              /\ E[m + 1].dst \in {SysSink(g), EnvSink(g)}
              /\ g.player[q] = 0 => \A j \in 1 .. m + 1 : E[j].shift = FALSE
              /\ g.player[q] = 1 => \A j \in 1 .. m + 1 : E[j].shift = TRUE
<1> DEFINE m == Len(g.trans[q])
           E == StateVertex(g, q).edges
           edge(j) == To(g.trans[q][j].guard, Target(g, g.trans[q][j]), g.player[q] = 1)
           last == To(Rest(g, q), IF g.player[q] = 1 THEN EnvSink(g) ELSE SysSink(g),
                      g.player[q] = 1)
           edges == [j \in DOMAIN g.trans[q] |-> edge(j)]
<1>1. m \in Nat /\ DOMAIN g.trans[q] = 1 .. m
  BY DEF IsGame
<1>2. E = Append(edges, last)
  BY DEF StateVertex, Vertex, Rest
<1>3. /\ DOMAIN Append(edges, last) = 1 .. m + 1
      /\ \A j \in 1 .. m : Append(edges, last)[j] = edge(j)
      /\ Append(edges, last)[m + 1] = last
  <2>1. edges \in Seq({edge(j) : j \in 1 .. m} \cup {last}) /\ Len(edges) = m
    <3> HIDE DEF edge, last, m
    <3>1. edges \in [1 .. m -> {edge(j) : j \in 1 .. m} \cup {last}]
      BY <1>1
    <3> QED BY <1>1, <3>1
  <2> HIDE DEF edge, last, m
  <2> QED BY <1>1, <2>1
<1>4. \A j \in 1 .. m : /\ edge(j).label = g.trans[q][j].guard
                        /\ edge(j).dst = Target(g, g.trans[q][j])
  BY DEF To
<1>5. last.label = Rest(g, q) /\ last.dst \in {SysSink(g), EnvSink(g)}
  BY DEF To
<1>6. ASSUME g.player[q] = 0
      PROVE  last.shift = FALSE /\ \A j \in 1 .. m : edge(j).shift = FALSE
  <2>1. (g.player[q] = 1) = FALSE
    BY <1>6
  <2>2. \A label, dst : To(label, dst, FALSE).shift = FALSE
    BY DEF To
  <2>3. last = To(Rest(g, q), IF FALSE THEN EnvSink(g) ELSE SysSink(g), FALSE)
    BY <2>1, Zenon
  <2>4. \A j : edge(j) = To(g.trans[q][j].guard, Target(g, g.trans[q][j]), FALSE)
    BY <2>1, Zenon
  <2> HIDE DEF last, edge
  <2> QED BY <2>2, <2>3, <2>4
<1>7. ASSUME g.player[q] = 1
      PROVE  last.shift = TRUE /\ \A j \in 1 .. m : edge(j).shift = TRUE
  <2>1. (g.player[q] = 1) = TRUE
    BY <1>7
  <2>2. \A label, dst : To(label, dst, TRUE).shift = TRUE
    BY DEF To
  <2>3. last = To(Rest(g, q), IF TRUE THEN EnvSink(g) ELSE SysSink(g), TRUE)
    BY <2>1, Zenon
  <2>4. \A j : edge(j) = To(g.trans[q][j].guard, Target(g, g.trans[q][j]), TRUE)
    BY <2>1, Zenon
  <2> HIDE DEF last, edge
  <2> QED BY <2>2, <2>3, <2>4
<1> HIDE DEF m, edges, E, edge, last
<1>8. /\ DOMAIN E = 1 .. m + 1
      /\ \A j \in 1 .. m : E[j] = edge(j)
      /\ E[m + 1] = last
  BY <1>2, <1>3
<1>9. \A j \in 1 .. m + 1 : j \in 1 .. m \/ j = m + 1
  BY <1>1
<1>10. g.player[q] = 0 => \A j \in 1 .. m + 1 : E[j].shift = FALSE
  BY <1>6, <1>8, <1>9
<1>11. g.player[q] = 1 => \A j \in 1 .. m + 1 : E[j].shift = TRUE
  BY <1>7, <1>8, <1>9
<1> QED BY <1>1, <1>4, <1>5, <1>8, <1>10, <1>11 DEF m, E

LEMMA StateOwner ==
    ASSUME NEW g, NEW q
    PROVE  /\ StateVertex(g, q).owner = g.player[q]
           /\ StateVertex(g, q).priority = Prio(g, g.color[q])
           /\ StateVertex(g, q).picks = IF g.player[q] = 1 THEN "outputs" ELSE "inputs"
BY DEF StateVertex, Vertex

\* An edge leads to its state, or to the vertex of its coloured target.
LEMMA TargetIs ==
    ASSUME NEW g, IsGame(g), NEW q \in DOMAIN g.player, NEW j \in DOMAIN g.trans[q]
    PROVE  LET e == g.trans[q][j]
               T == ColoredTargets(g)
           IN \/ e.color < 0 /\ Target(g, e) = e.next
              \/ /\ e.color >= 0
                 /\ \E k \in DOMAIN T : Target(g, e) = EnvSink(g) + k /\ T[k] = <<e.next, e.color>>
<1> DEFINE e == g.trans[q][j]
           T == ColoredTargets(g)
<1>1. e \in [guard : SUBSET Window, next : DOMAIN g.player, color : -1 .. MaxColor]
  BY GameEdge
<1>2. CASE e.color < 0
  BY <1>2 DEF Target
<1>3. CASE ~(e.color < 0)
  <2>1. e.color >= 0
    BY <1>1, <1>3, ConstantsAssumption DEF ConstantsAssumption
  <2>2. \E k \in DOMAIN T : T[k] = <<e.next, e.color>>
    BY <2>1, TargetsNumbered
  <2> DEFINE k == CHOOSE i \in DOMAIN T : T[i] = <<e.next, e.color>>
  <2>3. k \in DOMAIN T /\ T[k] = <<e.next, e.color>>
    <3> HIDE DEF T, e
    <3> QED BY <2>2
  <2>4. Target(g, e) = EnvSink(g) + k
    BY <1>3 DEF Target
  <2> QED BY <2>1, <2>3, <2>4
<1> QED BY <1>2, <1>3

\* What stands where in the arena.
LEMMA ArenaShape ==
    ASSUME NEW g, IsGame(g)
    PROVE  LET n == Len(g.player)
               T == ColoredTargets(g)
               A == BuildArena(g)
           IN /\ n \in Nat \ {0}
              /\ Len(T) \in Nat
              /\ DOMAIN g.player = 1 .. n
              /\ DOMAIN T = 1 .. Len(T)
              /\ SysSink(g) = n + 1 /\ EnvSink(g) = n + 2
              /\ DOMAIN A = 1 .. n + 2 + Len(T)
              /\ \A x \in 1 .. n : A[x] = StateVertex(g, x)
              /\ A[n + 1] = Passed(1, n + 1)
              /\ A[n + 2] = Passed(0, n + 2)
              /\ \A k \in DOMAIN T : A[n + 2 + k] = Passed(Prio(g, T[k][2]), T[k][1])
<1> DEFINE n == Len(g.player)
           T == ColoredTargets(g)
           A == BuildArena(g)
<1>1. n \in Nat \ {0} /\ DOMAIN g.player = 1 .. n
  BY DEF IsGame
<1>2. Len(T) \in Nat /\ DOMAIN T = 1 .. Len(T)
  BY TargetsNumbered
<1>3. SysSink(g) = n + 1 /\ EnvSink(g) = n + 2
  BY DEF SysSink, EnvSink
<1>4. A = [x \in 1 .. n + 2 + Len(T) |->
              CASE x \in 1 .. n -> StateVertex(g, x)
                [] x = n + 1 -> Passed(1, x)
                [] x = n + 2 -> Passed(0, x)
                [] OTHER -> Passed(Prio(g, T[x - (n + 2)][2]), T[x - (n + 2)][1])]
  BY <1>1, <1>3 DEF BuildArena
<1> HIDE DEF n, T, A
<1>5. \A x \in 1 .. n : A[x] = StateVertex(g, x)
  BY <1>1, <1>2, <1>4
<1>6. A[n + 1] = Passed(1, n + 1)
  BY <1>1, <1>2, <1>4
<1>7. A[n + 2] = Passed(0, n + 2)
  BY <1>1, <1>2, <1>4
<1>8. \A k \in DOMAIN T : A[n + 2 + k] = Passed(Prio(g, T[k][2]), T[k][1])
  <2> TAKE k \in DOMAIN T
  <2> DEFINE x == n + 2 + k
  <2>1. x \in 1 .. n + 2 + Len(T) /\ x \notin 1 .. n /\ x # n + 1 /\ x # n + 2 /\ x - (n + 2) = k
    BY <1>1, <1>2
  <2> HIDE DEF x
  <2>2. A[x] = Passed(Prio(g, T[k][2]), T[k][1])
    BY <1>4, <2>1
  <2> QED BY <2>2 DEF x
<1>9. DOMAIN A = 1 .. n + 2 + Len(T)
  BY <1>4
<1> QED BY <1>1, <1>2, <1>3, <1>5, <1>6, <1>7, <1>8, <1>9 DEF n, T, A

\* The windows are all records of three values.
LEMMA WindowVaried ==
    ASSUME NEW w \in Window, NEW x \in Val
    PROVE  /\ w.i \in Val /\ w.o \in Val /\ w.o1 \in Val
           /\ [w EXCEPT !.o = x] \in Window
           /\ [w EXCEPT !.o = x].i = w.i /\ [w EXCEPT !.o = x].o = x /\ [w EXCEPT !.o = x].o1 = w.o1
           /\ w = [[w EXCEPT !.o = x] EXCEPT !.o = w.o]
           /\ [w EXCEPT !.i = x] \in Window
           /\ [w EXCEPT !.i = x].i = x /\ [w EXCEPT !.i = x].o = w.o /\ [w EXCEPT !.i = x].o1 = w.o1
           /\ w = [[w EXCEPT !.i = x] EXCEPT !.i = w.i]
<1>1. PICK a \in Val, b \in Val, c \in Val : w = [i |-> a, o |-> b, o1 |-> c]
  BY DEF Window
<1>2. [w EXCEPT !.o = x] = [i |-> a, o |-> x, o1 |-> c]
  BY <1>1
<1>3. [w EXCEPT !.i = x] = [i |-> x, o |-> b, o1 |-> c]
  BY <1>1
<1>4. [[w EXCEPT !.o = x] EXCEPT !.o = w.o] = w
  BY <1>1, <1>2
<1>5. [[w EXCEPT !.i = x] EXCEPT !.i = w.i] = w
  BY <1>1, <1>3
<1>w. ASSUME NEW d \in Val, NEW e \in Val, NEW f \in Val
      PROVE  [i |-> d, o |-> e, o1 |-> f] \in Window
  <2>1. ASSUME NEW r \in [i : Val, o : Val, o1 : Val]
        PROVE  r \in Window
    BY DEF Window
  <2>2. [i |-> d, o |-> e, o1 |-> f] \in [i : Val, o : Val, o1 : Val]
    OBVIOUS
  <2> QED BY <2>1, <2>2
<1>v. a \in Val /\ b \in Val /\ c \in Val
  BY <1>1
<1>6. [w EXCEPT !.o = x] \in Window
  BY <1>2, <1>v, <1>w
<1>7. [w EXCEPT !.i = x] \in Window
  BY <1>3, <1>v, <1>w
<1>8. w.i = a /\ w.o = b /\ w.o1 = c
  BY <1>1
<1>9. [w EXCEPT !.o = x].i = w.i /\ [w EXCEPT !.o = x].o = x /\ [w EXCEPT !.o = x].o1 = w.o1
  BY <1>2, <1>8
<1>10. [w EXCEPT !.i = x].i = x /\ [w EXCEPT !.i = x].o = w.o /\ [w EXCEPT !.i = x].o1 = w.o1
  BY <1>3, <1>8
<1>11. w.i \in Val /\ w.o \in Val /\ w.o1 \in Val
  BY <1>8
<1> QED BY <1>4, <1>5, <1>6, <1>7, <1>9, <1>10, <1>11

\* Where the edges of the arena lead.
LEMMA StateArena ==
    ASSUME NEW g, IsGame(g), NEW q \in DOMAIN g.player, arena = BuildArena(g)
    PROVE  /\ q \in V
           /\ Owner(q) = g.player[q] /\ Owner(q) \in {0, 1}
           /\ arena[q].priority \in 0 .. MaxColor + 2
           /\ Picks(q) = IF Owner(q) = 1 THEN "outputs" ELSE "inputs"
           /\ EdgesOK(q)
           /\ Owner(q) = 0 => EnvOK(q)
           /\ Readable(g) => \A j \in DOMAIN Edges(q) : Picks(Follow(Edges(q)[j].dst)) # Picks(q)
<1> DEFINE n == Len(g.player)
           T == ColoredTargets(g)
           m == Len(g.trans[q])
           E == StateVertex(g, q).edges
           rest == Rest(g, q)
<1>1. /\ arena[q] = StateVertex(g, q)
      /\ V = 1 .. n + 2 + Len(T) /\ n \in Nat \ {0} /\ Len(T) \in Nat
      /\ DOMAIN g.player = 1 .. n /\ DOMAIN T = 1 .. Len(T)
      /\ SysSink(g) = n + 1 /\ EnvSink(g) = n + 2
  BY ArenaShape DEF V
<1>2. /\ Owner(q) = g.player[q] /\ Owner(q) \in {0, 1}
      /\ Edges(q) = E
      /\ Picks(q) = IF Owner(q) = 1 THEN "outputs" ELSE "inputs"
      /\ arena[q].priority = Prio(g, g.color[q])
  <2>1. g.player[q] \in {0, 1}
    BY DEF IsGame
  <2> QED BY <1>1, <2>1, StateOwner DEF Owner, Edges, Picks
<1>3. /\ DOMAIN E = 1 .. m + 1 /\ m \in Nat /\ DOMAIN g.trans[q] = 1 .. m
      /\ \A j \in 1 .. m : E[j].label = g.trans[q][j].guard
      /\ \A j \in 1 .. m : E[j].dst = Target(g, g.trans[q][j])
      /\ E[m + 1].label = rest
      /\ E[m + 1].dst \in {n + 1, n + 2}
      /\ Owner(q) = 0 => \A j \in 1 .. m + 1 : E[j].shift = FALSE
      /\ Owner(q) = 1 => \A j \in 1 .. m + 1 : E[j].shift = TRUE
  <2>1. SysSink(g) = n + 1 /\ EnvSink(g) = n + 2 /\ Owner(q) = g.player[q]
    BY <1>1, <1>2
  <2>2. /\ m \in Nat
        /\ DOMAIN g.trans[q] = 1 .. m
        /\ DOMAIN E = 1 .. m + 1
        /\ \A j \in 1 .. m : E[j].label = g.trans[q][j].guard
        /\ \A j \in 1 .. m : E[j].dst = Target(g, g.trans[q][j])
        /\ E[m + 1].label = rest
        /\ E[m + 1].dst \in {SysSink(g), EnvSink(g)}
        /\ g.player[q] = 0 => \A j \in 1 .. m + 1 : E[j].shift = FALSE
        /\ g.player[q] = 1 => \A j \in 1 .. m + 1 : E[j].shift = TRUE
    BY StateEdges, Zenon
  <2> HIDE DEF n, m, E, rest
  <2> QED BY <2>1, <2>2
<1>4. \A j \in 1 .. m : g.trans[q][j] \in [guard : SUBSET Window, next : 1 .. n, color : -1 .. MaxColor]
  BY <1>1, <1>3, GameEdge
<1> HIDE DEF E, n, T, m, rest
<1>5. arena[q].priority \in 0 .. MaxColor + 2
  <2>1. g.color[q] \in -1 .. MaxColor
    BY DEF IsGame
  <2> QED BY <1>2, <2>1, ConstantsAssumption DEF Prio, ConstantsAssumption
<1>6. \A j \in 1 .. m : /\ Target(g, g.trans[q][j]) \in V
                        /\ \/ Target(g, g.trans[q][j]) = g.trans[q][j].next
                           \/ \E k \in DOMAIN T : /\ Target(g, g.trans[q][j]) = n + 2 + k
                                                  /\ T[k][1] = g.trans[q][j].next
  <2> TAKE j \in 1 .. m
  <2>1. \/ Target(g, g.trans[q][j]) = g.trans[q][j].next
        \/ \E k \in DOMAIN T : /\ Target(g, g.trans[q][j]) = n + 2 + k
                               /\ T[k] = <<g.trans[q][j].next, g.trans[q][j].color>>
    <3>1. j \in DOMAIN g.trans[q]
      BY <1>3
    <3>2. EnvSink(g) = n + 2
      BY <1>1
    <3>3. \/ Target(g, g.trans[q][j]) = g.trans[q][j].next
          \/ \E k \in DOMAIN T : /\ Target(g, g.trans[q][j]) = EnvSink(g) + k
                                 /\ T[k] = <<g.trans[q][j].next, g.trans[q][j].color>>
      BY <3>1, TargetIs DEF T
    <3> QED BY <3>2, <3>3
  <2>2. g.trans[q][j].next \in 1 .. n
    BY <1>4
  <2>3. CASE Target(g, g.trans[q][j]) = g.trans[q][j].next
    BY <1>1, <2>2, <2>3
  <2>4. CASE \E k \in DOMAIN T : /\ Target(g, g.trans[q][j]) = n + 2 + k
                                 /\ T[k] = <<g.trans[q][j].next, g.trans[q][j].color>>
    <3>1. PICK k \in DOMAIN T : /\ Target(g, g.trans[q][j]) = n + 2 + k
                                /\ T[k] = <<g.trans[q][j].next, g.trans[q][j].color>>
      BY <2>4
    <3>2. n + 2 + k \in V
      <4>1. k \in 1 .. Len(T)
        BY <1>1
      <4> HIDE DEF T, n
      <4>2. n + 2 + k \in 1 .. n + 2 + Len(T)
        BY <1>1, <4>1
      <4> QED BY <1>1, <4>2
    <3>3. T[k][1] = g.trans[q][j].next
      BY <3>1
    <3> QED BY <3>1, <3>2, <3>3
  <2> QED BY <2>1, <2>3, <2>4
<1>7. EdgesOK(q)
  <2>1. \E h \in Nat : DOMAIN Edges(q) = 1 .. h
    BY <1>2, <1>3
  <2>2. ASSUME NEW j \in DOMAIN Edges(q)
        PROVE  /\ Edges(q)[j].label \in SUBSET Window
               /\ Edges(q)[j].dst \in V
               /\ Owner(q) = 0 => Edges(q)[j].shift = FALSE
               /\ Owner(q) = 1 => Edges(q)[j].shift = TRUE
    <3>1. j \in 1 .. m + 1 /\ Edges(q)[j] = E[j]
      BY <1>2, <1>3
    <3>2. Edges(q)[j].label \in SUBSET Window /\ Edges(q)[j].dst \in V
      <4>1. CASE j \in 1 .. m
        BY <1>3, <1>4, <1>6, <3>1, <4>1
      <4>2. CASE j = m + 1
        <5>1. rest \in SUBSET Window
          BY DEF rest, Rest
        <5>2. n + 1 \in V /\ n + 2 \in V
          BY <1>1
        <5> QED BY <1>3, <3>1, <4>2, <5>1, <5>2
      <4> QED BY <1>3, <3>1, <4>1, <4>2
    <3>3. Owner(q) = 0 => Edges(q)[j].shift = FALSE
      BY <1>3, <3>1
    <3>4. Owner(q) = 1 => Edges(q)[j].shift = TRUE
      BY <1>3, <3>1
    <3> QED BY <3>2, <3>3, <3>4
  <2>3. ASSUME NEW w \in Window
        PROVE  \E j \in DOMAIN Edges(q) : w \in Edges(q)[j].label
    <3>1. CASE w \in rest
      BY <1>2, <1>3, <3>1
    <3>2. CASE w \notin rest
      <4>1. PICK j \in 1 .. m : w \in g.trans[q][j].guard
        BY <1>3, <3>2 DEF rest, Rest
      <4> QED BY <1>2, <1>3, <4>1
    <3> QED BY <3>1, <3>2
  <2> QED BY <2>1, <2>2, <2>3 DEF EdgesOK
<1>8. Owner(q) = 0 => EnvOK(q)
  <2> SUFFICES ASSUME Owner(q) = 0 PROVE EnvOK(q)
    OBVIOUS
  <2>1. \A j \in 1 .. m : OutFree(g.trans[q][j].guard)
    BY <1>2, <1>3 DEF IsGame, OutFree
  <2>2. OutFree(rest)
    <3> SUFFICES ASSUME NEW w \in rest, NEW x \in Val PROVE [w EXCEPT !.o = x] \in rest
      BY DEF OutFree
    <3> DEFINE u == [w EXCEPT !.o = x]
    <3>1. w \in Window /\ u \in Window /\ w = [u EXCEPT !.o = w.o] /\ w.o \in Val
      <4>1. w \in Window
        BY DEF rest, Rest
      <4> QED BY <4>1, WindowVaried
    <3>2. ASSUME NEW j \in 1 .. m, u \in g.trans[q][j].guard PROVE FALSE
      <4> HIDE DEF u
      <4>1. w \in g.trans[q][j].guard
        BY <2>1, <3>1, <3>2 DEF OutFree
      <4> QED BY <1>3, <4>1 DEF rest, Rest
    <3> HIDE DEF u
    <3>3. u \in rest
      BY <1>3, <3>1, <3>2 DEF rest, Rest
    <3> QED BY <3>3 DEF u
  <2>3. ASSUME NEW j \in DOMAIN Edges(q) PROVE OutFree(Edges(q)[j].label)
    <3>1. CASE j \in 1 .. m
      BY <1>2, <1>3, <2>1, <3>1
    <3>2. CASE j = m + 1
      BY <1>2, <1>3, <2>2, <3>2
    <3> QED BY <1>2, <1>3, <3>1, <3>2
  <2> QED BY <1>2, <2>3 DEF EnvOK
<1>9. ASSUME Readable(g), NEW j \in DOMAIN Edges(q)
      PROVE  Picks(Follow(Edges(q)[j].dst)) # Picks(q)
  <2>1. \A x \in 1 .. n : Picks(x) = IF g.player[x] = 1 THEN "outputs" ELSE "inputs"
    <3>1. \A x \in 1 .. n : arena[x] = StateVertex(g, x)
      BY ArenaShape DEF n
    <3> QED BY <3>1, StateOwner DEF Picks
  <2>2. \A x \in 1 .. n : Follow(x) = x
    BY <2>1 DEF Follow, Picks
  <2>3. CASE j \in 1 .. m
    <3> DEFINE next == g.trans[q][j].next
    <3>1. next \in 1 .. n /\ g.player[next] # g.player[q] /\ g.player[next] \in {0, 1}
      <4>1. next \in 1 .. n
        BY <1>4, <2>3
      <4>2. g.player[next] # g.player[q]
        BY <1>3, <1>9, <2>3 DEF Readable
      <4>3. next \in DOMAIN g.player
        BY <1>1, <4>1
      <4> HIDE DEF next
      <4>4. g.player[next] \in {0, 1}
        BY <4>3 DEF IsGame
      <4> QED BY <4>1, <4>2, <4>4
    <3>2. Edges(q)[j].dst = Target(g, g.trans[q][j])
      BY <1>2, <1>3, <2>3
    <3>3. Follow(Target(g, g.trans[q][j])) = next
      <4>1. CASE Target(g, g.trans[q][j]) = next
        BY <2>2, <3>1, <4>1
      <4>2. ASSUME NEW k \in DOMAIN T, Target(g, g.trans[q][j]) = n + 2 + k, T[k][1] = next
            PROVE  Follow(Target(g, g.trans[q][j])) = next
        <5>1. arena[n + 2 + k] = Passed(Prio(g, T[k][2]), T[k][1])
          BY ArenaShape DEF n, T
        <5> QED BY <4>2, <5>1 DEF Follow, Edges, Passed, Vertex, To
      <4> QED BY <1>6, <2>3, <4>1, <4>2
    <3>4. Picks(next) # Picks(q)
      BY <1>2, <2>1, <3>1
    <3> QED BY <3>2, <3>3, <3>4
  <2>4. CASE j = m + 1
    <3>1. arena[n + 1] = Passed(1, n + 1) /\ arena[n + 2] = Passed(0, n + 2)
      BY ArenaShape DEF n
    <3>2. /\ Follow(n + 1) = n + 1 /\ Picks(n + 1) = "none"
          /\ Follow(n + 2) = n + 2 /\ Picks(n + 2) = "none"
      BY <3>1 DEF Follow, Edges, Picks, Passed, Vertex, To
    <3>3. Edges(q)[j].dst \in {n + 1, n + 2}
      BY <1>2, <1>3, <2>4
    <3> QED BY <1>2, <3>2, <3>3
  <2> QED BY <1>2, <1>3, <2>3, <2>4
<1>10. q \in V
  BY <1>1
<1> QED BY <1>2, <1>5, <1>7, <1>8, <1>9, <1>10

\* The sinks and the coloured targets pass every window on.
LEMMA PassedArena ==
    ASSUME NEW i \in V, NEW priority \in 0 .. MaxColor + 2, NEW dst \in V,
           arena[i] = Passed(priority, dst), dst = i \/ Picks(dst) # "none"
    PROVE  /\ Owner(i) = 0 /\ Picks(i) = "none"
           /\ arena[i].priority \in 0 .. MaxColor + 2
           /\ EdgesOK(i)
           /\ EnvOK(i)
           /\ PassedOK(i)
<1>1. Owner(i) = 0 /\ Picks(i) = "none" /\ arena[i].priority = priority
  BY DEF Owner, Picks, Passed, Vertex
<1>2. /\ DOMAIN Edges(i) = {1} /\ Edges(i)[1].label = Window
      /\ Edges(i)[1].dst = dst /\ Edges(i)[1].shift = FALSE
  BY DEF Edges, Passed, Vertex, To
<1>3. OutFree(Window)
  BY DEF OutFree, Window
<1>4. EdgesOK(i)
  <2>1. {1} = 1 .. 1
    OBVIOUS
  <2> QED BY <1>1, <1>2, <2>1 DEF EdgesOK
<1>5. EnvOK(i)
  BY <1>1, <1>2, <1>3 DEF EnvOK
<1>6. PassedOK(i)
  BY <1>2 DEF PassedOK
<1> QED BY <1>1, <1>4, <1>5, <1>6

(* The arena that build_data_arena builds of a game.                        *)
LEMMA ArenaBuilt ==
    ASSUME game \in Games, arena = BuildArena(game)
    PROVE  ArenaOK /\ (Readable(game) => TurnsOK)
<1> DEFINE g == game
           n == Len(g.player)
           T == ColoredTargets(g)
<1>1. IsGame(g)
  BY GamesAssumption
<1> HIDE DEF g
<1>2. /\ V = 1 .. n + 2 + Len(T) /\ n \in Nat \ {0} /\ Len(T) \in Nat
      /\ DOMAIN g.player = 1 .. n /\ DOMAIN T = 1 .. Len(T)
      /\ SysSink(g) = n + 1 /\ EnvSink(g) = n + 2
  BY <1>1, ArenaShape DEF V, g
<1>3. /\ arena[n + 1] = Passed(1, n + 1)
      /\ arena[n + 2] = Passed(0, n + 2)
      /\ \A k \in DOMAIN T : arena[n + 2 + k] = Passed(Prio(g, T[k][2]), T[k][1])
  BY <1>1, ArenaShape DEF g
<1>4. \A k \in DOMAIN T : T[k][1] \in 1 .. n /\ T[k][2] \in 0 .. MaxColor
  <2> DEFINE S == (DOMAIN g.player) \X (0 .. MaxColor)
  <2>1. T \in Seq(S)
    BY <1>1, TargetsNumbered
  <2> HIDE DEF T, S
  <2>2. \A k \in DOMAIN T : T[k] \in S
    BY <2>1
  <2> QED BY <1>2, <2>2 DEF S
<1> HIDE DEF n, T
<1>5. \A x \in 1 .. n :
          /\ Owner(x) \in {0, 1}
          /\ arena[x].priority \in 0 .. MaxColor + 2
          /\ Picks(x) = IF Owner(x) = 1 THEN "outputs" ELSE "inputs"
          /\ EdgesOK(x)
          /\ Owner(x) = 0 => EnvOK(x)
          /\ Readable(g) => \A j \in DOMAIN Edges(x) : Picks(Follow(Edges(x)[j].dst)) # Picks(x)
  BY <1>1, <1>2, StateArena DEF g
<1>6. \A i \in V \ (1 .. n) :
          /\ Owner(i) = 0 /\ Picks(i) = "none"
          /\ arena[i].priority \in 0 .. MaxColor + 2
          /\ EdgesOK(i)
          /\ EnvOK(i)
          /\ PassedOK(i)
  <2> TAKE i \in V \ (1 .. n)
  <2>1. CASE i = n + 1
    BY <1>2, <1>3, <2>1, PassedArena, ConstantsAssumption DEF ConstantsAssumption
  <2>2. CASE i = n + 2
    BY <1>2, <1>3, <2>2, PassedArena, ConstantsAssumption DEF ConstantsAssumption
  <2>3. CASE i # n + 1 /\ i # n + 2
    <3>1. PICK k \in DOMAIN T : i = n + 2 + k
      <4>1. i - (n + 2) \in 1 .. Len(T) /\ i = n + 2 + (i - (n + 2))
        BY <1>2, <2>3
      <4>2. i - (n + 2) \in DOMAIN T
        BY <1>2, <4>1
      <4> QED BY <4>1, <4>2
    <3>2. T[k][1] \in V /\ Picks(T[k][1]) # "none"
      BY <1>2, <1>4, <1>5
    <3>3. Prio(g, T[k][2]) \in 0 .. MaxColor + 2
      BY <1>4, ConstantsAssumption DEF Prio, ConstantsAssumption
    <3> QED BY <1>3, <3>1, <3>2, <3>3, PassedArena
  <2> QED BY <2>1, <2>2, <2>3
<1>7. g.init \in 1 .. n
  BY <1>1, <1>2 DEF IsGame
<1>8. \A i \in V : ColorAt(i) \in -1 .. MaxColor + 1
  <2> TAKE i \in V
  <2>1. CASE i \in 1 .. n
    <3>1. ColorAt(i) = g.color[i]
      BY <1>2, <2>1 DEF ColorAt, g, n
    <3>2. g.color[i] \in -1 .. MaxColor
      BY <1>1, <1>2, <2>1 DEF IsGame
    <3> QED BY <3>1, <3>2, ConstantsAssumption DEF ConstantsAssumption
  <2>2. CASE i = n + 1 \/ i = n + 2
    <3>1. ColorAt(i) \in {0, 1}
      BY <1>2, <2>2 DEF ColorAt, g, n
    <3> QED BY <3>1, ConstantsAssumption DEF ConstantsAssumption
  <2>3. CASE i - (n + 2) \in DOMAIN T
    <3>1. ColorAt(i) = T[i - (n + 2)][2]
      BY <1>2, <2>3 DEF ColorAt, g, n, T
    <3> QED BY <1>4, <2>3, <3>1, ConstantsAssumption DEF ConstantsAssumption
  <2> QED BY <1>2, <2>1, <2>2, <2>3
<1>9. ArenaOK
  BY <1>2, <1>5, <1>6, <1>7, <1>8 DEF ArenaOK, g
<1>10. Readable(g) => TurnsOK
  <2> SUFFICES ASSUME Readable(g) PROVE TurnsOK
    OBVIOUS
  <2>1. Picks(g.init) = "inputs"
    <3>1. Owner(g.init) = 0
      BY <1>1, <1>7, <1>2, StateArena DEF Readable, g
    <3> QED BY <1>5, <1>7, <3>1
  <2> QED BY <1>2, <1>5, <1>6, <2>1 DEF TurnsOK, g
<1> QED BY <1>9, <1>10 DEF g

-----------------------------------------------------------------------------
(* Moves and predecessors.                                                  *)

LEMMA ArenaAt ==
    ASSUME ArenaOK, NEW i \in V
    PROVE  /\ Owner(i) \in {0, 1}
           /\ EdgesOK(i)
           /\ Owner(i) = 0 => EnvOK(i)
           /\ Owner(i) = 1 => Picks(i) = "outputs"
           /\ Picks(i) = "outputs" => Owner(i) = 1
           /\ Picks(i) = "none" => PassedOK(i)
<1>1. Owner(i) = 0 => Picks(i) # "outputs"
  BY DEF ArenaOK, EnvOK
<1> QED BY <1>1 DEF ArenaOK

LEMMA EdgeAt ==
    ASSUME ArenaOK, NEW i \in V, NEW j \in DOMAIN Edges(i)
    PROVE  /\ Edges(i)[j].label \in SUBSET Window
           /\ Edges(i)[j].dst \in V
           /\ Owner(i) = 0 => Edges(i)[j].shift = FALSE
           /\ Owner(i) = 1 => Edges(i)[j].shift = TRUE
           /\ Owner(i) = 0 => OutFree(Edges(i)[j].label)
<1>1. EdgesOK(i) /\ (Owner(i) = 0 => EnvOK(i))
  BY ArenaAt
<1>2. Owner(i) = 0 => OutFree(Edges(i)[j].label)
  BY <1>1 DEF EnvOK
<1> QED BY <1>1, <1>2 DEF EdgesOK

\* A move of the environment stays in its window; one of the system is into
\* the regions whose value one step back is the output.
LEMMA MoveIs ==
    ASSUME ArenaOK, NEW i \in V, NEW j \in DOMAIN Edges(i), NEW Y
    PROVE  /\ Owner(i) = 0 => Move(i, j, Y) = Edges(i)[j].label \intersect Y[Edges(i)[j].dst]
           /\ Owner(i) = 1 => \A w : w \in Move(i, j, Y) <=>
                  /\ w \in Edges(i)[j].label
                  /\ \E z \in Y[Edges(i)[j].dst] : z.o1 = w.o
<1> DEFINE e == Edges(i)[j]
           R == Y[Edges(i)[j].dst]
<1>1. /\ e.label \in SUBSET Window
      /\ Owner(i) = 0 => e.shift = FALSE
      /\ Owner(i) = 1 => e.shift = TRUE
  BY EdgeAt
<1>2. Move(i, j, Y) = e.label \intersect Across(e, R)
  BY DEF Move
<1> HIDE DEF e, R
<1>3. e.shift = FALSE => Across(e, R) = R
  BY DEF Across
<1>4. e.shift = TRUE => Across(e, R) = {w \in Window : w.o \in {x.o1 : x \in R}}
  BY DEF Across
<1>5. ASSUME Owner(i) = 1, NEW w
      PROVE  w \in Move(i, j, Y) <=> w \in e.label /\ \E z \in R : z.o1 = w.o
  <2>1. w \in Move(i, j, Y) <=> w \in e.label /\ w \in Window /\ w.o \in {x.o1 : x \in R}
    BY <1>1, <1>2, <1>4, <1>5
  <2>2. w.o \in {x.o1 : x \in R} <=> \E z \in R : z.o1 = w.o
    OBVIOUS
  <2> QED BY <1>1, <2>1, <2>2
<1> QED BY <1>1, <1>2, <1>3, <1>5 DEF e, R

\* A larger region at the end of an edge is reached by more windows.
LEMMA MoveGrows ==
    ASSUME ArenaOK, NEW i \in V, NEW j \in DOMAIN Edges(i), NEW Y, NEW Z,
           Y[Edges(i)[j].dst] \subseteq Z[Edges(i)[j].dst]
    PROVE  Move(i, j, Y) \subseteq Move(i, j, Z)
<1>1. Owner(i) \in {0, 1}
  BY ArenaAt
<1>2. CASE Owner(i) = 0
  BY <1>2, MoveIs
<1>3. CASE Owner(i) = 1
  BY <1>3, MoveIs
<1> QED BY <1>1, <1>2, <1>3

LEMMA GrowsWithin ==
    ASSUME ArenaOK, NEW i \in V, NEW j \in DOMAIN Edges(i), NEW Y, NEW Z, Within(Y, Z)
    PROVE  Move(i, j, Y) \subseteq Move(i, j, Z)
<1>1. Edges(i)[j].dst \in V
  BY EdgeAt
<1> QED BY <1>1, MoveGrows DEF Within

\* A move of the system leads into Y or into what is left of G.
LEMMA MoveSplits ==
    ASSUME ArenaOK, NEW i \in V, Owner(i) = 1, NEW j \in DOMAIN Edges(i), NEW Y, NEW G,
           NEW w \in Move(i, j, G), w \notin Move(i, j, Y)
    PROVE  w \in Move(i, j, Without(G, Y))
<1> DEFINE d == Edges(i)[j].dst
<1>1. d \in V
  BY EdgeAt
<1>2. PICK z \in G[d] : z.o1 = w.o
  BY MoveIs
<1>3. w \in Edges(i)[j].label
  BY MoveIs
<1>4. z \notin Y[d]
  BY <1>2, <1>3, MoveIs
<1>5. z \in Without(G, Y)[d]
  BY <1>1, <1>2, <1>4 DEF Without
<1> QED BY <1>2, <1>3, <1>5, MoveIs

\* The predecessor, for the player who moves and for the other one.
LEMMA PreMine ==
    ASSUME NEW p, NEW i, NEW Y, NEW G, Owner(i) = p, NEW w
    PROVE  w \in Pre(p, i, Y, G) <=>
               /\ w \in Window
               /\ \E u \in Variants(i, w), j \in DOMAIN Edges(i) : u \in Move(i, j, Y)
<1> DEFINE body == UNION {Move(i, j, Y) : j \in DOMAIN Edges(i)}
<1>1. Pre(p, i, Y, G) = Chosen(i, TRUE, body)
  <2>1. (Owner(i) = p) = TRUE
    OBVIOUS
  <2> QED BY <2>1 DEF Pre
<1> HIDE DEF body
<1>2. Pre(p, i, Y, G) = {u \in Window : Variants(i, u) \intersect body # {}}
  BY <1>1 DEF Chosen
<1>3. \A u : u \in body <=> \E j \in DOMAIN Edges(i) : u \in Move(i, j, Y)
  BY DEF body
<1> QED BY <1>2, <1>3

\* Whatever the other player picks, its edges lead into Y or out of the subgame.
LEMMA PreTheirs ==
    ASSUME NEW p, NEW i, NEW Y, NEW G, Owner(i) # p, NEW w
    PROVE  w \in Pre(p, i, Y, G) <=>
               /\ w \in Window
               /\ \A u \in Variants(i, w) :
                      /\ u \in Window
                      /\ \A j \in DOMAIN Edges(i) : u \in Edges(i)[j].label =>
                             u \in Across(Edges(i)[j], Y[Edges(i)[j].dst]
                                                          \cup (Window \ G[Edges(i)[j].dst]))
<1> DEFINE Across1(j) == Across(Edges(i)[j], Y[Edges(i)[j].dst] \cup (Window \ G[Edges(i)[j].dst]))
           body == Window \ UNION {Edges(i)[j].label \ Across1(j) : j \in DOMAIN Edges(i)}
<1>1. Pre(p, i, Y, G) = Chosen(i, FALSE, body)
  <2>1. (Owner(i) = p) = FALSE
    OBVIOUS
  <2> QED BY <2>1 DEF Pre
<1> HIDE DEF Across1
<1>2. \A u : u \in body <=>
          /\ u \in Window
          /\ \A j \in DOMAIN Edges(i) : u \in Edges(i)[j].label => u \in Across1(j)
  OBVIOUS
<1> HIDE DEF body
<1>3. Pre(p, i, Y, G) = {u \in Window : Variants(i, u) \subseteq body}
  BY <1>1 DEF Chosen
<1> QED BY <1>2, <1>3 DEF Across1

-----------------------------------------------------------------------------
(* Windows that differ in what is picked.                                   *)

LEMMA OutAlike ==
    ASSUME NEW S, OutFree(S), NEW w \in Window, NEW x \in Val
    PROVE  w \in S <=> [w EXCEPT !.o = x] \in S
<1> DEFINE u == [w EXCEPT !.o = x]
<1>1. w = [u EXCEPT !.o = w.o] /\ w.o \in Val
  BY WindowVaried
<1>2. w \in S => u \in S
  BY DEF OutFree
<1> HIDE DEF u
<1>3. u \in S => w \in S
  BY <1>1 DEF OutFree
<1> QED BY <1>2, <1>3 DEF u

LEMMA InAlike ==
    ASSUME NEW S, InFree(S), NEW w \in Window, NEW x \in Val
    PROVE  w \in S <=> [w EXCEPT !.i = x] \in S
<1> DEFINE u == [w EXCEPT !.i = x]
<1>1. w = [u EXCEPT !.i = w.i] /\ w.i \in Val
  BY WindowVaried
<1>2. w \in S => u \in S
  BY DEF InFree
<1> HIDE DEF u
<1>3. u \in S => w \in S
  BY <1>1 DEF InFree
<1> QED BY <1>2, <1>3 DEF u

LEMMA VariantsIs ==
    ASSUME NEW i, NEW w
    PROVE  /\ Picks(i) = "inputs" => Variants(i, w) = {[w EXCEPT !.i = v] : v \in Val}
           /\ Picks(i) = "outputs" => Variants(i, w) = {[w EXCEPT !.o = v] : v \in Val}
           /\ Picks(i) = "none" => Variants(i, w) = {w}
BY DEF Variants, Picks

LEMMA PicksAt ==
    ASSUME ArenaOK, NEW i \in V
    PROVE  Picks(i) \in {"inputs", "outputs", "none"}
<1>1. /\ Owner(i) \in {0, 1}
      /\ Owner(i) = 0 => EnvOK(i)
      /\ Owner(i) = 1 => Picks(i) = "outputs"
  BY ArenaAt
<1> QED BY <1>1 DEF EnvOK

\* Picking is an equivalence of windows.
LEMMA VariantsSame ==
    ASSUME ArenaOK, NEW i \in V, NEW w \in Window
    PROVE  /\ w \in Variants(i, w)
           /\ \A u \in Variants(i, w) : u \in Window /\ Variants(i, u) = Variants(i, w)
<1>1. PICK a \in Val, b \in Val, c \in Val : w = [i |-> a, o |-> b, o1 |-> c]
  BY DEF Window
<1>2. CASE Picks(i) = "inputs"
  <2>1. Variants(i, w) = {[i |-> v, o |-> b, o1 |-> c] : v \in Val}
    BY <1>1, <1>2, VariantsIs
  <2>2. ASSUME NEW u \in Variants(i, w)
        PROVE  u \in Window /\ Variants(i, u) = {[i |-> v, o |-> b, o1 |-> c] : v \in Val}
    <3>1. PICK x \in Val : u = [i |-> x, o |-> b, o1 |-> c]
      BY <2>1
    <3> QED BY <1>2, <3>1, VariantsIs DEF Window
  <2> QED BY <1>1, <2>1, <2>2
<1>3. CASE Picks(i) = "outputs"
  <2>1. Variants(i, w) = {[i |-> a, o |-> v, o1 |-> c] : v \in Val}
    BY <1>1, <1>3, VariantsIs
  <2>2. ASSUME NEW u \in Variants(i, w)
        PROVE  u \in Window /\ Variants(i, u) = {[i |-> a, o |-> v, o1 |-> c] : v \in Val}
    <3>1. PICK x \in Val : u = [i |-> a, o |-> x, o1 |-> c]
      BY <2>1
    <3> QED BY <1>3, <3>1, VariantsIs DEF Window
  <2> QED BY <1>1, <2>1, <2>2
<1>4. CASE Picks(i) = "none"
  BY <1>4, VariantsIs
<1> QED BY <1>2, <1>3, <1>4, PicksAt

\* A region without dependence on what is picked holds all variants or none.
LEMMA FreeVariants ==
    ASSUME ArenaOK, NEW R, Free(R), NEW i \in V, NEW w \in Window, NEW u \in Variants(i, w)
    PROVE  w \in R[i] <=> u \in R[i]
<1>1. OutFree(R[i]) /\ (Picks(i) = "inputs" => InFree(R[i]))
  BY DEF Free
<1>2. CASE Picks(i) = "inputs"
  BY <1>1, <1>2, VariantsIs, InAlike
<1>3. CASE Picks(i) = "outputs"
  BY <1>1, <1>3, VariantsIs, OutAlike
<1>4. CASE Picks(i) = "none"
  BY <1>4, VariantsIs
<1> QED BY <1>2, <1>3, <1>4, PicksAt

\* A region is free if it is so for both the picks.
LEMMA FreeWhen ==
    ASSUME ArenaOK, NEW i \in V, NEW S, S \subseteq Window,
           \A w \in S : Variants(i, w) \subseteq S,
           Owner(i) = 0 => OutFree(S)
    PROVE  OutFree(S) /\ (Picks(i) = "inputs" => InFree(S))
<1>1. ASSUME Owner(i) = 1 PROVE OutFree(S)
  <2>1. Picks(i) = "outputs"
    BY <1>1, ArenaAt
  <2>2. \A w \in S : {[w EXCEPT !.o = v] : v \in Val} \subseteq S
    BY <2>1, VariantsIs
  <2> QED BY <2>2 DEF OutFree
<1>2. ASSUME Picks(i) = "inputs" PROVE InFree(S)
  <2>1. \A w \in S : {[w EXCEPT !.i = v] : v \in Val} \subseteq S
    BY <1>2, VariantsIs
  <2> QED BY <2>1 DEF InFree
<1>3. Owner(i) \in {0, 1}
  BY ArenaAt
<1> QED BY <1>1, <1>2, <1>3

LEMMA PreVariants ==
    ASSUME ArenaOK, NEW p, NEW i \in V, NEW Y, NEW G,
           NEW w \in Pre(p, i, Y, G), NEW u \in Variants(i, w)
    PROVE  u \in Pre(p, i, Y, G)
<1>1. w \in Window
  BY PreMine, PreTheirs
<1>2. u \in Window /\ Variants(i, u) = Variants(i, w)
  BY <1>1, VariantsSame
<1>3. CASE Owner(i) = p
  BY <1>2, <1>3, PreMine
<1>4. CASE Owner(i) # p
  BY <1>2, <1>4, PreTheirs
<1> QED BY <1>3, <1>4

\* At the environment's vertices the output does not matter.
LEMMA VariantsOut ==
    ASSUME ArenaOK, NEW i \in V, Owner(i) = 0, NEW w \in Window, NEW x \in Val
    PROVE  /\ \A u \in Variants(i, w) : [u EXCEPT !.o = x] \in Variants(i, [w EXCEPT !.o = x])
           /\ \A u \in Variants(i, [w EXCEPT !.o = x]) :
                  \E z \in Variants(i, w) : u = [z EXCEPT !.o = x]
<1>1. Picks(i) \in {"inputs", "none"}
  BY ArenaAt DEF EnvOK
<1>2. PICK a \in Val, b \in Val, c \in Val : w = [i |-> a, o |-> b, o1 |-> c]
  BY DEF Window
<1>3. [w EXCEPT !.o = x] = [i |-> a, o |-> x, o1 |-> c]
  BY <1>2
<1>4. CASE Picks(i) = "inputs"
  <2>1. Variants(i, w) = {[i |-> v, o |-> b, o1 |-> c] : v \in Val}
    BY <1>2, <1>4, VariantsIs
  <2>2. Variants(i, [w EXCEPT !.o = x]) = {[i |-> v, o |-> x, o1 |-> c] : v \in Val}
    BY <1>3, <1>4, VariantsIs
  <2>3. \A v \in Val : [[i |-> v, o |-> b, o1 |-> c] EXCEPT !.o = x] = [i |-> v, o |-> x, o1 |-> c]
    OBVIOUS
  <2>4. ASSUME NEW u \in Variants(i, w)
        PROVE  [u EXCEPT !.o = x] \in Variants(i, [w EXCEPT !.o = x])
    <3>1. PICK v \in Val : u = [i |-> v, o |-> b, o1 |-> c]
      BY <2>1
    <3>2. [u EXCEPT !.o = x] = [i |-> v, o |-> x, o1 |-> c]
      BY <2>3, <3>1
    <3> QED BY <2>2, <3>2
  <2>5. ASSUME NEW u \in Variants(i, [w EXCEPT !.o = x])
        PROVE  \E z \in Variants(i, w) : u = [z EXCEPT !.o = x]
    <3>1. PICK v \in Val : u = [i |-> v, o |-> x, o1 |-> c]
      BY <2>2
    <3>2. u = [[i |-> v, o |-> b, o1 |-> c] EXCEPT !.o = x]
      BY <2>3, <3>1
    <3>3. [i |-> v, o |-> b, o1 |-> c] \in Variants(i, w)
      BY <2>1
    <3> QED BY <3>2, <3>3
  <2> QED BY <2>4, <2>5
<1>5. CASE Picks(i) = "none"
  BY <1>5, VariantsIs
<1> QED BY <1>1, <1>4, <1>5

\* The controllable predecessor depends on nothing that is picked at its vertex.
LEMMA PreFree ==
    ASSUME ArenaOK, NEW p \in {0, 1}, NEW i \in V, NEW Y \in Regions, NEW G \in Regions,
           Free(Y), Free(G)
    PROVE  /\ OutFree(Pre(p, i, Y, G))
           /\ Picks(i) = "inputs" => InFree(Pre(p, i, Y, G))
<1> DEFINE P == Pre(p, i, Y, G)
<1>1. P \subseteq Window
  BY PreMine, PreTheirs
<1>2. \A w \in P : Variants(i, w) \subseteq P
  BY PreVariants
<1>3. ASSUME Owner(i) = 0, NEW w \in P, NEW x \in Val
      PROVE  [w EXCEPT !.o = x] \in P
  <2>1. w \in Window /\ [w EXCEPT !.o = x] \in Window
    BY <1>1, WindowVaried
  <2>2. \A z \in Variants(i, w) : z \in Window /\ [z EXCEPT !.o = x] \in Window
    BY <2>1, VariantsSame, WindowVaried
  <2>3. \A j \in DOMAIN Edges(i) : /\ Edges(i)[j].dst \in V
                                   /\ OutFree(Edges(i)[j].label)
                                   /\ OutFree(Y[Edges(i)[j].dst])
                                   /\ OutFree(G[Edges(i)[j].dst])
    BY <1>3, EdgeAt DEF Free
  <2>4. CASE p = 0
    <3>1. PICK z \in Variants(i, w), j \in DOMAIN Edges(i) : z \in Move(i, j, Y)
      BY <1>3, <2>4, PreMine
    <3>2. z \in Edges(i)[j].label /\ z \in Y[Edges(i)[j].dst]
      BY <1>3, <3>1, MoveIs
    <3>3. [z EXCEPT !.o = x] \in Edges(i)[j].label /\ [z EXCEPT !.o = x] \in Y[Edges(i)[j].dst]
      BY <2>3, <3>2 DEF OutFree
    <3>4. [z EXCEPT !.o = x] \in Move(i, j, Y)
      BY <1>3, <3>3, MoveIs
    <3>5. [z EXCEPT !.o = x] \in Variants(i, [w EXCEPT !.o = x])
      BY <1>3, <2>1, VariantsOut
    <3> QED BY <1>3, <2>1, <2>4, <3>4, <3>5, PreMine
  <2>5. CASE p = 1
    <3> SUFFICES ASSUME NEW u \in Variants(i, [w EXCEPT !.o = x])
                 PROVE  /\ u \in Window
                        /\ \A j \in DOMAIN Edges(i) : u \in Edges(i)[j].label =>
                               u \in Across(Edges(i)[j], Y[Edges(i)[j].dst]
                                                            \cup (Window \ G[Edges(i)[j].dst]))
      BY <1>3, <2>1, <2>5, PreTheirs
    <3>1. PICK z \in Variants(i, w) : u = [z EXCEPT !.o = x]
      BY <1>3, <2>1, VariantsOut
    <3>2. z \in Window /\ u \in Window
      BY <2>2, <3>1
    <3>3. ASSUME NEW j \in DOMAIN Edges(i), u \in Edges(i)[j].label
          PROVE  u \in Across(Edges(i)[j], Y[Edges(i)[j].dst] \cup (Window \ G[Edges(i)[j].dst]))
      <4>1. z \in Edges(i)[j].label
        BY <2>3, <3>1, <3>2, <3>3, OutAlike
      <4>2. z \in Across(Edges(i)[j], Y[Edges(i)[j].dst] \cup (Window \ G[Edges(i)[j].dst]))
        BY <1>3, <2>5, <4>1, PreTheirs
      <4>3. Edges(i)[j].shift = FALSE
        BY <1>3, EdgeAt
      <4>4. z \in Y[Edges(i)[j].dst] \/ z \notin G[Edges(i)[j].dst]
        BY <4>2, <4>3 DEF Across
      <4>5. u \in Y[Edges(i)[j].dst] \/ u \notin G[Edges(i)[j].dst]
        BY <2>3, <3>1, <3>2, <4>4, OutAlike
      <4> QED BY <3>2, <4>3, <4>5 DEF Across
    <3> QED BY <3>2, <3>3
  <2> QED BY <2>4, <2>5
<1>4. Owner(i) = 0 => OutFree(P)
  BY <1>3 DEF OutFree
<1> HIDE DEF P
<1>5. OutFree(P) /\ (Picks(i) = "inputs" => InFree(P))
  BY <1>1, <1>2, <1>4, FreeWhen
<1> QED BY <1>5 DEF P

-----------------------------------------------------------------------------
(* Subgames.                                                                *)

LEMMA WithoutIs ==
    ASSUME NEW X \in Regions, NEW Y \in Regions
    PROVE  /\ Without(X, Y) \in Regions
           /\ Joined(X, Y) \in Regions
           /\ \A i \in V : /\ Without(X, Y)[i] = X[i] \ Y[i]
                           /\ Joined(X, Y)[i] = X[i] \cup Y[i]
<1>1. \A i \in V : X[i] \in SUBSET Window /\ Y[i] \in SUBSET Window
  BY DEF Regions
<1> QED BY <1>1 DEF Without, Joined, Regions

LEMMA FreeWithout ==
    ASSUME ArenaOK, NEW X \in Regions, NEW Y \in Regions, Free(X), Free(Y)
    PROVE  Free(Without(X, Y)) /\ Free(Joined(X, Y))
<1>1. ASSUME NEW i \in V
      PROVE  /\ OutFree(X[i] \ Y[i]) /\ (Picks(i) = "inputs" => InFree(X[i] \ Y[i]))
             /\ OutFree(X[i] \cup Y[i]) /\ (Picks(i) = "inputs" => InFree(X[i] \cup Y[i]))
  <2>1. X[i] \subseteq Window /\ Y[i] \subseteq Window
    BY DEF Regions
  <2>2. \A w \in Window, x \in Val : /\ w \in X[i] <=> [w EXCEPT !.o = x] \in X[i]
                                     /\ w \in Y[i] <=> [w EXCEPT !.o = x] \in Y[i]
    BY OutAlike DEF Free
  <2>3. Picks(i) = "inputs" =>
            \A w \in Window, x \in Val : /\ w \in X[i] <=> [w EXCEPT !.i = x] \in X[i]
                                         /\ w \in Y[i] <=> [w EXCEPT !.i = x] \in Y[i]
    BY InAlike DEF Free
  <2> QED BY <2>1, <2>2, <2>3 DEF OutFree, InFree
<1>2. \A i \in V : Without(X, Y)[i] = X[i] \ Y[i] /\ Joined(X, Y)[i] = X[i] \cup Y[i]
  BY WithoutIs
<1> QED BY <1>1, <1>2 DEF Free

\* The whole game is a subgame: every window has an edge of the arena.
LEMMA AllSubgame ==
    ASSUME ArenaOK
    PROVE  All \in Regions /\ Subgame(All)
<1>1. All \in Regions /\ \A i \in V : All[i] = Window
  BY DEF All, Regions
<1>2. OutFree(Window) /\ InFree(Window)
  BY WindowVaried DEF OutFree, InFree
<1>3. Free(All)
  BY <1>1, <1>2 DEF Free
<1>4. ASSUME NEW k \in V, Owner(k) = 1, NEW w \in Window
      PROVE  \E j \in DOMAIN Edges(k), x \in Val : [w EXCEPT !.o = x] \in Move(k, j, All)
  <2>1. PICK j \in DOMAIN Edges(k) : w \in Edges(k)[j].label
    BY <1>4, ArenaAt DEF EdgesOK
  <2>2. Edges(k)[j].dst \in V
    BY EdgeAt
  <2>3. PICK a \in Val, b \in Val, c \in Val : w = [i |-> a, o |-> b, o1 |-> c]
    BY DEF Window
  <2>4. [w EXCEPT !.o = b] = w
    BY <2>3
  <2>5. \E z \in Window : z.o1 = w.o
    <3>1. [i |-> a, o |-> b, o1 |-> b] \in Window
      BY DEF Window
    <3> QED BY <2>3, <3>1
  <2>6. w \in Move(k, j, All)
    BY <1>1, <1>4, <2>1, <2>2, <2>5, MoveIs
  <2> QED BY <2>4, <2>6
<1>5. NoDead(All)
  BY <1>1, <1>4 DEF NoDead
<1> QED BY <1>1, <1>3, <1>5 DEF Subgame

\* An attractor that takes in what can be forced into it.
Complete(p, Y, G) == \A k \in V : G[k] \intersect Pre(p, k, Y, G) \subseteq Y[k]

\* What an attractor leaves of a subgame is a subgame.
LEMMA SubgameLeft ==
    ASSUME ArenaOK, NEW p \in {0, 1}, NEW Y \in Regions, NEW G \in Regions,
           Free(Y), Subgame(G), Complete(p, Y, G)
    PROVE  Subgame(Without(G, Y))
<1> DEFINE R == Without(G, Y)
<1>1. Free(R)
  BY FreeWithout DEF Subgame
<1>2. ASSUME NEW k \in V, Owner(k) = 1, NEW w \in R[k]
      PROVE  \E j \in DOMAIN Edges(k), x \in Val : [w EXCEPT !.o = x] \in Move(k, j, R)
  <2>1. w \in G[k] /\ w \notin Y[k]
    BY WithoutIs
  <2>2. w \in Window
    BY <2>1 DEF Regions
  <2>3. w \notin Pre(p, k, Y, G)
    BY <2>1 DEF Complete
  <2>4. Picks(k) = "outputs" /\ Variants(k, w) = {[w EXCEPT !.o = x] : x \in Val}
    BY <1>2, ArenaAt, VariantsIs
  <2>5. CASE p = 1
    <3>1. PICK j \in DOMAIN Edges(k), x \in Val : [w EXCEPT !.o = x] \in Move(k, j, G)
      BY <1>2, <2>1 DEF Subgame, NoDead
    <3>2. [w EXCEPT !.o = x] \notin Move(k, j, Y)
      BY <1>2, <2>2, <2>3, <2>4, <2>5, PreMine
    <3>3. [w EXCEPT !.o = x] \in Move(k, j, R)
      BY <1>2, <3>1, <3>2, MoveSplits
    <3> QED BY <3>3
  <2>6. CASE p = 0
    <3>1. PICK u \in Variants(k, w) :
              ~ (/\ u \in Window
                 /\ \A j \in DOMAIN Edges(k) : u \in Edges(k)[j].label =>
                        u \in Across(Edges(k)[j], Y[Edges(k)[j].dst]
                                                     \cup (Window \ G[Edges(k)[j].dst])))
      BY <1>2, <2>2, <2>3, <2>6, PreTheirs
    <3>2. u \in Window
      BY <2>2, VariantsSame
    <3>3. PICK j \in DOMAIN Edges(k) :
              /\ u \in Edges(k)[j].label
              /\ u \notin Across(Edges(k)[j], Y[Edges(k)[j].dst] \cup (Window \ G[Edges(k)[j].dst]))
      BY <3>1, <3>2
    <3> DEFINE d == Edges(k)[j].dst
               z == [i |-> u.i, o |-> u.o, o1 |-> u.o]
    <3>4. Edges(k)[j].shift = TRUE /\ d \in V
      BY <1>2, EdgeAt
    <3>5. z \in Window /\ z.o1 = u.o
      BY <3>2 DEF Window
    <3> HIDE DEF z
    <3>6. z \notin Y[d] \cup (Window \ G[d])
      <4>1. ASSUME NEW S, u \notin Across(Edges(k)[j], S) PROVE z \notin S
        BY <3>2, <3>4, <3>5, <4>1 DEF Across
      <4> QED BY <3>3, <4>1
    <3>7. z \in R[d]
      BY <3>4, <3>5, <3>6, WithoutIs
    <3> HIDE DEF R
    <3>8. u \in Move(k, j, R)
      BY <1>2, <3>3, <3>5, <3>7, MoveIs
    <3> QED BY <2>4, <3>8
  <2> QED BY <2>5, <2>6
<1>3. NoDead(R)
  BY <1>2 DEF NoDead
<1> QED BY <1>1, <1>3 DEF Subgame

\* The environment cannot leave what its attractor leaves, but with the subgame.
LEMMA KeepsLeft ==
    ASSUME ArenaOK, NEW Y \in Regions, NEW G \in Regions, Complete(0, Y, G)
    PROVE  Keeps(Without(G, Y), Without(G, Y), G)
<1> SUFFICES ASSUME NEW k \in V, Owner(k) = 0, NEW j \in DOMAIN Edges(k),
                    NEW w \in Without(G, Y)[k] \intersect Edges(k)[j].label
             PROVE  \/ w \in Without(G, Y)[Edges(k)[j].dst]
                    \/ w \notin G[Edges(k)[j].dst]
  BY DEF Keeps
<1>1. w \in G[k] /\ w \notin Y[k] /\ w \in Edges(k)[j].label
  BY WithoutIs
<1>2. w \in Window /\ w \in Variants(k, w)
  BY <1>1, VariantsSame DEF Regions
<1>3. w \notin Pre(0, k, Y, G)
  BY <1>1 DEF Complete
<1>4. w \notin Move(k, j, Y)
  BY <1>2, <1>3, PreMine
<1>5. w \notin Y[Edges(k)[j].dst]
  BY <1>1, <1>4, MoveIs
<1>6. Edges(k)[j].dst \in V
  BY EdgeAt
<1> QED BY <1>5, <1>6, WithoutIs

\* What is closed in a subgame the environment cannot leave is closed.
LEMMA ClosedAbove ==
    ASSUME NEW S, NEW m, NEW G1, NEW G, ArenaOK,
           Closed(S, m, G1), Within(S, G1), Keeps(G1, G1, G)
    PROVE  Closed(S, m, G)
<1> SUFFICES ASSUME NEW k \in V, Owner(k) = 0, NEW j \in DOMAIN Edges(k),
                    NEW w \in S[k] \intersect Edges(k)[j].label
             PROVE  w \in S[Edges(k)[j].dst] \/ w \notin G[Edges(k)[j].dst]
  BY DEF Closed, Keeps
<1>1. w \in G1[k] \intersect Edges(k)[j].label
  BY DEF Within
<1>2. w \in S[Edges(k)[j].dst] \/ w \notin G1[Edges(k)[j].dst]
  BY DEF Closed, Keeps
<1>3. w \in G1[Edges(k)[j].dst] \/ w \notin G[Edges(k)[j].dst]
  BY <1>1 DEF Keeps
<1> QED BY <1>2, <1>3

-----------------------------------------------------------------------------
(* The moves joined.                                                        *)

LEMMA MovesAre ==
    ASSUME NEW m \in Moves, NEW i \in V
    PROVE  /\ m[i] \in [Slots(i) -> SUBSET Window]
           /\ Owner(i) = 1 => /\ Slots(i) = DOMAIN Edges(i)
                              /\ \A j \in DOMAIN Edges(i) : m[i][j] \in SUBSET Window
<1>1. m[i] \in MoveRows /\ DOMAIN m[i] = Slots(i)
  BY DEF Moves
<1>2. PICK k \in V : m[i] \in [Slots(k) -> SUBSET Window]
  BY <1>1 DEF MoveRows
<1>3. m[i] \in [Slots(i) -> SUBSET Window]
  BY <1>1, <1>2
<1>4. Owner(i) = 1 => Slots(i) = DOMAIN Edges(i)
  BY DEF Slots
<1> QED BY <1>3, <1>4

\* Moves are given row by row.
LEMMA MovesWhen ==
    ASSUME NEW m, m = [i \in V |-> m[i]], \A i \in V : m[i] \in [Slots(i) -> SUBSET Window]
    PROVE  m \in Moves
<1>1. \A i \in V : m[i] \in MoveRows
  BY DEF MoveRows
<1>2. m \in [V -> MoveRows]
  BY <1>1
<1>3. \A i \in V : DOMAIN m[i] = Slots(i)
  OBVIOUS
<1> QED BY <1>2, <1>3 DEF Moves

LEMMA NoMovesIs ==
    ASSUME ArenaOK
    PROVE  /\ NoMoves \in Moves
           /\ \A i \in V : Owner(i) = 1 => \A j \in DOMAIN Edges(i) : NoMoves[i][j] = {}
<1>1. \A i \in V : NoMoves[i] = IF Owner(i) = 1 THEN [j \in DOMAIN Edges(i) |-> {}] ELSE <<>>
  BY DEF NoMoves
<1>2. \A i \in V : NoMoves[i] \in [Slots(i) -> SUBSET Window]
  <2> TAKE i \in V
  <2>1. CASE Owner(i) = 1
    BY <1>1, <2>1 DEF Slots
  <2>2. CASE Owner(i) # 1
    <3>1. <<>> \in [{} -> SUBSET Window]
      OBVIOUS
    <3> QED BY <1>1, <2>2, <3>1 DEF Slots
  <2> QED BY <2>1, <2>2
<1>3. NoMoves = [i \in V |-> NoMoves[i]]
  BY DEF NoMoves
<1> QED BY <1>1, <1>2, <1>3, MovesWhen

LEMMA JunkMovesIs ==
    ASSUME ArenaOK
    PROVE  JunkMoves \in Moves
<1>1. \A i \in V : JunkMoves[i] = IF Owner(i) = 1 THEN [j \in DOMAIN Edges(i) |-> Window] ELSE <<>>
  BY DEF JunkMoves
<1>2. \A i \in V : JunkMoves[i] \in [Slots(i) -> SUBSET Window]
  <2> TAKE i \in V
  <2>1. CASE Owner(i) = 1
    BY <1>1, <2>1 DEF Slots
  <2>2. CASE Owner(i) # 1
    <3>1. <<>> \in [{} -> SUBSET Window]
      OBVIOUS
    <3> QED BY <1>1, <2>2, <3>1 DEF Slots
  <2> QED BY <2>1, <2>2
<1>3. JunkMoves = [i \in V |-> JunkMoves[i]]
  BY DEF JunkMoves
<1> QED BY <1>2, <1>3, MovesWhen

LEMMA AddMovesIs ==
    ASSUME ArenaOK, NEW m1 \in Moves, NEW m2 \in Moves
    PROVE  /\ AddMoves(m1, m2) \in Moves
           /\ \A i \in V : Owner(i) = 1 => \A j \in DOMAIN Edges(i) :
                  AddMoves(m1, m2)[i][j] = m1[i][j] \cup m2[i][j]
<1> DEFINE m == AddMoves(m1, m2)
<1>1. \A i \in V : m[i] = [j \in Slots(i) |-> m1[i][j] \union m2[i][j]]
  <2>1. \A i \in V : m[i] = [j \in DOMAIN m1[i] |-> m1[i][j] \union m2[i][j]]
    BY DEF AddMoves
  <2>2. \A i \in V : DOMAIN m1[i] = Slots(i)
    BY DEF Moves
  <2> HIDE DEF m
  <2> QED BY <2>1, <2>2
<1>2. m = [i \in V |-> m[i]]
  BY DEF AddMoves
<1>3. \A i \in V : m1[i] \in [Slots(i) -> SUBSET Window] /\ m2[i] \in [Slots(i) -> SUBSET Window]
  BY MovesAre
<1> HIDE DEF m
<1>4. ASSUME NEW i \in V PROVE m[i] \in [Slots(i) -> SUBSET Window]
  <2> DEFINE J == Slots(i)
  <2>1. m1[i] \in [J -> SUBSET Window] /\ m2[i] \in [J -> SUBSET Window]
    BY <1>3
  <2>2. m[i] = [j \in J |-> m1[i][j] \union m2[i][j]]
    BY <1>1
  <2> HIDE DEF J
  <2>3. \A j \in J : m1[i][j] \union m2[i][j] \in SUBSET Window
    BY <2>1
  <2>4. m[i] \in [J -> SUBSET Window]
    BY <2>2, <2>3
  <2> QED BY <2>4 DEF J
<1>5. m \in Moves
  BY <1>2, <1>4, MovesWhen
<1>6. \A i \in V : Owner(i) = 1 => Slots(i) = DOMAIN Edges(i)
  BY DEF Slots
<1> QED BY <1>1, <1>5, <1>6 DEF m

LEMMA MovesIntoIs ==
    ASSUME ArenaOK, NEW X \in Regions, NEW Y
    PROVE  /\ MovesInto(X, Y) \in Moves
           /\ \A i \in V : Owner(i) = 1 => \A j \in DOMAIN Edges(i) :
                  MovesInto(X, Y)[i][j] = X[i] \intersect Move(i, j, Y)
<1> DEFINE m == MovesInto(X, Y)
<1>1. \A i \in V : m[i] = IF Owner(i) = 1 /\ X[i] # {}
                          THEN [j \in DOMAIN Edges(i) |-> X[i] \intersect Move(i, j, Y)]
                          ELSE NoMoves[i]
  BY DEF MovesInto
<1>2. m = [i \in V |-> m[i]]
  BY DEF MovesInto
<1> HIDE DEF m
<1>3. ASSUME NEW i \in V
      PROVE  /\ m[i] \in [Slots(i) -> SUBSET Window]
             /\ Owner(i) = 1 => \A j \in DOMAIN Edges(i) : m[i][j] = X[i] \intersect Move(i, j, Y)
  <2>1. X[i] \subseteq Window
    BY DEF Regions
  <2>2. CASE Owner(i) = 1 /\ X[i] # {}
    <3>1. m[i] = [j \in DOMAIN Edges(i) |-> X[i] \intersect Move(i, j, Y)] /\ Slots(i) = DOMAIN Edges(i)
      BY <1>1, <2>2 DEF Slots
    <3> QED BY <2>1, <3>1
  <2>3. CASE ~(Owner(i) = 1 /\ X[i] # {})
    <3>1. m[i] = NoMoves[i]
      BY <1>1, <2>3
    <3>2. NoMoves[i] \in [Slots(i) -> SUBSET Window]
      BY NoMovesIs, MovesAre
    <3> QED BY <2>3, <3>1, <3>2, NoMovesIs
  <2> QED BY <2>2, <2>3
<1>4. m \in Moves
  BY <1>2, <1>3, MovesWhen
<1> QED BY <1>3, <1>4 DEF m

\* The moves an attractor records at a vertex it visits.
LEMMA MovesAddedIs ==
    ASSUME ArenaOK, att \in Attractors, NEW k \in V, NEW S, S \subseteq Window
    PROVE  /\ MovesAdded(k, S) \in Moves
           /\ ~(att.record /\ Owner(k) = 1) => MovesAdded(k, S) = att.moves
           /\ att.record => \A i \in V : Owner(i) = 1 => \A j \in DOMAIN Edges(i) :
                  MovesAdded(k, S)[i][j] =
                      IF i = k THEN att.moves[k][j] \cup (S \intersect Move(k, j, att.Y))
                      ELSE att.moves[i][j]
<1> DEFINE m == MovesAdded(k, S)
           row == [j \in DOMAIN Edges(k) |-> att.moves[k][j] \cup (S \intersect Move(k, j, att.Y))]
<1>1. att.moves \in Moves
  BY DEF Attractors
<1>2. CASE ~(att.record /\ Owner(k) = 1)
  <2>1. m = att.moves
    BY <1>2 DEF MovesAdded
  <2>2. \A i \in V : Owner(i) = 1 /\ att.record => i # k
    BY <1>2
  <2> HIDE DEF m
  <2>3. att.record => \A i \in V : Owner(i) = 1 => \A j \in DOMAIN Edges(i) :
            m[i][j] = IF i = k THEN att.moves[k][j] \cup (S \intersect Move(k, j, att.Y))
                      ELSE att.moves[i][j]
    BY <2>1, <2>2
  <2> QED BY <1>1, <2>1, <2>3 DEF m
<1>3. CASE att.record /\ Owner(k) = 1
  <2>1. m = [att.moves EXCEPT ![k] = row]
    BY <1>3 DEF MovesAdded
  <2>2. att.moves \in [V -> MoveRows] /\ \A i \in V : att.moves[i] \in [Slots(i) -> SUBSET Window]
    BY <1>1, MovesAre DEF Moves
  <2>3. \A j \in DOMAIN Edges(k) : att.moves[k][j] \in SUBSET Window
    BY <1>1, <1>3, MovesAre
  <2>4. row \in [Slots(k) -> SUBSET Window]
    BY <1>3, <2>3 DEF Slots
  <2>5. /\ m = [i \in V |-> m[i]]
        /\ \A i \in V : m[i] = IF i = k THEN row ELSE att.moves[i]
    <3> HIDE DEF row, m
    <3> QED BY <2>1, <2>2
  <2>6. \A j \in DOMAIN Edges(k) : row[j] = att.moves[k][j] \cup (S \intersect Move(k, j, att.Y))
    OBVIOUS
  <2> HIDE DEF row, m
  <2>7. m \in Moves
    BY <2>2, <2>4, <2>5, MovesWhen
  <2>8. \A i \in V : Owner(i) = 1 => \A j \in DOMAIN Edges(i) :
            m[i][j] = IF i = k THEN att.moves[k][j] \cup (S \intersect Move(k, j, att.Y))
                      ELSE att.moves[i][j]
    BY <2>5, <2>6
  <2> QED BY <1>3, <2>7, <2>8 DEF m
<1> QED BY <1>2, <1>3

-----------------------------------------------------------------------------
(* Results.                                                                 *)

LEMMA ResultIs ==
    ASSUME NEW r \in Results
    PROVE  r.env \in Regions /\ r.sys \in Regions /\ r.moves \in Moves
BY DEF Results

LEMMA FrameIs ==
    ASSUME NEW f \in Frames
    PROVE  /\ f.stage \in {"enter", "attract", "sub", "attract lost", "rest"}
           /\ f.p \in {0, 1}
           /\ f.G \in Regions /\ f.U \in Regions /\ f.B \in Regions
           /\ f.attracted \in Moves /\ f.kept \in Moves /\ f.sub \in Results
           /\ f.sub.moves \in Moves
BY DEF Frames, Results

LEMMA NoneIs ==
    ASSUME ArenaOK
    PROVE  None \in Regions /\ Free(None) /\ \A i \in V : None[i] = {}
BY DEF None, Regions, Free, OutFree, InFree

\* The environment wins what it wins whole.
LEMMA EnvWins ==
    ASSUME ArenaOK, NEW E \in Regions, Free(E), NEW G, \A i \in V : E[i] = G[i]
    PROVE  LET r == [env |-> E, sys |-> None, moves |-> NoMoves]
           IN r \in Results /\ Result(G, r)
<1> DEFINE r == [env |-> E, sys |-> None, moves |-> NoMoves]
<1>1. r.env = E /\ r.sys = None /\ r.moves = NoMoves /\ r \in Results
  BY NoneIs, NoMovesIs DEF Results
<1>2. Covered(NoMoves, None) /\ Keeps(None, None, G)
  BY NoneIs DEF Covered, Keeps
<1>3. Into(NoMoves, None)
  BY NoMovesIs DEF Into
<1>4. \A i \in V : E[i] \cup None[i] = G[i]
  BY NoneIs
<1> HIDE DEF r
<1>5. Result(G, r)
  BY <1>1, <1>2, <1>3, <1>4, NoneIs DEF Result, Closed
<1> QED BY <1>1, <1>5 DEF r

\* The system wins the game above when it wins the subgame whole: the moves of
\* the subgame, of its attractor and, from the top vertices, any that stay.
LEMMA SysWins ==
    ASSUME ArenaOK, NEW f \in Frames, FrameOK(f), f.stage = "sub", f.p = 1,
           NEW G1 \in Regions, SubLink(f, G1), NEW r \in Results, Result(G1, r), Empty(r.env)
    PROVE  WonWhole(f, r) \in Results /\ Result(f.G, WonWhole(f, r))
<1> DEFINE G == f.G
           top == MovesInto(f.U, G)
           below == AddMoves(r.moves, f.attracted)
           m == AddMoves(below, top)
<1>1. /\ G \in Regions /\ f.U \in Regions /\ f.attracted \in Moves
      /\ r.env \in Regions /\ r.sys \in Regions /\ r.moves \in Moves
  BY FrameIs, ResultIs
<1>2. WonWhole(f, r) = [env |-> None, sys |-> G, moves |-> m]
  BY DEF WonWhole
<1>3. Free(G) /\ NoDead(G) /\ Free(f.U) /\ Within(f.U, G)
  BY DEF FrameOK, Subgame
<1>4. /\ Within(G1, G) /\ Into(f.attracted, G)
      /\ Covered(f.attracted, Without(Without(G, G1), f.U))
  BY DEF SubLink
<1>5. /\ \A i \in V : r.sys[i] = G1[i]
      /\ Covered(r.moves, r.sys) /\ Into(r.moves, r.sys)
  BY DEF Result, Closed, Empty
<1> HIDE DEF G
<1>6. top \in Moves /\ \A i \in V : Owner(i) = 1 => \A j \in DOMAIN Edges(i) :
                           top[i][j] = f.U[i] \intersect Move(i, j, G)
  BY <1>1, MovesIntoIs
<1> HIDE DEF top
<1>7. below \in Moves /\ \A i \in V : Owner(i) = 1 => \A j \in DOMAIN Edges(i) :
                             below[i][j] = r.moves[i][j] \cup f.attracted[i][j]
  BY <1>1, AddMovesIs
<1> HIDE DEF below
<1>8. m \in Moves /\ \A i \in V : Owner(i) = 1 => \A j \in DOMAIN Edges(i) :
                         m[i][j] = below[i][j] \cup top[i][j]
  BY <1>6, <1>7, AddMovesIs
<1> HIDE DEF m
<1>9. Covered(m, G)
  <2> SUFFICES ASSUME NEW k \in V, Owner(k) = 1, NEW w \in G[k]
               PROVE  \E j \in DOMAIN Edges(k), x \in Val : [w EXCEPT !.o = x] \in m[k][j]
    BY DEF Covered
  <2>1. CASE w \in G1[k]
    <3>1. w \in r.sys[k]
      BY <1>5, <2>1
    <3>2. PICK j \in DOMAIN Edges(k), x \in Val : [w EXCEPT !.o = x] \in r.moves[k][j]
      BY <1>5, <3>1 DEF Covered
    <3> QED BY <1>7, <1>8, <3>2
  <2>2. CASE w \in f.U[k]
    <3>1. PICK j \in DOMAIN Edges(k), x \in Val : [w EXCEPT !.o = x] \in Move(k, j, G)
      BY <1>3 DEF NoDead
    <3>2. [w EXCEPT !.o = x] \in f.U[k]
      BY <1>3, <2>2 DEF Free, OutFree
    <3> QED BY <1>6, <1>8, <3>1, <3>2
  <2>3. CASE w \notin G1[k] /\ w \notin f.U[k]
    <3>1. w \in Without(Without(G, G1), f.U)[k]
      BY <1>1, <2>3, WithoutIs
    <3>2. PICK j \in DOMAIN Edges(k), x \in Val : [w EXCEPT !.o = x] \in f.attracted[k][j]
      BY <1>4, <3>1 DEF Covered
    <3> QED BY <1>7, <1>8, <3>2
  <2> QED BY <2>1, <2>2, <2>3
<1>10. Into(m, G)
  <2> SUFFICES ASSUME NEW k \in V, Owner(k) = 1, NEW j \in DOMAIN Edges(k)
               PROVE  m[k][j] \subseteq Move(k, j, G)
    BY DEF Into
  <2>1. r.moves[k][j] \subseteq Move(k, j, r.sys)
    BY <1>5 DEF Into
  <2>2. Move(k, j, r.sys) \subseteq Move(k, j, G)
    <3>1. Within(r.sys, G)
      BY <1>4, <1>5 DEF Within
    <3> QED BY <3>1, GrowsWithin
  <2>3. f.attracted[k][j] \subseteq Move(k, j, G)
    BY <1>4 DEF Into
  <2> QED BY <1>6, <1>7, <1>8, <2>1, <2>2, <2>3
<1>11. Keeps(G, G, G)
  BY DEF Keeps
<1> DEFINE won1 == [env |-> None, sys |-> G, moves |-> m]
<1>12. won1.env = None /\ won1.sys = G /\ won1.moves = m /\ won1 \in Results
  BY <1>1, <1>8, NoneIs DEF Results
<1>13. \A i \in V : None[i] \cup G[i] = G[i]
  BY NoneIs
<1>14. WonWhole(f, r) = won1
  BY <1>2
<1> HIDE DEF won1
<1>15. Result(G, won1)
  BY <1>3, <1>9, <1>10, <1>11, <1>12, <1>13, NoneIs DEF Result, Closed
<1> QED BY <1>12, <1>14, <1>15 DEF G

\* The rest of the game and the second attractor share it out.
LEMMA RestWins ==
    ASSUME ArenaOK, NEW f \in Frames, FrameOK(f), NEW G1 \in Regions, RestLink(f, G1),
           NEW r \in Results, Result(G1, r)
    PROVE  Composed(f, r) \in Results /\ Result(f.G, Composed(f, r))
<1> DEFINE G == f.G
           c == Composed(f, r)
<1>1. /\ G \in Regions /\ f.B \in Regions /\ f.kept \in Moves /\ f.sub.moves \in Moves
      /\ r.env \in Regions /\ r.sys \in Regions /\ r.moves \in Moves /\ f.p \in {0, 1}
  BY FrameIs, ResultIs
<1>2. /\ Free(f.B) /\ Within(f.B, G)
      /\ \A i \in V : G1[i] = G[i] \ f.B[i]
  BY <1>1, WithoutIs DEF RestLink
<1>3. /\ Free(r.env) /\ Free(r.sys)
      /\ \A i \in V : r.env[i] \cup r.sys[i] = G1[i]
      /\ Closed(r.sys, r.moves, G1)
  BY DEF Result
<1>4. CASE f.p = 1
  <2>1. c = [r EXCEPT !.env = Joined(r.env, f.B)]
    BY <1>4 DEF Composed
  <2>2. Joined(r.env, f.B) \in Regions /\ Free(Joined(r.env, f.B))
    BY <1>1, <1>2, <1>3, WithoutIs, FreeWithout
  <2>3. c.env = Joined(r.env, f.B) /\ c.sys = r.sys /\ c.moves = r.moves /\ c \in Results
    BY <2>1, <2>2 DEF Results
  <2> HIDE DEF c
  <2>4. \A i \in V : c.env[i] \cup c.sys[i] = G[i]
    <3>1. \A i \in V : c.env[i] = r.env[i] \cup f.B[i]
      BY <1>1, <2>3, WithoutIs
    <3> QED BY <1>2, <1>3, <2>3, <3>1 DEF Within
  <2>5. Keeps(G1, G1, G)
    BY <1>4 DEF RestLink
  <2>6. Within(r.sys, G1)
    BY <1>3 DEF Within
  <2>7. Closed(r.sys, r.moves, G)
    BY <1>3, <2>5, <2>6, ClosedAbove
  <2>8. Result(G, c)
    BY <1>3, <2>2, <2>3, <2>4, <2>7 DEF Result
  <2> QED BY <2>3, <2>8 DEF c
<1>5. CASE f.p = 0
  <2> DEFINE S == Joined(r.sys, f.B)
             own == AddMoves(r.moves, f.sub.moves)
             m == AddMoves(own, f.kept)
             mB == AddMoves(f.sub.moves, f.kept)
  <2>1. c = [r EXCEPT !.sys = S, !.moves = m]
    BY <1>5 DEF Composed
  <2>2. S \in Regions /\ Free(S) /\ \A i \in V : S[i] = r.sys[i] \cup f.B[i]
    <3>1. S \in Regions /\ \A i \in V : S[i] = r.sys[i] \cup f.B[i]
      BY <1>1, WithoutIs
    <3>2. Free(S)
      BY <1>1, <1>2, <1>3, FreeWithout
    <3> QED BY <3>1, <3>2
  <2> HIDE DEF S
  <2>3. own \in Moves /\ \A i \in V : Owner(i) = 1 => \A j \in DOMAIN Edges(i) :
                             own[i][j] = r.moves[i][j] \cup f.sub.moves[i][j]
    BY <1>1, AddMovesIs
  <2> HIDE DEF own
  <2>4. m \in Moves /\ \A i \in V : Owner(i) = 1 => \A j \in DOMAIN Edges(i) :
                           m[i][j] = own[i][j] \cup f.kept[i][j]
    BY <1>1, <2>3, AddMovesIs
  <2> HIDE DEF m
  <2>5. mB \in Moves /\ \A i \in V : Owner(i) = 1 => \A j \in DOMAIN Edges(i) :
                            mB[i][j] = f.sub.moves[i][j] \cup f.kept[i][j]
    BY <1>1, AddMovesIs
  <2>6. Closed(f.B, mB, G)
    BY <1>5 DEF RestLink
  <2> HIDE DEF mB
  <2>7. \A i \in V : Owner(i) = 1 => \A j \in DOMAIN Edges(i) :
            m[i][j] = r.moves[i][j] \cup mB[i][j]
    BY <2>3, <2>4, <2>5
  <2>8. c.env = r.env /\ c.sys = S /\ c.moves = m /\ c \in Results
    BY <2>1, <2>2, <2>4 DEF Results
  <2> HIDE DEF c
  <2>9. \A i \in V : c.env[i] \cup c.sys[i] = G[i]
    BY <1>2, <1>3, <2>2, <2>8 DEF Within
  <2>10. Covered(m, S)
    <3> SUFFICES ASSUME NEW k \in V, Owner(k) = 1, NEW w \in S[k]
                 PROVE  \E j \in DOMAIN Edges(k), x \in Val : [w EXCEPT !.o = x] \in m[k][j]
      BY DEF Covered
    <3>1. CASE w \in r.sys[k]
      <4>1. \E j \in DOMAIN Edges(k), x \in Val : [w EXCEPT !.o = x] \in r.moves[k][j]
        BY <1>3, <3>1 DEF Closed, Covered
      <4> QED BY <2>7, <4>1
    <3>2. CASE w \in f.B[k]
      <4>1. \E j \in DOMAIN Edges(k), x \in Val : [w EXCEPT !.o = x] \in mB[k][j]
        BY <2>6, <3>2 DEF Closed, Covered
      <4> QED BY <2>7, <4>1
    <3> QED BY <2>2, <3>1, <3>2
  <2>11. Into(m, S)
    <3> SUFFICES ASSUME NEW k \in V, Owner(k) = 1, NEW j \in DOMAIN Edges(k)
                 PROVE  m[k][j] \subseteq Move(k, j, S)
      BY DEF Into
    <3>1. r.moves[k][j] \subseteq Move(k, j, r.sys) /\ mB[k][j] \subseteq Move(k, j, f.B)
      BY <1>3, <2>6 DEF Closed, Into
    <3>2. Within(r.sys, S) /\ Within(f.B, S)
      BY <2>2 DEF Within
    <3>3. Move(k, j, r.sys) \subseteq Move(k, j, S) /\ Move(k, j, f.B) \subseteq Move(k, j, S)
      BY <3>2, GrowsWithin
    <3> QED BY <2>7, <3>1, <3>3
  <2>12. Keeps(S, S, G)
    <3> SUFFICES ASSUME NEW k \in V, Owner(k) = 0, NEW j \in DOMAIN Edges(k),
                        NEW w \in S[k] \intersect Edges(k)[j].label
                 PROVE  w \in S[Edges(k)[j].dst] \/ w \notin G[Edges(k)[j].dst]
      BY DEF Keeps
    <3>1. Edges(k)[j].dst \in V
      BY EdgeAt
    <3>2. CASE w \in r.sys[k]
      <4>1. w \in r.sys[Edges(k)[j].dst] \/ w \notin G1[Edges(k)[j].dst]
        BY <1>3, <3>2 DEF Closed, Keeps
      <4> QED BY <1>2, <2>2, <3>1, <4>1
    <3>3. CASE w \in f.B[k]
      <4>1. w \in f.B[Edges(k)[j].dst] \/ w \notin G[Edges(k)[j].dst]
        BY <2>6, <3>3 DEF Closed, Keeps
      <4> QED BY <2>2, <3>1, <4>1
    <3> QED BY <2>2, <3>2, <3>3
  <2>13. Result(G, c)
    BY <1>3, <2>2, <2>8, <2>9, <2>10, <2>11, <2>12 DEF Result, Closed
  <2> QED BY <2>8, <2>13 DEF c
<1> QED BY <1>1, <1>4, <1>5

-----------------------------------------------------------------------------
(* One visit of the attractor.                                              *)

Added(k) == (att.G[k] \intersect Pre(att.p, k, att.Y, att.G)) \ att.Y[k]
Grown(k) == [att.Y EXCEPT ![k] = @ \union Added(k)]

LEMMA AttIs ==
    ASSUME att \in Attractors
    PROVE  /\ att.p \in {0, 1} /\ att.Y \in Regions /\ att.G \in Regions
           /\ att.record \in BOOLEAN /\ att.moves \in Moves /\ att.dirty \in SUBSET V
           /\ att.next \in Nat /\ att.changed \in BOOLEAN /\ att.round \in Nat
BY DEF Attractors

LEMMA GrownIs ==
    ASSUME ArenaOK, att \in Attractors, NEW k \in V, Free(att.Y), Free(att.G), Within(att.Y, att.G)
    PROVE  /\ Added(k) \subseteq Window
           /\ Grown(k) \in Regions
           /\ \A i \in V : Grown(k)[i] = IF i = k THEN att.Y[k] \cup Added(k) ELSE att.Y[i]
           /\ OutFree(Added(k))
           /\ Free(Grown(k))
           /\ Within(att.Y, Grown(k))
           /\ Within(Grown(k), att.G)
<1> DEFINE P == Pre(att.p, k, att.Y, att.G)
           a == Added(k)
           X == Grown(k)
<1>1. att.p \in {0, 1} /\ att.Y \in Regions /\ att.G \in Regions
  BY AttIs
<1>2. OutFree(P) /\ (Picks(k) = "inputs" => InFree(P)) /\ P \subseteq Window
  BY <1>1, PreFree, PreMine, PreTheirs
<1>3. att.Y[k] \subseteq Window /\ att.G[k] \subseteq Window
  BY <1>1 DEF Regions
<1>4. \A w : w \in a <=> w \in att.G[k] /\ w \in P /\ w \notin att.Y[k]
  BY DEF Added
<1>5. /\ X \in Regions
      /\ \A i \in V : X[i] = IF i = k THEN att.Y[k] \cup a ELSE att.Y[i]
  <2>1. X = [att.Y EXCEPT ![k] = att.Y[k] \cup a]
    BY DEF Grown
  <2>2. a \subseteq Window
    BY <1>2, <1>4
  <2> HIDE DEF a, X
  <2> QED BY <1>1, <1>3, <2>1, <2>2 DEF Regions
<1> HIDE DEF P, a, X
<1>6. a \subseteq Window /\ a \subseteq att.G[k]
  BY <1>2, <1>4
<1>7. \A w \in Window, x \in Val :
          /\ w \in P <=> [w EXCEPT !.o = x] \in P
          /\ w \in att.G[k] <=> [w EXCEPT !.o = x] \in att.G[k]
          /\ w \in att.Y[k] <=> [w EXCEPT !.o = x] \in att.Y[k]
  <2>1. OutFree(att.G[k]) /\ OutFree(att.Y[k])
    BY DEF Free
  <2> QED BY <1>2, <2>1, OutAlike
<1>8. Picks(k) = "inputs" => \A w \in Window, x \in Val :
          /\ w \in P <=> [w EXCEPT !.i = x] \in P
          /\ w \in att.G[k] <=> [w EXCEPT !.i = x] \in att.G[k]
          /\ w \in att.Y[k] <=> [w EXCEPT !.i = x] \in att.Y[k]
  <2>1. Picks(k) = "inputs" => InFree(att.G[k]) /\ InFree(att.Y[k])
    BY DEF Free
  <2> QED BY <1>2, <2>1, InAlike
<1>9. OutFree(a)
  BY <1>4, <1>6, <1>7 DEF OutFree
<1>10. OutFree(X[k]) /\ (Picks(k) = "inputs" => InFree(X[k]))
  <2>1. X[k] = att.Y[k] \cup a
    BY <1>5
  <2>2. OutFree(att.Y[k] \cup a)
    BY <1>3, <1>7, <1>9 DEF OutFree
  <2>3. Picks(k) = "inputs" => InFree(att.Y[k] \cup a)
    BY <1>3, <1>4, <1>6, <1>8 DEF InFree
  <2> QED BY <2>1, <2>2, <2>3
<1>11. Free(X)
  <2>1. \A i \in V : i # k => X[i] = att.Y[i]
    BY <1>5
  <2> QED BY <1>10, <2>1 DEF Free
<1>12. Within(att.Y, X) /\ Within(X, att.G)
  BY <1>5, <1>6 DEF Within
<1> QED BY <1>5, <1>6, <1>9, <1>11, <1>12 DEF a, X

\* What is added has a move into the attractor, or only moves into it.
LEMMA GrownHolds ==
    ASSUME ArenaOK, att \in Attractors, NEW k \in V, Free(att.Y), Free(att.G), Within(att.Y, att.G),
           att.p = 1, att.record = TRUE, NEW B \in Regions, Holds(B, att.Y, att.moves, att.G)
    PROVE  Holds(B, Grown(k), MovesAdded(k, Added(k)), att.G)
<1> DEFINE a == Added(k)
           X == Grown(k)
           m == MovesAdded(k, a)
<1>1. /\ att.p \in {0, 1} /\ att.Y \in Regions /\ att.G \in Regions /\ att.moves \in Moves
  BY AttIs
<1>2. /\ a \subseteq Window /\ X \in Regions /\ OutFree(a)
      /\ \A i \in V : X[i] = IF i = k THEN att.Y[k] \cup a ELSE att.Y[i]
      /\ Within(att.Y, X)
  BY GrownIs
<1>3. \A w \in a : w \in Pre(1, k, att.Y, att.G)
  BY DEF Added
<1> HIDE DEF a, X
<1>4. \A i \in V : Owner(i) = 1 => \A j \in DOMAIN Edges(i) :
          m[i][j] = IF i = k THEN att.moves[k][j] \cup (a \intersect Move(k, j, att.Y))
                    ELSE att.moves[i][j]
  BY <1>2, MovesAddedIs
<1> HIDE DEF m
<1>5. /\ Into(att.moves, att.Y) /\ Covered(att.moves, Without(att.Y, B))
      /\ Keeps(Without(att.Y, B), att.Y, att.G)
  BY DEF Holds
<1>6. Into(m, X)
  <2> SUFFICES ASSUME NEW i \in V, Owner(i) = 1, NEW j \in DOMAIN Edges(i)
               PROVE  m[i][j] \subseteq Move(i, j, X)
    BY DEF Into
  <2>1. att.moves[i][j] \subseteq Move(i, j, att.Y)
    BY <1>5 DEF Into
  <2>2. Move(i, j, att.Y) \subseteq Move(i, j, X)
    BY <1>2, GrowsWithin
  <2> QED BY <1>4, <2>1, <2>2
<1>7. \A i \in V : \A w \in Without(X, B)[i] : w \in Without(att.Y, B)[i] \/ (i = k /\ w \in a)
  BY <1>1, <1>2, WithoutIs
<1>8. Covered(m, Without(X, B))
  <2> SUFFICES ASSUME NEW i \in V, Owner(i) = 1, NEW w \in Without(X, B)[i]
               PROVE  \E j \in DOMAIN Edges(i), x \in Val : [w EXCEPT !.o = x] \in m[i][j]
    BY DEF Covered
  <2>1. CASE w \in Without(att.Y, B)[i]
    <3>1. \E j \in DOMAIN Edges(i), x \in Val : [w EXCEPT !.o = x] \in att.moves[i][j]
      BY <1>5, <2>1 DEF Covered
    <3> QED BY <1>4, <3>1
  <2>2. CASE i = k /\ w \in a
    <3>1. PICK u \in Variants(k, w), j \in DOMAIN Edges(k) : u \in Move(k, j, att.Y)
      <4>1. Owner(k) = 1 /\ w \in Pre(1, k, att.Y, att.G)
        BY <1>3, <2>2
      <4> QED BY <4>1, PreMine
    <3>2. PICK x \in Val : u = [w EXCEPT !.o = x]
      BY <2>2, ArenaAt, VariantsIs
    <3>3. u \in a
      BY <1>2, <2>2, <3>2 DEF OutFree
    <3> QED BY <1>4, <2>2, <3>1, <3>2, <3>3
  <2> QED BY <1>7, <2>1, <2>2
<1>9. Keeps(Without(X, B), X, att.G)
  <2> SUFFICES ASSUME NEW i \in V, Owner(i) = 0, NEW j \in DOMAIN Edges(i),
                      NEW w \in Without(X, B)[i] \intersect Edges(i)[j].label
               PROVE  w \in X[Edges(i)[j].dst] \/ w \notin att.G[Edges(i)[j].dst]
    BY DEF Keeps
  <2>1. Edges(i)[j].dst \in V
    BY EdgeAt
  <2>2. w \in att.Y[Edges(i)[j].dst] \/ w \notin att.G[Edges(i)[j].dst]
    <3>1. CASE w \in Without(att.Y, B)[i]
      BY <1>5, <3>1 DEF Keeps
    <3>2. CASE i = k /\ w \in a
      <4>1. Owner(k) # 1 /\ w \in Pre(1, k, att.Y, att.G) /\ w \in Edges(k)[j].label
        BY <1>3, <3>2
      <4>2. w \in Variants(k, w)
        BY <1>2, <3>2, VariantsSame
      <4>3. w \in Across(Edges(k)[j], att.Y[Edges(k)[j].dst] \cup (Window \ att.G[Edges(k)[j].dst]))
        BY <3>2, <4>1, <4>2, PreTheirs
      <4>4. Edges(k)[j].shift = FALSE
        BY <3>2, EdgeAt
      <4>5. w \in att.Y[Edges(k)[j].dst] \cup (Window \ att.G[Edges(k)[j].dst])
        BY <4>3, <4>4 DEF Across
      <4> QED BY <3>2, <4>5
    <3> QED BY <1>7, <3>1, <3>2
  <2> QED BY <1>2, <2>1, <2>2 DEF Within
<1> QED BY <1>6, <1>8, <1>9 DEF Holds, m, a, X

\* The predecessor looks at the ends of the edges only.
LEMMA PreLocal ==
    ASSUME ArenaOK, NEW p, NEW i \in V, NEW Y, NEW Z, NEW G,
           \A j \in DOMAIN Edges(i) : Y[Edges(i)[j].dst] = Z[Edges(i)[j].dst]
    PROVE  Pre(p, i, Y, G) = Pre(p, i, Z, G)
<1>1. \A j \in DOMAIN Edges(i) : Move(i, j, Y) = Move(i, j, Z)
  BY DEF Move
<1>2. CASE Owner(i) = p
  <2>1. \A w : w \in Pre(p, i, Y, G) <=> w \in Pre(p, i, Z, G)
    BY <1>1, <1>2, PreMine
  <2>2. Pre(p, i, Y, G) \subseteq Window /\ Pre(p, i, Z, G) \subseteq Window
    BY <1>2, PreMine
  <2> QED BY <2>1, <2>2
<1>3. CASE Owner(i) # p
  <2>1. ASSUME NEW w PROVE w \in Pre(p, i, Y, G) <=> w \in Pre(p, i, Z, G)
    BY <1>3, PreTheirs
  <2>2. Pre(p, i, Y, G) \subseteq Window /\ Pre(p, i, Z, G) \subseteq Window
    BY <1>3, PreTheirs
  <2> QED BY <2>1, <2>2
<1> QED BY <1>2, <1>3

\* The worklist: a vertex that is not to be visited again gains nothing.
LEMMA GrownMissesNothing ==
    ASSUME ArenaOK, att \in Attractors, NEW k \in V, Free(att.Y), Free(att.G), Within(att.Y, att.G),
           \A i \in V \ att.dirty :
               att.G[i] \intersect Pre(att.p, i, att.Y, att.G) \subseteq att.Y[i],
           NEW i \in V, i \notin (att.dirty \ {k}) \cup Rework(k, Added(k))
    PROVE  att.G[i] \intersect Pre(att.p, i, Grown(k), att.G) \subseteq Grown(k)[i]
<1> DEFINE a == Added(k)
           X == Grown(k)
<1>1. /\ \A h \in V : X[h] = IF h = k THEN att.Y[k] \cup a ELSE att.Y[h]
  BY GrownIs
<1>2. a = (att.G[k] \intersect Pre(att.p, k, att.Y, att.G)) \ att.Y[k]
  BY DEF Added
<1>3. Rework(k, a) = IF a = {} THEN {} ELSE Preds(k)
  BY DEF Rework
<1> HIDE DEF a, X
<1>4. ASSUME NEW j \in DOMAIN Edges(i) PROVE att.Y[Edges(i)[j].dst] = X[Edges(i)[j].dst]
  <2>1. Edges(i)[j].dst \in V
    BY EdgeAt
  <2>2. CASE a = {}
    BY <1>1, <2>1, <2>2
  <2>3. CASE a # {}
    <3>1. i \notin Preds(k)
      BY <1>3, <2>3 DEF a
    <3>2. Edges(i)[j].dst # k
      BY <3>1 DEF Preds
    <3> QED BY <1>1, <2>1, <3>2
  <2> QED BY <2>2, <2>3
<1>5. Pre(att.p, i, X, att.G) = Pre(att.p, i, att.Y, att.G)
  BY <1>4, PreLocal
<1>6. CASE i = k
  BY <1>1, <1>2, <1>5, <1>6 DEF X
<1>7. CASE i # k
  <2>1. att.G[i] \intersect Pre(att.p, i, att.Y, att.G) \subseteq att.Y[i]
    BY <1>7
  <2> QED BY <1>1, <1>5, <1>7, <2>1 DEF X
<1> QED BY <1>6, <1>7

-----------------------------------------------------------------------------
(* The arena of a game stays, and with it what is said of regions.          *)

LEMMA ArenaStays ==
    ASSUME arena' = arena
    PROVE  /\ V' = V
           /\ Regions' = Regions
           /\ Moves' = Moves
           /\ Results' = Results
           /\ Frames' = Frames
           /\ Attractors' = Attractors
           /\ All' = All
<1>1. V' = V
  BY DEF V
<1>2. \A i : Owner(i)' = Owner(i) /\ Edges(i)' = Edges(i)
  BY DEF Owner, Edges
<1>3. Regions' = Regions
  BY <1>1 DEF Regions
<1>4. \A i : Slots(i)' = Slots(i)
  BY <1>2 DEF Slots
<1>5. MoveRows' = MoveRows
  <2> HIDE DEF Slots
  <2> QED BY <1>1, <1>4 DEF MoveRows
<1>6. Moves' = Moves
  BY <1>1, <1>4, <1>5 DEF Moves
<1>7. Results' = Results
  BY <1>3, <1>6 DEF Results
<1>8. Frames' = Frames
  BY <1>3, <1>6, <1>7 DEF Frames
<1>9. Attractors' = Attractors
  BY <1>1, <1>3, <1>6 DEF Attractors
<1>10. All' = All
  BY <1>1 DEF All
<1> QED BY <1>1, <1>3, <1>6, <1>7, <1>8, <1>9, <1>10

\* What is said of regions depends on the arena alone, which never changes.
LEMMA RegionsStay ==
    ASSUME arena' = arena
    PROVE  /\ \A X, Y : Within(X, Y)' <=> Within(X, Y)
           /\ \A X, Y : Without(X, Y)' = Without(X, Y)
           /\ \A X, Y : Joined(X, Y)' = Joined(X, Y)
           /\ \A X : Free(X)' <=> Free(X)
           /\ \A i, j, Y : Move(i, j, Y)' = Move(i, j, Y)
           /\ \A m, S : Covered(m, S)' <=> Covered(m, S)
           /\ \A m, S : Into(m, S)' <=> Into(m, S)
           /\ \A X, S, G : Keeps(X, S, G)' <=> Keeps(X, S, G)
           /\ \A S, m, G : Closed(S, m, G)' <=> Closed(S, m, G)
           /\ \A G : Subgame(G)' <=> Subgame(G)
           /\ \A p, i, Y, G : Pre(p, i, Y, G)' = Pre(p, i, Y, G)
<1>1. V' = V
  BY DEF V
<1>2. \A i : Owner(i)' = Owner(i) /\ Edges(i)' = Edges(i) /\ Picks(i)' = Picks(i)
  BY DEF Owner, Edges, Picks
<1>3. \A X, Y : Within(X, Y)' <=> Within(X, Y)
  BY <1>1 DEF Within
<1>4. \A X, Y : Without(X, Y)' = Without(X, Y)
  BY <1>1 DEF Without
<1>5. \A X, Y : Joined(X, Y)' = Joined(X, Y)
  BY <1>1 DEF Joined
<1>6. \A X : Free(X)' <=> Free(X)
  BY <1>1, <1>2 DEF Free
<1>7. \A i, j, Y : Move(i, j, Y)' = Move(i, j, Y)
  BY <1>2 DEF Move
<1>8. \A m, S : Covered(m, S)' <=> Covered(m, S)
  BY <1>1, <1>2 DEF Covered
<1>9. \A m, S : Into(m, S)' <=> Into(m, S)
  BY <1>1, <1>2, <1>7 DEF Into
<1>10. \A X, S, G : Keeps(X, S, G)' <=> Keeps(X, S, G)
  BY <1>1, <1>2 DEF Keeps
<1>11. \A S, m, G : Closed(S, m, G)' <=> Closed(S, m, G)
  BY <1>8, <1>9, <1>10 DEF Closed
<1>12. \A G : NoDead(G)' <=> NoDead(G)
  BY <1>1, <1>2, <1>7 DEF NoDead
<1>13. \A G : Subgame(G)' <=> Subgame(G)
  BY <1>6, <1>12 DEF Subgame
<1>14. \A p, i, Y, G : Pre(p, i, Y, G)' = Pre(p, i, Y, G)
  BY DEF Pre, Owner, Edges, Move, Chosen, Variants
<1> QED BY <1>3, <1>4, <1>5, <1>6, <1>7, <1>8, <1>9, <1>10, <1>11, <1>13, <1>14

LEMMA FramesStay ==
    ASSUME arena' = arena
    PROVE  /\ \A f : FrameOK(f)' <=> FrameOK(f)
           /\ \A f, G1 : Link(f, G1)' <=> Link(f, G1)
           /\ \A G, r : Result(G, r)' <=> Result(G, r)
           /\ \A B, Y, m, G : Holds(B, Y, m, G)' <=> Holds(B, Y, m, G)
<1>1. V' = V
  BY DEF V
<1>2. \A f : FrameOK(f)' <=> FrameOK(f)
  BY RegionsStay DEF FrameOK
<1>3. \A f, G1 : SubLink(f, G1)' <=> SubLink(f, G1)
  BY <1>1, RegionsStay DEF SubLink
<1>4. \A m1, m2 : AddMoves(m1, m2)' = AddMoves(m1, m2)
  BY <1>1 DEF AddMoves
<1>5. \A f, G1 : RestLink(f, G1)' <=> RestLink(f, G1)
  BY <1>4, RegionsStay DEF RestLink
<1>6. \A f, G1 : Link(f, G1)' <=> Link(f, G1)
  BY <1>3, <1>5 DEF Link
<1>7. \A G, r : Result(G, r)' <=> Result(G, r)
  BY <1>1, RegionsStay DEF Result
<1>8. \A B, Y, m, G : Holds(B, Y, m, G)' <=> Holds(B, Y, m, G)
  BY RegionsStay DEF Holds
<1> QED BY <1>2, <1>6, <1>7, <1>8

-----------------------------------------------------------------------------
(* What may be freed.                                                       *)

LEMMA JunkFrame ==
    ASSUME ArenaOK, NEW G \in Regions
    PROVE  Frame(G) \in Frames /\ Frame(G).stage = "enter" /\ Frame(G).G = G
<1>1. Junk \in Regions /\ JunkMoves \in Moves
  BY AllSubgame, JunkMovesIs DEF Junk
<1>2. JunkWon \in Results
  BY <1>1 DEF JunkWon, Results
<1> HIDE DEF Junk, JunkMoves, JunkWon
<1> QED BY <1>1, <1>2 DEF Frame, Frames

\* What a frame of each stage still needs is what it holds.
KeptIn(f, c) ==
    /\ c.stage = f.stage /\ c.p = f.p /\ c.G = f.G /\ c.U = f.U
    /\ c.attracted = f.attracted
    /\ f.stage \in {"attract lost", "rest"} => c.sub = f.sub /\ c.kept = f.kept
    /\ f.stage = "rest" => c.B = f.B

\* A collection leaves alone every region that is held.
LEMMA CollectedKeeps ==
    ASSUME ArenaOK, NEW f \in Frames
    PROVE  Collected(f) \in Frames /\ KeptIn(f, Collected(f))
<1> DEFINE c == Collected(f)
           J == Frame(Junk)
           keys == {"stage", "p", "G", "U", "attracted", "sub", "kept", "B"}
<1>1. J \in Frames
  BY JunkFrame, AllSubgame DEF Junk
<1>2. DOMAIN f = keys /\ f.stage \in {"enter", "attract", "sub", "attract lost", "rest"}
  BY DEF Frames
<1>3. {"stage", "p", "G", "U", "attracted"} \subseteq Held(f) /\ Held(f) \subseteq keys
  BY <1>2 DEF Held
<1>4. /\ f.stage \in {"attract lost", "rest"} => {"sub", "kept"} \subseteq Held(f)
      /\ f.stage = "rest" => "B" \in Held(f)
  BY <1>2 DEF Held
<1>5. c = [x \in keys |-> IF x \in Held(f) THEN f[x] ELSE J[x]]
  BY <1>2 DEF Collected
<1> DEFINE Pick(x) == IF x \in Held(f) THEN f[x] ELSE J[x]
           d == [stage |-> Pick("stage"), p |-> Pick("p"), G |-> Pick("G"), U |-> Pick("U"),
                 attracted |-> Pick("attracted"), sub |-> Pick("sub"), kept |-> Pick("kept"),
                 B |-> Pick("B")]
<1> HIDE DEF J
<1>6. c = d
  <2>1. DOMAIN d = keys
    OBVIOUS
  <2>2. \A x \in keys : d[x] = Pick(x)
    <3> HIDE DEF Pick
    <3> QED OBVIOUS
  <2>3. d = [x \in keys |-> d[x]]
    <3> HIDE DEF Pick
    <3> QED OBVIOUS
  <2> HIDE DEF d, c, keys
  <2> QED BY <1>5, <2>2, <2>3
<1>7. d \in Frames
  <2>1. /\ Pick("stage") = f.stage /\ Pick("p") = f.p /\ Pick("G") = f.G /\ Pick("U") = f.U
        /\ Pick("attracted") = f.attracted
        /\ Pick("sub") \in Results /\ Pick("kept") \in Moves /\ Pick("B") \in Regions
    <3>1. /\ f.sub \in Results /\ f.kept \in Moves /\ f.B \in Regions
          /\ J.sub \in Results /\ J.kept \in Moves /\ J.B \in Regions
      BY <1>1, FrameIs
    <3> QED BY <1>3, <3>1
  <2> HIDE DEF Pick
  <2> QED BY <2>1, FrameIs DEF Frames
<1>8. /\ d.stage = f.stage /\ d.p = f.p /\ d.G = f.G /\ d.U = f.U /\ d.attracted = f.attracted
      /\ f.stage \in {"attract lost", "rest"} => d.sub = f.sub /\ d.kept = f.kept
      /\ f.stage = "rest" => d.B = f.B
  BY <1>3, <1>4
<1> HIDE DEF c, d
<1> QED BY <1>6, <1>7, <1>8 DEF c, KeptIn

LEMMA FreedKeeps ==
    ASSUME ArenaOK, NEW f \in Frames, NEW c \in Frames, KeptIn(f, c)
    PROVE  /\ FrameOK(f) <=> FrameOK(c)
           /\ \A G1 : Link(f, G1) <=> Link(c, G1)
<1>1. FrameOK(f) <=> FrameOK(c)
  BY DEF KeptIn, FrameOK
<1>2. \A G1 : SubLink(f, G1) <=> SubLink(c, G1)
  BY DEF KeptIn, SubLink
<1>3. f.stage = "rest" => \A G1 : RestLink(f, G1) <=> RestLink(c, G1)
  BY DEF KeptIn, RestLink
<1> QED BY <1>1, <1>2, <1>3 DEF KeptIn, Link

-----------------------------------------------------------------------------
(* The stack.                                                               *)

LEMMA Built ==
    ASSUME TypeOK
    PROVE  ArenaOK /\ (pc # "undecided" => TurnsOK)
BY ArenaBuilt DEF TypeOK

LEMMA StackIs ==
    ASSUME stack \in Seq(Frames), stack # <<>>
    PROVE  /\ Len(stack) \in Nat \ {0}
           /\ Top \in Frames
           /\ Below \in Seq(Frames)
           /\ Len(Below) = Len(stack) - 1
           /\ \A n \in 1 .. Len(stack) - 1 : Below[n] = stack[n]
           /\ Below = <<>> <=> Len(stack) = 1
<1>1. Len(stack) \in Nat /\ Len(stack) # 0 /\ DOMAIN stack = 1 .. Len(stack)
  OBVIOUS
<1>2. Top \in Frames
  BY <1>1 DEF Top
<1>3. /\ Below \in Seq(Frames) /\ Len(Below) = Len(stack) - 1
      /\ \A n \in 1 .. Len(stack) - 1 : Below[n] = stack[n]
  BY <1>1 DEF Below
<1>4. Below = <<>> <=> Len(Below) = 0
  BY <1>3
<1> QED BY <1>1, <1>2, <1>3, <1>4

LEMMA StageTop ==
    ASSUME TypeOK, StackOK, stack # <<>>
    PROVE  /\ Top \in Frames
           /\ FrameOK(Top)
           /\ Subgame(Top.G)
           /\ Len(stack) = 1 => Top.G = All
<1>1. stack \in Seq(Frames)
  BY DEF TypeOK
<1>2. Len(stack) \in Nat \ {0} /\ Top \in Frames
  BY <1>1, StackIs
<1>3. FrameOK(Top)
  BY <1>2 DEF StackOK, Top
<1> QED BY <1>2, <1>3 DEF StackOK, Top, FrameOK

\* The innermost frame goes on, in its subgame.
LEMMA TopGoesOn ==
    ASSUME TypeOK, StackOK, stack # <<>>, arena' = arena,
           NEW f \in Frames, FrameOK(f), f.G = Top.G, stack' = Append(Below, f)
    PROVE  stack' \in Seq(Frames) /\ stack' # <<>> /\ Top' = f /\ StackOK'
<1> DEFINE n == Len(stack)
<1>1. stack \in Seq(Frames)
  BY DEF TypeOK
<1>2. /\ n \in Nat \ {0} /\ Below \in Seq(Frames) /\ Len(Below) = n - 1
      /\ \A i \in 1 .. n - 1 : Below[i] = stack[i]
  BY <1>1, StackIs
<1> HIDE DEF n
<1>3. /\ stack' \in Seq(Frames) /\ Len(stack') = n /\ stack'[n] = f
      /\ \A i \in 1 .. n - 1 : stack'[i] = stack[i]
  BY <1>2
<1>4. stack' # <<>> /\ Top' = f
  BY <1>2, <1>3 DEF Top
<1>5. \A i \in 1 .. Len(stack') : FrameOK(stack'[i])
  BY <1>2, <1>3 DEF StackOK, n
<1>6. \A i \in 1 .. n : stack'[i].G = stack[i].G
  <2> TAKE i \in 1 .. n
  <2>1. i \in 1 .. n - 1 \/ i = n
    BY <1>2
  <2>2. stack'[n].G = stack[n].G
    BY <1>3 DEF Top, n
  <2> QED BY <1>3, <2>1, <2>2
<1>7. \A i \in 1 .. Len(stack') - 1 : Link(stack'[i], stack'[i + 1].G)
  BY <1>2, <1>3, <1>6 DEF StackOK, n
<1>8. stack'[1].G = All
  BY <1>2, <1>6 DEF StackOK
<1>9. All' = All
  BY ArenaStays
<1>10. StackOK'
  BY <1>5, <1>7, <1>8, <1>9, FramesStay DEF StackOK
<1> QED BY <1>3, <1>4, <1>10

\* A frame solves a subgame below it.
LEMMA FramePushed ==
    ASSUME TypeOK, StackOK, stack # <<>>, arena' = arena,
           NEW f \in Frames, FrameOK(f), f.G = Top.G,
           NEW h \in Frames, FrameOK(h), Link(f, h.G), stack' = Below \o <<f, h>>
    PROVE  stack' \in Seq(Frames) /\ stack' # <<>> /\ Top' = h /\ StackOK'
<1> DEFINE n == Len(stack)
<1>1. stack \in Seq(Frames)
  BY DEF TypeOK
<1>2. /\ n \in Nat \ {0} /\ Below \in Seq(Frames) /\ Len(Below) = n - 1
      /\ \A i \in 1 .. n - 1 : Below[i] = stack[i]
  BY <1>1, StackIs
<1> HIDE DEF n
<1>3. /\ stack' \in Seq(Frames) /\ Len(stack') = n + 1 /\ stack'[n] = f /\ stack'[n + 1] = h
      /\ \A i \in 1 .. n - 1 : stack'[i] = stack[i]
  <2> DEFINE t == <<f, h>>
  <2>1. t \in Seq(Frames) /\ Len(t) = 2 /\ t[1] = f /\ t[2] = h
    OBVIOUS
  <2>2. stack' = Below \o t
    OBVIOUS
  <2> HIDE DEF t
  <2>3. stack' \in Seq(Frames) /\ Len(stack') = n + 1
    BY <1>2, <2>1, <2>2
  <2>4. stack'[n] = f
    BY <1>2, <2>1, <2>2
  <2>5. stack'[n + 1] = h
    BY <1>2, <2>1, <2>2
  <2>6. \A i \in 1 .. n - 1 : stack'[i] = Below[i]
    BY <1>2, <2>1, <2>2
  <2> QED BY <1>2, <2>3, <2>4, <2>5, <2>6
<1>4. stack' # <<>> /\ Top' = h
  BY <1>2, <1>3 DEF Top
<1>5. \A i \in 1 .. Len(stack') : FrameOK(stack'[i])
  <2> TAKE i \in 1 .. Len(stack')
  <2>1. i \in 1 .. n - 1 \/ i = n \/ i = n + 1
    BY <1>2, <1>3
  <2>2. CASE i \in 1 .. n - 1
    <3>1. stack'[i] = stack[i] /\ i \in 1 .. n
      BY <1>2, <1>3, <2>2
    <3>2. FrameOK(stack[i])
      BY <3>1 DEF StackOK, n
    <3> QED BY <3>1, <3>2
  <2>3. CASE i = n
    BY <1>3, <2>3
  <2>4. CASE i = n + 1
    BY <1>3, <2>4
  <2> QED BY <2>1, <2>2, <2>3, <2>4
<1>6. \A i \in 1 .. n : stack'[i].G = stack[i].G
  <2> TAKE i \in 1 .. n
  <2>1. i \in 1 .. n - 1 \/ i = n
    BY <1>2
  <2>2. stack'[n].G = stack[n].G
    BY <1>3 DEF Top, n
  <2> QED BY <1>3, <2>1, <2>2
<1>7. \A i \in 1 .. Len(stack') - 1 : Link(stack'[i], stack'[i + 1].G)
  <2> TAKE i \in 1 .. Len(stack') - 1
  <2>1. CASE i = n
    BY <1>3, <2>1
  <2>2. CASE i # n
    <3>1. i \in 1 .. n - 1 /\ i + 1 \in 1 .. n
      BY <1>2, <1>3, <2>2
    <3>2. Link(stack[i], stack[i + 1].G)
      BY <3>1 DEF StackOK, n
    <3> QED BY <1>3, <1>6, <3>1, <3>2
  <2> QED BY <2>1, <2>2
<1>8. stack'[1].G = All
  BY <1>2, <1>6 DEF StackOK
<1>9. All' = All
  BY ArenaStays
<1>10. StackOK'
  BY <1>5, <1>7, <1>8, <1>9, FramesStay DEF StackOK
<1> QED BY <1>3, <1>4, <1>10

\* All that the invariant says of the frames is said of regions they hold.
LEMMA FramesFreed ==
    ASSUME TypeOK, StackOK, stack # <<>>, arena' = arena, stack' = Collect
    PROVE  /\ stack' \in Seq(Frames) /\ stack' # <<>> /\ StackOK'
           /\ Top'.stage = Top.stage /\ Top'.p = Top.p /\ Top'.G = Top.G /\ Top'.U = Top.U
           /\ Top.stage = "attract lost" => Top'.sub = Top.sub
<1> DEFINE n == Len(stack)
<1>1. ArenaOK /\ stack \in Seq(Frames) /\ n \in Nat \ {0} /\ \A i \in 1 .. n : stack[i] \in Frames
  BY Built, StackIs DEF TypeOK
<1>2. /\ Len(stack') = n /\ stack' \in Seq(Frames)
      /\ \A i \in 1 .. n :
             stack'[i] \in Frames /\ KeptIn(stack[i], stack'[i])
  <2>1. CASE Head(modes) = "codes"
    <3>1. stack' = [i \in 1 .. n |-> Collected(stack[i])]
      BY <1>1, <2>1 DEF Collect
    <3>2. \A i \in 1 .. n : Collected(stack[i]) \in Frames /\ KeptIn(stack[i], Collected(stack[i]))
      BY <1>1, CollectedKeeps
    <3>3. \A i \in 1 .. n : stack'[i] = Collected(stack[i])
      BY <3>1
    <3>4. stack' \in Seq(Frames) /\ Len(stack') = n
      BY <1>1, <3>1, <3>2
    <3> QED BY <3>2, <3>3, <3>4
  <2>2. CASE Head(modes) # "codes"
    <3>1. stack' = stack
      BY <2>2 DEF Collect
    <3> QED BY <1>1, <3>1 DEF KeptIn
  <2> QED BY <2>1, <2>2
<1>3. stack' # <<>> /\ Top = stack[n] /\ Top' = stack'[n]
  BY <1>1, <1>2 DEF Top
<1>4. \A i \in 1 .. n : FrameOK(stack[i]) /\ \A j \in 1 .. n - 1 : Link(stack[j], stack[j + 1].G)
  BY DEF StackOK
<1>5. stack[1].G = All
  BY DEF StackOK
<1> HIDE DEF n
<1>6. \A i \in 1 .. n : /\ FrameOK(stack'[i])
                        /\ \A G1 : Link(stack[i], G1) <=> Link(stack'[i], G1)
  <2> TAKE i \in 1 .. n
  <2>1. (FrameOK(stack[i]) <=> FrameOK(stack'[i]))
        /\ \A G1 : Link(stack[i], G1) <=> Link(stack'[i], G1)
    BY <1>1, <1>2, FreedKeeps
  <2> QED BY <1>4, <2>1
<1>7. \A i \in 1 .. n - 1 : Link(stack'[i], stack'[i + 1].G)
  <2> TAKE i \in 1 .. n - 1
  <2>1. i \in 1 .. n /\ i + 1 \in 1 .. n
    BY <1>1
  <2>2. stack'[i + 1].G = stack[i + 1].G
    BY <1>2, <2>1 DEF KeptIn
  <2> QED BY <1>4, <1>6, <2>1, <2>2
<1>8. All' = All /\ stack'[1].G = All
  <2>1. 1 \in 1 .. n
    BY <1>1
  <2>2. stack'[1].G = stack[1].G
    BY <1>2, <2>1 DEF KeptIn
  <2> QED BY <1>5, <2>2, ArenaStays
<1>9. StackOK'
  BY <1>2, <1>6, <1>7, <1>8, FramesStay DEF StackOK
<1>10. n \in 1 .. n
  BY <1>1
<1> QED BY <1>2, <1>3, <1>9, <1>10 DEF KeptIn

-----------------------------------------------------------------------------
(* The steps of the solve.                                                  *)

LEMMA StillTyped ==
    ASSUME TypeOK, pc # "undecided", UNCHANGED still,
           modes' \in Seq(Modes), expired' \in BOOLEAN, stack' \in Seq(Frames),
           pc' \in {"solve", "attract", "return", "decide", "undecided", "unrealizable",
                    "realizable", "won"},
           att' \in Attractors \cup {NoAttractor}, won' \in Results \cup {NoWinner},
           pc' \in {"solve", "attract", "return"} => stack' # <<>>,
           pc' \in {"solve", "attract", "return", "decide"} => modes' # <<>>,
           pc' = "attract" => att' \in Attractors,
           pc' \in {"return", "decide", "won"} => won' \in Results
    PROVE  TypeOK'
<1>1. /\ game' = game /\ arena' = arena /\ at' = at /\ prev' = prev /\ seen' = seen
  BY DEF still
<1>2. /\ V' = V /\ Results' = Results /\ Frames' = Frames /\ Attractors' = Attractors
  BY <1>1, ArenaStays
<1> HIDE DEF Results, Frames, Attractors, V
<1>3. Readable(game)
  BY DEF TypeOK
<1>4. pc' \notin {"play"}
  OBVIOUS
<1> QED BY <1>1, <1>2, <1>3, <1>4 DEF TypeOK

\* A frame that returns shares out its subgame.
LEMMA Returned ==
    ASSUME TypeOK, StackOK, pc # "undecided", stack # <<>>, modes # <<>>,
           NEW w \in Results, Result(Top.G, w), Returns(w), UNCHANGED <<modes, expired, still>>
    PROVE  IInv'
<1> DEFINE n == Len(stack)
<1>1. /\ arena' = arena /\ won' = w /\ stack' = Below /\ att' = NoAttractor
      /\ pc' = IF Below = <<>> THEN "decide" ELSE "return"
  BY DEF Returns, still
<1>2. stack \in Seq(Frames) /\ modes \in Seq(Modes) /\ expired \in BOOLEAN
  BY DEF TypeOK
<1>3. /\ n \in Nat \ {0} /\ Below \in Seq(Frames) /\ Len(Below) = n - 1
      /\ \A i \in 1 .. n - 1 : Below[i] = stack[i]
      /\ Below = <<>> <=> n = 1
      /\ Top = stack[n]
  BY <1>2, StackIs DEF Top
<1>4. /\ \A i \in 1 .. n : FrameOK(stack[i])
      /\ \A i \in 1 .. n - 1 : Link(stack[i], stack[i + 1].G)
      /\ stack[1].G = All
  BY DEF StackOK
<1> HIDE DEF n
<1>5. TypeOK'
  <2>1. pc' \in {"decide", "return"} /\ (pc' = "return" => stack' # <<>>)
    BY <1>1
  <2>2. UNCHANGED still /\ modes' = modes /\ expired' = expired
    OBVIOUS
  <2> QED BY <1>1, <1>2, <1>3, <2>1, <2>2, StillTyped
<1>6. StackOK'
  <2>1. \A i \in 1 .. Len(stack') : FrameOK(stack'[i])
    BY <1>1, <1>3, <1>4
  <2>2. \A i \in 1 .. Len(stack') - 1 : Link(stack'[i], stack'[i + 1].G)
    BY <1>1, <1>3, <1>4
  <2>3. stack' # <<>> => stack'[1].G = All
    BY <1>1, <1>3, <1>4
  <2> QED BY <1>1, <2>1, <2>2, <2>3, ArenaStays, FramesStay DEF StackOK
<1>7. SolveInv'
  <2>1. CASE n = 1
    <3>1. pc' = "decide" /\ Result(All, won')
      BY <1>1, <1>3, <1>4, <2>1
    <3>2. Result(All, won)'
      BY <1>1, <3>1, ArenaStays, FramesStay
    <3> QED BY <3>1, <3>2 DEF SolveInv
  <2>2. CASE n # 1
    <3>1. pc' = "return"
      BY <1>1, <1>3, <2>2
    <3>2. Top' = stack[n - 1]
      BY <1>1, <1>3, <2>2 DEF Top
    <3>3. Joined(w.env, w.sys) = Top.G
      <4>1. Top.G \in Regions /\ w.env \in Regions /\ w.sys \in Regions
        BY <1>2, StackIs, FrameIs, ResultIs
      <4>2. Joined(w.env, w.sys) \in Regions /\ \A i \in V : Joined(w.env, w.sys)[i] = Top.G[i]
        <5>1. \A i \in V : w.env[i] \cup w.sys[i] = Top.G[i]
          BY DEF Result
        <5>2. /\ Joined(w.env, w.sys) \in Regions
              /\ \A i \in V : Joined(w.env, w.sys)[i] = w.env[i] \cup w.sys[i]
          BY <4>1, WithoutIs
        <5> QED BY <5>1, <5>2
      <4> QED BY <4>1, <4>2 DEF Regions
    <3>4. Link(stack[n - 1], Top.G)
      <4>1. n - 1 \in 1 .. n - 1 /\ n - 1 + 1 = n
        BY <1>3, <2>2
      <4> QED BY <1>3, <1>4, <4>1
    <3>5. (Link(Top, Joined(won.env, won.sys)) /\ Result(Joined(won.env, won.sys), won))'
      BY <1>1, <3>2, <3>3, <3>4, RegionsStay, FramesStay
    <3> QED BY <3>1, <3>5 DEF SolveInv
  <2> QED BY <2>1, <2>2
<1>8. NothingMissed' /\ PlayInv'
  BY <1>1 DEF NothingMissed, PlayInv
<1> QED BY <1>5, <1>6, <1>7, <1>8 DEF IInv

\* A solve that gives up starts over, or ends undecided.
LEMMA Failed ==
    ASSUME TypeOK, pc \in {"attract", "decide"}, modes # <<>>, Fails, UNCHANGED still,
           expired' \in BOOLEAN
    PROVE  IInv'
<1>1. /\ arena' = arena /\ modes' = Tail(modes) /\ att' = NoAttractor /\ won' = won
      /\ stack' = IF Len(modes) = 1 THEN <<>> ELSE <<Frame(All)>>
      /\ pc' = IF Len(modes) = 1 THEN "undecided" ELSE "solve"
  BY DEF Fails, still
<1>2. ArenaOK /\ modes \in Seq(Modes) /\ won \in Results \cup {NoWinner}
  BY Built DEF TypeOK
<1> DEFINE F == Frame(All)
<1>3. F \in Frames /\ F.stage = "enter" /\ F.G = All /\ FrameOK(F)
  BY <1>2, AllSubgame, JunkFrame DEF FrameOK
<1> HIDE DEF F
<1>4. modes' \in Seq(Modes) /\ (Len(modes) # 1 => modes' # <<>>)
  <2> HIDE DEF Modes
  <2>1. Len(modes) \in Nat /\ Len(modes) # 0
    BY <1>2
  <2>2. Tail(modes) \in Seq(Modes) /\ Len(Tail(modes)) = Len(modes) - 1
    BY <1>2, <2>1
  <2>3. Len(modes) # 1 => Tail(modes) # <<>>
    <3>1. \A s : s = <<>> => Len(s) = 0
      OBVIOUS
    <3> DEFINE t == Tail(modes)
               n == Len(modes)
    <3>2. t = <<>> => Len(t) = 0
      BY <3>1
    <3>3. n \in Nat /\ n # 0 /\ Len(t) = n - 1
      BY <2>1, <2>2
    <3> HIDE DEF t, n
    <3>4. n # 1 => t # <<>>
      BY <3>2, <3>3
    <3> QED BY <3>4 DEF t, n
  <2>4. modes' = Tail(modes)
    BY <1>1
  <2> QED BY <2>2, <2>3, <2>4
<1>5. stack' \in Seq(Frames) /\ (Len(modes) # 1 => stack' # <<>>)
  BY <1>1, <1>3 DEF F
<1>6. TypeOK'
  <2>1. pc' \in {"undecided", "solve"} /\ (pc' = "solve" => stack' # <<>> /\ modes' # <<>>)
    BY <1>1, <1>4, <1>5
  <2> QED BY <1>1, <1>2, <1>4, <1>5, <2>1, StillTyped
<1>7. StackOK' /\ SolveInv'
  <2>1. CASE Len(modes) = 1
    <3>1. stack' = <<>> /\ pc' = "undecided"
      BY <1>1, <2>1
    <3>2. Len(stack') = 0
      BY <3>1
    <3> QED BY <3>1, <3>2 DEF StackOK, SolveInv
  <2>2. CASE Len(modes) # 1
    <3>1. stack' = <<F>> /\ pc' = "solve"
      BY <1>1, <2>2 DEF F
    <3>2. Len(stack') = 1 /\ stack'[1] = F
      BY <3>1
    <3>3. \A i \in 1 .. 1 : FrameOK(stack'[i])
      BY <1>3, <3>2
    <3>4. StackOK'
      BY <1>1, <1>3, <3>2, <3>3, ArenaStays, FramesStay DEF StackOK
    <3>5. Top' = F
      BY <3>2 DEF Top
    <3>6. SolveInv'
      BY <1>3, <3>1, <3>5 DEF SolveInv
    <3> QED BY <3>4, <3>6
  <2> QED BY <2>1, <2>2
<1>8. NothingMissed' /\ PlayInv'
  BY <1>1 DEF NothingMissed, PlayInv
<1> QED BY <1>6, <1>7, <1>8 DEF IInv

\* An attractor starts with its region, every vertex to be visited.
Fresh(a, p, Y, G, rec) ==
    /\ a \in Attractors
    /\ a.p = p /\ a.Y = Y /\ a.G = G /\ a.record = rec
    /\ a.dirty = V /\ a.next = 1 /\ a.moves = NoMoves
    /\ \A k \in a.dirty : k >= a.next

\* An attractor starts with every vertex marked and nothing recorded.
LEMMA AttractorStarts ==
    ASSUME ArenaOK, NEW p \in {0, 1}, NEW Y \in Regions, NEW G \in Regions, NEW rec \in BOOLEAN
    PROVE  /\ Fresh(Attractor(p, Y, G, rec), p, Y, G, rec)
           /\ Holds(Y, Y, NoMoves, G)
<1> DEFINE a == Attractor(p, Y, G, rec)
<1>1. NoMoves \in Moves
  BY NoMovesIs
<1>2. /\ a \in Attractors
      /\ a.p = p /\ a.Y = Y /\ a.G = G /\ a.record = rec
      /\ a.dirty = V /\ a.next = 1 /\ a.moves = NoMoves
  BY <1>1 DEF Attractor, Attractors
<1>3. \A i \in V : Without(Y, Y)[i] = {}
  BY WithoutIs
<1>4. Into(NoMoves, Y)
  BY NoMovesIs DEF Into
<1>5. Covered(NoMoves, Without(Y, Y)) /\ Keeps(Without(Y, Y), Y, G)
  BY <1>3 DEF Covered, Keeps
<1>6. \A k \in V : k >= 1
  BY DEF ArenaOK
<1> HIDE DEF a
<1>7. Fresh(a, p, Y, G, rec)
  BY <1>2, <1>6 DEF Fresh
<1> QED BY <1>4, <1>5, <1>7 DEF Holds, a

\* What an attractor starts from and keeps to.
LEMMA AttractorRuns ==
    ASSUME TypeOK, StackOK, stack # <<>>, pc # "undecided", modes # <<>>,
           UNCHANGED <<modes, expired, still>>, won' = won, pc' = "attract",
           NEW f \in Frames, FrameOK(f), f.G = Top.G, stack' = Append(Below, f),
           f.stage \in {"attract", "attract lost"},
           NEW p \in {0, 1}, p = IF f.stage = "attract" THEN f.p ELSE 1 - f.p,
           NEW B \in Regions, B = IF f.stage = "attract" THEN f.U ELSE Lost(f, f.sub),
           Free(B), Within(B, f.G),
           f.stage = "attract lost" /\ p = 1 => Closed(B, f.sub.moves, f.G),
           att' = Attractor(p, B, f.G, p = 1)
    PROVE  IInv'
<1>1. ArenaOK
  BY Built
<1>2. stack' \in Seq(Frames) /\ stack' # <<>> /\ Top' = f /\ StackOK'
  BY TopGoesOn DEF still
<1>3. arena' = arena /\ f.G \in Regions
  BY FrameIs DEF still
<1> DEFINE rec == (p = 1)
<1>4. rec \in BOOLEAN
  OBVIOUS
<1> HIDE DEF rec
<1>5. att' = Attractor(p, B, f.G, rec)
  BY DEF rec
<1>6. /\ att' \in Attractors
      /\ att'.p = p /\ att'.Y = B /\ att'.G = f.G /\ att'.record = rec
      /\ att'.dirty = V /\ att'.next = 1 /\ att'.moves = NoMoves
      /\ Holds(B, B, NoMoves, f.G)
      /\ \A k \in att'.dirty : k >= att'.next
  <2>1. Fresh(Attractor(p, B, f.G, rec), p, B, f.G, rec) /\ Holds(B, B, NoMoves, f.G)
    BY <1>1, <1>3, <1>4, AttractorStarts
  <2>2. Fresh(att', p, B, f.G, rec)
    BY <1>5, <2>1
  <2> QED BY <2>1, <2>2 DEF Fresh
<1>7. TypeOK'
  <2>1. modes \in Seq(Modes) /\ expired \in BOOLEAN /\ won \in Results \cup {NoWinner}
    BY DEF TypeOK
  <2> QED BY <1>2, <1>6, <2>1, StillTyped
<1>8. Base' = B
  BY <1>2 DEF Base, Lost
<1>9. AttractorOK'
  <2>1. Within(B, B)
    BY DEF Within
  <2>2. Holds(Base, att.Y, att.moves, att.G)'
    <3>1. Holds(Base', att'.Y, att'.moves, att'.G)
      BY <1>6, <1>8
    <3>2. \A X, Y, m, G : Holds(X, Y, m, G)' <=> Holds(X, Y, m, G)
      BY <1>3, FramesStay
    <3> QED BY <3>1, <3>2
  <2>3. (Free(att.Y) /\ Within(Base, att.Y) /\ Within(att.Y, att.G))'
    BY <1>3, <1>6, <1>8, <2>1, RegionsStay
  <2>4. (Top.stage = "attract lost" /\ att.p = 1 => Closed(Base, Top.sub.moves, att.G))'
    BY <1>2, <1>3, <1>6, <1>8, RegionsStay
  <2>5. att'.record = (att'.p = 1)
    BY <1>6 DEF rec
  <2> QED BY <1>2, <1>6, <2>2, <2>3, <2>4, <2>5 DEF AttractorOK
<1>10. SolveInv' /\ PlayInv'
  BY <1>9 DEF SolveInv, PlayInv
<1>11. NothingMissed'
  <2>1. V' = V
    BY <1>3, ArenaStays
  <2> QED BY <1>6, <2>1 DEF NothingMissed
<1> QED BY <1>2, <1>7, <1>10, <1>11 DEF IInv

\* solve takes the top priority and starts its attractor, or returns at once.
LEMMA EnterSteps ==
    ASSUME IInv, Enter
    PROVE  IInv'
<1>1. /\ TypeOK /\ StackOK /\ pc = "solve" /\ stack # <<>> /\ modes # <<>> /\ ArenaOK
      /\ stack \in Seq(Frames) /\ Top.stage = "enter"
  BY Built DEF IInv, Enter, TypeOK, SolveInv
<1>2. Top \in Frames /\ FrameOK(Top) /\ Subgame(Top.G) /\ Top.G \in Regions
  BY <1>1, StageTop, FrameIs
<1> DEFINE G == Top.G
           top == Highest({arena[i].priority : i \in {k \in V : G[k] # {}}})
           p == top % 2
           U == [i \in V |-> IF arena[i].priority = top THEN G[i] ELSE {}]
<1>3. UNCHANGED <<modes, expired, still>>
  BY DEF Enter
<1>4. CASE Empty(G)
  <2> DEFINE w == [env |-> None, sys |-> None, moves |-> NoMoves]
  <2>1. Returns(w)
    BY <1>4 DEF Enter
  <2>2. \A i \in V : None[i] = G[i]
    BY <1>1, <1>4, NoneIs DEF Empty
  <2>3. w \in Results /\ Result(G, w)
    BY <1>1, <2>2, NoneIs, EnvWins
  <2> HIDE DEF w
  <2> QED BY <1>1, <1>3, <2>1, <2>3, Returned
<1>5. CASE ~Empty(G)
  <2> DEFINE f == [Top EXCEPT !.stage = "attract", !.p = p, !.U = U]
             rec == (p = 1)
  <2>1. stack' = Append(Below, f) /\ att' = Attractor(p, U, G, rec) /\ pc' = "attract" /\ won' = won
    BY <1>5 DEF Enter
  <2>2. p \in {0, 1}
    <3> DEFINE S == {arena[i].priority : i \in {k \in V : G[k] # {}}}
    <3>1. S \subseteq 0 .. MaxColor + 2
      BY <1>1 DEF ArenaOK
    <3>2. S # {}
      BY <1>5 DEF Empty
    <3>3. 0 \in Int /\ MaxColor + 2 \in Int
      BY ConstantsAssumption DEF ConstantsAssumption
    <3> HIDE DEF S
    <3>4. Highest(S) \in S
      BY <3>1, <3>2, <3>3, HighestIn
    <3>5. Highest(S) \in Nat
      <4>1. \A x \in 0 .. MaxColor + 2 : x \in Nat
        BY ConstantsAssumption DEF ConstantsAssumption
      <4> QED BY <3>1, <3>4, <4>1
    <3>6. Highest(S) % 2 \in {0, 1}
      BY <3>5
    <3> QED BY <3>6 DEF S
  <2> HIDE DEF top
  <2>3. U \in Regions /\ \A i \in V : U[i] = G[i] \/ U[i] = {}
    <3>1. \A i \in V : G[i] \in SUBSET Window
      BY <1>2 DEF Regions
    <3> HIDE DEF G
    <3> QED BY <3>1 DEF Regions
  <2> HIDE DEF p, U
  <2>4. Free(U) /\ Within(U, G)
    <3>1. Free(G)
      BY <1>2 DEF Subgame
    <3>2. OutFree({}) /\ InFree({})
      BY DEF OutFree, InFree
    <3>3. ASSUME NEW i \in V PROVE OutFree(U[i]) /\ (Picks(i) = "inputs" => InFree(U[i]))
      <4>1. OutFree(G[i]) /\ (Picks(i) = "inputs" => InFree(G[i]))
        BY <3>1 DEF Free
      <4> QED BY <2>3, <3>2, <4>1
    <3> QED BY <2>3, <3>3 DEF Free, Within
  <2>5. f \in Frames /\ f.stage = "attract" /\ f.p = p /\ f.G = G /\ f.U = U
    BY <1>2, <2>2, <2>3 DEF Frames
  <2> HIDE DEF f
  <2>6. FrameOK(f)
    BY <1>2, <2>4, <2>5 DEF FrameOK
  <2>7. att' = Attractor(p, U, f.G, p = 1)
    BY <2>1, <2>5
  <2> QED BY <1>1, <1>3, <2>1, <2>2, <2>3, <2>4, <2>5, <2>6, <2>7, AttractorRuns
<1> QED BY <1>4, <1>5

\* At work on an attractor.
LEMMA AttractorAt ==
    ASSUME IInv, pc = "attract"
    PROVE  /\ TypeOK /\ StackOK /\ ArenaOK /\ stack # <<>> /\ modes # <<>>
           /\ modes \in Seq(Modes) /\ expired \in BOOLEAN /\ won \in Results \cup {NoWinner}
           /\ att \in Attractors /\ AttractorOK
           /\ Top \in Frames /\ FrameOK(Top) /\ Subgame(Top.G)
           /\ Base \in Regions
           /\ att.dirty \subseteq Nat
<1>1. /\ TypeOK /\ StackOK /\ ArenaOK /\ stack # <<>> /\ modes # <<>>
      /\ modes \in Seq(Modes) /\ expired \in BOOLEAN /\ won \in Results \cup {NoWinner}
      /\ att \in Attractors /\ AttractorOK
  BY Built DEF IInv, TypeOK, SolveInv
<1>2. Top \in Frames /\ FrameOK(Top) /\ Subgame(Top.G)
  BY <1>1, StageTop
<1>3. Base \in Regions
  BY <1>2, FrameIs, ResultIs DEF Base, Lost
<1>4. att.dirty \subseteq Nat
  BY <1>1, AttIs DEF ArenaOK
<1> QED BY <1>1, <1>2, <1>3, <1>4

\* A visit attracts what its vertex gains and marks all that read it.
LEMMA VisitSteps ==
    ASSUME IInv, Visit
    PROVE  IInv'
<1> DEFINE k == Lowest(Waiting)
           a == Added(k)
<1>1. /\ pc = "attract" /\ Waiting # {} /\ stack' = Collect
      /\ UNCHANGED <<modes, pc, won, expired, still>> /\ arena' = arena
  BY DEF Visit, still
<1>2. /\ TypeOK /\ StackOK /\ ArenaOK /\ stack # <<>> /\ modes # <<>>
      /\ modes \in Seq(Modes) /\ expired \in BOOLEAN /\ won \in Results \cup {NoWinner}
      /\ att \in Attractors /\ AttractorOK
      /\ Top \in Frames /\ FrameOK(Top) /\ Subgame(Top.G) /\ Base \in Regions
      /\ att.dirty \subseteq Nat
  BY <1>1, AttractorAt
<1>3. /\ att.p \in {0, 1} /\ att.Y \in Regions /\ att.G \in Regions /\ att.record \in BOOLEAN
      /\ att.moves \in Moves /\ att.dirty \in SUBSET V /\ att.next \in Nat
      /\ att.changed \in BOOLEAN /\ att.round \in Nat
  BY <1>2, AttIs
<1>4. /\ k \in att.dirty /\ k >= att.next /\ k \in V /\ k \in Nat
      /\ \A h \in att.dirty : h >= att.next => k <= h
  <2>1. Waiting \subseteq Nat
    BY <1>2 DEF Waiting
  <2>2. k \in Waiting /\ \A h \in Waiting : k <= h
    BY <1>1, <2>1, LowestIn
  <2> HIDE DEF k
  <2> QED BY <1>2, <1>3, <2>2 DEF Waiting
<1>5. /\ att.G = Top.G /\ Free(att.Y) /\ Free(att.G) /\ Within(att.Y, att.G)
      /\ Within(Base, att.Y)
  BY <1>2 DEF AttractorOK, Subgame
<1>6. att' = [att EXCEPT !.Y = Grown(k), !.moves = MovesAdded(k, a),
                         !.dirty = (att.dirty \ {k}) \union Rework(k, a),
                         !.next = k + 1, !.changed = att.changed \/ a # {}]
  BY DEF Visit, Grown, Added
<1> HIDE DEF k
<1>7. /\ a \subseteq Window /\ Grown(k) \in Regions
      /\ \A i \in V : Grown(k)[i] = IF i = k THEN att.Y[k] \cup a ELSE att.Y[i]
      /\ Free(Grown(k)) /\ Within(att.Y, Grown(k)) /\ Within(Grown(k), att.G)
  BY <1>2, <1>4, <1>5, GrownIs
<1>8. MovesAdded(k, a) \in Moves
  BY <1>2, <1>4, <1>7, MovesAddedIs
<1> DEFINE dirty == (att.dirty \ {k}) \union Rework(k, a)
           changed == (att.changed \/ a # {})
<1>9. dirty \in SUBSET V /\ changed \in BOOLEAN
  BY <1>3 DEF Rework, Preds
<1> HIDE DEF a
<1>10. /\ att' \in Attractors /\ att'.p = att.p /\ att'.G = att.G /\ att'.record = att.record
       /\ att'.Y = Grown(k) /\ att'.moves = MovesAdded(k, a)
       /\ att'.dirty = dirty /\ att'.next = k + 1 /\ att'.changed = changed
  <2> HIDE DEF dirty, changed
  <2>1. att' = [att EXCEPT !.Y = Grown(k), !.moves = MovesAdded(k, a),
                           !.dirty = dirty, !.next = k + 1, !.changed = changed]
    BY <1>6 DEF dirty, changed
  <2>2. k + 1 \in Nat
    BY <1>4
  <2> QED BY <1>2, <1>7, <1>8, <1>9, <2>1, <2>2 DEF Attractors
<1>11. /\ stack' \in Seq(Frames) /\ stack' # <<>> /\ StackOK'
       /\ Top'.stage = Top.stage /\ Top'.p = Top.p /\ Top'.G = Top.G /\ Top'.U = Top.U
       /\ Top.stage = "attract lost" => Top'.sub = Top.sub
  BY <1>1, <1>2, FramesFreed
<1>12. TypeOK'
  <2>1. pc' = "attract" /\ modes' = modes /\ expired' = expired /\ won' = won /\ UNCHANGED still
    BY <1>1
  <2> QED BY <1>1, <1>2, <1>10, <1>11, <2>1, StillTyped
<1>13. Base' = Base
  BY <1>2, <1>11 DEF Base, Lost, AttractorOK
<1>14. AttractorOK'
  <2>1. Top'.stage \in {"attract", "attract lost"} /\ att'.G = Top'.G
        /\ att'.p = IF Top'.stage = "attract" THEN Top'.p ELSE 1 - Top'.p
    BY <1>2, <1>10, <1>11 DEF AttractorOK
  <2>2. att'.record = (att'.p = 1)
    BY <1>2, <1>10 DEF AttractorOK
  <2>3. (Free(att.Y) /\ Within(Base, att.Y) /\ Within(att.Y, att.G))'
    <3>1. Within(Base, Grown(k))
      BY <1>5, <1>7 DEF Within
    <3> QED BY <1>1, <1>7, <1>10, <1>13, <3>1, RegionsStay
  <2>4. (att.p = 1 => Holds(Base, att.Y, att.moves, att.G))'
    <3> SUFFICES ASSUME att.p = 1 PROVE Holds(Base, att.Y, att.moves, att.G)'
      BY <1>10
    <3>1. att.record = TRUE /\ Holds(Base, att.Y, att.moves, att.G)
      BY <1>2 DEF AttractorOK
    <3>2. Holds(Base, Grown(k), MovesAdded(k, a), att.G)
      BY <1>2, <1>4, <1>5, <3>1, GrownHolds DEF a
    <3> QED BY <1>1, <1>10, <1>13, <3>2, FramesStay
  <2>5. (Top.stage = "attract lost" /\ att.p = 1 => Closed(Base, Top.sub.moves, att.G))'
    BY <1>1, <1>2, <1>10, <1>11, <1>13, RegionsStay DEF AttractorOK
  <2>6. ~att'.changed => \A h \in att'.dirty : h >= att'.next
    <3> SUFFICES ASSUME ~att'.changed, NEW h \in att'.dirty PROVE h >= att'.next
      OBVIOUS
    <3>1. ~att.changed /\ a = {}
      BY <1>10
    <3>2. h \in att.dirty /\ h # k
      BY <1>10, <3>1 DEF Rework
    <3>3. h >= att.next
      BY <1>2, <3>1, <3>2 DEF AttractorOK
    <3>4. k <= h /\ h \in Nat
      BY <1>2, <1>4, <3>2, <3>3
    <3> QED BY <1>4, <1>10, <3>2, <3>4
  <2> QED BY <2>1, <2>2, <2>3, <2>4, <2>5, <2>6 DEF AttractorOK
<1>15. SolveInv' /\ PlayInv'
  BY <1>1, <1>14 DEF SolveInv, PlayInv
<1>16. NothingMissed'
  <2>1. \A i \in V \ att.dirty : att.G[i] \intersect Pre(att.p, i, att.Y, att.G) \subseteq att.Y[i]
    BY <1>1 DEF IInv, NothingMissed
  <2>2. \A i \in V \ dirty : att.G[i] \intersect Pre(att.p, i, Grown(k), att.G) \subseteq Grown(k)[i]
    BY <1>2, <1>4, <1>5, <2>1, GrownMissesNothing DEF a
  <2> HIDE DEF dirty
  <2>3. V' = V
    BY <1>1, ArenaStays
  <2>4. \A i \in V' \ att'.dirty :
            att'.G[i] \intersect Pre(att'.p, i, att'.Y, att'.G) \subseteq att'.Y[i]
    BY <1>10, <2>2, <2>3
  <2> QED BY <1>1, <2>4, RegionsStay DEF NothingMissed
<1> QED BY <1>11, <1>12, <1>15, <1>16 DEF IInv

\* A round that attracted something is followed by another.
LEMMA NextRoundSteps ==
    ASSUME IInv, NextRound
    PROVE  IInv'
<1>1. /\ pc = "attract" /\ arena' = arena /\ UNCHANGED <<modes, pc, stack, won, expired, still>>
      /\ att' = [att EXCEPT !.next = 1, !.changed = FALSE, !.round = att.round + 1]
  BY DEF NextRound, still
<1>2. /\ TypeOK /\ StackOK /\ ArenaOK /\ stack # <<>> /\ modes # <<>>
      /\ modes \in Seq(Modes) /\ expired \in BOOLEAN /\ won \in Results \cup {NoWinner}
      /\ att \in Attractors /\ AttractorOK
  BY <1>1, AttractorAt
<1>3. /\ att' \in Attractors /\ att'.p = att.p /\ att'.G = att.G /\ att'.record = att.record
      /\ att'.Y = att.Y /\ att'.moves = att.moves /\ att'.dirty = att.dirty
      /\ att'.next = 1
  <2>1. att.round + 1 \in Nat
    BY <1>2, AttIs
  <2>2. att' = [att EXCEPT !.next = 1, !.changed = FALSE, !.round = att.round + 1]
    BY <1>1
  <2> QED BY <1>2, <2>1, <2>2 DEF Attractors
<1>4. stack' = stack /\ Top' = Top /\ Base' = Base
  BY <1>1 DEF Top, Base, Lost
<1>5. TypeOK'
  <2>1. pc' = "attract" /\ modes' = modes /\ expired' = expired /\ won' = won /\ UNCHANGED still
    BY <1>1
  <2>2. stack \in Seq(Frames)
    BY <1>2 DEF TypeOK
  <2> QED BY <1>1, <1>2, <1>3, <1>4, <2>1, <2>2, StillTyped
<1>6. StackOK'
  BY <1>1, <1>2, <1>4, ArenaStays, FramesStay DEF StackOK
<1>7. AttractorOK'
  <2>1. \A h \in att'.dirty : h >= att'.next
    <3>1. \A h \in V : h >= 1
      BY <1>2 DEF ArenaOK
    <3>2. att.dirty \subseteq V
      BY <1>2, AttIs
    <3> QED BY <1>3, <3>1, <3>2
  <2>2. (Free(att.Y) /\ Within(Base, att.Y) /\ Within(att.Y, att.G))'
    BY <1>1, <1>2, <1>3, <1>4, RegionsStay DEF AttractorOK
  <2>3. (att.p = 1 => Holds(Base, att.Y, att.moves, att.G))'
    BY <1>1, <1>2, <1>3, <1>4, FramesStay DEF AttractorOK
  <2>4. (Top.stage = "attract lost" /\ att.p = 1 => Closed(Base, Top.sub.moves, att.G))'
    BY <1>1, <1>2, <1>3, <1>4, RegionsStay DEF AttractorOK
  <2>5. /\ Top'.stage \in {"attract", "attract lost"} /\ att'.G = Top'.G
        /\ att'.p = IF Top'.stage = "attract" THEN Top'.p ELSE 1 - Top'.p
        /\ att'.record = (att'.p = 1)
    BY <1>2, <1>3, <1>4 DEF AttractorOK
  <2> QED BY <2>1, <2>2, <2>3, <2>4, <2>5 DEF AttractorOK
<1>8. SolveInv' /\ PlayInv'
  BY <1>1, <1>7 DEF SolveInv, PlayInv
<1>9. NothingMissed'
  <2>1. V' = V
    BY <1>1, ArenaStays
  <2>2. \A i \in V' \ att'.dirty :
            att'.G[i] \intersect Pre(att'.p, i, att'.Y, att'.G) \subseteq att'.Y[i]
    BY <1>1, <1>3, <2>1 DEF IInv, NothingMissed
  <2> QED BY <1>1, <2>2, RegionsStay DEF NothingMissed
<1> QED BY <1>5, <1>6, <1>8, <1>9 DEF IInv

\* What an attractor leaves of a subgame is one: a window without a move in
\* it would have been attracted.
LEMMA AttractedSteps ==
    ASSUME IInv, Attracted
    PROVE  IInv'
<1> DEFINE Y == att.Y
           G == att.G
           R == Without(G, Y)
           h == Frame(R)
           f == IF Top.stage = "attract"
                THEN [Top EXCEPT !.stage = "sub", !.attracted = att.moves]
                ELSE [Top EXCEPT !.stage = "rest", !.kept = att.moves, !.B = Y]
<1>1. /\ pc = "attract" /\ Waiting = {} /\ ~att.changed /\ arena' = arena
      /\ UNCHANGED <<modes, won, expired, still>>
      /\ stack' = Below \o <<f, h>> /\ att' = NoAttractor /\ pc' = "solve"
  BY DEF Attracted, still
<1>2. /\ TypeOK /\ StackOK /\ ArenaOK /\ stack # <<>> /\ modes # <<>>
      /\ modes \in Seq(Modes) /\ expired \in BOOLEAN /\ won \in Results \cup {NoWinner}
      /\ att \in Attractors /\ AttractorOK
      /\ Top \in Frames /\ FrameOK(Top) /\ Subgame(Top.G) /\ Base \in Regions
  BY <1>1, AttractorAt
<1>3. att.p \in {0, 1} /\ Y \in Regions /\ G \in Regions /\ att.moves \in Moves
  BY <1>2, AttIs
<1>4. /\ Top.stage \in {"attract", "attract lost"} /\ G = Top.G
      /\ att.p = IF Top.stage = "attract" THEN Top.p ELSE 1 - Top.p
      /\ Free(Y) /\ Within(Base, Y) /\ Within(Y, G)
      /\ att.p = 1 => Holds(Base, Y, att.moves, G)
      /\ Top.stage = "attract lost" /\ att.p = 1 => Closed(Base, Top.sub.moves, G)
  BY <1>2 DEF AttractorOK
<1>5. Complete(att.p, Y, G)
  <2>1. att.dirty = {}
    <3>1. \A x \in att.dirty : x >= att.next
      BY <1>1, <1>2 DEF AttractorOK
    <3> QED BY <1>1, <3>1 DEF Waiting
  <2> QED BY <1>1, <2>1 DEF IInv, NothingMissed, Complete
<1> HIDE DEF Y, G
<1>6. Subgame(R)
  BY <1>2, <1>3, <1>4, <1>5, SubgameLeft
<1>7. R \in Regions /\ \A i \in V : R[i] = G[i] \ Y[i]
  BY <1>3, WithoutIs
<1>8. h \in Frames /\ h.stage = "enter" /\ h.G = R
  BY <1>2, <1>7, JunkFrame
<1>9. att.p = 0 => Keeps(R, R, G)
  BY <1>2, <1>3, <1>5, KeepsLeft
<1> HIDE DEF R, h
<1>10. FrameOK(h)
  BY <1>6, <1>8 DEF FrameOK
<1>11. Within(R, G)
  BY <1>7 DEF Within
<1>12. ASSUME Top.stage = "attract"
       PROVE  stack' \in Seq(Frames) /\ stack' # <<>> /\ Top' = h /\ StackOK'
  <2>1. Base = Top.U /\ att.p = Top.p
    BY <1>4, <1>12 DEF Base
  <2>2. /\ f \in Frames /\ f.stage = "sub" /\ f.G = G /\ f.U = Top.U /\ f.p = Top.p
        /\ f.attracted = att.moves
    <3>1. f = [Top EXCEPT !.stage = "sub", !.attracted = att.moves]
      BY <1>12
    <3> HIDE DEF f
    <3> QED BY <1>2, <1>3, <1>4, <3>1 DEF Frames
  <2> HIDE DEF f
  <2>3. FrameOK(f)
    BY <1>2, <1>4, <1>12, <2>2 DEF FrameOK
  <2>4. \A i \in V : Top.U[i] \intersect R[i] = {}
    BY <1>4, <1>7, <2>1 DEF Within
  <2>5. ASSUME Top.p = 1
        PROVE  Into(att.moves, G) /\ Covered(att.moves, Without(Without(G, R), Top.U))
    <3>1. Into(att.moves, Y) /\ Covered(att.moves, Without(Y, Top.U))
      BY <1>4, <2>1, <2>5 DEF Holds
    <3>2. Into(att.moves, G)
      <4> SUFFICES ASSUME NEW k \in V, Owner(k) = 1, NEW j \in DOMAIN Edges(k)
                   PROVE  att.moves[k][j] \subseteq Move(k, j, G)
        BY DEF Into
      <4>1. att.moves[k][j] \subseteq Move(k, j, Y)
        BY <3>1 DEF Into
      <4>2. Move(k, j, Y) \subseteq Move(k, j, G)
        BY <1>2, <1>4, GrowsWithin
      <4> QED BY <4>1, <4>2
    <3>3. \A i \in V : Without(Without(G, R), Top.U)[i] \subseteq Without(Y, Top.U)[i]
      <4>1. Top.U \in Regions
        BY <1>2, FrameIs
      <4>2. Without(G, R) \in Regions /\ \A i \in V : Without(G, R)[i] = G[i] \ R[i]
        BY <1>3, <1>7, WithoutIs
      <4>3. \A i \in V : Without(Without(G, R), Top.U)[i] = Without(G, R)[i] \ Top.U[i]
        BY <4>1, <4>2, WithoutIs
      <4>4. \A i \in V : Without(Y, Top.U)[i] = Y[i] \ Top.U[i]
        BY <1>3, <4>1, WithoutIs
      <4> QED BY <1>7, <4>2, <4>3, <4>4
    <3>4. Covered(att.moves, Without(Without(G, R), Top.U))
      BY <3>1, <3>3 DEF Covered
    <3> QED BY <3>2, <3>4
  <2>6. Link(f, h.G)
    BY <1>8, <1>9, <1>11, <2>1, <2>2, <2>4, <2>5 DEF Link, SubLink
  <2>7. stack' \in Seq(Frames) /\ stack' # <<>> /\ Top' = h /\ StackOK'
    BY <1>1, <1>2, <1>4, <1>8, <1>10, <2>2, <2>3, <2>6, FramePushed
  <2> QED BY <2>7
<1>13. ASSUME Top.stage = "attract lost"
       PROVE  stack' \in Seq(Frames) /\ stack' # <<>> /\ Top' = h /\ StackOK'
  <2>1. Base = Lost(Top, Top.sub) /\ att.p = 1 - Top.p /\ Top.p \in {0, 1}
    BY <1>2, <1>4, <1>13, FrameIs DEF Base
  <2>2. /\ f \in Frames /\ f.stage = "rest" /\ f.G = G /\ f.U = Top.U /\ f.p = Top.p
        /\ f.kept = att.moves /\ f.B = Y /\ f.sub = Top.sub
    <3>1. f = [Top EXCEPT !.stage = "rest", !.kept = att.moves, !.B = Y]
      BY <1>13
    <3> HIDE DEF f
    <3> QED BY <1>2, <1>3, <1>4, <3>1 DEF Frames
  <2> HIDE DEF f
  <2>3. FrameOK(f)
    BY <1>2, <1>4, <1>13, <2>2 DEF FrameOK
  <2>4. ASSUME Top.p = 0
        PROVE  Closed(Y, AddMoves(Top.sub.moves, att.moves), G)
    <3> DEFINE ms == Top.sub.moves
               m == AddMoves(ms, att.moves)
    <3>1. ms \in Moves
      BY <1>2, FrameIs
    <3> HIDE DEF ms
    <3>2. \A i \in V : Owner(i) = 1 => \A j \in DOMAIN Edges(i) :
              m[i][j] = ms[i][j] \cup att.moves[i][j]
      BY <1>2, <1>3, <3>1, AddMovesIs
    <3> HIDE DEF m
    <3>3. /\ Closed(Base, ms, G) /\ Into(att.moves, Y)
          /\ Covered(att.moves, Without(Y, Base)) /\ Keeps(Without(Y, Base), Y, G)
      <4>1. att.p = 1
        BY <2>1, <2>4
      <4> QED BY <1>4, <1>13, <4>1 DEF Holds, ms
    <3>4. \A i \in V : \A w \in Y[i] : w \in Base[i] \/ w \in Without(Y, Base)[i]
      BY <1>2, <1>3, WithoutIs
    <3>5. Covered(m, Y)
      <4> SUFFICES ASSUME NEW k \in V, Owner(k) = 1, NEW w \in Y[k]
                   PROVE  \E j \in DOMAIN Edges(k), x \in Val : [w EXCEPT !.o = x] \in m[k][j]
        BY DEF Covered
      <4>1. CASE w \in Base[k]
        <5>1. \E j \in DOMAIN Edges(k), x \in Val : [w EXCEPT !.o = x] \in ms[k][j]
          BY <3>3, <4>1 DEF Closed, Covered
        <5> QED BY <3>2, <5>1
      <4>2. CASE w \in Without(Y, Base)[k]
        <5>1. \E j \in DOMAIN Edges(k), x \in Val : [w EXCEPT !.o = x] \in att.moves[k][j]
          BY <3>3, <4>2 DEF Covered
        <5> QED BY <3>2, <5>1
      <4> QED BY <3>4, <4>1, <4>2
    <3>6. Into(m, Y)
      <4> SUFFICES ASSUME NEW k \in V, Owner(k) = 1, NEW j \in DOMAIN Edges(k)
                   PROVE  m[k][j] \subseteq Move(k, j, Y)
        BY DEF Into
      <4>1. ms[k][j] \subseteq Move(k, j, Base) /\ att.moves[k][j] \subseteq Move(k, j, Y)
        BY <3>3 DEF Closed, Into
      <4>2. Move(k, j, Base) \subseteq Move(k, j, Y)
        BY <1>2, <1>4, GrowsWithin
      <4> QED BY <3>2, <4>1, <4>2
    <3>7. Keeps(Y, Y, G)
      <4> SUFFICES ASSUME NEW k \in V, Owner(k) = 0, NEW j \in DOMAIN Edges(k),
                          NEW w \in Y[k] \intersect Edges(k)[j].label
                   PROVE  w \in Y[Edges(k)[j].dst] \/ w \notin G[Edges(k)[j].dst]
        BY DEF Keeps
      <4>1. CASE w \in Base[k]
        <5>1. w \in Base[Edges(k)[j].dst] \/ w \notin G[Edges(k)[j].dst]
          BY <3>3, <4>1 DEF Closed, Keeps
        <5>2. Edges(k)[j].dst \in V
          BY <1>2, EdgeAt
        <5> QED BY <1>4, <5>1, <5>2 DEF Within
      <4>2. CASE w \in Without(Y, Base)[k]
        BY <3>3, <4>2 DEF Keeps
      <4> QED BY <3>4, <4>1, <4>2
    <3> QED BY <3>5, <3>6, <3>7 DEF Closed, m, ms
  <2>5. RestLink(f, R)
    <3>1. R = Without(f.G, f.B)
      BY <2>2 DEF R
    <3>2. f.p = 1 => Keeps(R, R, f.G)
      BY <1>9, <2>1, <2>2
    <3>3. f.p = 0 => Closed(f.B, AddMoves(f.sub.moves, f.kept), f.G)
      BY <2>2, <2>4
    <3> QED BY <1>4, <2>2, <3>1, <3>2, <3>3 DEF RestLink
  <2>6. Link(f, h.G)
    BY <1>8, <2>2, <2>5 DEF Link
  <2>7. stack' \in Seq(Frames) /\ stack' # <<>> /\ Top' = h /\ StackOK'
    BY <1>1, <1>2, <1>4, <1>8, <1>10, <2>2, <2>3, <2>6, FramePushed
  <2> QED BY <2>7
<1> HIDE DEF f
<1>14. stack' \in Seq(Frames) /\ stack' # <<>> /\ Top' = h /\ StackOK'
  BY <1>4, <1>12, <1>13
<1>15. TypeOK'
  <2>1. pc' = "solve" /\ modes' = modes /\ expired' = expired /\ won' = won /\ UNCHANGED still
    BY <1>1
  <2> QED BY <1>1, <1>2, <1>14, <2>1, StillTyped
<1>16. SolveInv' /\ NothingMissed' /\ PlayInv'
  BY <1>1, <1>8, <1>14 DEF SolveInv, NothingMissed, PlayInv
<1> QED BY <1>14, <1>15, <1>16 DEF IInv

\* A representation is given up: the next one starts with the whole game.
LEMMA GiveUpSteps ==
    ASSUME IInv, GiveUp
    PROVE  IInv'
<1>1. pc = "attract" /\ expired' \in {expired, TRUE} /\ Fails /\ UNCHANGED still
  BY DEF GiveUp
<1>2. TypeOK /\ modes # <<>> /\ expired \in BOOLEAN
  BY <1>1, AttractorAt
<1> QED BY <1>1, <1>2, Failed

LEMMA RoundsSpentSteps ==
    ASSUME IInv, RoundsSpent
    PROVE  IInv'
<1>1. pc = "attract" /\ expired' = expired /\ Fails /\ UNCHANGED still
  BY DEF RoundsSpent
<1>2. TypeOK /\ modes # <<>> /\ expired \in BOOLEAN
  BY <1>1, AttractorAt
<1> QED BY <1>1, <1>2, Failed

\* A subgame has been solved.
LEMMA ReturnAt ==
    ASSUME IInv, pc = "return"
    PROVE  /\ TypeOK /\ StackOK /\ ArenaOK /\ stack # <<>> /\ modes # <<>>
           /\ Top \in Frames /\ FrameOK(Top)
           /\ won \in Results
           /\ Joined(won.env, won.sys) \in Regions
           /\ Link(Top, Joined(won.env, won.sys))
           /\ Result(Joined(won.env, won.sys), won)
<1>1. /\ TypeOK /\ StackOK /\ ArenaOK /\ stack # <<>> /\ modes # <<>> /\ won \in Results
  BY Built DEF IInv, TypeOK
<1>2. Link(Top, Joined(won.env, won.sys)) /\ Result(Joined(won.env, won.sys), won)
  BY DEF IInv, SolveInv
<1>3. Joined(won.env, won.sys) \in Regions
  BY <1>1, ResultIs, WithoutIs
<1> QED BY <1>1, <1>2, <1>3, StageTop

\* The subgame is won whole, or its losses are attracted.
LEMMA SubSolvedSteps ==
    ASSUME IInv, SubSolved
    PROVE  IInv'
<1> DEFINE G1 == Joined(won.env, won.sys)
           B == Lost(Top, won)
<1>1. pc = "return" /\ Top.stage = "sub" /\ UNCHANGED <<modes, expired, still>>
  BY DEF SubSolved
<1>2. /\ TypeOK /\ StackOK /\ ArenaOK /\ stack # <<>> /\ modes # <<>>
      /\ Top \in Frames /\ FrameOK(Top) /\ won \in Results
      /\ G1 \in Regions /\ Link(Top, G1) /\ Result(G1, won)
  BY <1>1, ReturnAt
<1>3. SubLink(Top, G1)
  BY <1>1, <1>2 DEF Link
<1>4. /\ Top.p \in {0, 1} /\ Top.G \in Regions
      /\ won.env \in Regions /\ won.sys \in Regions /\ won.moves \in Moves
  BY <1>2, FrameIs, ResultIs
<1> HIDE DEF G1
<1>5. Free(Top.G) /\ Free(Top.U) /\ Within(Top.U, Top.G)
  BY <1>1, <1>2 DEF FrameOK, Subgame
<1>6. CASE Empty(B)
  <2>1. Returns(WonWhole(Top, won))
    BY <1>6 DEF SubSolved
  <2>2. CASE Top.p = 0
    <3> DEFINE w == [env |-> Top.G, sys |-> None, moves |-> NoMoves]
    <3>1. WonWhole(Top, won) = w
      BY <2>2 DEF WonWhole
    <3>2. w \in Results /\ Result(Top.G, w)
      BY <1>2, <1>4, <1>5, EnvWins
    <3> HIDE DEF w
    <3> QED BY <1>1, <1>2, <2>1, <3>1, <3>2, Returned
  <2>3. CASE Top.p = 1
    <3>1. Empty(won.env)
      BY <1>6, <2>3 DEF Lost
    <3>2. WonWhole(Top, won) \in Results /\ Result(Top.G, WonWhole(Top, won))
      BY <1>1, <1>2, <1>3, <2>3, <3>1, SysWins
    <3> QED BY <1>1, <1>2, <2>1, <3>2, Returned
  <2> QED BY <1>4, <2>2, <2>3
<1>7. CASE ~Empty(B)
  <2> DEFINE f == [Top EXCEPT !.stage = "attract lost", !.sub = won]
             p == 1 - Top.p
  <2>1. /\ stack' = Append(Below, f) /\ att' = Attractor(p, B, Top.G, Top.p = 0)
        /\ pc' = "attract" /\ won' = won
    BY <1>7 DEF SubSolved
  <2>2. /\ f \in Frames /\ f.stage = "attract lost" /\ f.sub = won /\ f.p = Top.p
        /\ f.G = Top.G /\ f.U = Top.U
    BY <1>2 DEF Frames
  <2> HIDE DEF f
  <2>3. p \in {0, 1} /\ p = IF f.stage = "attract" THEN f.p ELSE 1 - f.p
    <3>1. p \in {0, 1}
      BY <1>4
    <3>2. f.stage # "attract" /\ p = 1 - f.p
      BY <2>2
    <3> QED BY <3>1, <3>2
  <2>4. (Top.p = 0) = (p = 1)
    BY <1>4
  <2>5. B \in Regions /\ B = Lost(f, f.sub) /\ Free(B) /\ Within(B, G1)
    <3>1. B \in {won.env, won.sys}
      BY DEF Lost
    <3>2. B = Lost(f, f.sub)
      BY <2>2 DEF Lost
    <3>3. /\ Free(won.env) /\ Free(won.sys)
          /\ \A i \in V : won.env[i] \cup won.sys[i] = G1[i]
      BY <1>2 DEF Result
    <3>4. Within(won.env, G1) /\ Within(won.sys, G1)
      BY <3>3 DEF Within
    <3> HIDE DEF B
    <3> QED BY <1>4, <3>1, <3>2, <3>3, <3>4
  <2>6. Within(B, f.G)
    <3>1. Within(G1, Top.G)
      BY <1>3 DEF SubLink
    <3> HIDE DEF B
    <3> QED BY <2>2, <2>5, <3>1 DEF Within
  <2>7. ASSUME p = 1 PROVE Closed(B, f.sub.moves, f.G)
    <3>1. Top.p = 0
      BY <1>4, <2>7
    <3>2. B = won.sys
      BY <3>1 DEF Lost
    <3>3. Closed(won.sys, won.moves, G1)
      BY <1>2 DEF Result
    <3>4. Keeps(G1, G1, Top.G)
      BY <1>3, <3>1 DEF SubLink
    <3>5. Closed(won.sys, won.moves, Top.G)
      BY <1>2, <2>5, <3>2, <3>3, <3>4, ClosedAbove
    <3> QED BY <2>2, <3>2, <3>5
  <2>8. att' = Attractor(p, B, f.G, p = 1)
    BY <2>1, <2>2, <2>4
  <2>9. FrameOK(f)
    BY <1>1, <1>2, <2>2 DEF FrameOK
  <2> HIDE DEF p, B
  <2> QED BY <1>1, <1>2, <2>1, <2>2, <2>3, <2>5, <2>6, <2>7, <2>8, <2>9, AttractorRuns
<1> QED BY <1>6, <1>7

\* The rest is solved: its strategy and those of the frame make up one share.
LEMMA RestSolvedSteps ==
    ASSUME IInv, RestSolved
    PROVE  IInv'
<1> DEFINE G1 == Joined(won.env, won.sys)
<1>1. pc = "return" /\ Top.stage = "rest" /\ UNCHANGED <<modes, expired, still>>
      /\ Returns(Composed(Top, won))
  BY DEF RestSolved
<1>2. /\ TypeOK /\ StackOK /\ ArenaOK /\ stack # <<>> /\ modes # <<>>
      /\ Top \in Frames /\ FrameOK(Top) /\ won \in Results
      /\ G1 \in Regions /\ Link(Top, G1) /\ Result(G1, won)
  BY <1>1, ReturnAt
<1>3. RestLink(Top, G1)
  BY <1>1, <1>2 DEF Link
<1>4. Composed(Top, won) \in Results /\ Result(Top.G, Composed(Top, won))
  BY <1>2, <1>3, RestWins
<1> QED BY <1>1, <1>2, <1>4, Returned

\* A strategy is handed out only when the initial state has a won window.
LEMMA DecideSteps ==
    ASSUME IInv, Decide
    PROVE  IInv'
<1>1. pc = "decide" /\ expired' = expired /\ UNCHANGED still /\ arena' = arena /\ game' = game
  BY DEF Decide, still
<1>2. /\ TypeOK /\ StackOK /\ modes # <<>> /\ modes \in Seq(Modes) /\ expired \in BOOLEAN
      /\ won \in Results /\ Result(All, won) /\ stack \in Seq(Frames)
      /\ att \in Attractors \cup {NoAttractor}
  BY <1>1 DEF IInv, TypeOK, SolveInv
<1>3. CASE Fails
  BY <1>1, <1>2, <1>3, Failed
<1>4. CASE /\ pc' = IF ~Reached(won.sys[game.init]) THEN "unrealizable"
                    ELSE IF Head(modes) = "closed" THEN "realizable" ELSE "won"
           /\ UNCHANGED <<modes, stack, att, won>>
  <2>1. pc' \in {"unrealizable", "realizable", "won"}
    BY <1>4
  <2>2. modes' = modes /\ stack' = stack /\ att' = att /\ won' = won
    BY <1>4
  <2>3. TypeOK'
    BY <1>1, <1>2, <2>1, <2>2, StillTyped
  <2>4. StackOK'
    BY <1>1, <1>2, <2>2, ArenaStays, FramesStay DEF StackOK
  <2>5. Result(All, won)'
    BY <1>1, <1>2, <2>2, ArenaStays, FramesStay
  <2>6. SolveInv' /\ NothingMissed'
    BY <2>1, <2>5 DEF SolveInv, NothingMissed
  <2>7. PlayInv'
    <3>1. pc' = "won" => won.sys[game.init] # {}
      BY <1>4 DEF Reached
    <3> QED BY <1>1, <2>1, <2>2, <3>1 DEF PlayInv
  <2> QED BY <2>3, <2>4, <2>6, <2>7 DEF IInv
<1> QED BY <1>3, <1>4 DEF Decide

-----------------------------------------------------------------------------
(* The steps of the play.                                                   *)

\* Windows with the same history are alike where the environment picks, and
\* with the same input where the system does.
LEMMA SameHistory ==
    ASSUME ArenaOK, NEW R, Free(R), NEW i \in V, NEW z \in Window, z \in R[i],
           NEW w \in Window, w.o1 = z.o1, Picks(i) = "inputs" \/ w.i = z.i
    PROVE  w \in R[i]
<1>1. PICK a \in Val, b \in Val, c \in Val : z = [i |-> a, o |-> b, o1 |-> c]
  BY DEF Window
<1>2. PICK d \in Val, e \in Val, h \in Val : w = [i |-> d, o |-> e, o1 |-> h]
  BY DEF Window
<1>3. h = c /\ (Picks(i) = "inputs" \/ d = a)
  BY <1>1, <1>2
<1>4. OutFree(R[i]) /\ (Picks(i) = "inputs" => InFree(R[i]))
  BY DEF Free
<1>5. [i |-> a, o |-> e, o1 |-> c] \in R[i]
  <2>1. [z EXCEPT !.o = e] \in R[i]
    BY <1>4 DEF OutFree
  <2>2. [z EXCEPT !.o = e] = [i |-> a, o |-> e, o1 |-> c]
    BY <1>1
  <2> QED BY <2>1, <2>2
<1>6. CASE d = a
  BY <1>2, <1>3, <1>5, <1>6
<1>7. CASE Picks(i) = "inputs"
  <2> DEFINE u == [i |-> a, o |-> e, o1 |-> c]
  <2>1. [u EXCEPT !.i = d] = [i |-> d, o |-> e, o1 |-> c]
    OBVIOUS
  <2>2. u \in R[i]
    BY <1>5
  <2> HIDE DEF u
  <2>3. [u EXCEPT !.i = d] \in R[i]
    BY <1>4, <1>7, <2>2 DEF InFree
  <2> QED BY <1>2, <1>3, <2>1, <2>3
<1> QED BY <1>3, <1>6, <1>7

LEMMA PlayAt ==
    ASSUME IInv, pc = "play"
    PROVE  /\ TypeOK /\ StackOK /\ ArenaOK /\ TurnsOK
           /\ won \in Results /\ Result(All, won)
           /\ Free(won.sys) /\ Closed(won.sys, won.moves, All)
           /\ won.sys \in Regions /\ won.moves \in Moves
           /\ at.vertex \in V /\ at.input \in {<<>>} \cup [1 .. 1 -> Val] /\ prev \in Val
           /\ Follow(at.vertex) = at.vertex
           /\ Picks(at.vertex) = "inputs" =>
                  \A w \in Window : w.o1 = prev => w \in won.sys[at.vertex]
           /\ Picks(at.vertex) = "outputs" =>
                  /\ at.input # <<>>
                  /\ \A w \in Window : w.o1 = prev /\ w.i = at.input[1] => w \in won.sys[at.vertex]
<1>1. TypeOK /\ StackOK /\ ArenaOK /\ TurnsOK
  BY Built DEF IInv
<1>2. won \in Results /\ Result(All, won)
  BY <1>1 DEF IInv, TypeOK, SolveInv
<1>3. at.vertex \in V /\ at.input \in {<<>>} \cup [1 .. 1 -> Val] /\ prev \in Val
  BY <1>1 DEF TypeOK
<1>4. Free(won.sys) /\ Closed(won.sys, won.moves, All)
  BY <1>2 DEF Result
<1>5. won.sys \in Regions /\ won.moves \in Moves
  BY <1>2, ResultIs
<1>6. PlayInv
  BY DEF IInv
<1> QED BY <1>1, <1>2, <1>3, <1>4, <1>5, <1>6 DEF PlayInv

\* Past the vertices nobody picks at, the play stays where the system wins.
LEMMA FollowStays ==
    ASSUME ArenaOK, NEW S, Keeps(S, S, All), NEW x \in V
    PROVE  /\ Follow(x) \in V
           /\ Follow(Follow(x)) = Follow(x)
           /\ \A w \in Window : w \in S[x] => w \in S[Follow(x)]
<1>1. CASE Picks(x) # "none"
  BY <1>1 DEF Follow, Picks
<1>2. CASE Picks(x) = "none"
  <2>1. PassedOK(x) /\ Owner(x) = 0
    <3>1. Owner(x) \in {0, 1} /\ (Owner(x) = 1 => Picks(x) = "outputs") /\ PassedOK(x)
      BY <1>2, ArenaAt
    <3> QED BY <1>2, <3>1
  <2>2. Follow(x) = Edges(x)[1].dst
    BY <1>2 DEF Follow, Picks
  <2>3. 1 \in DOMAIN Edges(x) /\ Edges(x)[1].label = Window
    BY <2>1 DEF PassedOK
  <2>4. Follow(x) \in V
    BY <2>2, <2>3, EdgeAt
  <2>5. Follow(Follow(x)) = Follow(x)
    <3>1. Follow(x) = x \/ Picks(Follow(x)) # "none"
      BY <2>1, <2>2 DEF PassedOK
    <3>2. Picks(Follow(x)) # "none" => Follow(Follow(x)) = Follow(x)
      BY DEF Follow, Picks
    <3> QED BY <3>1, <3>2
  <2>6. ASSUME NEW w \in Window, w \in S[x] PROVE w \in S[Follow(x)]
    <3>1. w \in S[x] \intersect Edges(x)[1].label
      BY <2>3, <2>6
    <3>2. w \in S[Edges(x)[1].dst] \/ w \notin All[Edges(x)[1].dst]
      BY <2>1, <2>3, <3>1 DEF Keeps
    <3>3. w \in All[Edges(x)[1].dst]
      BY <2>2, <2>4 DEF All
    <3> QED BY <2>2, <3>2, <3>3
  <2> QED BY <2>4, <2>5, <2>6
<1> QED BY <1>1, <1>2

\* After the input the system is to move, in windows where it wins, or the play
\* has ended in a sink.
LEMMA InputStays ==
    ASSUME IInv, pc = "play", NEW v \in Val, Tried(v), NEW a \in AfterInput(v)
    PROVE  /\ a.vertex \in V
           /\ Follow(a.vertex) = a.vertex
           /\ Picks(a.vertex) # "inputs"
           /\ \A w \in Window : Picks(a.vertex) = "outputs" /\ w.o1 = prev /\ w.i = v
                  => w \in won.sys[a.vertex]
           /\ a.met \subseteq -1 .. MaxColor + 1
<1> DEFINE S == won.sys
           u == [i |-> v, o |-> prev, o1 |-> prev]
<1>1. /\ ArenaOK /\ TurnsOK /\ Free(S) /\ Keeps(S, S, All)
      /\ at.vertex \in V /\ at.input \in {<<>>} \cup [1 .. 1 -> Val] /\ prev \in Val
      /\ Follow(at.vertex) = at.vertex
      /\ Picks(at.vertex) = "inputs" =>
             \A w \in Window : w.o1 = prev => w \in S[at.vertex]
      /\ Picks(at.vertex) = "outputs" =>
             /\ at.input # <<>>
             /\ \A w \in Window : w.o1 = prev /\ w.i = at.input[1] => w \in S[at.vertex]
  BY PlayAt DEF Closed
<1> HIDE DEF S
<1>2. CASE Picks(at.vertex) # "inputs"
  <2>1. a = [vertex |-> at.vertex, met |-> {}]
    BY <1>2 DEF AfterInput, Picks
  <2>2. a.vertex = at.vertex /\ a.met = {}
    BY <2>1
  <2>3. ASSUME Picks(at.vertex) = "outputs" PROVE at.input[1] = v
    <3>1. at.input = <<v>>
      BY <1>1, <2>3 DEF Tried
    <3> QED BY <3>1
  <2> QED BY <1>1, <1>2, <2>2, <2>3 DEF S
<1>3. CASE Picks(at.vertex) = "inputs"
  <2> DEFINE q == at.vertex
  <2>1. PICK j \in EdgeTaken(q, v) :
            a = [vertex |-> Follow(Edges(q)[j].dst),
                 met |-> {ColorAt(q), ColorAt(Edges(q)[j].dst)}]
    BY <1>3 DEF AfterInput, Picks
  <2> DEFINE d == Edges(q)[j].dst
  <2>2. j \in DOMAIN Edges(q) /\ u \in Edges(q)[j].label
    BY DEF EdgeTaken
  <2>3. d \in V /\ Edges(q)[j].label \subseteq Window
    BY <1>1, <2>2, EdgeAt
  <2>4. u \in Window /\ u.o1 = prev /\ u.i = v
    BY <1>1 DEF Window
  <2> HIDE DEF u
  <2>5. u \in S[d]
    <3>1. u \in S[q] \intersect Edges(q)[j].label
      BY <1>1, <1>3, <2>2, <2>4
    <3>2. Owner(q) = 0
      <4>1. Owner(q) \in {0, 1} /\ (Owner(q) = 1 => Picks(q) = "outputs")
        BY <1>1, ArenaAt
      <4> QED BY <1>3, <4>1
    <3>3. u \in S[d] \/ u \notin All[d]
      BY <1>1, <2>2, <3>1, <3>2 DEF Keeps
    <3>4. u \in All[d]
      BY <2>3, <2>4 DEF All
    <3> QED BY <3>3, <3>4
  <2> HIDE DEF d
  <2>6. Follow(d) \in V /\ Follow(Follow(d)) = Follow(d) /\ u \in S[Follow(d)]
    BY <1>1, <2>3, <2>4, <2>5, FollowStays
  <2>7. Picks(Follow(d)) # "inputs"
    BY <1>1, <1>3, <2>2 DEF TurnsOK, d
  <2>8. a.vertex = Follow(d) /\ a.met = {ColorAt(q), ColorAt(d)}
    BY <2>1 DEF d
  <2>9. \A w \in Window : w.o1 = prev /\ w.i = v => w \in S[Follow(d)]
    BY <1>1, <2>4, <2>6, SameHistory
  <2>10. ColorAt(q) \in -1 .. MaxColor + 1 /\ ColorAt(d) \in -1 .. MaxColor + 1
    BY <1>1, <2>3 DEF ArenaOK
  <2> QED BY <2>6, <2>7, <2>8, <2>9, <2>10 DEF S
<1> QED BY <1>2, <1>3

\* A step of the play leaves the solve alone.
LEMMA PlayGoesOn ==
    ASSUME IInv, pc \in {"won", "play"}, pc' = "play",
           UNCHANGED <<game, arena, modes, stack, att, won, expired>>,
           at'.vertex \in V, at'.input \in {<<>>} \cup [1 .. 1 -> Val],
           at' = [vertex |-> at'.vertex, input |-> at'.input],
           prev' \in Val, seen' \in -1 .. MaxColor + 1, PlayInv'
    PROVE  IInv'
<1>1. /\ game' = game /\ arena' = arena /\ modes' = modes /\ stack' = stack /\ att' = att
      /\ won' = won /\ expired' = expired
  OBVIOUS
<1>2. TypeOK /\ StackOK /\ won \in Results /\ Result(All, won)
  BY DEF IInv, TypeOK, SolveInv
<1>3. /\ V' = V /\ Results' = Results /\ Frames' = Frames /\ Attractors' = Attractors
  BY <1>1, ArenaStays
<1>4. at' \in [vertex : V, input : {<<>>} \cup [1 .. 1 -> Val]]
  OBVIOUS
<1>5. TypeOK'
  <2> HIDE DEF Results, Frames, Attractors, V
  <2> QED BY <1>1, <1>2, <1>3, <1>4 DEF TypeOK
<1>6. StackOK'
  BY <1>1, <1>2, ArenaStays, FramesStay DEF StackOK
<1>7. Result(All, won)'
  BY <1>1, <1>2, ArenaStays, FramesStay
<1>8. SolveInv' /\ NothingMissed'
  BY <1>7 DEF SolveInv, NothingMissed
<1> QED BY <1>5, <1>6, <1>8 DEF IInv

LEMMA PlayStays ==
    ASSUME arena' = arena
    PROVE  \A i : Picks(i)' = Picks(i) /\ Follow(i)' = Follow(i)
BY DEF Picks, Follow, Edges

LEMMA StartSteps ==
    ASSUME IInv, Start
    PROVE  IInv'
<1>1. /\ pc = "won" /\ pc' = "play" /\ arena' = arena /\ game' = game /\ won' = won
      /\ UNCHANGED <<game, arena, modes, stack, att, won, expired>>
      /\ seen' = seen /\ at' = [vertex |-> game.init, input |-> <<>>]
  BY DEF Start
<1>2. PICK z \in won.sys[game.init] : prev' = z.o1
  BY DEF Start
<1>3. /\ TypeOK /\ ArenaOK /\ TurnsOK /\ won \in Results /\ Result(All, won)
      /\ seen \in -1 .. MaxColor + 1
  BY <1>1, Built DEF IInv, TypeOK, SolveInv
<1>4. game.init \in V /\ Picks(game.init) = "inputs"
  BY <1>3 DEF ArenaOK, TurnsOK
<1>5. z \in Window
  BY <1>3, <1>4, ResultIs DEF Regions
<1>6. prev' \in Val
  BY <1>2, <1>5 DEF Window
<1>7. at'.vertex = game.init /\ at'.input = <<>> /\ at' = [vertex |-> at'.vertex, input |-> at'.input]
  BY <1>1
<1>8. Free(won.sys)
  BY <1>3 DEF Result
<1>9. \A w \in Window : w.o1 = prev' => w \in won.sys[game.init]
  BY <1>2, <1>3, <1>4, <1>5, <1>8, SameHistory
<1>10. Follow(game.init) = game.init
  BY <1>4 DEF Follow, Picks
<1>11. PlayInv'
  BY <1>1, <1>4, <1>7, <1>9, <1>10, PlayStays DEF PlayInv
<1> QED BY <1>1, <1>3, <1>4, <1>6, <1>7, <1>11, PlayGoesOn

\* The input keeps the play in a won window, and the outputs chosen lead to one.
LEMMA PlaySteps ==
    ASSUME IInv, NEW v \in Val, NEW x \in Val, Play(v, x)
    PROVE  IInv'
<1> DEFINE w == [i |-> v, o |-> x, o1 |-> prev]
           S == won.sys
<1>1. /\ pc = "play" /\ Tried(v) /\ pc' = "play" /\ prev' = x /\ arena' = arena /\ won' = won
      /\ UNCHANGED <<game, arena, modes, stack, att, won, expired>>
  BY DEF Play
<1>2. PICK a \in AfterInput(v) :
          LET j == Lowest(MovesAt(a.vertex, w))
              dst == IF arena[a.vertex].picks = "none" THEN a.vertex
                     ELSE Edges(a.vertex)[j].dst
          IN /\ arena[a.vertex].picks = "none" \/ MovesAt(a.vertex, w) # {}
             /\ at' = [vertex |-> Follow(dst), input |-> <<>>]
             /\ seen' = Highest(a.met \union {ColorAt(a.vertex), ColorAt(dst), -1})
  BY DEF Play
<1> DEFINE k == a.vertex
           j == Lowest(MovesAt(k, w))
           dst == IF Picks(k) = "none" THEN k ELSE Edges(k)[j].dst
<1>3. /\ Picks(k) = "none" \/ MovesAt(k, w) # {}
      /\ at' = [vertex |-> Follow(dst), input |-> <<>>]
      /\ seen' = Highest(a.met \union {ColorAt(k), ColorAt(dst), -1})
  BY <1>2 DEF Picks
<1>4. /\ k \in V /\ Follow(k) = k /\ Picks(k) # "inputs" /\ a.met \subseteq -1 .. MaxColor + 1
  BY <1>1, InputStays
<1>5. /\ ArenaOK /\ TurnsOK /\ Free(S) /\ Keeps(S, S, All) /\ Into(won.moves, S)
      /\ S \in Regions /\ won.moves \in Moves /\ prev \in Val
  BY <1>1, PlayAt DEF Closed
<1>6. w \in Window /\ w.o = x
  BY <1>5 DEF Window
<1> HIDE DEF w, S, k
<1>7. ASSUME Picks(k) # "none"
      PROVE  /\ Owner(k) = 1 /\ j \in DOMAIN Edges(k) /\ w \in won.moves[k][j]
             /\ Picks(k) = "outputs"
  <2>1. Picks(k) = "outputs" /\ Owner(k) = 1
    <3>1. Picks(k) \in {"inputs", "outputs", "none"}
      BY <1>4, <1>5, PicksAt
    <3>2. Picks(k) = "outputs"
      BY <1>4, <1>7, <3>1
    <3> QED BY <1>4, <1>5, <3>2, ArenaAt
  <2>2. DOMAIN won.moves[k] = DOMAIN Edges(k)
    BY <1>4, <1>5, <2>1, MovesAre
  <2>3. DOMAIN Edges(k) \subseteq Nat
    <3>1. EdgesOK(k)
      BY <1>4, <1>5, ArenaAt
    <3>2. PICK n \in Nat : DOMAIN Edges(k) = 1 .. n
      BY <3>1 DEF EdgesOK
    <3> QED BY <3>2
  <2>4. MovesAt(k, w) \subseteq Nat /\ MovesAt(k, w) # {}
    BY <1>3, <1>7, <2>2, <2>3 DEF MovesAt
  <2>5. j \in MovesAt(k, w)
    BY <2>4, LowestIn
  <2> HIDE DEF j
  <2> QED BY <2>1, <2>2, <2>5 DEF MovesAt
<1>8. dst \in V
  <2>1. CASE Picks(k) = "none"
    BY <1>4, <2>1
  <2>2. CASE Picks(k) # "none"
    BY <1>4, <1>5, <1>7, <2>2, EdgeAt
  <2> QED BY <2>1, <2>2
<1> HIDE DEF dst
<1> DEFINE d == Follow(dst)
<1>9. d \in V /\ Follow(d) = d /\ \A z \in Window : z \in S[dst] => z \in S[d]
  BY <1>5, <1>8, FollowStays
<1>10. seen' \in -1 .. MaxColor + 1
  <2> DEFINE C == a.met \union {ColorAt(k), ColorAt(dst), -1}
  <2>1. ColorAt(k) \in -1 .. MaxColor + 1 /\ ColorAt(dst) \in -1 .. MaxColor + 1
    BY <1>4, <1>5, <1>8 DEF ArenaOK
  <2>2. -1 \in Int /\ MaxColor + 1 \in Int /\ -1 \in -1 .. MaxColor + 1
    BY ConstantsAssumption DEF ConstantsAssumption
  <2>3. C \subseteq -1 .. MaxColor + 1 /\ C # {}
    BY <1>4, <2>1, <2>2
  <2>4. seen' = Highest(C)
    BY <1>3
  <2> HIDE DEF C
  <2>5. Highest(C) \in C
    BY <2>2, <2>3, HighestIn
  <2> QED BY <2>3, <2>4, <2>5
<1>11. at'.vertex = d /\ at'.input = <<>> /\ at' = [vertex |-> at'.vertex, input |-> at'.input]
  BY <1>3
<1> HIDE DEF d
<1>12. CASE Picks(k) = "none"
  <2>1. d = k
    BY <1>4, <1>12 DEF d, dst
  <2>2. PlayInv'
    BY <1>1, <1>4, <1>11, <1>12, <2>1, PlayStays DEF PlayInv
  <2> QED BY <1>1, <1>9, <1>10, <1>11, <2>2, PlayGoesOn
<1>13. CASE Picks(k) # "none"
  <2>1. dst = Edges(k)[j].dst
    BY <1>13 DEF dst
  <2>2. Picks(d) # "outputs"
    BY <1>4, <1>5, <1>7, <1>13, <2>1 DEF TurnsOK, d
  <2>3. PICK z \in S[dst] : z.o1 = x
    <3>1. w \in Move(k, j, S)
      BY <1>4, <1>5, <1>7, <1>13 DEF Into
    <3> QED BY <1>4, <1>5, <1>6, <1>7, <1>13, <2>1, <3>1, MoveIs
  <2>4. z \in Window
    BY <1>5, <1>8 DEF Regions
  <2>5. z \in S[d]
    BY <1>9, <2>4
  <2>6. Picks(d) = "inputs" => \A y \in Window : y.o1 = x => y \in S[d]
    BY <1>5, <1>9, <2>3, <2>4, <2>5, SameHistory
  <2>7. PlayInv'
    BY <1>1, <1>9, <1>11, <2>2, <2>6, PlayStays DEF PlayInv, S
  <2> QED BY <1>1, <1>9, <1>10, <1>11, <2>7, PlayGoesOn
<1> QED BY <1>12, <1>13

\* A failed step leaves the play where it was, its inputs to be tried again.
LEMMA PlayFailsSteps ==
    ASSUME IInv, NEW v \in Val, PlayFails(v)
    PROVE  IInv'
<1>1. /\ pc = "play" /\ Tried(v) /\ pc' = "play" /\ prev' = prev /\ arena' = arena /\ won' = won
      /\ UNCHANGED <<game, arena, modes, stack, att, won, expired>>
  BY DEF PlayFails
<1>2. PICK a \in AfterInput(v) : /\ Picks(a.vertex) = "outputs"
                                 /\ at' = [vertex |-> a.vertex, input |-> <<v>>]
                                 /\ seen' = Highest(a.met \union {-1})
  BY DEF PlayFails, Picks
<1> DEFINE k == a.vertex
<1>3. /\ k \in V /\ Follow(k) = k /\ a.met \subseteq -1 .. MaxColor + 1
      /\ \A w \in Window : w.o1 = prev /\ w.i = v => w \in won.sys[k]
  BY <1>1, <1>2, InputStays
<1>4. prev \in Val
  BY <1>1, PlayAt
<1>5. at'.vertex = k /\ at'.input = <<v>> /\ at' = [vertex |-> at'.vertex, input |-> at'.input]
  BY <1>2
<1>6. <<v>> \in [1 .. 1 -> Val] /\ <<v>> # <<>> /\ <<v>>[1] = v
  OBVIOUS
<1>7. seen' \in -1 .. MaxColor + 1
  <2> DEFINE C == a.met \union {-1}
  <2>1. -1 \in Int /\ MaxColor + 1 \in Int /\ -1 \in -1 .. MaxColor + 1
    BY ConstantsAssumption DEF ConstantsAssumption
  <2>2. C \subseteq -1 .. MaxColor + 1 /\ C # {}
    BY <1>3, <2>1
  <2>3. seen' = Highest(C)
    BY <1>2
  <2> HIDE DEF C
  <2>4. Highest(C) \in C
    BY <2>1, <2>2, HighestIn
  <2> QED BY <2>2, <2>3, <2>4
<1>8. Picks(k) = "outputs"
  BY <1>2
<1> HIDE DEF k
<1> DEFINE input == at'.input
<1>9. input # <<>> /\ input[1] = v /\ input \in [1 .. 1 -> Val]
  BY <1>5, <1>6
<1>10. PlayInv'
  BY <1>1, <1>3, <1>5, <1>8, <1>9, PlayStays DEF PlayInv
<1> QED BY <1>1, <1>3, <1>4, <1>5, <1>7, <1>9, <1>10, PlayGoesOn

-----------------------------------------------------------------------------
(* The invariant.                                                           *)

LEMMA InitHolds ==
    ASSUME Init
    PROVE  IInv
<1>1. /\ game \in Games /\ arena = BuildArena(game) /\ modes \in ModeLists
      /\ att = NoAttractor /\ won = NoWinner /\ expired = FALSE
      /\ at = [vertex |-> game.init, input |-> <<>>] /\ prev \in Val /\ seen = -1
  BY ConstantsAssumption DEF Init, ConstantsAssumption
<1>2. ArenaOK
  BY <1>1, ArenaBuilt
<1> DEFINE F == Frame(All)
<1>3. F \in Frames /\ F.stage = "enter" /\ F.G = All /\ FrameOK(F)
  BY <1>2, AllSubgame, JunkFrame DEF FrameOK
<1> HIDE DEF F
<1>4. \/ pc = "solve" /\ stack = <<F>> /\ Readable(game)
      \/ pc = "undecided" /\ stack = <<>>
  BY DEF Init, F
<1>5. modes \in Seq(Modes) /\ modes # <<>>
  BY <1>1, ConstantsAssumption DEF ConstantsAssumption, Modes
<1>6. TypeOK
  <2>1. at \in [vertex : V, input : {<<>>} \cup [1 .. 1 -> Val]]
    BY <1>1, <1>2 DEF ArenaOK
  <2>2. stack \in Seq(Frames) /\ (pc = "solve" => stack # <<>>)
    <3>1. CASE stack = <<F>>
      BY <1>3, <3>1
    <3>2. CASE pc = "undecided" /\ stack = <<>>
      BY <3>2
    <3> QED BY <1>4, <3>1, <3>2
  <2>3. -1 \in -1 .. MaxColor + 1
    BY ConstantsAssumption DEF ConstantsAssumption
  <2>4. pc \in {"solve", "undecided"} /\ (pc # "undecided" => Readable(game))
    BY <1>4
  <2> QED BY <1>1, <1>5, <2>1, <2>2, <2>3, <2>4 DEF TypeOK
<1>7. StackOK /\ SolveInv
  <2>1. CASE pc = "solve" /\ stack = <<F>>
    <3>1. Len(stack) = 1 /\ stack[1] = F
      BY <2>1
    <3>2. \A i \in 1 .. 1 : FrameOK(stack[i])
      BY <1>3, <3>1
    <3>3. StackOK
      BY <1>3, <3>1, <3>2 DEF StackOK
    <3>4. Top = F
      BY <3>1 DEF Top
    <3> QED BY <1>3, <2>1, <3>3, <3>4 DEF SolveInv
  <2>2. CASE pc = "undecided" /\ stack = <<>>
    <3>1. Len(stack) = 0
      BY <2>2
    <3> QED BY <2>2, <3>1 DEF StackOK, SolveInv
  <2> QED BY <1>4, <2>1, <2>2
<1>8. NothingMissed /\ PlayInv
  BY <1>4 DEF NothingMissed, PlayInv
<1> QED BY <1>6, <1>7, <1>8 DEF IInv

LEMMA StutterSteps ==
    ASSUME IInv, UNCHANGED vars
    PROVE  IInv'
<1>1. /\ game' = game /\ arena' = arena /\ modes' = modes /\ pc' = pc /\ stack' = stack
      /\ att' = att /\ won' = won /\ expired' = expired /\ at' = at /\ prev' = prev /\ seen' = seen
  BY DEF vars
<1>2. TypeOK'
  <2>1. /\ V' = V /\ Results' = Results /\ Frames' = Frames /\ Attractors' = Attractors
    BY <1>1, ArenaStays
  <2> QED BY <1>1, <2>1 DEF IInv, TypeOK
<1>3. StackOK'
  BY <1>1, ArenaStays, FramesStay DEF IInv, StackOK
<1>4. Top' = Top /\ Base' = Base
  BY <1>1 DEF Top, Base, Lost
<1>5. AttractorOK' <=> AttractorOK
  BY <1>1, <1>4, RegionsStay, FramesStay DEF AttractorOK
<1>6. SolveInv'
  BY <1>1, <1>4, <1>5, ArenaStays, RegionsStay, FramesStay DEF IInv, SolveInv
<1>7. NothingMissed'
  <2>1. V' = V
    BY <1>1, ArenaStays
  <2> QED BY <1>1, <2>1, RegionsStay DEF IInv, NothingMissed
<1>8. PlayInv'
  BY <1>1, PlayStays DEF IInv, PlayInv
<1> QED BY <1>2, <1>3, <1>6, <1>7, <1>8 DEF IInv

\* The edges of a vertex of the environment leave no input without a move, and
\* the system has an output in the moves of a vertex it wins.
LEMMA NotBroken ==
    ASSUME IInv, pc = "play", NEW v \in Val, Tried(v)
    PROVE  ~Broken(v)
<1> DEFINE q == at.vertex
           u == [i |-> v, o |-> prev, o1 |-> prev]
<1>1. /\ ArenaOK /\ q \in V /\ prev \in Val /\ Covered(won.moves, won.sys) /\ won.moves \in Moves
  BY PlayAt DEF Closed
<1>2. AfterInput(v) # {}
  <2>1. CASE Picks(q) # "inputs"
    BY <2>1 DEF AfterInput, Picks
  <2>2. CASE Picks(q) = "inputs"
    <3> DEFINE T == {j \in DOMAIN Edges(q) : u \in Edges(q)[j].label}
    <3>1. u \in Window
      BY <1>1 DEF Window
    <3>2. EdgesOK(q)
      BY <1>1, ArenaAt
    <3> HIDE DEF u
    <3>3. T # {} /\ T \subseteq Nat
      BY <3>1, <3>2 DEF EdgesOK
    <3>4. PICK j \in T : \A m \in T : j <= m
      <4> HIDE DEF T
      <4> QED BY <3>3, Smallest
    <3>5. \A h \in 1 .. j - 1 : u \notin Edges(q)[h].label
      <4> SUFFICES ASSUME NEW h \in 1 .. j - 1 PROVE u \notin Edges(q)[h].label
        OBVIOUS
      <4>1. j \in Nat /\ ~(j <= h)
        BY <3>3
      <4>2. h \notin T
        BY <3>4, <4>1
      <4>3. h \in DOMAIN Edges(q)
        BY <3>2, <4>1 DEF EdgesOK
      <4> QED BY <4>2, <4>3
    <3>6. j \in EdgeTaken(q, v)
      BY <3>4, <3>5 DEF EdgeTaken, u
    <3> QED BY <2>2, <3>6 DEF AfterInput, Picks
  <2> QED BY <2>1, <2>2
<1>3. ASSUME NEW a \in AfterInput(v), Picks(a.vertex) = "outputs"
      PROVE  \E x \in Val : MovesAt(a.vertex, [i |-> v, o |-> x, o1 |-> prev]) # {}
  <2> DEFINE k == a.vertex
  <2>1. k \in V /\ \A w \in Window : w.o1 = prev /\ w.i = v => w \in won.sys[k]
    BY <1>3, InputStays
  <2>2. Owner(k) = 1
    BY <1>1, <1>3, <2>1, ArenaAt
  <2>3. u \in Window /\ u.o1 = prev /\ u.i = v
    BY <1>1 DEF Window
  <2>4. \A x : [u EXCEPT !.o = x] = [i |-> v, o |-> x, o1 |-> prev]
    OBVIOUS
  <2> HIDE DEF u
  <2>5. u \in won.sys[k]
    BY <2>1, <2>3
  <2> HIDE DEF k
  <2>6. PICK j \in DOMAIN Edges(k), x \in Val : [u EXCEPT !.o = x] \in won.moves[k][j]
    BY <1>1, <2>1, <2>2, <2>5 DEF Covered
  <2>7. DOMAIN won.moves[k] = DOMAIN Edges(k)
    BY <1>1, <2>1, <2>2, MovesAre
  <2>8. j \in MovesAt(k, [i |-> v, o |-> x, o1 |-> prev])
    BY <2>4, <2>6, <2>7 DEF MovesAt
  <2> QED BY <2>8 DEF k
<1> QED BY <1>2, <1>3 DEF Broken, Picks

LEMMA IInvSteps ==
    ASSUME IInv, [Next]_vars
    PROVE  IInv'
<1>1. CASE Solve
  BY <1>1, EnterSteps, VisitSteps, GiveUpSteps, NextRoundSteps, RoundsSpentSteps,
     AttractedSteps, SubSolvedSteps, RestSolvedSteps, DecideSteps DEF Solve
<1>2. CASE Start
  BY <1>2, StartSteps
<1>3. CASE \E v \in Val, x \in Val : Play(v, x)
  BY <1>3, PlaySteps
<1>4. CASE \E v \in Val : PlayFails(v)
  BY <1>4, PlayFailsSteps
<1>5. CASE UNCHANGED vars
  BY <1>5, StutterSteps
<1> QED BY <1>1, <1>2, <1>3, <1>4, <1>5 DEF Next

(***************************************************************************)
(* The inductive invariant of solve_data_game_once and of the play of its  *)
(* strategy: whatever is solved, given up, collected or played.            *)
(***************************************************************************)
THEOREM InvariantHolds == Spec => []IInv
<1>1. Init => IInv
  BY InitHolds
<1>2. IInv /\ [Next]_vars => IInv'
  BY IInvSteps
<1> QED BY <1>1, <1>2, PTL DEF Spec

(***************************************************************************)
(* The solve and the play stay typed: every region is one of windows,      *)
(* every recorded move one of an edge of the system, and there is a frame  *)
(* and a representation to try as long as the game is solved.              *)
(***************************************************************************)
THEOREM TypeCorrect == Spec => []TypeOK
<1>1. IInv => TypeOK
  BY DEF IInv
<1> QED BY <1>1, InvariantHolds, PTL

(***************************************************************************)
(* The worklist of the attractor (data_game_solver::attractor) never drops *)
(* a vertex that would gain something: whatever the game, the data,        *)
(* the number of rounds and what the BDD frees meanwhile.                  *)
(***************************************************************************)
THEOREM AttractorMissesNothing == Spec => []NothingMissed
<1>1. IInv => NothingMissed
  BY DEF IInv
<1> QED BY <1>1, InvariantHolds, PTL

(***************************************************************************)
(* The strategy of a game that is won never finds an input without an edge *)
(* or a vertex without outputs in its moves, whatever the inputs, and      *)
(* however often a step fails and is tried again.                          *)
(***************************************************************************)
THEOREM StrategyNeverBreaks == Spec => []NeverBroken
<1>1. IInv => NeverBroken
  BY NotBroken DEF NeverBroken
<1> QED BY <1>1, InvariantHolds, PTL
=============================================================================
