------------------------------ MODULE DataGame ------------------------------
(***************************************************************************)
(* The data game (ltl_aba_data_game.tmpl.h): a parity game between the     *)
(* environment, which picks the input of a step, and the system, which     *)
(* then picks its output, whose edges are guarded by what the data         *)
(* satisfies.  The module builds the arena, decides it by the solver's     *)
(* recursion, kept here as an explicit stack of its frames, one attractor  *)
(* step at a time, and plays the recorded strategy.                        *)
(*                                                                         *)
(* One input stream i and one output stream o, read at most one step back. *)
(* A region, a formula or a BDD in the code, is the set of the windows     *)
(* that satisfy it.                                                        *)
(***************************************************************************)
EXTENDS Integers, Sequences, SequencesExt

CONSTANTS
    Val,         \* the values of a stream
    Games,       \* the games, see Readable
    ModeLists,   \* the representations of the regions a solve may try in turn
    MaxRounds,   \* ltl_data_fixpoint_rounds()
    MaxColor     \* the highest colour of the games

ASSUME ConstantsAssumption ==
    /\ Val # {}
    /\ MaxRounds \in Nat
    /\ MaxColor \in Nat
    /\ ModeLists \subseteq Seq({"codes", "formulas", "closed"}) \ {<<>>}

\* Written as a list: TLC then lists every region.
Window == {[i |-> a, o |-> b, o1 |-> c] : a, b, c \in Val}

(***************************************************************************)
(* A game: player[q] is 1 for the system, color[q] the priority of state q *)
(* or -1, trans[q] its edges [guard, next, color].  A guard reads its      *)
(* owner's propositions only: the environment's do not depend on o.        *)
(***************************************************************************)
IsGame(g) ==
    /\ g.player \in Seq({0, 1})
    /\ g.init \in DOMAIN g.player
    /\ g.uncolored \in BOOLEAN
    /\ g.color \in [DOMAIN g.player -> -1 .. MaxColor]
    /\ g.trans \in [DOMAIN g.player ->
                       Seq([guard : SUBSET Window, next : DOMAIN g.player,
                            color : -1 .. MaxColor])]
    /\ \A q \in DOMAIN g.player : g.player[q] = 0 =>
           \A j \in DOMAIN g.trans[q] : \A w \in g.trans[q][j].guard, x \in Val :
               [w EXCEPT !.o = x] \in g.trans[q][j].guard

ASSUME GamesAssumption == \A g \in Games : IsGame(g)

VARIABLES
    game,      \* the game of the skeleton
    arena,     \* its arena
    modes,     \* the representations still to try, the current one first
    pc,        \* what the solve or the play is about to do
    stack,     \* the frames of data_game_solver::solve, the innermost last
    att,       \* the attractor under way
    won,       \* what solve returned last: [env, sys, moves]
    expired,   \* the deadline has passed
    at,        \* the strategy's game vertex
    prev,      \* the output one step before the step to play
    seen       \* history: the highest colour of the last step, or -1

vars == <<game, arena, modes, pc, stack, att, won, expired, at, prev, seen>>

-----------------------------------------------------------------------------
(* The arena. *)

Highest(S) == CHOOSE x \in S : \A y \in S : y <= x

\* The environment moves first, and the players take turns.
Readable(g) ==
    /\ g.player[g.init] = 0
    /\ \A q \in DOMAIN g.player : \A j \in DOMAIN g.trans[q] :
           g.player[g.trans[q][j].next] # g.player[q]

\* Colours sit two above the priority of a run that sees none.
Prio(g, color) ==
    IF color < 0 THEN (IF g.uncolored THEN 1 ELSE 0) ELSE color + 2

\* The coloured targets, numbered in some order.
ColoredTargets(g) ==
    LET edges == UNION {Range(g.trans[q]) : q \in DOMAIN g.player}
    IN SetToSeq({<<e.next, e.color>> : e \in {d \in edges : d.color >= 0}})

SysSink(g) == Len(g.player) + 1
EnvSink(g) == Len(g.player) + 2

Vertex(owner, priority, picks, edges) ==
    [owner |-> owner, priority |-> priority, picks |-> picks, edges |-> edges]

To(label, dst, shift) == [label |-> label, dst |-> dst, shift |-> shift]

\* The vertices nobody picks at have one edge.
Passed(priority, dst) == Vertex(0, priority, "none", <<To(Window, dst, FALSE)>>)

Target(g, e) ==
    IF e.color < 0 THEN e.next
    ELSE LET targets == ColoredTargets(g)
         IN EnvSink(g) + CHOOSE k \in DOMAIN targets : targets[k] = <<e.next, e.color>>

StateVertex(g, q) ==
    LET sys == g.player[q] = 1
        covered == UNION {g.trans[q][j].guard : j \in DOMAIN g.trans[q]}
        edges == [j \in DOMAIN g.trans[q] |->
                     To(g.trans[q][j].guard, Target(g, g.trans[q][j]), sys)]
    IN Vertex(g.player[q], Prio(g, g.color[q]), IF sys THEN "outputs" ELSE "inputs",
              Append(edges, To(Window \ covered,
                               IF sys THEN EnvSink(g) ELSE SysSink(g), sys)))

BuildArena(g) ==
    LET targets == ColoredTargets(g)
    IN [x \in 1 .. EnvSink(g) + Len(targets) |->
           CASE x \in DOMAIN g.player -> StateVertex(g, x)
             [] x = SysSink(g) -> Passed(1, x)
             [] x = EnvSink(g) -> Passed(0, x)
             [] OTHER -> LET target == targets[x - EnvSink(g)]
                         IN Passed(Prio(g, target[2]), target[1])]

V == DOMAIN arena
Owner(i) == arena[i].owner
Edges(i) == arena[i].edges
Preds(k) == {i \in V : \E j \in DOMAIN Edges(i) : Edges(i)[j].dst = k}

-----------------------------------------------------------------------------
(* Regions, one per vertex. *)

None == [i \in V |-> {}]
All  == [i \in V |-> Window]
Empty(X) == \A i \in V : X[i] = {}
Without(X, Y) == [i \in V |-> X[i] \ Y[i]]
Joined(X, Y) == [i \in V |-> X[i] \union Y[i]]

\* A region at the end of an edge: past a move of the system it is the
\* region of the next step, whose value one step back is the output chosen.
Across(e, R) ==
    LET outputs == {x.o1 : x \in R}
    IN IF e.shift THEN {w \in Window : w.o \in outputs} ELSE R

Move(i, j, Y) == Edges(i)[j].label \intersect Across(Edges(i)[j], Y[Edges(i)[j].dst])

\* What the chooser at i may make of a window.
Variants(i, w) ==
    CASE arena[i].picks = "inputs"  -> {[w EXCEPT !.i = v] : v \in Val}
      [] arena[i].picks = "outputs" -> {[w EXCEPT !.o = v] : v \in Val}
      [] OTHER -> {w}

\* The windows from which the chooser at i has a value in body (p's own
\* vertex) or only values in body (the other player's).
Chosen(i, mine, body) ==
    IF mine THEN {w \in Window : Variants(i, w) \intersect body # {}}
    ELSE {w \in Window : Variants(i, w) \subseteq body}

\* The controllable predecessor: some edge (at p's vertex) or every edge (at
\* the other player's) leads into Y, a move of the other player out of the
\* subgame not counting.
Pre(p, i, Y, G) ==
    LET mine == Owner(i) = p
        Escapes(e) == e.label \ Across(e, Y[e.dst] \union (Window \ G[e.dst]))
        body == IF mine THEN UNION {Move(i, j, Y) : j \in DOMAIN Edges(i)}
                ELSE Window \ UNION {Escapes(Edges(i)[j]) : j \in DOMAIN Edges(i)}
    IN Chosen(i, mine, body)

-----------------------------------------------------------------------------
(* The system's moves: per vertex of its own and edge, a region. *)

NoMoves == [i \in V |-> IF Owner(i) = 1 THEN [j \in DOMAIN Edges(i) |-> {}] ELSE <<>>]

AddMoves(m1, m2) ==
    [i \in V |-> [j \in DOMAIN m1[i] |-> m1[i][j] \union m2[i][j]]]

\* The moves of the windows X[i] into Y.
MovesInto(X, Y) ==
    [i \in V |-> IF Owner(i) = 1 /\ X[i] # {}
                 THEN [j \in DOMAIN Edges(i) |-> X[i] \intersect Move(i, j, Y)]
                 ELSE NoMoves[i]]

-----------------------------------------------------------------------------
(* data_game_solver.  A frame of solve names what it holds against the     *)
(* freeing of BDD nodes; what it does not hold may be freed, hence be any  *)
(* region, once the solver asks the BDD for more nodes.                    *)

Junk == All
JunkMoves == [i \in V |-> IF Owner(i) = 1 THEN [j \in DOMAIN Edges(i) |-> Window] ELSE <<>>]
JunkWon == [env |-> Junk, sys |-> Junk, moves |-> JunkMoves]

Frame(G) == [stage |-> "enter", p |-> 0, G |-> G, U |-> Junk, attracted |-> JunkMoves,
             sub |-> JunkWon, kept |-> JunkMoves, B |-> Junk]

\* A frame that does not hold its second attractor.
Held_NotB(f) == {"stage", "p", "G", "U", "attracted", "sub", "kept"}

Held(f) ==
    CASE f.stage \in {"attract", "sub"} -> {"stage", "p", "G", "U", "attracted"}
      [] f.stage = "attract lost"       -> {"stage", "p", "G", "U", "attracted", "sub", "kept"}
      [] OTHER                          -> DOMAIN f

Collected(f) ==
    [x \in DOMAIN f |-> IF x \in Held(f) THEN f[x] ELSE Frame(Junk)[x]]

Collect == IF Head(modes) = "codes"
           THEN [k \in DOMAIN stack |-> Collected(stack[k])] ELSE stack

Top == stack[Len(stack)]
Below == SubSeq(stack, 1, Len(stack) - 1)

Attractor(p, Y, G, record) ==
    [p |-> p, Y |-> Y, G |-> G, record |-> record, moves |-> NoMoves,
     dirty |-> V, next |-> 1, changed |-> FALSE, round |-> 0]
NoAttractor == [p |-> 0, Y |-> <<>>, G |-> <<>>, record |-> FALSE, moves |-> <<>>,
                dirty |-> {}, next |-> 1, changed |-> FALSE, round |-> 0]

Returns(w) ==
    /\ won' = w
    /\ stack' = Below
    /\ att' = NoAttractor
    /\ pc' = IF Below = <<>> THEN "decide" ELSE "return"

\* A solve that gives up leaves the game to the next representation.
Fails ==
    /\ modes' = Tail(modes)
    /\ stack' = IF Len(modes) = 1 THEN <<>> ELSE <<Frame(All)>>
    /\ att' = NoAttractor
    /\ pc' = IF Len(modes) = 1 THEN "undecided" ELSE "solve"
    /\ UNCHANGED won

still == <<game, arena, at, prev, seen>>

Enter ==
    /\ pc = "solve"
    /\ UNCHANGED <<modes, expired, still>>
    /\ LET G == Top.G
           top == Highest({arena[i].priority : i \in {k \in V : G[k] # {}}})
           p == top % 2
           U == [i \in V |-> IF arena[i].priority = top THEN G[i] ELSE {}]
       IN IF Empty(G) THEN Returns([env |-> None, sys |-> None, moves |-> NoMoves])
          ELSE /\ stack' = Append(Below, [Top EXCEPT !.stage = "attract", !.p = p, !.U = U])
               /\ att' = Attractor(p, U, G, p = 1)
               /\ pc' = "attract"
               /\ UNCHANGED won

Waiting == {k \in att.dirty : k >= att.next}
Lowest(S) == CHOOSE x \in S : \A y \in S : x <= y

\* Only the vertex that grew is visited again.
Rework_Self(k, added) == IF added = {} THEN {} ELSE {k}

Rework(k, added) == IF added = {} THEN {} ELSE Preds(k)

\* Any move that stays in the subgame, whatever its rank.
MovesAdded_Staying(k, added) ==
    IF att.record /\ Owner(k) = 1
    THEN [att.moves EXCEPT ![k] =
             [j \in DOMAIN Edges(k) |-> @[j] \union (added \intersect Move(k, j, att.G))]]
    ELSE att.moves

MovesAdded(k, added) ==
    IF att.record /\ Owner(k) = 1
    THEN [att.moves EXCEPT ![k] =
             [j \in DOMAIN Edges(k) |-> @[j] \union (added \intersect Move(k, j, att.Y))]]
    ELSE att.moves

Visit ==
    /\ pc = "attract"
    /\ Waiting # {}
    /\ expired => att.G[Lowest(Waiting)] = {}
    /\ LET k == Lowest(Waiting)
           added == (att.G[k] \intersect Pre(att.p, k, att.Y, att.G)) \ att.Y[k]
       IN att' = [att EXCEPT !.Y[k] = @ \union added,
                             !.moves = MovesAdded(k, added),
                             !.dirty = (@ \ {k}) \union Rework(k, added),
                             !.next = k + 1,
                             !.changed = @ \/ added # {}]
    /\ stack' = Collect
    /\ UNCHANGED <<modes, pc, won, expired, still>>

\* At a vertex the attractor works on: past the deadline, or a question of
\* the representation goes unanswered (no nodes, no elimination, no verdict).
GiveUp ==
    /\ pc = "attract"
    /\ Waiting # {}
    /\ att.G[Lowest(Waiting)] # {}
    /\ expired' \in {expired, TRUE}
    /\ Fails
    /\ UNCHANGED still

Capped == Head(modes) # "codes" /\ MaxRounds > 0 /\ att.round + 1 >= MaxRounds

NextRound ==
    /\ pc = "attract"
    /\ Waiting = {}
    /\ att.changed
    /\ ~Capped
    /\ att' = [att EXCEPT !.next = 1, !.changed = FALSE, !.round = @ + 1]
    /\ UNCHANGED <<modes, pc, stack, won, expired, still>>

RoundsSpent ==
    /\ pc = "attract"
    /\ Waiting = {}
    /\ att.changed
    /\ Capped
    /\ Fails
    /\ UNCHANGED <<expired, still>>

Attracted ==
    /\ pc = "attract"
    /\ Waiting = {}
    /\ ~att.changed
    /\ LET f == IF Top.stage = "attract"
                THEN [Top EXCEPT !.stage = "sub", !.attracted = att.moves]
                ELSE [Top EXCEPT !.stage = "rest", !.kept = att.moves, !.B = att.Y]
       IN stack' = Below \o <<f, Frame(Without(att.G, att.Y))>>
    /\ att' = NoAttractor
    /\ pc' = "solve"
    /\ UNCHANGED <<modes, won, expired, still>>

Lost(f, sub) == IF f.p = 1 THEN sub.env ELSE sub.sys

\* Without the moves of the vertices of the top priority.
WonWhole_NotTop(f, sub) ==
    IF f.p = 0 THEN [env |-> f.G, sys |-> None, moves |-> NoMoves]
    ELSE [env |-> None, sys |-> f.G, moves |-> AddMoves(sub.moves, f.attracted)]

\* The subgame below is won whole by the player of the top priority.
WonWhole(f, sub) ==
    IF f.p = 0 THEN [env |-> f.G, sys |-> None, moves |-> NoMoves]
    ELSE [env |-> None, sys |-> f.G,
          moves |-> AddMoves(AddMoves(sub.moves, f.attracted), MovesInto(f.U, f.G))]

SubSolved ==
    /\ pc = "return"
    /\ Top.stage = "sub"
    /\ IF Empty(Lost(Top, won)) THEN Returns(WonWhole(Top, won))
       ELSE /\ stack' = Append(Below, [Top EXCEPT !.stage = "attract lost", !.sub = won])
            /\ att' = Attractor(1 - Top.p, Lost(Top, won), Top.G, Top.p = 0)
            /\ pc' = "attract"
            /\ UNCHANGED won
    /\ UNCHANGED <<modes, expired, still>>

Composed(f, rest) ==
    IF f.p = 1 THEN [rest EXCEPT !.env = Joined(@, f.B)]
    ELSE [rest EXCEPT !.sys = Joined(@, f.B),
                      !.moves = AddMoves(AddMoves(@, f.sub.moves), f.kept)]

RestSolved ==
    /\ pc = "return"
    /\ Top.stage = "rest"
    /\ Returns(Composed(Top, won))
    /\ UNCHANGED <<modes, expired, still>>

\* The outputs before step 0 are the system's to choose.
Reached(R) == R # {}

Decide ==
    /\ pc = "decide"
    /\ \/ /\ pc' = IF ~Reached(won.sys[game.init]) THEN "unrealizable"
                   ELSE IF Head(modes) = "closed" THEN "realizable" ELSE "won"
          /\ UNCHANGED <<modes, stack, att, won>>
       \/ Fails
    /\ UNCHANGED <<expired, still>>

-----------------------------------------------------------------------------
(* data_game_strategy: the play of the recorded moves. *)

\* Past the vertices nobody picks at: a coloured one leads to a state.
Follow(x) ==
    IF arena[x].picks = "none" THEN Edges(x)[1].dst ELSE x

ColorAt(x) ==
    LET g == game IN
    IF x <= Len(g.player) THEN g.color[x]
    ELSE IF x = SysSink(g) THEN 1 ELSE IF x = EnvSink(g) THEN 0
    ELSE ColoredTargets(g)[x - EnvSink(g)][2]

Start ==
    /\ pc = "won"
    /\ \E w \in won.sys[game.init] : prev' = w.o1
    /\ pc' = "play"
    /\ at' = [vertex |-> game.init, input |-> <<>>]
    /\ UNCHANGED <<game, arena, modes, stack, att, won, expired, seen>>

\* The first edge whose label the input meets.
EdgeTaken(i, v) ==
    {j \in DOMAIN Edges(i) :
        /\ [i |-> v, o |-> prev, o1 |-> prev] \in Edges(i)[j].label
        /\ \A h \in 1 .. j - 1 : [i |-> v, o |-> prev, o1 |-> prev] \notin Edges(i)[h].label}

\* The vertex after the input, and the colours met on the way: a step tried
\* before is at its system vertex already, its input in memory.
AfterInput(v) ==
    IF arena[at.vertex].picks # "inputs"
    THEN {[vertex |-> at.vertex, met |-> {}]}
    ELSE {[vertex |-> Follow(Edges(at.vertex)[j].dst),
           met |-> {ColorAt(at.vertex), ColorAt(Edges(at.vertex)[j].dst)}] :
              j \in EdgeTaken(at.vertex, v)}

MovesAt(i, w) == {j \in DOMAIN won.moves[i] : w \in won.moves[i][j]}

\* A step that failed is repeated with its inputs, which memory keeps: a
\* caller that gives others is left out.
Tried(v) == at.input \in {<<>>, <<v>>}

Play(v, x) ==
    /\ pc = "play"
    /\ Tried(v)
    /\ \E a \in AfterInput(v) :
         LET w == [i |-> v, o |-> x, o1 |-> prev]
             j == Lowest(MovesAt(a.vertex, w))
             dst == IF arena[a.vertex].picks = "none" THEN a.vertex
                    ELSE Edges(a.vertex)[j].dst
         IN /\ arena[a.vertex].picks = "none" \/ MovesAt(a.vertex, w) # {}
            /\ at' = [vertex |-> Follow(dst), input |-> <<>>]
            /\ seen' = Highest(a.met \union {ColorAt(a.vertex), ColorAt(dst), -1})
    /\ prev' = x
    /\ UNCHANGED <<game, arena, modes, pc, stack, att, won, expired>>

\* The solver gives no answer: the vertex has moved, the step has not.
PlayFails(v) ==
    /\ pc = "play"
    /\ Tried(v)
    /\ \E a \in AfterInput(v) :
         /\ arena[a.vertex].picks = "outputs"
         /\ at' = [vertex |-> a.vertex, input |-> <<v>>]
         /\ seen' = Highest(a.met \union {-1})
    /\ UNCHANGED <<game, arena, modes, pc, stack, att, won, expired, prev>>

\* No edge for the input, or no outputs in the moves of the vertex.
Broken(v) ==
    \/ AfterInput(v) = {}
    \/ \E a \in AfterInput(v) :
          /\ arena[a.vertex].picks = "outputs"
          /\ \A x \in Val : MovesAt(a.vertex, [i |-> v, o |-> x, o1 |-> prev]) = {}

-----------------------------------------------------------------------------
NoWinner == [env |-> <<>>, sys |-> <<>>, moves |-> <<>>]

Init ==
    /\ game \in Games
    /\ arena = BuildArena(game)
    /\ modes \in ModeLists
    /\ IF Readable(game)
       THEN /\ pc = "solve"
            /\ stack = <<Frame(All)>>
       ELSE /\ pc = "undecided"
            /\ stack = <<>>
    /\ att = NoAttractor
    /\ won = NoWinner
    /\ expired = FALSE
    /\ at = [vertex |-> game.init, input |-> <<>>]
    /\ prev = CHOOSE v \in Val : TRUE
    /\ seen = -1

Solve == Enter \/ Visit \/ GiveUp \/ NextRound \/ RoundsSpent \/ Attracted
             \/ SubSolved \/ RestSolved \/ Decide

Next ==
    \/ Solve
    \/ Start
    \/ \E v \in Val, x \in Val : Play(v, x)
    \/ \E v \in Val : PlayFails(v)

\* A run is a caller that keeps asking: for the next step of the solve, and
\* for the next step of the play.
Spec == Init /\ [][Next]_vars /\ WF_vars(Next)

-----------------------------------------------------------------------------
(* What winning means, on the game itself.  A position of the environment  *)
(* is its state and the output of the step before; against a positional    *)
(* environment the system wins where it can reach a position from which    *)
(* the environment cannot move, or a cycle whose highest colour is odd.    *)

Positions(g) == {q \in DOMAIN g.player : g.player[q] = 0} \X Val

Inputs(g, p) ==
    {y \in Val \X DOMAIN g.trans[p[1]] :
        [i |-> y[1], o |-> p[2], o1 |-> p[2]] \in g.trans[p[1]][y[2]].guard}

Environments(g) ==
    LET Inputs0(p) == IF Inputs(g, p) = {} THEN {<<>>} ELSE Inputs(g, p)
    IN {f \in [Positions(g) -> UNION {Inputs0(p) : p \in Positions(g)}] :
            \A p \in Positions(g) : f[p] \in Inputs0(p)}

\* The steps <<from, highest colour, to>> of the system against env.
StepsAgainst(g, env) ==
    LET Given(p) == g.trans[p[1]][env[p][2]]
        Answers(p) ==
            {y \in Val \X DOMAIN g.trans[Given(p).next] :
                [i |-> env[p][1], o |-> y[1], o1 |-> p[2]]
                    \in g.trans[Given(p).next][y[2]].guard}
        Step(p, y) ==
            LET e == Given(p)
                f == g.trans[e.next][y[2]]
            IN <<p, Highest({g.color[p[1]], e.color, g.color[e.next], f.color}),
                 <<f.next, y[1]>>>>
    IN UNION {{Step(p, y) : y \in Answers(p)} :
                  p \in {q \in Positions(g) : env[q] # <<>>}}

\* The positions from which the steps lead into S.
CanReach(g, steps, S) ==
    LET Into(R, k) == R \union {e[1] : e \in {f \in steps : f[3] \in R}}
    IN FoldLeft(Into, S, [k \in 1 .. Cardinality(Positions(g)) |-> k])

Accepts(g, color) == IF color = -1 THEN g.uncolored ELSE color % 2 = 1

\* The end of a step that closes a cycle under its own colour.
Closing(g, steps) ==
    {e \in steps : Accepts(g, e[2])
                   /\ e[3] \in CanReach(g, {f \in steps : f[2] <= e[2]}, {e[1]})}

WonAgainst(g, env) ==
    LET steps == StepsAgainst(g, env)
    IN CanReach(g, steps, {p \in Positions(g) : env[p] = <<>>}
                              \union {e[1] : e \in Closing(g, steps)})

SystemWins(g) ==
    FoldSet(LAMBDA env, wins : wins \intersect WonAgainst(g, env), Positions(g), Environments(g))

-----------------------------------------------------------------------------
(* Properties. *)

(***************************************************************************)
(* A solve that ends tells who wins from every vertex and history of the   *)
(* environment: the arena, the recursion and its attractors, cut into any  *)
(* number of rounds, are the parity game of the skeleton.                  *)
(***************************************************************************)
RegionsRight ==
    pc = "decide" =>
        LET wins == SystemWins(game)
            Histories(p) == {w \in Window : w.o1 = p[2]}
            Owns(mine, theirs, p) == /\ Histories(p) \subseteq mine[p[1]]
                                     /\ Histories(p) \intersect theirs[p[1]] = {}
        IN \A p \in Positions(game) : IF p \in wins THEN Owns(won.sys, won.env, p)
                                      ELSE Owns(won.env, won.sys, p)

(***************************************************************************)
(* The worklist misses nothing: a vertex that is not to be visited again   *)
(* gains nothing from the regions attracted since its last visit.          *)
(***************************************************************************)
NothingMissed ==
    pc = "attract" =>
        \A k \in V \ att.dirty :
            att.G[k] \intersect Pre(att.p, k, att.Y, att.G) \subseteq att.Y[k]

(***************************************************************************)
(* A strategy of a game that is won never finds itself without an edge for *)
(* the inputs or without outputs in its moves, failed steps that are tried *)
(* again included.                                                         *)
(***************************************************************************)
NeverBroken == pc = "play" => \A v \in Val : Tried(v) => ~Broken(v)

(***************************************************************************)
(* The play of the recorded strategy satisfies the acceptance condition,   *)
(* whatever the inputs: the pieces the solver joins (attractor moves, the  *)
(* moves that stay in a subgame, the strategies below) form one winning    *)
(* strategy.                                                               *)
(***************************************************************************)
Colors == 0 .. MaxColor
Even(c) == c % 2 = 0

PlayAccepted ==
    /\ \A c \in {x \in Colors : Even(x)} :
          []<>(pc = "play" /\ seen = c) =>
              \E d \in {x \in Colors : ~Even(x)} : d > c /\ []<>(seen = d)
    /\ []<>(pc = "play" /\ seen = -1 /\ ~game.uncolored) =>
              \E d \in {x \in Colors : ~Even(x)} : []<>(seen = d)

=============================================================================
