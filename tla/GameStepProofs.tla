--------------------------- MODULE GameStepProofs ---------------------------
(***************************************************************************)
(* What the strategies of a run play, from which values, and what memory   *)
(* holds for them, for any parts of any depths, however often the run is   *)
(* updated, reset, or fails a step.                                        *)
(***************************************************************************)
EXTENDS GameStep, FiniteSetTheorems, SequenceTheorems, TLAPS

AnyStream == Outs \union {"i"}

(* What a step gave and delivered; the values before a part's first step.   *)
Deliveries == UNION {[S -> Int] : S \in SUBSET AnyStream}
Befores    == {<<>>} \union UNION {[S -> [1 .. d -> Int]] : S \in SUBSET AnyStream, d \in Nat}

PartType ==
    [outs : SUBSET Outs, depth : Nat, offset : Nat, ready : BOOLEAN,
     before : Befores, path : Seq(Deliveries), midway : Seq(Int),
     unsolved : BOOLEAN, solvedFor : Nat, lost : SUBSET Outs, refused : BOOLEAN,
     kept : SUBSET Nat]

(* A play that started has a value for each stream and step it looks back.  *)
Fits(p) == p.ready => p.before \in [Streams(p) -> [1 .. p.depth -> Int]]

(* The step in hand, the window of memory and the parts have their types.   *)
ClockType == time \in Nat /\ ftime \in Nat /\ lookback \in Nat /\ tried \in Nat
PartsType ==
    /\ DOMAIN parts \subseteq Nat /\ DOMAIN parts # {} /\ IsFiniteSet(DOMAIN parts)
    /\ parts \in [DOMAIN parts -> PartType]
    /\ \A k \in DOMAIN parts : Fits(parts[k])
MemoryOf(mem) == DOMAIN mem \subseteq AnyStream \X Nat /\ mem \in [DOMAIN mem -> Int]
MemoryType == MemoryOf(memory)
GivenType == given \in Seq(Deliveries)

TypeOK ==
    /\ ClockType
    /\ PartsType
    /\ MemoryType
    /\ GivenType
    /\ composite \in BOOLEAN /\ slipped \in BOOLEAN /\ ownStart \in BOOLEAN

-----------------------------------------------------------------------------
(* The inductive invariant, in the parts the properties need.               *)

(* A part that could not be solved again is known as one.                   *)
SolvedInv == SolvedForItsStart /\ \A k \in DOMAIN parts : parts[k].unsolved => parts[k].refused

(* Each step has its record, and nobody is ahead of the run.                *)
ClockInv ==
    /\ Len(given) = time
    /\ \A k \in DOMAIN parts : parts[k].offset <= time /\ parts[k].kept \subseteq 0 .. time
    /\ \A m \in DOMAIN memory : m[2] <= time

(* Memory has of each step what the step was given and delivered, and none  *)
(* of the outputs of the step in hand.                                      *)
MemoryInv ==
    slipped \/
        /\ \A s \in Outs : <<s, time>> \notin DOMAIN memory
        /\ \A m \in DOMAIN memory :
              m[2] < time /\ m[1] \in DOMAIN given[m[2] + 1]
                  => memory[m] = given[m[2] + 1][m[1]]

(* Only at step 0 does a part choose the values before its start, unless an *)
(* update had to.                                                           *)
ReadyInv == ownStart \/ \A k \in DOMAIN parts : parts[k].ready \/ parts[k].offset = 0

(* A step is recent enough for a part: as far back as it reads, where it    *)
(* starts, or where an update kept it and the window started over.          *)
Reached(p, x, now) ==
    \/ x <= now - p.depth
    \/ x <= p.offset
    \/ \E u \in p.kept : x <= u /\ u < now

(* Memory holds what a part plays, from step a on.                          *)
Holds(p, a) ==
    \A s \in Streams(p), t \in Nat :
        p.offset <= t /\ a <= t /\ t < time => <<s, t>> \in DOMAIN memory

(* The window covers every depth; both it and what is held reach far enough *)
(* back for each part.                                                      *)
WindowInv ==
    \A k \in DOMAIN parts :
        /\ parts[k].depth <= lookback
        /\ Reached(parts[k], ftime - lookback, time + 1)
        /\ \E a \in Int : Holds(parts[k], a) /\ Reached(parts[k], a, time)

USE ConstantsAssumption DEF ConstantsAssumption

-----------------------------------------------------------------------------
(* Least and greatest numbers.                                              *)
LEMMA Smallest ==
    ASSUME NEW T, T \subseteq Nat, T # {}
    PROVE  \E n \in T : \A m \in T : n <= m
<1>1. PICK less : /\ IsWellFoundedOn(less, Nat)
                  /\ \A m, n \in Nat : m < n => <<m, n>> \in less
  <2>1. \A m, n \in Nat : m < n => <<m, n>> \in OpToRel(<, Nat)
    BY DEF OpToRel
  <2> QED BY <2>1, NatLessThanWellFounded, Zenon
<1>2. PICK n \in T : \A m \in T : ~ (<<m, n>> \in less)
  <2>1. IsWellFoundedOn(less, Nat)
    BY <1>1
  <2> QED BY <2>1, WFMin, Zenon
<1>3. \A m \in T : ~(m < n)
  BY <1>1, <1>2
<1> QED BY <1>2, <1>3

LEMMA MinOfNaturals ==
    ASSUME NEW T, T \subseteq Nat, T # {}
    PROVE  Min(T) \in T /\ \A m \in T : Min(T) <= m
BY Smallest DEF Min

LEMMA FinitelyManyBounded ==
    ASSUME NEW n \in Nat, NEW f \in [1 .. n -> Nat]
    PROVE  \E b \in Nat : \A i \in 1 .. n : f[i] <= b
<1> DEFINE Bounded_(j) == \E b \in Nat : \A i \in 1 .. j : f[i] <= b
           Unbounded_ == {j \in Nat : j <= n /\ ~Bounded_(j)}
<1>1. SUFFICES ASSUME ~Bounded_(n) PROVE FALSE
  OBVIOUS
<1>2. n \in Unbounded_ /\ Unbounded_ \subseteq Nat
  BY <1>1
<1>3. PICK j \in Unbounded_ : \A m \in Unbounded_ : j <= m
  <2> HIDE DEF Unbounded_
  <2> QED BY <1>2, Smallest
<1>4. j \in Nat /\ j <= n /\ ~Bounded_(j)
  BY <1>3
<1>5. j # 0
  <2>1. Bounded_(0)
    <3>1. \A i \in 1 .. 0 : f[i] <= 0
      OBVIOUS
    <3> QED BY <3>1
  <2> HIDE DEF Bounded_
  <2> QED BY <1>4, <2>1
<1>6. Bounded_(j - 1)
  <2>1. j - 1 \in Nat /\ j - 1 <= n /\ ~(j <= j - 1)
    BY <1>4, <1>5
  <2> HIDE DEF Bounded_
  <2> QED BY <1>3, <2>1
<1>7. PICK b \in Nat : \A i \in 1 .. j - 1 : f[i] <= b
  BY <1>6
<1>8. j \in 1 .. n /\ f[j] \in Nat
  BY <1>4, <1>5
<1>9. PICK c \in Nat : b <= c /\ f[j] <= c
  <2>1. CASE b <= f[j]
    BY <1>8, <2>1
  <2>2. CASE f[j] <= b
    BY <1>8, <2>2
  <2> QED BY <1>8, <2>1, <2>2
<1>10. ASSUME NEW i \in 1 .. j PROVE f[i] <= c
  <2>1. CASE i = j
    BY <1>9, <2>1
  <2>2. CASE i # j
    <3>1. i \in 1 .. j - 1 /\ i \in 1 .. n
      BY <1>4, <2>2
    <3>2. f[i] \in Nat /\ f[i] <= b
      BY <1>7, <3>1
    <3> QED BY <1>9, <3>2
  <2> QED BY <2>1, <2>2
<1> QED BY <1>4, <1>10

(* A finite set of numbers has a bound, so a least one, which it contains.  *)
LEMMA MaxOfNaturals ==
    ASSUME NEW T, T \subseteq Nat, T # {}, IsFiniteSet(T)
    PROVE  Max(T) \in T /\ \A m \in T : m <= Max(T)
<1>1. PICK n \in Nat : ExistsSurjection(1 .. n, T)
  BY FS_NatSurjection
<1>2. PICK f : f \in Surjection(1 .. n, T)
  BY <1>1 DEF ExistsSurjection
<1>3. f \in [1 .. n -> Nat] /\ \A x \in T : \E i \in 1 .. n : f[i] = x
  BY <1>2 DEF Surjection
<1>4. PICK b \in Nat : \A i \in 1 .. n : f[i] <= b
  BY <1>3, FinitelyManyBounded
<1> DEFINE Bounds == {c \in Nat : \A x \in T : x <= c}
<1>5. Bounds # {} /\ Bounds \subseteq Nat
  <2>1. b \in Bounds
    BY <1>3, <1>4
  <2> QED BY <2>1
<1>6. PICK c \in Bounds : \A d \in Bounds : c <= d
  <2> HIDE DEF Bounds
  <2> QED BY <1>5, Smallest
<1>7. c \in T
  <2> SUFFICES ASSUME c \notin T PROVE FALSE
    OBVIOUS
  <2>1. PICK x \in T : TRUE
    OBVIOUS
  <2>2. c \in Nat /\ c # 0
    BY <1>6, <2>1
  <2>3. ASSUME NEW y \in T PROVE y <= c - 1
    <3>1. y \in Nat /\ y <= c /\ y # c
      BY <1>6
    <3> QED BY <2>2, <3>1
  <2>4. c - 1 \in Bounds /\ ~(c <= c - 1)
    BY <2>2, <2>3
  <2> QED BY <1>6, <2>4
<1>8. \A x \in T : c >= x
  BY <1>6
<1>9. Max(T) \in T /\ \A x \in T : Max(T) >= x
  BY <1>7, <1>8 DEF Max
<1> QED BY <1>9

-----------------------------------------------------------------------------
(* What the operations on parts change.                                     *)
LEMMA DeepestOfAll ==
    ASSUME NEW ps, IsFiniteSet(DOMAIN ps), \A k \in DOMAIN ps : ps[k].depth \in Nat
    PROVE  Deepest(ps) \in Nat /\ \A k \in DOMAIN ps : ps[k].depth <= Deepest(ps)
<1> DEFINE T == {ps[k].depth : k \in DOMAIN ps}
           f == [k \in DOMAIN ps |-> ps[k].depth]
<1>1. f \in Surjection(DOMAIN ps, T)
  BY DEF Surjection
<1>2. IsFiniteSet(T)
  <2> HIDE DEF T, f
  <2> QED BY <1>1, FS_Surjection
<1>3. IsFiniteSet(T \union {0})
  <2> HIDE DEF T
  <2> QED BY <1>2, FS_AddElement
<1>4. T \union {0} \subseteq Nat /\ T \union {0} # {}
  OBVIOUS
<1>5. Max(T \union {0}) \in T \union {0} /\ \A m \in T \union {0} : m <= Max(T \union {0})
  <2> HIDE DEF T
  <2> QED BY <1>3, <1>4, MaxOfNaturals
<1>6. Deepest(ps) = Max(T \union {0})
  BY DEF Deepest
<1>7. \A k \in DOMAIN ps : ps[k].depth \in T \union {0}
  OBVIOUS
<1> HIDE DEF T
<1> QED BY <1>4, <1>5, <1>6, <1>7

LEMMA AddedLast ==
    ASSUME NEW ps, DOMAIN ps \subseteq Nat, IsFiniteSet(DOMAIN ps), NEW p
    PROVE  \E new \in Nat :
               /\ new \notin DOMAIN ps
               /\ DOMAIN Added(ps, p) = DOMAIN ps \union {new}
               /\ Added(ps, p)[new] = p
               /\ \A k \in DOMAIN ps : Added(ps, p)[k] = ps[k]
               /\ IsFiniteSet(DOMAIN Added(ps, p))
<1> DEFINE T == DOMAIN ps \union {0}
           new == Max(T) + 1
<1>1. IsFiniteSet(T) /\ T \subseteq Nat /\ T # {}
  BY FS_AddElement
<1>2. Max(T) \in T /\ \A m \in T : m <= Max(T)
  <2> HIDE DEF T
  <2> QED BY <1>1, MaxOfNaturals
<1>3. new \in Nat /\ new \notin DOMAIN ps
  <2>1. Max(T) \in Nat /\ \A m \in DOMAIN ps : m \in Nat /\ m <= Max(T)
    BY <1>1, <1>2
  <2> HIDE DEF T
  <2> QED BY <2>1
<1>4. Added(ps, p) = [k \in DOMAIN ps \union {new} |-> IF k = new THEN p ELSE ps[k]]
  BY DEF Added
<1>5. IsFiniteSet(DOMAIN ps \union {new})
  BY FS_AddElement
<1> HIDE DEF new
<1> QED BY <1>3, <1>4, <1>5

(* A part that a step moved, or failed at, is the same part.                *)
GoesOn(p, q) ==
    /\ q.outs = p.outs /\ q.depth = p.depth /\ q.offset = p.offset
    /\ q.unsolved = p.unsolved /\ q.solvedFor = p.solvedFor /\ q.refused = p.refused
    /\ q.lost = p.lost /\ q.kept = p.kept
    /\ p.ready => q.ready /\ q.before = p.before

LEMMA SomeBefore ==
    ASSUME NEW S \in SUBSET AnyStream, NEW d \in Nat, NEW b \in [S -> [1 .. d -> Int]]
    PROVE  b \in Befores
<1> DEFINE All == {[SS -> [1 .. dd -> Int]] : SS \in SUBSET AnyStream, dd \in Nat}
<1>1. [S -> [1 .. d -> Int]] \in All
  OBVIOUS
<1>2. Befores = {<<>>} \union UNION All
  BY DEF Befores
<1> HIDE DEF All
<1>3. b \in UNION All
  BY <1>1
<1> QED BY <1>2, <1>3

LEMMA ReadiedGoesOn ==
    ASSUME NEW p \in PartType
    PROVE  /\ Readied(p) \in PartType
           /\ GoesOn(p, Readied(p))
           /\ Fits(p) => Fits(Readied(p))
           /\ Readied(p).ready
           /\ Readied(p).path = p.path /\ Readied(p).midway = p.midway
<1> DEFINE chosen == [s \in Streams(p) |-> [k \in 1 .. p.depth |-> Own]]
<1>1. chosen \in Befores
  <2>1. Streams(p) \in SUBSET AnyStream /\ p.depth \in Nat
    BY DEF Streams, AnyStream, PartType
  <2>2. chosen \in [Streams(p) -> [1 .. p.depth -> Int]]
    BY DEF Own
  <2> HIDE DEF chosen
  <2> QED BY <2>1, <2>2, SomeBefore
<1>2. CASE p.ready
  BY <1>2 DEF Readied, GoesOn
<1>3. CASE ~p.ready
  <2>0. chosen \in [Streams(p) -> [1 .. p.depth -> Int]]
    BY DEF Own
  <2>1. Readied(p) = [p EXCEPT !.ready = TRUE, !.before = chosen]
    BY <1>3 DEF Readied
  <2> HIDE DEF chosen
  <2>2. Readied(p) \in PartType
    BY <1>1, <1>3, <2>1 DEF PartType
  <2>3. GoesOn(p, Readied(p)) /\ Readied(p).before = chosen
    BY <1>3, <2>1 DEF PartType, GoesOn
  <2>4. Fits(Readied(p))
    BY <2>0, <2>3 DEF Fits, GoesOn, Streams
  <2> QED BY <1>1, <1>3, <2>1, <2>2, <2>3, <2>4 DEF PartType
<1> QED BY <1>2, <1>3

Played(p, v) == [s \in Streams(p) |-> IF s = "i" THEN Taken(p, v) ELSE tried]

LEMMA MovedGoesOn ==
    ASSUME NEW p \in PartType, NEW v \in Int, tried \in Nat
    PROVE  /\ Moved(p, v) \in PartType
           /\ GoesOn(p, Moved(p, v))
           /\ Fits(p) => Fits(Moved(p, v))
           /\ Moved(p, v).ready
           /\ Moved(p, v).midway = <<>>
           /\ Moved(p, v).path = Append(p.path, Played(p, v))
           /\ Taken(p, v) \in Int
<1>1. Taken(p, v) \in Int
  BY DEF Taken, PartType
<1>2. Played(p, v) \in Deliveries
  <2>1. Streams(p) \in SUBSET AnyStream
    BY DEF Streams, AnyStream, PartType
  <2>2. Played(p, v) \in [Streams(p) -> Int]
    BY <1>1 DEF Played
  <2> QED BY <2>1, <2>2 DEF Deliveries
<1> DEFINE q == Readied(p)
<1>3. q \in PartType /\ GoesOn(p, q) /\ q.ready /\ q.path = p.path /\ (Fits(p) => Fits(q))
  BY ReadiedGoesOn
<1>4. Moved(p, v) = [q EXCEPT !.midway = <<>>, !.path = Append(q.path, Played(p, v))]
  BY DEF Moved, Played
<1> HIDE DEF q
<1>5. Append(q.path, Played(p, v)) \in Seq(Deliveries)
  BY <1>2, <1>3 DEF PartType
<1>6. <<>> \in Seq(Int)
  OBVIOUS
<1>7. Moved(p, v) \in PartType
  BY <1>3, <1>4, <1>5, <1>6 DEF PartType
<1>8. GoesOn(p, Moved(p, v))
  BY <1>3, <1>4 DEF PartType, GoesOn
<1>9. Moved(p, v).ready /\ Moved(p, v).midway = <<>>
  BY <1>3, <1>4 DEF PartType
<1>10. Moved(p, v).path = Append(p.path, Played(p, v))
  BY <1>3, <1>4 DEF PartType
<1>11. Fits(p) => Fits(Moved(p, v))
  <2>1. Moved(p, v).before = q.before /\ q.depth = p.depth /\ q.outs = p.outs
    BY <1>3, <1>4 DEF PartType, GoesOn
  <2> QED BY <1>3, <1>8, <2>1 DEF Fits, GoesOn, Streams
<1> QED BY <1>1, <1>7, <1>8, <1>9, <1>10, <1>11

LEMMA FailedGoesOn ==
    ASSUME NEW p \in PartType, NEW v \in Int,
           NEW where \in {"start", "reads", "outputs"}
    PROVE  /\ FailedAt(p, v, where) \in PartType
           /\ GoesOn(p, FailedAt(p, v, where))
           /\ Fits(p) => Fits(FailedAt(p, v, where))
           /\ FailedAt(p, v, where).path = p.path
           /\ FailedAt(p, v, where).midway \in {p.midway, <<Taken(p, v)>>}
<1>1. CASE where = "start"
  BY <1>1 DEF FailedAt, GoesOn
<1>2. CASE where = "reads"
  BY <1>2, ReadiedGoesOn DEF FailedAt
<1>3. CASE where = "outputs"
  <2> DEFINE q == Readied(p)
  <2>1. q \in PartType /\ GoesOn(p, q) /\ q.ready /\ q.path = p.path /\ (Fits(p) => Fits(q))
    BY ReadiedGoesOn
  <2>2. FailedAt(p, v, where) = [q EXCEPT !.midway = <<Taken(p, v)>>]
    BY <1>3 DEF FailedAt
  <2>3. <<Taken(p, v)>> \in Seq(Int)
    BY DEF Taken, PartType
  <2> HIDE DEF q
  <2>4. FailedAt(p, v, where) \in PartType /\ FailedAt(p, v, where).before = q.before
    BY <2>1, <2>2, <2>3 DEF PartType
  <2>5. /\ GoesOn(p, FailedAt(p, v, where)) /\ FailedAt(p, v, where).ready
        /\ FailedAt(p, v, where).path = p.path
        /\ FailedAt(p, v, where).midway = <<Taken(p, v)>>
    BY <2>1, <2>2 DEF PartType, GoesOn
  <2>6. Fits(p) => Fits(FailedAt(p, v, where))
    BY <2>1, <2>4, <2>5 DEF Fits, GoesOn, Streams
  <2> QED BY <2>4, <2>5, <2>6
<1> QED BY <1>1, <1>2, <1>3

LEMMA RestartedAtZero ==
    ASSUME NEW p \in PartType, NEW again \in BOOLEAN
    PROVE  LET q == Restarted(p, again)
           IN /\ q \in PartType
              /\ q.outs = p.outs /\ q.depth = p.depth /\ q.offset = 0
              /\ q.path = <<>> /\ q.midway = <<>> /\ ~q.ready
              /\ q.lost = {} /\ q.kept = {}
              /\ q.unsolved = (p.offset > 0 /\ ~again)
              /\ q.solvedFor = (IF p.offset > 0 /\ again THEN 0 ELSE p.solvedFor)
              /\ q.refused = (p.refused \/ (p.offset > 0 /\ ~again))
<1> DEFINE q == Restarted(p, again)
           u == p.offset > 0 /\ ~again
           r == p.refused \/ (p.offset > 0 /\ ~again)
           f == IF p.offset > 0 /\ again THEN 0 ELSE p.solvedFor
<1>1. q = [p EXCEPT !.offset = 0, !.ready = FALSE, !.before = <<>>, !.path = <<>>,
                    !.midway = <<>>, !.unsolved = u, !.solvedFor = f, !.refused = r,
                    !.lost = {}, !.kept = {}]
  BY DEF Restarted
<1>2. u \in BOOLEAN /\ r \in BOOLEAN /\ f \in Nat
  BY DEF PartType
<1>3. <<>> \in Befores
  BY DEF Befores
<1> SUFFICES /\ q \in PartType
              /\ q.outs = p.outs /\ q.depth = p.depth /\ q.offset = 0
              /\ q.path = <<>> /\ q.midway = <<>> /\ ~q.ready
              /\ q.lost = {} /\ q.kept = {}
              /\ q.unsolved = u /\ q.solvedFor = f /\ q.refused = r
  OBVIOUS
<1> HIDE DEF q, u, f, r
<1>4. <<>> \in Seq(Int) /\ <<>> \in Seq(Deliveries)
  OBVIOUS
<1>5. q \in PartType
  BY <1>1, <1>2, <1>3, <1>4 DEF PartType
<1>6. /\ q.outs = p.outs /\ q.depth = p.depth /\ q.offset = 0
      /\ q.path = <<>> /\ q.midway = <<>>
      /\ q.lost = {} /\ q.kept = {} /\ q.solvedFor = f
  BY <1>1 DEF PartType
<1>7. q.ready = FALSE /\ q.unsolved = u /\ q.refused = r
  BY <1>1, <1>2 DEF PartType
<1> QED BY <1>5, <1>6, <1>7

IsMade(q, outs, depth, offset, before, lost) ==
    /\ q \in PartType
    /\ q.outs = outs /\ q.depth = depth /\ q.offset = offset
    /\ q.before = before /\ q.lost = lost /\ q.kept = {}
    /\ q.ready <=> before # <<>>
    /\ q.path = <<>> /\ q.midway = <<>> /\ q.solvedFor = offset
    /\ ~q.unsolved /\ ~q.refused

LEMMA PartMade ==
    ASSUME NEW outs \in SUBSET Outs, NEW depth \in Nat, NEW offset \in Nat,
           NEW before \in Befores, NEW lost \in SUBSET Outs
    PROVE  IsMade(Part(outs, depth, offset, before, lost), outs, depth, offset, before, lost)
<1> DEFINE q == Part(outs, depth, offset, before, lost)
<1> DEFINE r == before # <<>>
<1>1. q = [outs |-> outs, depth |-> depth, offset |-> offset, ready |-> r,
           before |-> before, path |-> <<>>, midway |-> <<>>, unsolved |-> FALSE,
           solvedFor |-> offset, lost |-> lost, refused |-> FALSE, kept |-> {}]
  BY DEF Part
<1>2. r \in BOOLEAN /\ <<>> \in Seq(Int) /\ <<>> \in Seq(Deliveries)
  OBVIOUS
<1>3. q.ready = r
  BY <1>1
<1>4. q.ready <=> before # <<>>
  BY <1>3
<1> HIDE DEF r, q
<1>5. q \in PartType
  BY <1>1, <1>2 DEF PartType
<1>6. /\ q.outs = outs /\ q.depth = depth /\ q.offset = offset
      /\ q.before = before /\ q.lost = lost /\ q.kept = {}
      /\ q.path = <<>> /\ q.midway = <<>> /\ q.solvedFor = offset
  BY <1>1
<1>7. ~q.unsolved /\ ~q.refused
  BY <1>1
<1>8. IsMade(q, outs, depth, offset, before, lost)
  BY <1>4, <1>5, <1>6, <1>7 DEF IsMade
<1> QED BY <1>8 DEF q

IsKept(p, q) ==
    /\ q \in PartType
    /\ q.outs = p.outs /\ q.depth = p.depth /\ q.offset = p.offset
    /\ q.solvedFor = p.solvedFor /\ q.lost = p.lost
    /\ q.unsolved = p.unsolved /\ q.refused = p.refused /\ q.ready = p.ready
    /\ q.before = p.before /\ q.path = p.path /\ q.midway = p.midway
    /\ q.kept = p.kept \union {time}

LEMMA KeptOn ==
    ASSUME NEW p \in PartType, time \in Nat
    PROVE  IsKept(p, [p EXCEPT !.kept = @ \union {time}])
BY DEF PartType, IsKept

-----------------------------------------------------------------------------
(* What the operations on memory change.                                    *)
LEMMA ProvidedMemory ==
    ASSUME TypeOK, NEW v \in Int
    PROVE  /\ MemoryOf(Provided(v))
           /\ DOMAIN Provided(v) = DOMAIN memory \union {<<"i", time>>}
           /\ Provided(v)[<<"i", time>>] = v
           /\ \A m \in DOMAIN memory : m # <<"i", time>> => Provided(v)[m] = memory[m]
<1>1. <<"i", time>> \in AnyStream \X Nat
  BY DEF TypeOK, ClockType, AnyStream
<1>2. \A m \in DOMAIN memory : memory[m] \in Int
  BY DEF TypeOK, MemoryType, MemoryOf
<1> QED BY <1>1, <1>2 DEF TypeOK, MemoryType, MemoryOf, Provided

EmplacedIn(new, mem, S) ==
    /\ MemoryOf(new)
    /\ DOMAIN new = DOMAIN mem \union (S \X {time})
    /\ \A m \in DOMAIN mem : new[m] = mem[m]
    /\ \A m \in (S \X {time}) \ DOMAIN mem : new[m] = tried

LEMMA EmplacedMemory ==
    ASSUME TypeOK, NEW mem, MemoryOf(mem), NEW S \in SUBSET Outs
    PROVE  EmplacedIn(Emplaced(mem, S), mem, S)
<1>1. S \X {time} \subseteq AnyStream \X Nat /\ tried \in Int
  BY DEF TypeOK, ClockType, AnyStream
<1>2. \A m \in DOMAIN mem : mem[m] \in Int
  BY DEF MemoryOf
<1> DEFINE D == DOMAIN mem \union (S \X {time})
<1>3. Emplaced(mem, S) = [m \in D |-> IF m \in DOMAIN mem THEN mem[m] ELSE tried]
  BY DEF Emplaced
<1>4. D \subseteq AnyStream \X Nat
  BY <1>1 DEF MemoryOf
<1>5. DOMAIN mem \subseteq D /\ (S \X {time}) \ DOMAIN mem \subseteq D \ DOMAIN mem
  OBVIOUS
<1> SUFFICES /\ MemoryOf(Emplaced(mem, S))
             /\ DOMAIN Emplaced(mem, S) = D
             /\ \A m \in DOMAIN mem : Emplaced(mem, S)[m] = mem[m]
             /\ \A m \in (S \X {time}) \ DOMAIN mem : Emplaced(mem, S)[m] = tried
  BY DEF EmplacedIn
<1> HIDE DEF D
<1> QED BY <1>1, <1>2, <1>3, <1>4, <1>5 DEF MemoryOf

PrunedFrom(new, mem, f) ==
    /\ MemoryOf(new)
    /\ DOMAIN new = {x \in DOMAIN mem : x[2] <= 0 \/ x[2] >= Min({f - lookback, time})}
    /\ \A m \in DOMAIN new : new[m] = mem[m]

LEMMA PrunedMemory ==
    ASSUME NEW mem, MemoryOf(mem), NEW f
    PROVE  PrunedFrom(Pruned(mem, f), mem, f)
<1> DEFINE D == {x \in DOMAIN mem : x[2] <= 0 \/ x[2] >= Min({f - lookback, time})}
<1>1. Pruned(mem, f) = [m \in D |-> mem[m]]
  BY DEF Pruned
<1>2. D \subseteq DOMAIN mem
  OBVIOUS
<1> SUFFICES /\ MemoryOf(Pruned(mem, f))
             /\ DOMAIN Pruned(mem, f) = D
             /\ \A m \in DOMAIN Pruned(mem, f) : Pruned(mem, f)[m] = mem[m]
  BY DEF PrunedFrom
<1> HIDE DEF D
<1> QED BY <1>1, <1>2 DEF MemoryOf

-----------------------------------------------------------------------------
(* What the actions do to the parts.                                        *)
LEMMA StreamsOfParts ==
    ASSUME TypeOK
    PROVE  /\ AllOuts \in SUBSET Outs
           /\ \A k \in DOMAIN parts :
                 /\ parts[k] \in PartType
                 /\ parts[k].outs \in SUBSET Outs
                 /\ parts[k].outs \subseteq AllOuts
                 /\ Streams(parts[k]) \subseteq AllOuts \union {"i"}
<1>1. \A k \in DOMAIN parts : parts[k] \in PartType
  BY DEF TypeOK, PartsType
<1>2. \A k \in DOMAIN parts : parts[k].outs \in SUBSET Outs
  BY <1>1 DEF PartType
<1> QED BY <1>1, <1>2 DEF AllOuts, Streams

LEMMA Actions ==
    ASSUME TypeOK, Next
    PROVE  \/ \E v \in Int : Step(v)
           \/ \E v \in Int, k \in DOMAIN parts, where \in {"start", "reads", "outputs"} :
                 ProduceFails(v, k, where)
           \/ \E v \in Int, S \in SUBSET Outs : CommitFails(v, S)
           \/ \E U \in SUBSET Outs, outs \in SUBSET Outs, depth \in Nat,
                 verdict \in Verdicts, continued \in BOOLEAN :
                 Update(U, outs, depth, verdict, continued)
           \/ \E again : Reset(again)
<1> DEFINE Goal ==
           \/ \E v \in Int : Step(v)
           \/ \E v \in Int, k \in DOMAIN parts, where \in {"start", "reads", "outputs"} :
                 ProduceFails(v, k, where)
           \/ \E v \in Int, S \in SUBSET Outs : CommitFails(v, S)
           \/ \E U \in SUBSET Outs, outs \in SUBSET Outs, depth \in Nat,
                 verdict \in Verdicts, continued \in BOOLEAN :
                 Update(U, outs, depth, verdict, continued)
           \/ \E again : Reset(again)
<1> SUFFICES Goal
  OBVIOUS
<1>1. \A v \in Given : v \in Int
  BY DEF Given, TypeOK, ClockType
<1>2. ASSUME NEW v \in Given, Step(v) PROVE Goal
  BY <1>1, <1>2
<1>3. ASSUME NEW v \in Given, NEW k \in DOMAIN parts,
             NEW where \in {"start", "reads", "outputs"}, ProduceFails(v, k, where)
      PROVE  Goal
  BY <1>1, <1>3
<1>4. ASSUME NEW v \in Given, NEW S \in {{}} \union {{s} : s \in AllOuts}, CommitFails(v, S)
      PROVE  Goal
  <2>1. S \in SUBSET Outs
    BY StreamsOfParts
  <2> QED BY <1>1, <1>4, <2>1
<1>5. ASSUME NEW U \in (SUBSET Outs) \ {{}}, NEW depth \in Depths, NEW verdict \in Verdicts,
             NEW continued \in BOOLEAN, NEW outs \in Revised(U),
             Update(U, outs, depth, verdict, continued)
      PROVE  Goal
  <2>1. outs \in SUBSET Outs
    BY StreamsOfParts DEF Revised, Touched
  <2>2. depth \in Nat /\ U \in SUBSET Outs
    OBVIOUS
  <2> QED BY <1>5, <2>1, <2>2
<1>6. ASSUME NEW again, Reset(again) PROVE Goal
  BY <1>6
<1> HIDE DEF Goal
<1> QED BY <1>2, <1>3, <1>4, <1>5, <1>6 DEF Next

(* Where the values before an update come from.                             *)
LEMMA PriorFrom ==
    ASSUME TypeOK, NEW s, NEW k \in Nat \ {0}
    PROVE  /\ PriorAt(s, k) \subseteq Int
           /\ \/ /\ \A j \in DOMAIN parts : s \notin Streams(parts[j])
                 /\ PriorAt(s, k) \in {{Zero}, Remembered(s, time - k)}
              \/ \E j \in DOMAIN parts :
                    /\ s \in Streams(parts[j])
                    /\ \/ time - k >= parts[j].offset /\ PriorAt(s, k) = Remembered(s, time - k)
                       \/ PriorAt(s, k) = {}
                       \/ /\ time - k < parts[j].offset
                          /\ parts[j].ready
                          /\ parts[j].offset - (time - k) \in 1 .. parts[j].depth
                          /\ PriorAt(s, k) = {parts[j].before[s][parts[j].offset - (time - k)]}
<1> DEFINE owners == {j \in DOMAIN parts : s \in Streams(parts[j])}
           t == time - k
<1>0. t \in Int
  BY DEF TypeOK, ClockType
<1>1. Remembered(s, t) \subseteq Int
  BY DEF Remembered, TypeOK, MemoryType, MemoryOf
<1>2. CASE owners = {}
  <2>1. PriorAt(s, k) = IF Remembered(s, t) = {} THEN {Zero} ELSE Remembered(s, t)
    BY <1>2 DEF PriorAt
  <2> HIDE DEF t
  <2>2. PriorAt(s, k) \in {{Zero}, Remembered(s, t)} /\ PriorAt(s, k) \subseteq Int
    BY <1>1, <2>1 DEF Zero
  <2>3. \A j \in DOMAIN parts : s \notin Streams(parts[j])
    BY <1>2
  <2> QED BY <2>2, <2>3 DEF t
<1>3. CASE owners # {}
  <2> DEFINE j == Min(owners)
             p == parts[j]
  <2>1. j \in owners
    <3>1. owners \subseteq Nat
      BY DEF TypeOK, PartsType
    <3> HIDE DEF owners
    <3> QED BY <1>3, <3>1, MinOfNaturals
  <2>2. j \in DOMAIN parts /\ s \in Streams(p)
    BY <2>1
  <2>3. p.offset \in Nat /\ p.depth \in Nat /\ Fits(p)
    BY <2>2 DEF TypeOK, PartsType, PartType
  <2>4. PriorAt(s, k) = IF t >= p.offset THEN Remembered(s, t)
                        ELSE IF p.ready /\ p.offset - t <= p.depth
                             THEN {p.before[s][p.offset - t]} ELSE {}
    BY <1>3 DEF PriorAt
  <2> HIDE DEF j, t
  <2>5. CASE t >= p.offset
    BY <1>1, <2>2, <2>4, <2>5 DEF t
  <2>6. CASE ~(t >= p.offset) /\ p.ready /\ p.offset - t <= p.depth
    <3>1. p.offset - t \in 1 .. p.depth /\ t < p.offset
      BY <1>0, <2>3, <2>6
    <3>2. p.before[s][p.offset - t] \in Int
      BY <2>2, <2>3, <2>6, <3>1 DEF Fits
    <3>3. PriorAt(s, k) = {p.before[s][p.offset - t]}
      BY <2>4, <2>6
    <3> QED BY <2>2, <2>6, <3>1, <3>2, <3>3 DEF t
  <2>7. CASE ~(t >= p.offset) /\ ~(p.ready /\ p.offset - t <= p.depth)
    <3>1. PriorAt(s, k) = {}
      BY <2>4, <2>7
    <3> QED BY <2>2, <3>1
  <2> QED BY <2>5, <2>6, <2>7
<1> QED BY <1>2, <1>3

LEMMA PriorTyped ==
    ASSUME TypeOK, NEW S \in SUBSET AnyStream, NEW depth \in Nat, PriorKnown(S, depth)
    PROVE  /\ Prior(S, depth) \in [S -> [1 .. depth -> Int]]
           /\ Prior(S, depth) \in Befores
           /\ \A s \in S, k \in 1 .. depth : Prior(S, depth)[s][k] \in PriorAt(s, k)
<1>1. ASSUME NEW s \in S, NEW k \in 1 .. depth
      PROVE  (CHOOSE v \in PriorAt(s, k) : TRUE) \in PriorAt(s, k) \intersect Int
  <2>1. PriorAt(s, k) # {}
    BY DEF PriorKnown
  <2>2. PriorAt(s, k) \subseteq Int
    BY PriorFrom
  <2> QED BY <2>1, <2>2
<1>2. Prior(S, depth) \in [S -> [1 .. depth -> Int]]
  BY <1>1 DEF Prior
<1> QED BY <1>1, <1>2, SomeBefore DEF Prior

(* What an update makes of the parts.                                       *)
Revises(U, outs, depth, continued, new, before, lost) ==
    /\ new \notin DOMAIN parts \ Touched(U)
    /\ DOMAIN parts' = (DOMAIN parts \ Touched(U)) \union {new}
    /\ IsFiniteSet(DOMAIN parts')
    /\ IsMade(parts'[new], outs, depth, time, before, lost)
    /\ \A k \in DOMAIN parts \ Touched(U) : IsKept(parts[k], parts'[k])
    /\ lost = {s \in outs : Dropped(s)}
    /\ ~continued => before = <<>>
    /\ continued =>
          /\ time > 0
          /\ PriorKnown(outs \union {"i"}, depth)
          /\ before = Prior(outs \union {"i"}, depth)
          /\ before # <<>>
          /\ before \in [outs \union {"i"} -> [1 .. depth -> Int]]

LEMMA UpdatedParts ==
    ASSUME TypeOK, NEW U \in SUBSET Outs, NEW outs \in SUBSET Outs, NEW depth \in Nat,
           NEW verdict, NEW continued \in BOOLEAN,
           Update(U, outs, depth, verdict, continued)
    PROVE  \E new \in Nat, before \in Befores, lost \in SUBSET outs :
              Revises(U, outs, depth, continued, new, before, lost)
<1> DEFINE S == outs \union {"i"}
           before == IF continued THEN Prior(S, depth) ELSE <<>>
           lost == {s \in outs : Dropped(s)}
<1>1. S \in SUBSET AnyStream /\ lost \in SUBSET outs
  BY DEF AnyStream
<1>2. continued => time > 0 /\ PriorKnown(S, depth)
  BY DEF Update
<1>3. before \in Befores
  <2>1. <<>> \in Befores
    BY DEF Befores
  <2>2. continued => Prior(S, depth) \in Befores
    <3> HIDE DEF S
    <3> QED BY <1>1, <1>2, PriorTyped
  <2> QED BY <2>1, <2>2
<1>4. continued => before # <<>> /\ before \in [S -> [1 .. depth -> Int]]
  <2> SUFFICES ASSUME continued PROVE before # <<>> /\ before \in [S -> [1 .. depth -> Int]]
    OBVIOUS
  <2>1. before \in [S -> [1 .. depth -> Int]]
    BY <1>1, <1>2, PriorTyped
  <2>2. "i" \in DOMAIN before
    BY <2>1
  <2> HIDE DEF before
  <2> QED BY <2>1, <2>2
<1> DEFINE p == Part(outs, depth, time, before, lost)
<1>5. parts' = Added(Kept(U), p)
  BY DEF Update
<1>6. /\ DOMAIN Kept(U) = DOMAIN parts \ Touched(U)
      /\ \A k \in DOMAIN parts \ Touched(U) : Kept(U)[k] = [parts[k] EXCEPT !.kept = @ \union {time}]
  BY DEF Kept
<1>7. IsFiniteSet(DOMAIN Kept(U)) /\ DOMAIN Kept(U) \subseteq Nat
  BY <1>6, FS_Subset DEF TypeOK, PartsType
<1> HIDE DEF p
<1>8. PICK new \in Nat :
          /\ new \notin DOMAIN Kept(U)
          /\ DOMAIN parts' = DOMAIN Kept(U) \union {new}
          /\ parts'[new] = p
          /\ \A k \in DOMAIN Kept(U) : parts'[k] = Kept(U)[k]
          /\ IsFiniteSet(DOMAIN parts')
  BY <1>5, <1>7, AddedLast
<1>9. ~continued => before = <<>>
  OBVIOUS
<1>10. continued => before = Prior(S, depth)
  OBVIOUS
<1>11. IsMade(parts'[new], outs, depth, time, before, lost)
  <2>1. time \in Nat /\ lost \in SUBSET Outs
    BY DEF TypeOK, ClockType
  <2> HIDE DEF before, lost
  <2> QED BY <1>3, <1>8, <2>1, PartMade DEF p
<1>12. \A k \in DOMAIN parts \ Touched(U) : IsKept(parts[k], parts'[k])
  <2>1. \A k \in DOMAIN parts : parts[k] \in PartType
    BY DEF TypeOK, PartsType
  <2>2. \A k \in DOMAIN parts \ Touched(U) :
           parts'[k] = [parts[k] EXCEPT !.kept = @ \union {time}]
    BY <1>6, <1>8
  <2> QED BY <2>1, <2>2, KeptOn DEF TypeOK, ClockType
<1> HIDE DEF before
<1> WITNESS new \in Nat, before \in Befores, lost \in SUBSET outs
<1> QED BY <1>2, <1>4, <1>6, <1>8, <1>9, <1>10, <1>11, <1>12 DEF Revises

LEMMA StepParts ==
    ASSUME TypeOK, NEW v \in Int, Step(v)
    PROVE  /\ DOMAIN parts' = DOMAIN parts
           /\ \A k \in DOMAIN parts :
                 /\ parts'[k] = Moved(parts[k], v)
                 /\ parts'[k] \in PartType /\ GoesOn(parts[k], parts'[k])
                 /\ Fits(parts'[k]) /\ parts'[k].ready
BY MovedGoesOn DEF Step, TypeOK, PartsType, ClockType

LEMMA FailedParts ==
    ASSUME TypeOK, NEW v \in Int, NEW h \in DOMAIN parts,
           NEW where \in {"start", "reads", "outputs"}, ProduceFails(v, h, where)
    PROVE  /\ DOMAIN parts' = DOMAIN parts
           /\ \A k \in DOMAIN parts :
                 /\ parts'[k] = (IF k < h THEN Moved(parts[k], v)
                                 ELSE IF k = h THEN FailedAt(parts[k], v, where)
                                 ELSE parts[k])
                 /\ parts'[k] \in PartType /\ GoesOn(parts[k], parts'[k])
                 /\ Fits(parts'[k])
<1>1. DOMAIN parts' = DOMAIN parts
  BY DEF ProduceFails
<1>2. ASSUME NEW k \in DOMAIN parts
      PROVE  /\ parts'[k] = (IF k < h THEN Moved(parts[k], v)
                             ELSE IF k = h THEN FailedAt(parts[k], v, where)
                             ELSE parts[k])
             /\ parts'[k] \in PartType /\ GoesOn(parts[k], parts'[k])
             /\ Fits(parts'[k])
  <2>1. parts'[k] = (IF k < h THEN Moved(parts[k], v)
                     ELSE IF k = h THEN FailedAt(parts[k], v, where)
                     ELSE parts[k])
    BY DEF ProduceFails
  <2>2. parts[k] \in PartType /\ Fits(parts[k]) /\ tried \in Nat
    BY DEF TypeOK, PartsType, ClockType
  <2>3. CASE k < h
    BY <2>1, <2>2, <2>3, MovedGoesOn
  <2>4. CASE ~(k < h) /\ k = h
    <3> DEFINE failed == FailedAt(parts[k], v, where)
    <3>1. parts'[k] = failed
      BY <2>1, <2>4
    <3>2. failed \in PartType /\ GoesOn(parts[k], failed) /\ Fits(failed)
      BY <2>2, FailedGoesOn
    <3> HIDE DEF failed
    <3> QED BY <2>1, <3>1, <3>2
  <2>5. CASE ~(k < h) /\ k # h
    BY <2>1, <2>2, <2>5 DEF GoesOn
  <2> QED BY <2>3, <2>4, <2>5
<1> QED BY <1>1, <1>2

LEMMA CommitParts ==
    ASSUME TypeOK, NEW v \in Int, NEW S \in SUBSET Outs, CommitFails(v, S)
    PROVE  /\ DOMAIN parts' = DOMAIN parts
           /\ \A k \in DOMAIN parts :
                 /\ parts'[k] = Moved(parts[k], v)
                 /\ parts'[k] \in PartType /\ GoesOn(parts[k], parts'[k])
                 /\ Fits(parts'[k]) /\ parts'[k].ready
BY MovedGoesOn DEF CommitFails, TypeOK, PartsType, ClockType

LEMMA ResetParts ==
    ASSUME TypeOK, NEW again, Reset(again)
    PROVE  /\ DOMAIN parts' = DOMAIN parts
           /\ \A k \in DOMAIN parts :
                 /\ parts'[k] = Restarted(parts[k], k \in again)
                 /\ parts'[k] \in PartType /\ Fits(parts'[k])
<1>1. ASSUME NEW k \in DOMAIN parts
      PROVE  /\ parts'[k] = Restarted(parts[k], k \in again)
             /\ parts'[k] \in PartType /\ Fits(parts'[k])
  <2>1. parts'[k] = Restarted(parts[k], k \in again)
    BY DEF Reset
  <2> DEFINE a == k \in again
  <2>2. a \in BOOLEAN /\ parts[k] \in PartType
    BY DEF TypeOK, PartsType
  <2> HIDE DEF a
  <2>3. Restarted(parts[k], a) \in PartType /\ ~Restarted(parts[k], a).ready
    BY <2>2, RestartedAtZero
  <2> QED BY <2>1, <2>3 DEF a, Fits
<1> QED BY <1>1 DEF Reset

-----------------------------------------------------------------------------
LEMMA TypeInit == Init => TypeOK
<1> SUFFICES ASSUME Init PROVE TypeOK
  OBVIOUS
<1>1. PICK ps \in InitialParts :
          /\ parts = [k \in DOMAIN ps |-> Part(ps[k].outs, ps[k].depth, 0, <<>>, {})]
          /\ composite = (Len(ps) > 1)
  BY DEF Init
<1>2. ps \in Seq([outs : SUBSET Outs, depth : Nat]) /\ ps # <<>>
  OBVIOUS
<1>3. DOMAIN ps = 1 .. Len(ps) /\ Len(ps) \in Nat /\ 1 \in DOMAIN ps
  BY <1>2
<1>4. ASSUME NEW k \in DOMAIN parts PROVE parts[k] \in PartType /\ Fits(parts[k])
  <2>0. k \in 1 .. Len(ps)
    BY <1>1, <1>3
  <2>1. ps[k].outs \in SUBSET Outs /\ ps[k].depth \in Nat
    <3> DEFINE R == [outs : SUBSET Outs, depth : Nat]
    <3>1. ps[k] \in R
      <4>1. ps \in Seq(R)
        BY <1>2
      <4> HIDE DEF R
      <4> QED BY <2>0, <4>1
    <3> QED BY <3>1
  <2>2. parts[k] = Part(ps[k].outs, ps[k].depth, 0, <<>>, {})
    BY <1>1
  <2>3. <<>> \in Befores
    BY DEF Befores
  <2>4. IsMade(parts[k], ps[k].outs, ps[k].depth, 0, <<>>, {})
    BY <2>1, <2>2, <2>3, PartMade
  <2>5. parts[k] \in PartType /\ ~parts[k].ready
    BY <2>4 DEF IsMade
  <2> QED BY <2>5 DEF Fits
<1>5. IsFiniteSet(DOMAIN parts)
  <2>1. DOMAIN parts = 1 .. Len(ps)
    BY <1>1, <1>3
  <2> QED BY <1>3, <2>1, FS_Interval
<1>6. PartsType
  BY <1>1, <1>3, <1>4, <1>5 DEF PartsType
<1>7. Deepest(parts) \in Nat
  BY <1>4, <1>5, DeepestOfAll DEF PartType
<1>8. ClockType
  BY <1>7 DEF Init, ClockType
<1>9. MemoryType /\ GivenType
  BY DEF Init, MemoryType, MemoryOf, GivenType
<1>10. composite \in BOOLEAN /\ slipped \in BOOLEAN /\ ownStart \in BOOLEAN
  <2>1. (Len(ps) > 1) \in BOOLEAN
    OBVIOUS
  <2>2. composite \in BOOLEAN
    BY <1>1, <2>1
  <2> QED BY <2>2 DEF Init
<1> QED BY <1>6, <1>8, <1>9, <1>10 DEF TypeOK

LEMMA DeliveryMade ==
    ASSUME TypeOK, NEW v \in Int, NEW S \in SUBSET AnyStream
    PROVE  [s \in S |-> IF s = "i" THEN v ELSE tried] \in Deliveries
<1>1. [s \in S |-> IF s = "i" THEN v ELSE tried] \in [S -> Int]
  BY DEF TypeOK, ClockType
<1> QED BY <1>1 DEF Deliveries

LEMMA TypeStep == TypeOK /\ [Next]_vars => TypeOK'
<1> SUFFICES ASSUME TypeOK, [Next]_vars PROVE TypeOK'
  OBVIOUS
<1>1. ASSUME NEW v \in Int, Step(v) PROVE TypeOK'
  <2>1. PartsType'
    BY <1>1, StepParts DEF TypeOK, PartsType, Step
  <2>2. ClockType'
    BY <1>1 DEF Step, TypeOK, ClockType
  <2>3. MemoryType'
    <3>1. MemoryOf(Emplaced(Provided(v), AllOuts))
      <4>1. MemoryOf(Provided(v))
        BY ProvidedMemory
      <4>2. EmplacedIn(Emplaced(Provided(v), AllOuts), Provided(v), AllOuts)
        BY <4>1, EmplacedMemory, StreamsOfParts
      <4> QED BY <4>2 DEF EmplacedIn
    <3>2. MemoryOf(Pruned(Emplaced(Provided(v), AllOuts), ftime'))
      <4>1. PrunedFrom(Pruned(Emplaced(Provided(v), AllOuts), ftime'),
                       Emplaced(Provided(v), AllOuts), ftime')
        BY <3>1, PrunedMemory
      <4> QED BY <4>1 DEF PrunedFrom
    <3>3. memory' = Pruned(Emplaced(Provided(v), AllOuts), ftime')
      BY <1>1 DEF Step
    <3>4. MemoryOf(memory')
      BY <3>2, <3>3
    <3> QED BY <3>4 DEF MemoryType, MemoryOf
  <2>4. GivenType'
    <3>1. AllOuts \union {"i"} \in SUBSET AnyStream
      BY StreamsOfParts DEF AnyStream
    <3>2. [s \in AllOuts \union {"i"} |-> IF s = "i" THEN v ELSE tried] \in Deliveries
      BY <3>1, DeliveryMade
    <3> QED BY <1>1, <3>2 DEF Step, TypeOK, GivenType
  <2>5. (composite \in BOOLEAN /\ slipped \in BOOLEAN /\ ownStart \in BOOLEAN)'
    BY <1>1 DEF Step, TypeOK
  <2> QED BY <2>1, <2>2, <2>3, <2>4, <2>5 DEF TypeOK
<1>2. ASSUME NEW v \in Int, NEW k \in DOMAIN parts,
             NEW where \in {"start", "reads", "outputs"}, ProduceFails(v, k, where)
      PROVE  TypeOK'
  <2>1. PartsType'
    BY <1>2, FailedParts DEF TypeOK, PartsType, ProduceFails
  <2>2. ClockType' /\ GivenType'
    BY <1>2 DEF ProduceFails, TypeOK, ClockType, GivenType
  <2>3. MemoryType'
    <3>1. memory' = Provided(v)
      BY <1>2 DEF ProduceFails
    <3> QED BY <3>1, ProvidedMemory DEF MemoryType, MemoryOf
  <2>4. (composite \in BOOLEAN /\ slipped \in BOOLEAN /\ ownStart \in BOOLEAN)'
    BY <1>2 DEF ProduceFails, TypeOK
  <2> QED BY <2>1, <2>2, <2>3, <2>4 DEF TypeOK
<1>3. ASSUME NEW v \in Int, NEW S \in SUBSET Outs, CommitFails(v, S) PROVE TypeOK'
  <2>1. PartsType'
    BY <1>3, CommitParts DEF TypeOK, PartsType, CommitFails
  <2>2. ClockType' /\ GivenType'
    BY <1>3 DEF CommitFails, TypeOK, ClockType, GivenType
  <2>3. MemoryType'
    <3>1. memory' = Emplaced(Provided(v), S)
      BY <1>3 DEF CommitFails
    <3>2. MemoryOf(Provided(v))
      BY ProvidedMemory
    <3>3. EmplacedIn(Emplaced(Provided(v), S), Provided(v), S)
      BY <3>2, EmplacedMemory
    <3>4. MemoryOf(memory')
      BY <3>1, <3>3 DEF EmplacedIn
    <3> QED BY <3>4 DEF MemoryType, MemoryOf
  <2>4. (composite \in BOOLEAN /\ slipped \in BOOLEAN /\ ownStart \in BOOLEAN)'
    BY <1>3 DEF CommitFails, TypeOK
  <2> QED BY <2>1, <2>2, <2>3, <2>4 DEF TypeOK
<1>4. ASSUME NEW U \in SUBSET Outs, NEW outs \in SUBSET Outs, NEW depth \in Nat,
             NEW verdict \in Verdicts, NEW continued \in BOOLEAN,
             Update(U, outs, depth, verdict, continued)
      PROVE  TypeOK'
  <2>0. PICK new \in Nat, before \in Befores, lost \in SUBSET outs :
            Revises(U, outs, depth, continued, new, before, lost)
    BY <1>4, UpdatedParts
  <2>1. /\ DOMAIN parts' = (DOMAIN parts \ Touched(U)) \union {new}
        /\ IsFiniteSet(DOMAIN parts')
        /\ IsMade(parts'[new], outs, depth, time, before, lost)
        /\ \A k \in DOMAIN parts \ Touched(U) : IsKept(parts[k], parts'[k])
        /\ ~continued => before = <<>>
        /\ continued => before \in [outs \union {"i"} -> [1 .. depth -> Int]]
    BY <2>0 DEF Revises
  <2>2. parts'[new] \in PartType /\ Fits(parts'[new])
    BY <2>1 DEF Fits, Streams, IsMade
  <2>3. ASSUME NEW k \in DOMAIN parts \ Touched(U)
        PROVE  parts'[k] \in PartType /\ Fits(parts'[k])
    <3>1. Fits(parts[k]) /\ IsKept(parts[k], parts'[k])
      BY <2>1 DEF TypeOK, PartsType
    <3> QED BY <3>1 DEF Fits, Streams, IsKept
  <2>4. \A k \in DOMAIN parts' : parts'[k] \in PartType /\ Fits(parts'[k])
    BY <2>1, <2>2, <2>3
  <2>5. parts' \in [DOMAIN parts' -> PartType]
    <3>1. parts' = [k \in DOMAIN parts' |-> parts'[k]]
      BY <1>4 DEF Update, Added
    <3> QED BY <2>4, <3>1
  <2>6. PartsType'
    <3>1. DOMAIN parts' \subseteq Nat /\ DOMAIN parts' # {}
      BY <2>1 DEF TypeOK, PartsType
    <3> QED BY <2>1, <2>4, <2>5, <3>1 DEF PartsType
  <2>7. ClockType'
    <3>1. Deepest(parts') \in Nat
      BY <2>1, <2>4, DeepestOfAll DEF PartType
    <3>2. lookback' = Deepest(parts') /\ ftime' = time + lookback' /\ time' = time /\ tried' = tried
      BY <1>4 DEF Update
    <3> QED BY <3>1, <3>2 DEF TypeOK, ClockType
  <2>8. MemoryType' /\ GivenType'
    BY <1>4 DEF Update, TypeOK, MemoryType, MemoryOf, GivenType
  <2>9. (composite \in BOOLEAN /\ slipped \in BOOLEAN /\ ownStart \in BOOLEAN)'
    BY <1>4 DEF Update, TypeOK
  <2> QED BY <2>6, <2>7, <2>8, <2>9 DEF TypeOK
<1>5. ASSUME NEW again, Reset(again) PROVE TypeOK'
  <2>1. PartsType'
    BY <1>5, ResetParts DEF TypeOK, PartsType, Reset
  <2>2. Deepest(parts) \in Nat
    BY DeepestOfAll DEF TypeOK, PartsType, PartType
  <2>3. ClockType'
    BY <1>5, <2>2 DEF Reset, ClockType
  <2>4. MemoryType' /\ GivenType'
    BY <1>5 DEF Reset, MemoryType, MemoryOf, GivenType
  <2>5. (composite \in BOOLEAN /\ slipped \in BOOLEAN /\ ownStart \in BOOLEAN)'
    BY <1>5 DEF Reset, TypeOK
  <2> QED BY <2>1, <2>3, <2>4, <2>5 DEF TypeOK
<1>6. CASE UNCHANGED vars
  BY <1>6 DEF vars, TypeOK, ClockType, PartsType, MemoryType, GivenType
<1>7. CASE Next
  BY <1>1, <1>2, <1>3, <1>4, <1>5, <1>7, Actions
<1> QED BY <1>6, <1>7

(* Every part, memory and the clock have their types in every state.        *)
THEOREM TypeCorrect == Spec => []TypeOK
<1> QED BY TypeInit, TypeStep, PTL DEF Spec

-----------------------------------------------------------------------------
(* How an update is decided.                                                *)
LEMMA OfferedInOrder ==
    ASSUME NEW verdict \in Verdicts
    PROVE  /\ verdict["without goals"] = "undecided" => verdict["revision"] # "absent"
           /\ verdict["revision"] \in {"won", "absent", "refuted", "undecided"}
           /\ verdict["revision"] = "won" => verdict["without goals"] = "absent"
           /\ verdict["update alone"] # "undecided"
BY DEF Verdicts, Candidates

LEMMA JudgedFairly ==
    ASSUME NEW verdict \in Verdicts
    PROVE  /\ Judged(verdict).chosen = "without goals" => verdict["revision"] # "undecided"
           /\ Judged(verdict).chosen = "update alone" =>
                 \A c \in Candidates : verdict[c] # "undecided"
<1> DEFINE Judge(acc, c) ==
               IF \/ acc.chosen # "none"
                  \/ verdict[c] = "absent"
                  \/ c = "without goals" /\ "revision" \notin acc.refuted
                  \/ c = "update alone" /\ acc.undecided
               THEN acc
               ELSE CASE verdict[c] = "won" -> [acc EXCEPT !.chosen = c]
                      [] verdict[c] = "refuted" -> [acc EXCEPT !.refuted = @ \union {c}]
                      [] OTHER -> [acc EXCEPT !.undecided = TRUE]
           first  == Judge(Unjudged, "revision")
           second == Judge(first, "without goals")
           third  == Judge(second, "update alone")
           Result == [chosen : Candidates \union {"none"}, refuted : SUBSET Candidates,
                      undecided : BOOLEAN]
<1>1. Judged(verdict) = third
  BY DEF Judged
<1>2. /\ first \in Result
      /\ first.chosen \in {"none", "revision"}
      /\ "revision" \in first.refuted => verdict["revision"] = "refuted"
      /\ "without goals" \notin first.refuted
      /\ first.chosen = "none" /\ verdict["revision"] = "undecided" => first.undecided
      /\ first.chosen = "none" /\ verdict["revision"] = "refuted" => "revision" \in first.refuted
  BY DEF Unjudged, Candidates
<1> HIDE DEF first
<1>3. /\ second \in Result
      /\ second.chosen \in {"none", "revision", "without goals"}
      /\ second.chosen = "without goals" => verdict["revision"] = "refuted"
      /\ second.chosen = "none" =>
            /\ first.chosen = "none"
            /\ first.undecided => second.undecided
            /\ "revision" \in first.refuted /\ verdict["without goals"] = "undecided" => second.undecided
  <2>1. CASE second = first
    BY <1>2, <2>1 DEF Candidates
  <2>2. CASE second # first
    BY <1>2, <2>2 DEF Candidates
  <2> QED BY <2>1, <2>2
<1> HIDE DEF second
<1>4. /\ third.chosen = "without goals" => second.chosen = "without goals"
      /\ third.chosen = "update alone" => second.chosen = "none" /\ ~second.undecided
  BY <1>3 DEF Candidates
<1> HIDE DEF third
<1>5. ASSUME third.chosen = "update alone", NEW c \in Candidates
      PROVE  verdict[c] # "undecided"
  <2>1. verdict["revision"] # "undecided"
    BY <1>2, <1>3, <1>4, <1>5
  <2>2. verdict["without goals"] # "undecided"
    <3> SUFFICES ASSUME verdict["without goals"] = "undecided" PROVE FALSE
      OBVIOUS
    <3>1. verdict["revision"] = "won" \/ verdict["revision"] = "refuted"
      BY <2>1, OfferedInOrder
    <3>2. verdict["revision"] = "refuted"
      BY <3>1, OfferedInOrder
    <3> QED BY <3>2, <1>2, <1>3, <1>4, <1>5
  <2>3. verdict["update alone"] # "undecided"
    BY OfferedInOrder
  <2> QED BY <2>1, <2>2, <2>3 DEF Candidates
<1> QED BY <1>1, <1>3, <1>4, <1>5

(* Goals give way only where the game leaves nothing else.                  *)
THEOREM GoalsAreKept == Spec => []GoalsGiveWay
<1>1. Init => GoalsGiveWay
  BY DEF Init, GoalsGiveWay
<1>2. GoalsGiveWay /\ [Next]_vars => GoalsGiveWay'
  <2> SUFFICES ASSUME GoalsGiveWay, [Next]_vars PROVE GoalsGiveWay'
    OBVIOUS
  <2>1. CASE ruling' = <<>>
    BY <2>1 DEF GoalsGiveWay
  <2>2. CASE ruling' = ruling
    BY <2>2 DEF GoalsGiveWay
  <2>3. ASSUME NEW verdict \in Verdicts,
               ruling' = [chosen |-> Judged(verdict).chosen,
                          doubted |-> {c \in Candidates : verdict[c] = "undecided"}]
        PROVE  GoalsGiveWay'
    <3>1. /\ ruling'.chosen = Judged(verdict).chosen
          /\ ruling'.doubted = {c \in Candidates : verdict[c] = "undecided"}
      BY <2>3
    <3> QED BY <3>1, JudgedFairly DEF GoalsGiveWay
  <2>4. \/ ruling' = <<>> \/ ruling' = ruling
        \/ \E verdict \in Verdicts :
              ruling' = [chosen |-> Judged(verdict).chosen,
                         doubted |-> {c \in Candidates : verdict[c] = "undecided"}]
    BY DEF Next, vars, Step, ProduceFails, CommitFails, Update, Reset
  <2> QED BY <2>1, <2>2, <2>3, <2>4
<1> QED BY <1>1, <1>2, PTL DEF Spec

-----------------------------------------------------------------------------
(* A part plays from the step its strategy was solved for: a reset either   *)
(* solves it for step 0 or says that it could not.                          *)
LEMMA SolvedStep == TypeOK /\ SolvedInv /\ [Next]_vars => SolvedInv'
<1> SUFFICES ASSUME TypeOK, SolvedInv, [Next]_vars PROVE SolvedInv'
  OBVIOUS
<1> USE DEF SolvedInv, SolvedForItsStart
<1>1. ASSUME NEW v \in Int, Step(v) PROVE SolvedInv'
  BY <1>1, StepParts DEF GoesOn
<1>2. ASSUME NEW v \in Int, NEW k \in DOMAIN parts,
             NEW where \in {"start", "reads", "outputs"}, ProduceFails(v, k, where)
      PROVE  SolvedInv'
  BY <1>2, FailedParts DEF GoesOn
<1>3. ASSUME NEW v \in Int, NEW S \in SUBSET Outs, CommitFails(v, S) PROVE SolvedInv'
  BY <1>3, CommitParts DEF GoesOn
<1>4. ASSUME NEW U \in SUBSET Outs, NEW outs \in SUBSET Outs, NEW depth \in Nat,
             NEW verdict \in Verdicts, NEW continued \in BOOLEAN,
             Update(U, outs, depth, verdict, continued)
      PROVE  SolvedInv'
  <2>1. PICK new \in Nat, before \in Befores, lost \in SUBSET outs :
            Revises(U, outs, depth, continued, new, before, lost)
    BY <1>4, UpdatedParts
  <2> QED BY <2>1 DEF Revises, IsMade, IsKept
<1>5. ASSUME NEW again, Reset(again) PROVE SolvedInv'
  <2>1. ASSUME NEW k \in DOMAIN parts
        PROVE  /\ parts'[k].unsolved \/ parts'[k].refused \/ parts'[k].solvedFor = parts'[k].offset
               /\ parts'[k].unsolved => parts'[k].refused
    <3> DEFINE p == parts[k]
               q == parts'[k]
               a == k \in again
    <3>1. p \in PartType /\ a \in BOOLEAN /\ q = Restarted(p, a)
      BY <1>5, ResetParts DEF TypeOK, PartsType
    <3>2. p.unsolved \/ p.refused \/ p.solvedFor = p.offset
      OBVIOUS
    <3>3. p.unsolved => p.refused
      OBVIOUS
    <3> SUFFICES (q.unsolved \/ q.refused \/ q.solvedFor = q.offset) /\ (q.unsolved => q.refused)
      OBVIOUS
    <3> HIDE DEF a, p, q
    <3>4. /\ q.offset = 0
          /\ q.solvedFor = (IF p.offset > 0 /\ a THEN 0 ELSE p.solvedFor)
      BY <3>1, RestartedAtZero
    <3>5. /\ q.unsolved = (p.offset > 0 /\ ~a)
          /\ q.refused = (p.refused \/ (p.offset > 0 /\ ~a))
      BY <3>1, RestartedAtZero
    <3>6. p.offset \in Nat
      BY <3>1 DEF PartType
    <3>7. CASE p.offset > 0
      BY <3>4, <3>5, <3>7
    <3>8. CASE p.offset = 0
      BY <3>2, <3>3, <3>4, <3>5, <3>8
    <3> QED BY <3>6, <3>7, <3>8
  <2>2. DOMAIN parts' = DOMAIN parts
    BY <1>5, ResetParts
  <2> QED BY <2>1, <2>2
<1>6. CASE UNCHANGED vars
  BY <1>6 DEF vars
<1>7. CASE Next
  BY <1>1, <1>2, <1>3, <1>4, <1>5, <1>7, Actions
<1> QED BY <1>6, <1>7

THEOREM PlaysWhereSolved == Spec => []SolvedForItsStart
<1>1. Init => SolvedInv
  <2> SUFFICES ASSUME Init PROVE SolvedInv
    OBVIOUS
  <2>1. PICK ps \in InitialParts :
            parts = [k \in DOMAIN ps |-> Part(ps[k].outs, ps[k].depth, 0, <<>>, {})]
    BY DEF Init
  <2>2. \A k \in DOMAIN parts :
           /\ parts[k].solvedFor = 0 /\ parts[k].offset = 0 /\ parts[k].unsolved = FALSE
    BY <2>1 DEF Part
  <2> QED BY <2>2 DEF SolvedInv, SolvedForItsStart
<1>2. SolvedInv => SolvedForItsStart
  BY DEF SolvedInv
<1> QED BY <1>1, <1>2, SolvedStep, TypeCorrect, PTL DEF Spec

-----------------------------------------------------------------------------
(* The records of the run and the steps parts count from.                   *)
LEMMA MinOfTwo ==
    ASSUME NEW a \in Int, NEW b \in Int
    PROVE  Min({a, b}) \in {a, b} /\ Min({a, b}) <= a /\ Min({a, b}) <= b
<1>1. \E n \in {a, b} : \A m \in {a, b} : n <= m
  <2>1. CASE a <= b
    BY <2>1
  <2>2. CASE b <= a
    BY <2>2
  <2> QED BY <2>1, <2>2
<1>2. Min({a, b}) \in {a, b} /\ \A m \in {a, b} : Min({a, b}) <= m
  BY <1>1 DEF Min
<1> QED BY <1>2

(* What memory holds once a step has its inputs and outputs of its own.     *)
Attempted(mem, v, S) ==
    /\ MemoryOf(mem)
    /\ DOMAIN mem = DOMAIN memory \union {<<"i", time>>} \union (S \X {time})
    /\ mem[<<"i", time>>] = v
    /\ \A m \in DOMAIN memory : m # <<"i", time>> => mem[m] = memory[m]
    /\ \A m \in S \X {time} : m \notin DOMAIN memory => mem[m] = tried

LEMMA AttemptMemory ==
    ASSUME TypeOK, NEW v \in Int, NEW S \in SUBSET Outs
    PROVE  Attempted(Emplaced(Provided(v), S), v, S)
<1> DEFINE pre == Provided(v)
           mem == Emplaced(pre, S)
<1>1. \A m \in S \X {time} : m # <<"i", time>>
  OBVIOUS
<1>2. /\ MemoryOf(pre)
      /\ DOMAIN pre = DOMAIN memory \union {<<"i", time>>}
      /\ pre[<<"i", time>>] = v
      /\ \A m \in DOMAIN memory : m # <<"i", time>> => pre[m] = memory[m]
  BY ProvidedMemory
<1> HIDE DEF pre
<1>3. /\ MemoryOf(mem)
      /\ DOMAIN mem = DOMAIN pre \union (S \X {time})
      /\ \A m \in DOMAIN pre : mem[m] = pre[m]
      /\ \A m \in (S \X {time}) \ DOMAIN pre : mem[m] = tried
  <2>1. MemoryOf(pre) /\ S \in SUBSET Outs
    BY <1>2
  <2>2. EmplacedIn(mem, pre, S)
    BY <2>1, EmplacedMemory
  <2> HIDE DEF mem
  <2> QED BY <2>2 DEF EmplacedIn
<1> HIDE DEF mem
<1>4. Attempted(mem, v, S)
  BY <1>1, <1>2, <1>3 DEF Attempted
<1> QED BY <1>4 DEF mem, pre

LEMMA StepMemory ==
    ASSUME TypeOK, NEW v \in Int, Step(v)
    PROVE  /\ \A m \in DOMAIN memory' :
                 m \in DOMAIN memory \union {<<"i", time>>} \union (AllOuts \X {time})
           /\ \A m \in DOMAIN memory \union {<<"i", time>>} \union (AllOuts \X {time}) :
                 m[2] <= 0 \/ m[2] >= Min({ftime' - lookback, time}) => m \in DOMAIN memory'
           /\ \A m \in DOMAIN memory' :
                 /\ m = <<"i", time>> => memory'[m] = v
                 /\ m # <<"i", time>> /\ m \in DOMAIN memory => memory'[m] = memory[m]
                 /\ m \in AllOuts \X {time} /\ m \notin DOMAIN memory => memory'[m] = tried
<1> DEFINE mem == Emplaced(Provided(v), AllOuts)
<1>1. memory' = Pruned(mem, ftime')
  BY DEF Step
<1>2. /\ MemoryOf(mem)
      /\ DOMAIN mem = DOMAIN memory \union {<<"i", time>>} \union (AllOuts \X {time})
      /\ mem[<<"i", time>>] = v
      /\ \A m \in DOMAIN memory : m # <<"i", time>> => mem[m] = memory[m]
      /\ \A m \in AllOuts \X {time} : m \notin DOMAIN memory => mem[m] = tried
  BY AttemptMemory, StreamsOfParts DEF Attempted
<1> HIDE DEF mem
<1>3. /\ DOMAIN memory' = {x \in DOMAIN mem : x[2] <= 0 \/ x[2] >= Min({ftime' - lookback, time})}
      /\ \A m \in DOMAIN memory' : memory'[m] = mem[m]
  <2>1. MemoryOf(mem)
    BY <1>2
  <2>2. PrunedFrom(Pruned(mem, ftime'), mem, ftime')
    BY <2>1, PrunedMemory
  <2>3. PrunedFrom(memory', mem, ftime')
    BY <1>1, <2>2
  <2> QED BY <2>3 DEF PrunedFrom
<1> QED BY <1>2, <1>3

LEMMA ClockStep == TypeOK /\ ClockInv /\ [Next]_vars => ClockInv'
<1> SUFFICES ASSUME TypeOK, ClockInv, [Next]_vars PROVE ClockInv'
  OBVIOUS
<1> USE DEF ClockInv
<1>0. /\ time \in Nat /\ given \in Seq(Deliveries) /\ Len(given) = time
      /\ \A k \in DOMAIN parts : parts[k].offset \in Nat
  BY DEF TypeOK, ClockType, GivenType, PartsType, PartType
<1>1. ASSUME NEW v \in Int, Step(v) PROVE ClockInv'
  <2>1. time' = time + 1 /\ Len(given') = time + 1
    BY <1>0, <1>1 DEF Step
  <2>2. \A m \in DOMAIN memory' : m[2] <= time'
    <3>1. \A m \in DOMAIN memory : m[2] \in Nat /\ m[2] <= time
      BY DEF TypeOK, MemoryType, MemoryOf
    <3>2. \A m \in DOMAIN memory' : m \in DOMAIN memory \/ m[2] = time
      BY <1>1, StepMemory
    <3> QED BY <1>0, <2>1, <3>1, <3>2
  <2>3. ASSUME NEW k \in DOMAIN parts'
        PROVE  parts'[k].offset <= time' /\ parts'[k].kept \subseteq 0 .. time'
    <3>1. k \in DOMAIN parts /\ parts'[k].offset = parts[k].offset /\ parts'[k].kept = parts[k].kept
      BY <1>1, StepParts DEF GoesOn
    <3> QED BY <1>0, <2>1, <3>1
  <2> QED BY <2>1, <2>2, <2>3
<1>2. ASSUME NEW v \in Int, NEW k \in DOMAIN parts,
             NEW where \in {"start", "reads", "outputs"}, ProduceFails(v, k, where)
      PROVE  ClockInv'
  <2>1. time' = time /\ given' = given
    BY <1>2 DEF ProduceFails
  <2>2. \A m \in DOMAIN memory' : m[2] <= time'
    BY <1>0, <1>2, ProvidedMemory DEF ProduceFails
  <2>3. \A j \in DOMAIN parts' :
           parts'[j].offset <= time' /\ parts'[j].kept \subseteq 0 .. time'
    BY <1>2, <2>1, FailedParts DEF GoesOn
  <2> QED BY <1>0, <2>1, <2>2, <2>3
<1>3. ASSUME NEW v \in Int, NEW S \in SUBSET Outs, CommitFails(v, S) PROVE ClockInv'
  <2>1. time' = time /\ given' = given /\ memory' = Emplaced(Provided(v), S)
    BY <1>3 DEF CommitFails
  <2>2. \A m \in DOMAIN memory' : m[2] <= time'
    <3>1. Attempted(memory', v, S)
      BY <2>1, AttemptMemory
    <3>2. \A m \in DOMAIN memory' : m \in DOMAIN memory \/ m[2] = time
      BY <3>1 DEF Attempted
    <3> QED BY <1>0, <2>1, <3>2
  <2>3. \A j \in DOMAIN parts' :
           parts'[j].offset <= time' /\ parts'[j].kept \subseteq 0 .. time'
    BY <1>3, <2>1, CommitParts DEF GoesOn
  <2> QED BY <1>0, <2>1, <2>2, <2>3
<1>4. ASSUME NEW U \in SUBSET Outs, NEW outs \in SUBSET Outs, NEW depth \in Nat,
             NEW verdict \in Verdicts, NEW continued \in BOOLEAN,
             Update(U, outs, depth, verdict, continued)
      PROVE  ClockInv'
  <2>1. PICK new \in Nat, before \in Befores, lost \in SUBSET outs :
            Revises(U, outs, depth, continued, new, before, lost)
    BY <1>4, UpdatedParts
  <2>2. time' = time /\ given' = given /\ memory' = memory
    BY <1>4 DEF Update
  <2>3. parts'[new].offset = time /\ parts'[new].kept = {}
    BY <2>1 DEF Revises, IsMade
  <2>4. ASSUME NEW k \in DOMAIN parts \ Touched(U)
        PROVE  parts'[k].offset <= time /\ parts'[k].kept \subseteq 0 .. time
    <3>1. parts'[k].offset = parts[k].offset /\ parts'[k].kept = parts[k].kept \union {time}
      BY <2>1 DEF Revises, IsKept
    <3> QED BY <1>0, <3>1
  <2>5. DOMAIN parts' = (DOMAIN parts \ Touched(U)) \union {new}
    BY <2>1 DEF Revises
  <2> QED BY <1>0, <2>2, <2>3, <2>4, <2>5
<1>5. ASSUME NEW again, Reset(again) PROVE ClockInv'
  <2>1. time' = 0 /\ given' = <<>> /\ memory' = <<>>
    BY <1>5 DEF Reset
  <2>2. ASSUME NEW k \in DOMAIN parts' PROVE parts'[k].offset = 0 /\ parts'[k].kept = {}
    <3> DEFINE a == k \in again
    <3>1. parts[k] \in PartType /\ a \in BOOLEAN /\ parts'[k] = Restarted(parts[k], a)
      BY <1>5, ResetParts DEF TypeOK, PartsType
    <3> HIDE DEF a
    <3> QED BY <3>1, RestartedAtZero
  <2> QED BY <2>1, <2>2
<1>6. CASE UNCHANGED vars
  BY <1>6 DEF vars
<1>7. CASE Next
  BY <1>1, <1>2, <1>3, <1>4, <1>5, <1>7, Actions
<1> QED BY <1>6, <1>7

LEMMA ClockInit == Init => ClockInv
<1> SUFFICES ASSUME Init PROVE ClockInv
  OBVIOUS
<1>1. PICK ps \in InitialParts :
          parts = [k \in DOMAIN ps |-> Part(ps[k].outs, ps[k].depth, 0, <<>>, {})]
  BY DEF Init
<1>2. \A k \in DOMAIN parts : parts[k].offset = 0 /\ parts[k].kept = {}
  BY <1>1 DEF Part
<1>3. memory = <<>> /\ given = <<>> /\ time = 0
  BY DEF Init
<1>4. DOMAIN memory = {} /\ Len(given) = 0
  BY <1>3
<1> QED BY <1>2, <1>3, <1>4 DEF ClockInv

-----------------------------------------------------------------------------
(* What a part played is what the run was given and delivered: its inputs   *)
(* are taken once, also when the step is tried again, and a part never      *)
(* moves in a step that is not taken, unless the run slipped.               *)
LEMMA HistoryGrows ==
    ASSUME TypeOK, ClockInv, NEW v \in Int, Step(v), NEW k \in DOMAIN parts,
           ~Contradicted(v),
           parts[k].path = [j \in 1 .. time - parts[k].offset |->
                              [s \in Streams(parts[k]) |-> given[parts[k].offset + j][s]]]
    PROVE  parts'[k].path = [j \in 1 .. time' - parts'[k].offset |->
                              [s \in Streams(parts'[k]) |-> given'[parts'[k].offset + j][s]]]
<1> DEFINE p == parts[k]
           d == [s \in AllOuts \union {"i"} |-> IF s = "i" THEN v ELSE tried]
           here == [s \in Streams(p) |-> IF s = "i" THEN v ELSE tried]
           n == time - p.offset
<1>1. /\ time \in Nat /\ p.offset \in Nat /\ p.offset <= time
      /\ given \in Seq(Deliveries) /\ Len(given) = time
      /\ p \in PartType /\ tried \in Nat
  BY DEF TypeOK, ClockType, GivenType, PartsType, PartType, ClockInv
<1>2. Taken(p, v) = v
  <2>1. p.midway = <<>> \/ p.midway = <<v>>
    BY DEF Contradicted
  <2> QED BY <2>1 DEF Taken
<1>3. parts'[k].path = Append(p.path, here)
  <2>1. Moved(p, v).path = Append(p.path, Played(p, v))
    BY <1>1, MovedGoesOn
  <2>2. parts'[k] = Moved(p, v)
    BY StepParts
  <2>3. Played(p, v) = here
    BY <1>2 DEF Played
  <2> QED BY <2>1, <2>2, <2>3
<1>4. /\ parts'[k].offset = p.offset /\ Streams(parts'[k]) = Streams(p)
      /\ time' = time + 1
  BY StepParts DEF GoesOn, Streams, Step
<1>5. given' = Append(given, d)
  BY DEF Step
<1>6. n \in Nat /\ time' - p.offset = n + 1
  BY <1>1, <1>4
<1>7. \A s \in Streams(p) : d[s] = here[s]
  BY StreamsOfParts
<1> DEFINE now(j) == [s \in Streams(p) |-> given'[p.offset + j][s]]
           old(j) == [s \in Streams(p) |-> given[p.offset + j][s]]
<1>8. ASSUME NEW j \in 1 .. n PROVE now(j) = old(j)
  <2>1. p.offset + j \in 1 .. Len(given)
    BY <1>1
  <2> HIDE DEF d
  <2>2. given'[p.offset + j] = given[p.offset + j]
    BY <1>1, <1>5, <2>1
  <2> QED BY <2>2
<1>9. now(n + 1) = here
  <2>1. p.offset + (n + 1) = Len(given) + 1
    BY <1>1
  <2>2. given'[p.offset + (n + 1)] = d
    <3> HIDE DEF d
    <3> QED BY <1>1, <1>5, <2>1
  <2>3. now(n + 1) = [s \in Streams(p) |-> d[s]]
    BY <2>2
  <2> HIDE DEF d
  <2> QED BY <1>7, <2>3
<1>10. p.path = [j \in 1 .. n |-> old(j)]
  OBVIOUS
<1> HIDE DEF now, old, here, n, d
<1>11. Append(p.path, here) = [j \in 1 .. n + 1 |-> now(j)]
  <2> DEFINE result == [j \in 1 .. n + 1 |-> now(j)]
             path == [j \in 1 .. n |-> old(j)]
             V == {old(j) : j \in 1 .. n} \union {here}
  <2>1. path \in Seq(V) /\ Len(path) = n
    BY <1>6
  <2>0. here \in V
    OBVIOUS
  <2> HIDE DEF V
  <2>2. DOMAIN Append(path, here) = 1 .. n + 1
    BY <1>6, <2>1
  <2>3. \A j \in 1 .. n + 1 : Append(path, here)[j] = result[j]
    <3> TAKE j \in 1 .. n + 1
    <3>1. CASE j = n + 1
      <4>1. Append(path, here)[j] = here
        <5> HIDE DEF path
        <5> QED BY <1>6, <2>1, <3>1
      <4>2. result[j] = now(n + 1)
        BY <3>1
      <4> QED BY <1>9, <4>1, <4>2
    <3>2. CASE j # n + 1
      <4>1. j \in 1 .. n
        BY <1>6, <3>2
      <4>2. Append(path, here)[j] = path[j]
        <5> HIDE DEF path
        <5> QED BY <1>6, <2>1, <4>1
      <4>3. path[j] = old(j) /\ result[j] = now(j)
        BY <4>1
      <4> HIDE DEF path, result
      <4> QED BY <1>8, <4>1, <4>2, <4>3
    <3> QED BY <3>1, <3>2
  <2>4. Append(path, here) = [j \in DOMAIN Append(path, here) |-> Append(path, here)[j]]
    <3> HIDE DEF path
    <3>1. Append(path, here) \in Seq(V)
      BY <2>0, <2>1
    <3>2. PICK m \in Nat : Append(path, here) \in [1 .. m -> V]
      <4>1. Seq(V) = UNION {[1 .. m -> V] : m \in Nat}
        BY SeqDef
      <4> DEFINE x == Append(path, here)
      <4>2. x \in Seq(V)
        BY <3>1
      <4> HIDE DEF x
      <4>3. PICK T \in {[1 .. m -> V] : m \in Nat} : x \in T
        BY <4>1, <4>2
      <4> QED BY <4>3 DEF x
    <3> QED BY <3>2
  <2>5. Append(path, here) = result
    <3> HIDE DEF path
    <3> QED BY <2>2, <2>3, <2>4
  <2> QED BY <1>10, <2>5
<1> QED BY <1>3, <1>4, <1>6, <1>11 DEF now

LEMMA HistoryStep == TypeOK /\ ClockInv /\ PlaysTheHistory /\ [Next]_vars => PlaysTheHistory'
<1> SUFFICES ASSUME TypeOK, ClockInv, PlaysTheHistory, [Next]_vars, ~slipped'
             PROVE  \A k \in DOMAIN parts' :
                        parts'[k].path = [j \in 1 .. time' - parts'[k].offset |->
                            [s \in Streams(parts'[k]) |-> given'[parts'[k].offset + j][s]]]
  BY DEF PlaysTheHistory, Streams
<1> DEFINE Plays(p, now, gave) ==
               p.path = [j \in 1 .. now - p.offset |->
                           [s \in Streams(p) |-> gave[p.offset + j][s]]]
<1>0. ASSUME ~slipped, NEW k \in DOMAIN parts PROVE Plays(parts[k], time, given)
  BY <1>0 DEF PlaysTheHistory
<1>a. ASSUME NEW p, NEW q, NEW now, NEW gave, Plays(p, now, gave),
             q.path = p.path, q.offset = p.offset, q.outs = p.outs
      PROVE  Plays(q, now, gave)
  BY <1>a DEF Streams
<1>b. ASSUME NEW q, NEW now, NEW gave, q.path = <<>>, q.offset = now, now \in Nat
      PROVE  Plays(q, now, gave)
  <2>1. 1 .. now - q.offset = {}
    BY <1>b
  <2> QED BY <1>b, <2>1
<1> SUFFICES \A k \in DOMAIN parts' : Plays(parts'[k], time', given')
  OBVIOUS
<1>1. ASSUME NEW v \in Int, Step(v)
      PROVE  \A k \in DOMAIN parts' : Plays(parts'[k], time', given')
  <2>1. ~slipped /\ ~Contradicted(v)
    BY <1>1 DEF Step
  <2>2. DOMAIN parts' = DOMAIN parts
    BY <1>1, StepParts
  <2>3. ASSUME NEW k \in DOMAIN parts PROVE Plays(parts'[k], time', given')
    <3>1. Plays(parts[k], time, given)
      BY <1>0, <2>1
    <3> QED BY <1>1, <2>1, <3>1, HistoryGrows
  <2> HIDE DEF Plays
  <2> QED BY <2>2, <2>3
<1> HIDE DEF Plays
<1>2. ASSUME NEW v \in Int, NEW h \in DOMAIN parts,
             NEW where \in {"start", "reads", "outputs"}, ProduceFails(v, h, where)
      PROVE  \A k \in DOMAIN parts' : Plays(parts'[k], time', given')
  <2>1. /\ ~slipped /\ \A k \in DOMAIN parts : ~(k < h)
        /\ time' = time /\ given' = given
    BY <1>2 DEF ProduceFails
  <2>2. ASSUME NEW k \in DOMAIN parts
        PROVE  /\ parts'[k].path = parts[k].path
               /\ parts'[k].offset = parts[k].offset /\ parts'[k].outs = parts[k].outs
    <3>1. parts[k] \in PartType
      BY DEF TypeOK, PartsType
    <3>2. parts'[k] = parts[k] \/ parts'[k] = FailedAt(parts[k], v, where)
      BY <1>2, <2>1, FailedParts
    <3>3. FailedAt(parts[k], v, where).path = parts[k].path
      BY <3>1, FailedGoesOn
    <3>4. GoesOn(parts[k], parts'[k])
      BY <1>2, FailedParts
    <3> QED BY <3>2, <3>3, <3>4 DEF GoesOn
  <2>3. DOMAIN parts' = DOMAIN parts
    BY <1>2, FailedParts
  <2> QED BY <1>0, <1>a, <2>1, <2>2, <2>3
<1>3. ASSUME NEW v \in Int, NEW S \in SUBSET Outs, CommitFails(v, S) PROVE FALSE
  BY <1>3 DEF CommitFails
<1>4. ASSUME NEW U \in SUBSET Outs, NEW outs \in SUBSET Outs, NEW depth \in Nat,
             NEW verdict \in Verdicts, NEW continued \in BOOLEAN,
             Update(U, outs, depth, verdict, continued)
      PROVE  \A k \in DOMAIN parts' : Plays(parts'[k], time', given')
  <2>1. PICK new \in Nat, before \in Befores, lost \in SUBSET outs :
            Revises(U, outs, depth, continued, new, before, lost)
    BY <1>4, UpdatedParts
  <2>2. ~slipped /\ time' = time /\ given' = given /\ time \in Nat
    BY <1>4 DEF Update, TypeOK, ClockType
  <2>3. Plays(parts'[new], time', given')
    <3>1. parts'[new].path = <<>> /\ parts'[new].offset = time
      BY <2>1 DEF Revises, IsMade
    <3> QED BY <1>b, <2>2, <3>1
  <2>4. ASSUME NEW k \in DOMAIN parts \ Touched(U) PROVE Plays(parts'[k], time', given')
    <3>1. /\ parts'[k].path = parts[k].path
          /\ parts'[k].offset = parts[k].offset /\ parts'[k].outs = parts[k].outs
      BY <2>1 DEF Revises, IsKept
    <3> QED BY <1>0, <1>a, <2>2, <3>1
  <2>5. DOMAIN parts' = (DOMAIN parts \ Touched(U)) \union {new}
    BY <2>1 DEF Revises
  <2> QED BY <2>3, <2>4, <2>5
<1>5. ASSUME NEW again, Reset(again)
      PROVE  \A k \in DOMAIN parts' : Plays(parts'[k], time', given')
  <2>1. time' = 0
    BY <1>5 DEF Reset
  <2>2. ASSUME NEW k \in DOMAIN parts' PROVE Plays(parts'[k], time', given')
    <3> DEFINE a == k \in again
    <3>1. parts[k] \in PartType /\ a \in BOOLEAN /\ parts'[k] = Restarted(parts[k], a)
      BY <1>5, ResetParts DEF TypeOK, PartsType
    <3> HIDE DEF a
    <3>2. parts'[k].path = <<>> /\ parts'[k].offset = 0
      BY <3>1, RestartedAtZero
    <3> QED BY <1>b, <2>1, <3>2
  <2> QED BY <2>2
<1>6. CASE UNCHANGED vars
  BY <1>0, <1>6 DEF vars
<1>7. CASE Next
  BY <1>1, <1>2, <1>3, <1>4, <1>5, <1>7, Actions
<1> QED BY <1>6, <1>7

THEOREM PlaysWhatHappened == Spec => []PlaysTheHistory
<1>1. Init => PlaysTheHistory
  <2> SUFFICES ASSUME Init PROVE PlaysTheHistory
    OBVIOUS
  <2>1. PICK ps \in InitialParts :
            parts = [k \in DOMAIN ps |-> Part(ps[k].outs, ps[k].depth, 0, <<>>, {})]
    BY DEF Init
  <2>2. \A k \in DOMAIN parts : parts[k].path = <<>> /\ time - parts[k].offset = 0
    BY <2>1 DEF Part, Init
  <2> QED BY <2>2 DEF PlaysTheHistory
<1> QED BY <1>1, ClockInit, ClockStep, HistoryStep, TypeCorrect, PTL DEF Spec

-----------------------------------------------------------------------------
(* What an updated part starts from: memory is what was given and delivered *)
(* and a part that starts later starts from what came before it.            *)
LEMMA MemoryStep == TypeOK /\ ClockInv /\ MemoryInv /\ [Next]_vars => MemoryInv'
<1> SUFFICES ASSUME TypeOK, ClockInv, MemoryInv, [Next]_vars, ~slipped'
             PROVE  /\ \A s \in Outs : <<s, time'>> \notin DOMAIN memory'
                    /\ \A m \in DOMAIN memory' :
                          m[2] < time' /\ m[1] \in DOMAIN given'[m[2] + 1]
                              => memory'[m] = given'[m[2] + 1][m[1]]
  BY DEF MemoryInv
<1> DEFINE Conclusion ==
               /\ \A s \in Outs : <<s, time'>> \notin DOMAIN memory'
               /\ \A m \in DOMAIN memory' :
                     m[2] < time' /\ m[1] \in DOMAIN given'[m[2] + 1]
                         => memory'[m] = given'[m[2] + 1][m[1]]
<1>0. /\ time \in Nat /\ given \in Seq(Deliveries) /\ Len(given) = time
      /\ \A m \in DOMAIN memory :
            m \in AnyStream \X Nat /\ m[2] \in Nat /\ m[2] <= time /\ m[1] \in AnyStream
  BY DEF TypeOK, ClockType, GivenType, MemoryType, MemoryOf, ClockInv
<1>1. ASSUME NEW v \in Int, Step(v) PROVE Conclusion
  <2> DEFINE d == [s \in AllOuts \union {"i"} |-> IF s = "i" THEN v ELSE tried]
  <2>1. ~slipped /\ time' = time + 1 /\ given' = Append(given, d)
    BY <1>1 DEF Step
  <2>2. /\ \A s \in Outs : <<s, time>> \notin DOMAIN memory
        /\ \A m \in DOMAIN memory :
              m[2] < time /\ m[1] \in DOMAIN given[m[2] + 1]
                  => memory[m] = given[m[2] + 1][m[1]]
    BY <2>1 DEF MemoryInv
  <2>3. \A m \in DOMAIN memory' :
           m \in DOMAIN memory \union {<<"i", time>>} \union (AllOuts \X {time})
    BY <1>1, StepMemory
  <2>4. AllOuts \subseteq Outs /\ "i" \notin AllOuts
    BY StreamsOfParts
  <2>5. d["i"] = v /\ \A s \in AllOuts : d[s] = tried
    BY <2>4
  <2> HIDE DEF d
  <2>6. given'[time + 1] = d /\ \A t \in 1 .. time : given'[t] = given[t]
    BY <1>0, <2>1
  <2>7. ASSUME NEW m \in DOMAIN memory', m[1] \in DOMAIN given'[m[2] + 1]
        PROVE  memory'[m] = given'[m[2] + 1][m[1]]
    <3>1. CASE m = <<"i", time>>
      <4>1. memory'[m] = v
        BY <1>1, <3>1, StepMemory
      <4> QED BY <2>5, <2>6, <3>1, <4>1
    <3>2. CASE m # <<"i", time>> /\ m \in DOMAIN memory
      <4>1. m[2] # time
        <5> SUFFICES ASSUME m[2] = time PROVE FALSE
          OBVIOUS
        <5>1. m = <<m[1], time>> /\ m[1] \in Outs
          BY <1>0, <3>2 DEF AnyStream
        <5> QED BY <2>2, <3>2, <5>1
      <4>2. m[2] < time /\ m[2] + 1 \in 1 .. time
        BY <1>0, <3>2, <4>1
      <4>3. memory'[m] = memory[m]
        BY <1>1, <3>2, StepMemory
      <4> QED BY <2>2, <2>6, <2>7, <3>2, <4>2, <4>3
    <3>3. CASE m \in AllOuts \X {time} /\ m \notin DOMAIN memory
      <4>1. memory'[m] = tried
        BY <1>1, <3>3, StepMemory
      <4>2. m[1] \in AllOuts /\ m[2] = time
        BY <3>3
      <4> QED BY <2>5, <2>6, <4>1, <4>2
    <3> QED BY <2>3, <3>1, <3>2, <3>3
  <2>8. \A s \in Outs : <<s, time'>> \notin DOMAIN memory'
    <3>1. \A m \in DOMAIN memory' : m[2] \in Nat /\ m[2] <= time
      BY <1>0, <2>3
    <3> QED BY <1>0, <2>1, <3>1
  <2> QED BY <2>7, <2>8
<1>2. ASSUME NEW v \in Int, NEW k \in DOMAIN parts,
             NEW where \in {"start", "reads", "outputs"}, ProduceFails(v, k, where)
      PROVE  Conclusion
  <2>1. ~slipped /\ time' = time /\ given' = given /\ memory' = Provided(v)
    BY <1>2 DEF ProduceFails
  <2>2. /\ DOMAIN memory' = DOMAIN memory \union {<<"i", time>>}
        /\ \A m \in DOMAIN memory : m # <<"i", time>> => memory'[m] = memory[m]
    BY <2>1, ProvidedMemory
  <2> QED BY <1>0, <2>1, <2>2 DEF MemoryInv
<1>3. ASSUME NEW v \in Int, NEW S \in SUBSET Outs, CommitFails(v, S) PROVE FALSE
  BY <1>3 DEF CommitFails
<1>4. ASSUME NEW U, NEW outs, NEW depth, NEW verdict, NEW continued,
             Update(U, outs, depth, verdict, continued)
      PROVE  Conclusion
  BY <1>4 DEF Update, MemoryInv
<1>5. ASSUME NEW again, Reset(again) PROVE Conclusion
  <2>1. DOMAIN memory' = {}
    BY <1>5 DEF Reset
  <2> QED BY <2>1
<1>6. CASE UNCHANGED vars
  BY <1>6 DEF vars, MemoryInv
<1>7. CASE Next
  BY <1>1, <1>2, <1>3, <1>4, <1>5, <1>7, Actions
<1> QED BY <1>6, <1>7

LEMMA ReadyStep == TypeOK /\ ReadyInv /\ [Next]_vars => ReadyInv'
<1> SUFFICES ASSUME TypeOK, ReadyInv, [Next]_vars, ~ownStart'
             PROVE  \A k \in DOMAIN parts' : parts'[k].ready \/ parts'[k].offset = 0
  BY DEF ReadyInv
<1>1. ASSUME NEW v \in Int, Step(v) PROVE \A k \in DOMAIN parts' : parts'[k].ready
  BY <1>1, StepParts
<1>2. ASSUME NEW v \in Int, NEW h \in DOMAIN parts,
             NEW where \in {"start", "reads", "outputs"}, ProduceFails(v, h, where)
      PROVE  \A k \in DOMAIN parts' : parts'[k].ready \/ parts'[k].offset = 0
  <2>1. ~ownStart
    BY <1>2 DEF ProduceFails
  <2> QED BY <1>2, <2>1, FailedParts DEF ReadyInv, GoesOn
<1>3. ASSUME NEW v \in Int, NEW S \in SUBSET Outs, CommitFails(v, S)
      PROVE  \A k \in DOMAIN parts' : parts'[k].ready
  BY <1>3, CommitParts
<1>4. ASSUME NEW U \in SUBSET Outs, NEW outs \in SUBSET Outs, NEW depth \in Nat,
             NEW verdict \in Verdicts, NEW continued \in BOOLEAN,
             Update(U, outs, depth, verdict, continued)
      PROVE  \A k \in DOMAIN parts' : parts'[k].ready \/ parts'[k].offset = 0
  <2>1. PICK new \in Nat, before \in Befores, lost \in SUBSET outs :
            Revises(U, outs, depth, continued, new, before, lost)
    BY <1>4, UpdatedParts
  <2>2. ~ownStart /\ (time > 0 => continued) /\ time \in Nat
    BY <1>4 DEF Update, TypeOK, ClockType
  <2>3. parts'[new].ready \/ parts'[new].offset = 0
    BY <2>1, <2>2 DEF Revises, IsMade
  <2> QED BY <2>1, <2>2, <2>3 DEF Revises, IsKept, ReadyInv
<1>5. ASSUME NEW again, Reset(again) PROVE \A k \in DOMAIN parts' : parts'[k].offset = 0
  <2>1. ASSUME NEW k \in DOMAIN parts' PROVE parts'[k].offset = 0
    <3> DEFINE a == k \in again
    <3>1. parts[k] \in PartType /\ a \in BOOLEAN /\ parts'[k] = Restarted(parts[k], a)
      BY <1>5, ResetParts DEF TypeOK, PartsType
    <3> HIDE DEF a
    <3> QED BY <3>1, RestartedAtZero
  <2> QED BY <2>1
<1>6. CASE UNCHANGED vars
  BY <1>6 DEF vars, ReadyInv
<1>7. CASE Next
  BY <1>1, <1>2, <1>3, <1>4, <1>5, <1>7, Actions
<1> QED BY <1>6, <1>7

(* The values before a part's start are those the records have.             *)
Continues(p, gave) ==
    p.ready => \A s \in Streams(p) \ p.lost, j \in 1 .. p.depth :
        (p.offset - j >= 0 /\ s \in DOMAIN gave[p.offset - j + 1])
            => p.before[s][j] = gave[p.offset - j + 1][s]

LEMMA ContinuesMoved ==
    ASSUME NEW p \in PartType, NEW q, GoesOn(p, q), p.ready \/ p.offset = 0,
           NEW gave, NEW gave2, Continues(p, gave),
           \A t \in 1 .. p.offset : gave2[t] = gave[t]
    PROVE  Continues(q, gave2)
<1> SUFFICES ASSUME q.ready, NEW s \in Streams(q) \ q.lost, NEW j \in 1 .. q.depth,
                    q.offset - j >= 0, s \in DOMAIN gave2[q.offset - j + 1]
             PROVE  q.before[s][j] = gave2[q.offset - j + 1][s]
  BY DEF Continues
<1>1. /\ q.offset = p.offset /\ q.depth = p.depth /\ q.lost = p.lost
      /\ Streams(q) = Streams(p) /\ p.offset \in Nat /\ p.depth \in Nat
  BY DEF GoesOn, Streams, PartType
<1>2. p.offset # 0
  BY <1>1
<1>3. p.ready /\ q.before = p.before
  BY <1>2 DEF GoesOn
<1>4. p.offset - j + 1 \in 1 .. p.offset
  BY <1>1
<1>5. gave2[q.offset - j + 1] = gave[p.offset - j + 1]
  BY <1>1, <1>4
<1> QED BY <1>1, <1>3, <1>5 DEF Continues

LEMMA PriorDelivered ==
    ASSUME TypeOK, ClockInv, MemoryInv, ~slipped,
           \A k \in DOMAIN parts : Continues(parts[k], given),
           NEW s \in AnyStream, NEW j \in Nat \ {0}, time - j >= 0,
           s = "i" \/ ~Dropped(s), s \in DOMAIN given[time - j + 1],
           NEW x \in PriorAt(s, j)
    PROVE  x = given[time - j + 1][s]
<1>0. /\ time \in Nat /\ Len(given) = time /\ given \in Seq(Deliveries)
      /\ time - j + 1 \in DOMAIN given /\ time - j \in Nat
  BY DEF TypeOK, ClockType, GivenType, ClockInv
<1>1. ~ \A k \in DOMAIN parts : s \notin Streams(parts[k])
  <2> SUFFICES ASSUME \A k \in DOMAIN parts : s \notin Streams(parts[k]) PROVE FALSE
    OBVIOUS
  <2>1. s # "i"
    BY DEF Streams, TypeOK, PartsType
  <2>2. s \notin AllOuts
    BY DEF AllOuts, Streams
  <2>3. Dropped(s)
    BY <1>0, <2>2 DEF Dropped
  <2> QED BY <2>1, <2>3
<1>2. PICK k \in DOMAIN parts :
          /\ s \in Streams(parts[k])
          /\ \/ time - j >= parts[k].offset /\ PriorAt(s, j) = Remembered(s, time - j)
             \/ PriorAt(s, j) = {}
             \/ /\ time - j < parts[k].offset
                /\ parts[k].ready
                /\ parts[k].offset - (time - j) \in 1 .. parts[k].depth
                /\ PriorAt(s, j) = {parts[k].before[s][parts[k].offset - (time - j)]}
  BY <1>1, PriorFrom
<1>3. CASE PriorAt(s, j) = Remembered(s, time - j)
  <2> DEFINE m == <<s, time - j>>
  <2>1. m \in DOMAIN memory /\ x = memory[m]
    BY <1>3 DEF Remembered
  <2>2. m[2] < time /\ m[1] \in DOMAIN given[m[2] + 1]
    BY <1>0
  <2>3. memory[m] = given[m[2] + 1][m[1]]
    BY <2>1, <2>2 DEF MemoryInv
  <2> QED BY <2>1, <2>3
<1>4. CASE /\ time - j < parts[k].offset
           /\ parts[k].ready
           /\ parts[k].offset - (time - j) \in 1 .. parts[k].depth
           /\ PriorAt(s, j) = {parts[k].before[s][parts[k].offset - (time - j)]}
  <2> DEFINE p == parts[k]
             h == p.offset - (time - j)
  <2>1. p \in PartType /\ p.offset \in Nat
    BY DEF TypeOK, PartsType, PartType
  <2>2. s \notin p.lost
    <3>1. p.lost \subseteq Outs
      BY <2>1 DEF PartType
    <3>2. CASE s = "i"
      BY <3>1, <3>2
    <3>3. CASE ~Dropped(s)
      BY <3>3 DEF Dropped
    <3> QED BY <3>2, <3>3
  <2>3. h \in 1 .. p.depth /\ p.ready /\ x = p.before[s][h] /\ s \in Streams(p)
    BY <1>2, <1>4
  <2>4. p.offset - h = time - j
    BY <1>0, <2>1
  <2>5. Continues(p, given)
    OBVIOUS
  <2> HIDE DEF p, h
  <2>6. p.before[s][h] = given[p.offset - h + 1][s]
    BY <1>0, <2>2, <2>3, <2>4, <2>5 DEF Continues
  <2> QED BY <2>3, <2>4, <2>6
<1> QED BY <1>2, <1>3, <1>4

ContinuesInv == slipped \/ ownStart \/ \A k \in DOMAIN parts : Continues(parts[k], given)

LEMMA ContinuesStep ==
    /\ TypeOK /\ ClockInv /\ MemoryInv /\ ReadyInv /\ ContinuesInv
    /\ [Next]_vars
    => ContinuesInv'
<1> SUFFICES ASSUME TypeOK, ClockInv, MemoryInv, ReadyInv, ContinuesInv, [Next]_vars,
                    ~slipped', ~ownStart'
             PROVE  \A k \in DOMAIN parts' : Continues(parts'[k], given')
  BY DEF ContinuesInv, Continues, Streams
<1>0. /\ time \in Nat /\ given \in Seq(Deliveries) /\ Len(given) = time
      /\ \A k \in DOMAIN parts :
            parts[k] \in PartType /\ parts[k].offset \in Nat /\ parts[k].offset <= time
  BY DEF TypeOK, ClockType, GivenType, PartsType, PartType, ClockInv
<1>1. ASSUME NEW v \in Int, Step(v) PROVE \A k \in DOMAIN parts' : Continues(parts'[k], given')
  <2>1. ~slipped /\ ~ownStart
    BY <1>1 DEF Step
  <2>2. \A t \in 1 .. time : given'[t] = given[t]
    <3>1. PICK d : given' = Append(given, d)
      BY <1>1 DEF Step
    <3> QED BY <1>0, <3>1
  <2>3. ASSUME NEW k \in DOMAIN parts PROVE Continues(parts'[k], given')
    <3>1. GoesOn(parts[k], parts'[k])
      BY <1>1, StepParts
    <3>2. Continues(parts[k], given) /\ (parts[k].ready \/ parts[k].offset = 0)
      BY <2>1 DEF ContinuesInv, ReadyInv
    <3>3. \A t \in 1 .. parts[k].offset : given'[t] = given[t]
      BY <1>0, <2>2
    <3> QED BY <1>0, <3>1, <3>2, <3>3, ContinuesMoved
  <2> QED BY <1>1, <2>3, StepParts
<1>2. ASSUME NEW v \in Int, NEW h \in DOMAIN parts,
             NEW where \in {"start", "reads", "outputs"}, ProduceFails(v, h, where)
      PROVE  \A k \in DOMAIN parts' : Continues(parts'[k], given')
  <2>1. ~slipped /\ ~ownStart /\ given' = given
    BY <1>2 DEF ProduceFails
  <2>2. ASSUME NEW k \in DOMAIN parts PROVE Continues(parts'[k], given')
    <3>1. GoesOn(parts[k], parts'[k])
      BY <1>2, FailedParts
    <3>2. Continues(parts[k], given) /\ (parts[k].ready \/ parts[k].offset = 0)
      BY <2>1 DEF ContinuesInv, ReadyInv
    <3> QED BY <1>0, <2>1, <3>1, <3>2, ContinuesMoved
  <2> QED BY <1>2, <2>2, FailedParts
<1>3. ASSUME NEW v \in Int, NEW S \in SUBSET Outs, CommitFails(v, S) PROVE FALSE
  BY <1>3 DEF CommitFails
<1>4. ASSUME NEW U \in SUBSET Outs, NEW outs \in SUBSET Outs, NEW depth \in Nat,
             NEW verdict \in Verdicts, NEW continued \in BOOLEAN,
             Update(U, outs, depth, verdict, continued)
      PROVE  \A k \in DOMAIN parts' : Continues(parts'[k], given')
  <2>1. PICK new \in Nat, before \in Befores, lost \in SUBSET outs :
            Revises(U, outs, depth, continued, new, before, lost)
    BY <1>4, UpdatedParts
  <2>2. ~slipped /\ ~ownStart /\ given' = given
    BY <1>4 DEF Update
  <2>3. ASSUME NEW k \in DOMAIN parts \ Touched(U) PROVE Continues(parts'[k], given')
    <3>1. IsKept(parts[k], parts'[k])
      BY <2>1 DEF Revises
    <3>2. Continues(parts[k], given)
      BY <2>2 DEF ContinuesInv
    <3> QED BY <2>2, <3>1, <3>2 DEF IsKept, Continues, Streams
  <2>4. Continues(parts'[new], given')
    <3> DEFINE q == parts'[new]
               S == outs \union {"i"}
    <3>1. /\ Streams(q) = S /\ q.offset = time /\ q.depth = depth
          /\ q.lost = lost /\ q.before = before /\ (q.ready <=> before # <<>>)
      BY <2>1 DEF Revises, IsMade, Streams
    <3>2. lost = {s \in outs : Dropped(s)}
      BY <2>1 DEF Revises
    <3> HIDE DEF q, S
    <3> SUFFICES ASSUME q.ready, NEW s \in S \ lost, NEW j \in 1 .. depth,
                        time - j >= 0, s \in DOMAIN given[time - j + 1]
                 PROVE  before[s][j] = given[time - j + 1][s]
      BY <2>2, <3>1 DEF Continues, q
    <3>3. continued
      BY <2>1, <3>1 DEF Revises
    <3>4. PriorKnown(S, depth) /\ before = Prior(S, depth)
      BY <2>1, <3>3 DEF Revises, S
    <3>5. S \in SUBSET AnyStream
      BY DEF AnyStream, S
    <3>6. before[s][j] \in PriorAt(s, j)
      BY <3>4, <3>5, PriorTyped
    <3>7. s = "i" \/ ~Dropped(s)
      BY <3>2 DEF S
    <3>8. \A k \in DOMAIN parts : Continues(parts[k], given)
      BY <2>2 DEF ContinuesInv
    <3>9. s \in AnyStream /\ j \in Nat \ {0}
      BY <3>5
    <3> QED BY <2>2, <3>6, <3>7, <3>8, <3>9, PriorDelivered
  <2>5. DOMAIN parts' = (DOMAIN parts \ Touched(U)) \union {new}
    BY <2>1 DEF Revises
  <2> QED BY <2>3, <2>4, <2>5
<1>5. ASSUME NEW again, Reset(again) PROVE \A k \in DOMAIN parts' : Continues(parts'[k], given')
  <2>1. ASSUME NEW k \in DOMAIN parts' PROVE ~parts'[k].ready
    <3> DEFINE a == k \in again
    <3>1. parts[k] \in PartType /\ a \in BOOLEAN /\ parts'[k] = Restarted(parts[k], a)
      BY <1>5, ResetParts DEF TypeOK, PartsType
    <3> HIDE DEF a
    <3> QED BY <3>1, RestartedAtZero
  <2> QED BY <2>1 DEF Continues
<1>6. CASE UNCHANGED vars
  BY <1>6 DEF vars, ContinuesInv
<1>7. CASE Next
  BY <1>1, <1>2, <1>3, <1>4, <1>5, <1>7, Actions
<1> QED BY <1>6, <1>7

THEOREM StartsFromWhatHappened == Spec => []ContinuesWhatWasDelivered
<1>1. Init => MemoryInv /\ ReadyInv /\ ContinuesInv
  <2> SUFFICES ASSUME Init PROVE MemoryInv /\ ReadyInv /\ ContinuesInv
    OBVIOUS
  <2>1. PICK ps \in InitialParts :
            parts = [k \in DOMAIN ps |-> Part(ps[k].outs, ps[k].depth, 0, <<>>, {})]
    BY DEF Init
  <2>2. \A k \in DOMAIN parts : parts[k].ready = FALSE /\ parts[k].offset = 0
    BY <2>1 DEF Part
  <2>3. DOMAIN memory = {}
    BY DEF Init
  <2> QED BY <2>2, <2>3 DEF MemoryInv, ReadyInv, ContinuesInv, Continues
<1>2. ContinuesInv => ContinuesWhatWasDelivered
  BY DEF ContinuesInv, Continues, ContinuesWhatWasDelivered
<1> QED BY <1>1, <1>2, ClockInit, ClockStep, MemoryStep, ReadyStep, ContinuesStep,
           TypeCorrect, PTL DEF Spec

-----------------------------------------------------------------------------
(* The window of memory: what a part looks back on is held, as far as it    *)
(* plays and except where an update kept it and the window started over.    *)
LEMMA ReachedLess ==
    ASSUME NEW p \in PartType, NEW q \in PartType,
           q.depth = p.depth, q.offset = p.offset, p.kept \subseteq q.kept,
           NEW x \in Int, NEW y \in Int, y <= x,
           NEW now \in Nat, NEW later \in Nat, now <= later, Reached(p, x, now)
    PROVE  Reached(q, y, later)
<1>1. p.depth \in Nat /\ p.offset \in Nat /\ p.kept \subseteq Nat
  BY DEF PartType
<1>2. CASE x <= now - p.depth
  BY <1>1, <1>2 DEF Reached
<1>3. CASE x <= p.offset
  BY <1>1, <1>3 DEF Reached
<1>4. CASE \E u \in p.kept : x <= u /\ u < now
  <2>1. PICK u \in p.kept : x <= u /\ u < now
    BY <1>4
  <2>2. u \in q.kept /\ u \in Nat /\ y <= u /\ u < later
    BY <1>1, <2>1
  <2> QED BY <2>2 DEF Reached
<1> QED BY <1>2, <1>3, <1>4 DEF Reached

(* What the invariant says of one part.                                     *)
Window(p) ==
    /\ p.depth <= lookback
    /\ Reached(p, ftime - lookback, time + 1)
    /\ \E a \in Int : Holds(p, a) /\ Reached(p, a, time)

LEMMA WindowGrows ==
    ASSUME TypeOK, NEW v \in Int, Step(v), NEW k \in DOMAIN parts, Window(parts[k])
    PROVE  /\ parts'[k].depth <= lookback'
           /\ Reached(parts'[k], ftime' - lookback', time' + 1)
           /\ \E a \in Int :
                 /\ Reached(parts'[k], a, time')
                 /\ \A s \in Streams(parts'[k]), t \in Nat :
                       parts'[k].offset <= t /\ a <= t /\ t < time' => <<s, t>> \in DOMAIN memory'
<1>1. PICK p, q : p = parts[k] /\ q = parts'[k]
  OBVIOUS
<1>2. /\ p \in PartType /\ q \in PartType /\ GoesOn(p, q) /\ Window(p)
      /\ Streams(p) \subseteq AllOuts \union {"i"}
  BY <1>1, StepParts, StreamsOfParts
<1>3. /\ q.depth = p.depth /\ q.offset = p.offset /\ p.kept \subseteq q.kept
      /\ Streams(q) = Streams(p)
      /\ p.depth \in Nat /\ p.offset \in Nat
  BY <1>2 DEF GoesOn, Streams, PartType
<1>4. time \in Nat /\ ftime \in Nat /\ lookback \in Nat
  BY DEF TypeOK, ClockType
<1>5. /\ time' = time + 1 /\ lookback' = lookback
      /\ ftime' = (IF time < ftime THEN ftime ELSE time + 1)
  BY DEF Step
<1>6. PICK f : f = ftime'
  OBVIOUS
<1>7. f \in Nat /\ (f = ftime \/ f = time + 1)
  BY <1>4, <1>5, <1>6
<1>8. p.depth <= lookback
  BY <1>2 DEF Window
<1>9. Reached(p, f - lookback, time + 1)
  <2>1. CASE f = ftime
    BY <1>2, <2>1 DEF Window
  <2>2. CASE f = time + 1
    <3>1. f - lookback <= time + 1 - p.depth
      BY <1>3, <1>4, <1>8, <2>2
    <3>2. (f - lookback) <= (time + 1) - p.depth
      BY <1>3, <1>4, <1>7, <3>1
    <3> QED BY <3>2, Zenon DEF Reached
  <2> QED BY <1>7, <2>1, <2>2
<1>10. Reached(q, f - lookback, time + 2)
  <2>1. f - lookback \in Int /\ time + 1 \in Nat /\ time + 2 \in Nat /\ time + 1 <= time + 2
    BY <1>4, <1>7
  <2> QED BY <1>2, <1>3, <1>9, <2>1, ReachedLess
<1>11. PICK o : o = Min({f - lookback, time})
  OBVIOUS
<1>12. o \in Int /\ o <= f - lookback /\ o <= time
  <2>1. f - lookback \in Int /\ time \in Int
    BY <1>4, <1>7
  <2> QED BY <1>11, <2>1, MinOfTwo
<1>13. Reached(q, o, time + 1)
  <2>1. f - lookback \in Int /\ time + 1 \in Nat /\ time + 1 <= time + 1
    BY <1>4, <1>7
  <2> QED BY <1>2, <1>3, <1>9, <1>12, <2>1, ReachedLess
<1>14. PICK a \in Int : Holds(p, a) /\ Reached(p, a, time)
  BY <1>2 DEF Window
<1>15. Reached(q, a, time + 1)
  <2>1. time + 1 \in Nat /\ time <= time + 1 /\ a <= a
    BY <1>4
  <2> QED BY <1>2, <1>3, <1>4, <1>14, <2>1, ReachedLess
<1>16. ASSUME NEW b \in Int, a <= b, o <= b, NEW s \in Streams(q), NEW t \in Nat,
              q.offset <= t, b <= t, t < time + 1
       PROVE  <<s, t>> \in DOMAIN memory'
  <2>1. <<s, t>> \in DOMAIN memory \union {<<"i", time>>} \union (AllOuts \X {time})
    <3>1. CASE t = time
      BY <1>2, <1>3, <3>1
    <3>2. CASE t < time
      <4>1. p.offset <= t /\ a <= t /\ s \in Streams(p)
        BY <1>3, <1>16
      <4> QED BY <1>14, <3>2, <4>1 DEF Holds
    <3> QED BY <1>4, <1>16, <3>1, <3>2
  <2>2. t >= o
    BY <1>12, <1>16
  <2>3. o = Min({ftime' - lookback, time})
    BY <1>6, <1>11
  <2>4. \A m \in DOMAIN memory \union {<<"i", time>>} \union (AllOuts \X {time}) :
           m[2] >= o => m \in DOMAIN memory'
    BY <2>3, StepMemory
  <2> QED BY <2>1, <2>2, <2>4
<1>17. PICK b \in Int : a <= b /\ o <= b /\ Reached(q, b, time + 1)
  <2>1. CASE a <= o
    BY <1>12, <1>13, <2>1
  <2>2. CASE o <= a
    BY <1>12, <1>15, <2>2
  <2> QED BY <1>12, <2>1, <2>2
<1>18. \A s \in Streams(q), t \in Nat :
          q.offset <= t /\ b <= t /\ t < time + 1 => <<s, t>> \in DOMAIN memory'
  BY <1>16, <1>17
<1>19. time' + 1 = time + 2
  BY <1>4, <1>5
<1>20. /\ q.depth <= lookback'
       /\ Reached(q, f - lookback', time' + 1)
       /\ \E c \in Int :
             /\ Reached(q, c, time')
             /\ \A s \in Streams(q), t \in Nat :
                   q.offset <= t /\ c <= t /\ t < time' => <<s, t>> \in DOMAIN memory'
  BY <1>3, <1>5, <1>8, <1>10, <1>17, <1>18, <1>19
<1> QED BY <1>1, <1>6, <1>20

LEMMA WindowStep == TypeOK /\ ClockInv /\ WindowInv /\ [Next]_vars => WindowInv'
<1> SUFFICES ASSUME TypeOK, ClockInv, WindowInv, [Next]_vars PROVE WindowInv'
  OBVIOUS
<1> DEFINE Looks(p, back, at, now, mem) ==
               /\ p.depth <= back
               /\ Reached(p, at - back, now + 1)
               /\ \E a \in Int :
                     /\ Reached(p, a, now)
                     /\ \A s \in Streams(p), t \in Nat :
                           p.offset <= t /\ a <= t /\ t < now => <<s, t>> \in DOMAIN mem
<1>a. ASSUME \A k \in DOMAIN parts' : Looks(parts'[k], lookback', ftime', time', memory')
      PROVE  WindowInv'
  BY <1>a DEF WindowInv, Holds
<1>b. ASSUME NEW k \in DOMAIN parts PROVE Looks(parts[k], lookback, ftime, time, memory)
  BY DEF WindowInv, Holds
<1>0. /\ time \in Nat /\ ftime \in Nat /\ lookback \in Nat
      /\ \A k \in DOMAIN parts : parts[k] \in PartType
  BY DEF TypeOK, ClockType, PartsType
\* The same clock, more in memory, and a part kept in more updates.
<1>c. ASSUME NEW p \in PartType, NEW q \in PartType, NEW back \in Nat, NEW mem,
             q.outs = p.outs, q.depth = p.depth, q.offset = p.offset, p.kept \subseteq q.kept,
             DOMAIN memory \subseteq DOMAIN mem,
             q.depth <= back, Reached(q, time, time + 1) \/ back = lookback,
             Looks(p, lookback, ftime, time, memory)
      PROVE  /\ \E a \in Int :
                   /\ Reached(q, a, time)
                   /\ \A s \in Streams(q), t \in Nat :
                         q.offset <= t /\ a <= t /\ t < time => <<s, t>> \in DOMAIN mem
             /\ Reached(q, ftime - lookback, time + 1)
  <2>1. PICK a \in Int :
            /\ Reached(p, a, time)
            /\ \A s \in Streams(p), t \in Nat :
                  p.offset <= t /\ a <= t /\ t < time => <<s, t>> \in DOMAIN memory
    BY <1>c
  <2>2. Reached(q, a, time)
    BY <1>0, <1>c, <2>1, ReachedLess
  <2>3. Streams(q) = Streams(p)
    BY <1>c DEF Streams
  <2>4. Reached(q, ftime - lookback, time + 1)
    <3>1. ftime - lookback \in Int /\ time + 1 \in Nat
      BY <1>0
    <3> QED BY <1>c, <3>1, ReachedLess
  <2> QED BY <1>c, <2>1, <2>2, <2>3, <2>4
\* A part that starts now.
<1>d. ASSUME NEW q, NEW now \in Nat, NEW back \in Nat, NEW mem, q.offset = now, q.depth <= back
      PROVE  Looks(q, back, now + back, now, mem)
  <2>1. (now + back) - back = now
    OBVIOUS
  <2>2. Reached(q, now, now + 1) /\ Reached(q, now, now)
    BY <1>d DEF Reached
  <2> QED BY <1>d, <2>1, <2>2
<1>1. ASSUME NEW v \in Int, Step(v) PROVE WindowInv'
  <2>1. ASSUME NEW k \in DOMAIN parts
        PROVE  Looks(parts'[k], lookback', ftime', time', memory')
    <3>1. Window(parts[k])
      BY DEF Window, WindowInv
    <3> QED BY <1>1, <3>1, WindowGrows
  <2> HIDE DEF Looks
  <2> QED BY <1>1, <1>a, <2>1, StepParts
<1>2. ASSUME NEW v \in Int, NEW h \in DOMAIN parts,
             NEW where \in {"start", "reads", "outputs"}, ProduceFails(v, h, where)
      PROVE  WindowInv'
  <2>1. time' = time /\ ftime' = ftime /\ lookback' = lookback /\ memory' = Provided(v)
    BY <1>2 DEF ProduceFails
  <2>2. DOMAIN memory \subseteq DOMAIN memory'
    BY <2>1, ProvidedMemory
  <2>3. ASSUME NEW k \in DOMAIN parts
        PROVE  Looks(parts'[k], lookback', ftime', time', memory')
    <3>1. parts'[k] \in PartType /\ GoesOn(parts[k], parts'[k])
      BY <1>2, FailedParts
    <3>2. /\ parts'[k].outs = parts[k].outs /\ parts'[k].depth = parts[k].depth
          /\ parts'[k].offset = parts[k].offset /\ parts[k].kept \subseteq parts'[k].kept
          /\ parts'[k].depth <= lookback
      BY <1>b, <3>1 DEF GoesOn
    <3>3. Looks(parts[k], lookback, ftime, time, memory)
      BY <1>b
    <3>4. /\ \E a \in Int :
                /\ Reached(parts'[k], a, time)
                /\ \A s \in Streams(parts'[k]), t \in Nat :
                      parts'[k].offset <= t /\ a <= t /\ t < time => <<s, t>> \in DOMAIN memory'
          /\ Reached(parts'[k], ftime - lookback, time + 1)
      <4> HIDE DEF Looks
      <4> QED BY <1>0, <1>c, <2>2, <3>1, <3>2, <3>3
    <3> QED BY <2>1, <3>2, <3>4
  <2> HIDE DEF Looks
  <2> QED BY <1>2, <1>a, <2>3, FailedParts
<1>3. ASSUME NEW v \in Int, NEW S \in SUBSET Outs, CommitFails(v, S) PROVE WindowInv'
  <2>1. /\ time' = time /\ ftime' = ftime /\ lookback' = lookback
        /\ memory' = Emplaced(Provided(v), S)
    BY <1>3 DEF CommitFails
  <2>2. DOMAIN memory \subseteq DOMAIN memory'
    <3>1. Attempted(memory', v, S)
      BY <2>1, AttemptMemory
    <3> QED BY <3>1 DEF Attempted
  <2>3. ASSUME NEW k \in DOMAIN parts
        PROVE  Looks(parts'[k], lookback', ftime', time', memory')
    <3>1. parts'[k] \in PartType /\ GoesOn(parts[k], parts'[k])
      BY <1>3, CommitParts
    <3>2. /\ parts'[k].outs = parts[k].outs /\ parts'[k].depth = parts[k].depth
          /\ parts'[k].offset = parts[k].offset /\ parts[k].kept \subseteq parts'[k].kept
          /\ parts'[k].depth <= lookback
      BY <1>b, <3>1 DEF GoesOn
    <3>3. Looks(parts[k], lookback, ftime, time, memory)
      BY <1>b
    <3>4. /\ \E a \in Int :
                /\ Reached(parts'[k], a, time)
                /\ \A s \in Streams(parts'[k]), t \in Nat :
                      parts'[k].offset <= t /\ a <= t /\ t < time => <<s, t>> \in DOMAIN memory'
          /\ Reached(parts'[k], ftime - lookback, time + 1)
      <4> HIDE DEF Looks
      <4> QED BY <1>0, <1>c, <2>2, <3>1, <3>2, <3>3
    <3> QED BY <2>1, <3>2, <3>4
  <2> HIDE DEF Looks
  <2> QED BY <1>3, <1>a, <2>3, CommitParts
<1>4. ASSUME NEW U \in SUBSET Outs, NEW outs \in SUBSET Outs, NEW depth \in Nat,
             NEW verdict \in Verdicts, NEW continued \in BOOLEAN,
             Update(U, outs, depth, verdict, continued)
      PROVE  WindowInv'
  <2>1. PICK new \in Nat, before \in Befores, lost \in SUBSET outs :
            Revises(U, outs, depth, continued, new, before, lost)
    BY <1>4, UpdatedParts
  <2>2. /\ time' = time /\ memory' = memory
        /\ lookback' = Deepest(parts') /\ ftime' = time + lookback'
    BY <1>4 DEF Update
  <2>3. DOMAIN parts' = (DOMAIN parts \ Touched(U)) \union {new} /\ IsFiniteSet(DOMAIN parts')
    BY <2>1 DEF Revises
  <2>4. \A k \in DOMAIN parts' : parts'[k].depth \in Nat
    BY <2>1, <2>3 DEF Revises, IsMade, IsKept, PartType
  <2>5. lookback' \in Nat /\ \A k \in DOMAIN parts' : parts'[k].depth <= lookback'
    BY <2>2, <2>3, <2>4, DeepestOfAll
  <2>6. Looks(parts'[new], lookback', ftime', time', memory')
    <3>1. parts'[new].offset = time
      BY <2>1 DEF Revises, IsMade
    <3>2. Looks(parts'[new], lookback', time + lookback', time, memory')
      BY <1>0, <1>d, <2>3, <2>5, <3>1
    <3> QED BY <2>2, <3>2
  <2>7. ASSUME NEW k \in DOMAIN parts \ Touched(U)
        PROVE  Looks(parts'[k], lookback', ftime', time', memory')
    <3>1. IsKept(parts[k], parts'[k])
      BY <2>1 DEF Revises
    <3>2. Reached(parts'[k], time, time + 1)
      <4>1. time \in parts'[k].kept /\ time <= time /\ time < time + 1
        BY <1>0, <3>1 DEF IsKept
      <4> QED BY <4>1 DEF Reached
    <3>3. ftime' - lookback' = time
      BY <1>0, <2>2, <2>5
    <3>4. parts'[k].depth <= lookback'
      BY <2>3, <2>5
    <3>5. \E a \in Int :
             /\ Reached(parts'[k], a, time)
             /\ \A s \in Streams(parts'[k]), t \in Nat :
                   parts'[k].offset <= t /\ a <= t /\ t < time => <<s, t>> \in DOMAIN memory
      BY <1>0, <1>b, <1>c, <2>5, <3>1, <3>2, <3>4 DEF IsKept
    <3>6. Reached(parts'[k], ftime' - lookback', time' + 1)
      <4>1. PICK q, o, n : q = parts'[k] /\ o = ftime' - lookback' /\ n = time' + 1
        OBVIOUS
      <4>2. o = time /\ n = time + 1
        BY <2>2, <3>3, <4>1
      <4>3. Reached(q, o, n)
        BY <3>2, <4>1, <4>2
      <4> QED BY <4>1, <4>3
    <3>7. \E a \in Int :
             /\ Reached(parts'[k], a, time')
             /\ \A s \in Streams(parts'[k]), t \in Nat :
                   parts'[k].offset <= t /\ a <= t /\ t < time' => <<s, t>> \in DOMAIN memory'
      BY <2>2, <3>5
    <3> QED BY <3>4, <3>6, <3>7
  <2> HIDE DEF Looks
  <2> QED BY <1>a, <2>3, <2>6, <2>7
<1>5. ASSUME NEW again, Reset(again) PROVE WindowInv'
  <2>1. time' = 0 /\ lookback' = Deepest(parts) /\ ftime' = lookback'
    BY <1>5 DEF Reset
  <2>2. Deepest(parts) \in Nat /\ \A k \in DOMAIN parts : parts[k].depth <= Deepest(parts)
    BY DeepestOfAll DEF TypeOK, PartsType, PartType
  <2>3. ASSUME NEW k \in DOMAIN parts
        PROVE  Looks(parts'[k], lookback', ftime', time', memory')
    <3> DEFINE a == k \in again
    <3>1. parts[k] \in PartType /\ a \in BOOLEAN /\ parts'[k] = Restarted(parts[k], a)
      BY <1>5, ResetParts DEF TypeOK, PartsType
    <3> HIDE DEF a
    <3>2. parts'[k].offset = 0 /\ parts'[k].depth = parts[k].depth
      BY <3>1, RestartedAtZero
    <3>3. Looks(parts'[k], lookback', 0 + lookback', 0, memory')
      <4>1. 0 \in Nat /\ lookback' \in Nat /\ parts'[k].depth <= lookback'
        BY <2>1, <2>2, <3>2
      <4> HIDE DEF Looks
      <4> QED BY <1>d, <3>2, <4>1
    <3>4. 0 + lookback' = ftime'
      BY <2>1, <2>2
    <3> HIDE DEF Looks
    <3> QED BY <2>1, <3>3, <3>4
  <2> HIDE DEF Looks
  <2> QED BY <1>5, <1>a, <2>3, ResetParts
<1>6. CASE UNCHANGED vars
  BY <1>6 DEF vars, WindowInv, Holds
<1>7. CASE Next
  BY <1>1, <1>2, <1>3, <1>4, <1>5, <1>7, Actions
<1> QED BY <1>6, <1>7

LEMMA WindowCovers == TypeOK /\ WindowInv => LacksOnlyAsKept
<1> SUFFICES ASSUME TypeOK, WindowInv, NEW k \in DOMAIN parts, Lacks(parts[k])
             PROVE  \E u \in parts[k].kept : time - u \in 1 .. parts[k].depth - 1
  BY DEF LacksOnlyAsKept
<1>1. PICK p : p = parts[k]
  OBVIOUS
<1>2. /\ p.depth \in Nat /\ p.offset \in Nat /\ p.kept \subseteq Nat /\ time \in Nat
  BY <1>1 DEF TypeOK, PartsType, PartType, ClockType
<1>3. PICK s \in Streams(p), j \in 1 .. p.depth :
          time - j >= p.offset /\ Remembered(s, time - j) = {}
  BY <1>1 DEF Lacks
<1>4. <<s, time - j>> \notin DOMAIN memory
  BY <1>3 DEF Remembered
<1>5. PICK a \in Int : Holds(p, a) /\ Reached(p, a, time)
  BY <1>1 DEF WindowInv
<1>6. ~(a <= time - j)
  <2>1. time - j \in Nat /\ p.offset <= time - j /\ time - j < time
    BY <1>2, <1>3
  <2> QED BY <1>4, <1>5, <2>1 DEF Holds
<1>7. PICK u \in p.kept : a <= u /\ u < time
  BY <1>2, <1>3, <1>5, <1>6 DEF Reached
<1>8. time - u \in 1 .. p.depth - 1
  BY <1>2, <1>3, <1>6, <1>7
<1> QED BY <1>1, <1>7, <1>8

THEOREM WindowIsWide == Spec => []LacksOnlyAsKept
<1>1. Init => WindowInv
  <2> SUFFICES ASSUME Init PROVE WindowInv
    OBVIOUS
  <2>1. PICK ps \in InitialParts :
            parts = [k \in DOMAIN ps |-> Part(ps[k].outs, ps[k].depth, 0, <<>>, {})]
    BY DEF Init
  <2>2. \A k \in DOMAIN parts : parts[k].offset = 0
    BY <2>1 DEF Part
  <2>3. lookback \in Nat /\ \A k \in DOMAIN parts : parts[k].depth <= lookback
    <3>1. TypeOK
      BY TypeInit
    <3> QED BY <3>1, DeepestOfAll DEF TypeOK, PartsType, PartType, Init
  <2>4. time = 0 /\ ftime - lookback = 0
    BY <2>3 DEF Init
  <2>5. ASSUME NEW k \in DOMAIN parts
        PROVE  /\ Holds(parts[k], 0) /\ Reached(parts[k], 0, time)
               /\ Reached(parts[k], ftime - lookback, time + 1)
    BY <2>2, <2>4 DEF Holds, Reached
  <2> QED BY <2>3, <2>5 DEF WindowInv
<1> QED BY <1>1, ClockInit, ClockStep, WindowStep, WindowCovers, TypeCorrect, PTL DEF Spec
=============================================================================
