--------------------------- MODULE RevisionProofs ---------------------------
(***************************************************************************)
(* What a part plays after any number of pointwise revisions, whatever its *)
(* specification and the updates say, and however many alternatives there  *)
(* may be.                                                                 *)
(***************************************************************************)
EXTENDS Revision, FiniteSetTheorems, WellFoundedInduction, TLAPS

(* c is written with no more lookback than b, and holds wherever b does.    *)
Weaker(b, c) ==
    /\ c.lookback <= b.lookback
    /\ b.frames \subseteq Aligned(c, b.lookback).frames

IsPart(a) ==
    /\ DOMAIN a \subseteq Nat /\ IsFiniteSet(DOMAIN a)
    /\ a \in [DOMAIN a -> Bodies]

(* A part has a last alternative, the one that plays against every input,   *)
(* and every alternative is stronger than the ones after it.                *)
Chain(a) == \A j, k \in DOMAIN a : j < k => Weaker(a[j], a[k])
IsLast(a, m) == m \in DOMAIN a /\ \A j \in DOMAIN a : j <= m
LastPlays(a) == \A k \in DOMAIN a : Executable(a[k]) <=> IsLast(a, k)
Sound(a) ==
    /\ IsPart(a)
    /\ \E m \in DOMAIN a : IsLast(a, m)
    /\ Chain(a)
    /\ LastPlays(a)

-----------------------------------------------------------------------------
(* The inductive invariant.                                                 *)

StateInv ==
    /\ Sound(alts)
    /\ ctns = Continuations(alts)
    /\ previous \in Letters /\ warm \in {0, 1} /\ updates \in Nat

(* The part is what its last update made of the part before it.             *)
MadeBy(a, u, r) == r = Outcome(a, u) \/ (r = a /\ a = [k \in {1} |-> u])
HistoryInv ==
    /\ Sound(before) /\ law \in Bodies /\ Executable(law)
    /\ MadeBy(before, law, alts)

Inv == StateInv /\ HistoryInv

-----------------------------------------------------------------------------
(* Frames that can be played for ever.                                      *)

(* Every set from which each input is answered within it. *)
Answers(W, R) ==
    \A p \in W, i \in Inputs : \E o \in Outputs : <<i, o>> \in W /\ <<p, <<i, o>>>> \in R
GoesOn(W, R) == \A p \in W : \E c \in W : <<p, c>> \in R

(* Winning is the greatest set from which each input is answered. *)
LEMMA WinningAnswers ==
    ASSUME NEW R
    PROVE  /\ Winning(R) \subseteq Letters
           /\ Answers(Winning(R), R)
           /\ \A W \in SUBSET Letters : Answers(W, R) => W \subseteq Winning(R)
<1> DEFINE F == {W \in SUBSET Letters : Answers(W, R)}
<1>1. Winning(R) = UNION F
  BY DEF Winning, Answers
<1>2. Answers(UNION F, R)
  BY DEF Answers
<1> QED BY <1>1, <1>2

(* Living is the greatest set in which the play goes on for some inputs. *)
LEMMA LivingGoesOn ==
    ASSUME NEW R
    PROVE  /\ Living(R) \subseteq Letters
           /\ GoesOn(Living(R), R)
           /\ \A W \in SUBSET Letters : GoesOn(W, R) => W \subseteq Living(R)
<1> DEFINE F == {W \in SUBSET Letters : GoesOn(W, R)}
<1>1. Living(R) = UNION F
  BY DEF Living, GoesOn
<1>2. GoesOn(UNION F, R)
  BY DEF GoesOn
<1> QED BY <1>1, <1>2

(* With more frames, more can be played. *)
LEMMA WinningGrows ==
    ASSUME NEW R, NEW Q, R \subseteq Q
    PROVE  Winning(R) \subseteq Winning(Q)
<1>1. Answers(Winning(R), Q)
  <2>1. Answers(Winning(R), R)
    BY WinningAnswers
  <2> QED BY <2>1 DEF Answers
<1> QED BY <1>1, WinningAnswers

(* What is won against every input is played with some. *)
LEMMA WinningLives ==
    ASSUME NEW R
    PROVE  Winning(R) \subseteq Living(R)
<1>1. PICK i \in Inputs : TRUE
  BY RevisionAssumption
<1>2. GoesOn(Winning(R), R)
  BY <1>1, WinningAnswers DEF Answers, GoesOn
<1> QED BY <1>2, WinningAnswers, LivingGoesOn

(* A body with more frames is executable when one with fewer is. *)
LEMMA ExecutableGrows ==
    ASSUME NEW b, NEW c, b.frames \subseteq c.frames, Executable(b)
    PROVE  Executable(c)
BY WinningGrows DEF Executable

(* An executable body is alive. *)
LEMMA ExecutableLives ==
    ASSUME NEW b, Executable(b)
    PROVE  Live(b) /\ Winning(b.frames) # {}
<1>1. PICK i \in Inputs : TRUE
  BY RevisionAssumption
<1>2. Winning(b.frames) # {}
  BY <1>1 DEF Executable
<1> QED BY <1>2, WinningLives DEF Live

-----------------------------------------------------------------------------
(* Bodies of one lookback.                                                  *)

(* An aligned body is a body. *)
LEMMA AlignedType ==
    ASSUME NEW b \in Bodies, NEW n \in {0, 1}, b.lookback <= n
    PROVE  Aligned(b, n) \in Bodies /\ Aligned(b, n).lookback = n
BY DEF Aligned, Bodies

(* Alignment keeps which of two bodies is the weaker one. *)
LEMMA AlignedWeaker ==
    ASSUME NEW b \in Bodies, NEW c \in Bodies, NEW n \in {0, 1},
           Weaker(b, c), b.lookback <= n
    PROVE  Aligned(b, n).frames \subseteq Aligned(c, n).frames
<1>1. CASE b.lookback = n
  BY <1>1 DEF Weaker, Aligned
<1>2. CASE b.lookback # n
  <2>1. n = 1 /\ b.lookback = 0 /\ c.lookback = 0
    BY <1>2 DEF Bodies, Weaker
  <2>2. b.frames \subseteq c.frames
    BY <2>1 DEF Weaker, Aligned
  <2> QED BY <2>1, <2>2 DEF Aligned
<1> QED BY <1>1, <1>2

(* A body that can be executed one step late can be executed. *)
LEMMA AlignedExecutable ==
    ASSUME NEW b \in Bodies, NEW n \in {0, 1}, b.lookback <= n, Executable(Aligned(b, n))
    PROVE  Executable(b)
<1>1. CASE b.lookback = n
  BY <1>1 DEF Aligned
<1>2. CASE b.lookback # n
  <2> DEFINE R == Aligned(b, n).frames
             W == Winning(R)
  <2>1. b.lookback = 0 /\ R = {f \in Frames : <<f[1], f[1]>> \in b.frames}
    BY <1>2 DEF Aligned, Bodies
  <2>2. W \subseteq Letters /\ Answers(W, R)
    BY WinningAnswers
  <2>3. PICK i \in Inputs : TRUE
    BY RevisionAssumption
  <2>4. \A p \in W : <<p, p>> \in b.frames
    <3> HIDE DEF W
    <3> TAKE p \in W
    <3>1. PICK o \in Outputs : <<p, <<i, o>>>> \in R
      BY <2>2, <2>3 DEF Answers
    <3> QED BY <3>1, <2>1
  <2>5. Answers(W, b.frames)
    <3> HIDE DEF W, R
    <3> SUFFICES ASSUME NEW p \in W, NEW j \in Inputs
                 PROVE  \E o \in Outputs : <<j, o>> \in W /\ <<p, <<j, o>>>> \in b.frames
      BY DEF Answers
    <3>1. PICK o \in Outputs : <<j, o>> \in W
      BY <2>2 DEF Answers
    <3>2. <<<<j, o>>, <<j, o>>>> \in b.frames
      BY <3>1, <2>4
    <3>3. <<p, <<j, o>>>> \in b.frames
      BY <3>2, <2>1, <2>2 DEF Bodies
    <3> QED BY <3>1, <3>3
  <2>6. W \subseteq Winning(b.frames)
    BY <2>2, <2>5, WinningAnswers
  <2> QED BY <2>6 DEF Executable
<1> QED BY <1>1, <1>2

-----------------------------------------------------------------------------
(* Parts.                                                                   *)

LEMMA LastIs ==
    ASSUME NEW a, DOMAIN a \subseteq Nat, NEW m, IsLast(a, m)
    PROVE  Last(a) = m
BY DEF Last, IsLast

LEMMA SoundLast ==
    ASSUME NEW a, Sound(a)
    PROVE  /\ IsLast(a, Last(a)) /\ Last(a) \in Nat
           /\ a[Last(a)] \in Bodies
           /\ Executable(a[Last(a)])
<1>1. PICK m \in DOMAIN a : IsLast(a, m)
  BY DEF Sound
<1>2. Last(a) = m
  BY <1>1, LastIs DEF Sound, IsPart
<1> QED BY <1>1, <1>2 DEF Sound, IsPart, LastPlays

(* The common lookback is that of some body and of none too few. *)
LEMMA DepthIs ==
    ASSUME NEW S, S \subseteq Bodies
    PROVE  /\ Depth(S) \in {0, 1}
           /\ \A b \in S : b.lookback <= Depth(S)
           /\ \A n \in {0, 1} : S # {} /\ (\A b \in S : b.lookback = n) => Depth(S) = n
<1>1. \A b \in S : b.lookback \in {0, 1}
  BY DEF Bodies
<1> QED BY <1>1 DEF Depth

LEMMA RangeIs ==
    ASSUME NEW a
    PROVE  /\ \A k \in DOMAIN a : a[k] \in Range(a)
           /\ \A b \in Range(a) : \E k \in DOMAIN a : b = a[k]
BY DEF Range

(* A single alternative that is executable is a sound part. *)
LEMMA SingleSound ==
    ASSUME NEW b \in Bodies, Executable(b)
    PROVE  Sound([k \in {1} |-> b])
<1> DEFINE a == [k \in {1} |-> b]
<1>1. IsPart(a)
  BY FS_Singleton DEF IsPart
<1>2. IsLast(a, 1)
  BY DEF IsLast
<1> QED BY <1>1, <1>2 DEF Sound, Chain, LastPlays, IsLast

(* Alternatives may be dropped from a sound part, except the last one. *)
LEMMA RestrictSound ==
    ASSUME NEW a, Sound(a), NEW S \in SUBSET DOMAIN a, Last(a) \in S
    PROVE  Sound(Restrict(a, S)) /\ Last(Restrict(a, S)) = Last(a)
<1> DEFINE r == Restrict(a, S)
<1>1. DOMAIN r = S /\ \A k \in S : r[k] = a[k]
  BY DEF Restrict
<1>2. IsFiniteSet(S)
  BY FS_Subset DEF Sound, IsPart
<1>3. r \in [S -> Bodies]
  BY DEF Restrict, Sound, IsPart
<1>4. IsPart(r)
  BY <1>1, <1>2, <1>3 DEF IsPart, Sound
<1>5. IsLast(a, Last(a)) /\ DOMAIN a \subseteq Nat
  BY SoundLast DEF Sound, IsPart
<1>6. \A k \in S : IsLast(r, k) <=> IsLast(a, k)
  BY <1>1, <1>5 DEF IsLast
<1> HIDE DEF r
<1>7. IsLast(r, Last(a))
  BY <1>5, <1>6
<1>8. Chain(r)
  BY <1>1 DEF Sound, Chain
<1>9. LastPlays(r)
  BY <1>1, <1>6 DEF Sound, LastPlays
<1>10. Last(r) = Last(a)
  BY <1>7, <1>4, LastIs DEF IsPart
<1>11. Sound(r)
  BY <1>1, <1>4, <1>7, <1>8, <1>9 DEF Sound
<1> QED BY <1>10, <1>11 DEF r

(* Duplicates and the cap leave the last alternative. *)
LEMMA FinalizedSound ==
    ASSUME NEW a, Sound(a)
    PROVE  /\ Sound(Finalized(a))
           /\ DOMAIN Finalized(a) \subseteq DOMAIN a
           /\ \A k \in DOMAIN Finalized(a) : Finalized(a)[k] = a[k]
<1> DEFINE S == {k \in DOMAIN a : \A j \in DOMAIN a : j < k => a[j] # a[k]}
           d == Distinct(a)
           T == {k \in DOMAIN d :
                    \/ MaxAlts = 0 \/ k = Last(d)
                    \/ Cardinality({j \in DOMAIN d : j < k}) < MaxAlts - 1}
<1>1. IsLast(a, Last(a)) /\ Executable(a[Last(a)]) /\ DOMAIN a \subseteq Nat
  BY SoundLast DEF Sound, IsPart
<1>2. \A j \in DOMAIN a : j < Last(a) => ~Executable(a[j])
  BY <1>1 DEF Sound, LastPlays, IsLast
<1>3. Last(a) \in S
  BY <1>1, <1>2 DEF IsLast
<1>4. d = Restrict(a, S)
  BY DEF Distinct
<1>5. Sound(d) /\ Last(d) = Last(a)
  BY <1>3, <1>4, RestrictSound
<1>6. Last(d) \in DOMAIN d
  BY <1>5, SoundLast DEF IsLast
<1>7. Finalized(a) = Restrict(d, T)
  BY DEF Finalized, Capped
<1>8. Sound(Finalized(a))
  <2> HIDE DEF d
  <2> QED BY <1>5, <1>6, <1>7, RestrictSound
<1> QED BY <1>4, <1>7, <1>8 DEF Restrict

-----------------------------------------------------------------------------
(* One revision.                                                            *)

(* The lookback the bodies of a revision are aligned to. *)
Common(a, u) == Depth(Range(a) \cup {u})

(* What is known of the conjunctions with the update. *)
LEMMA ConjoinedIs ==
    ASSUME NEW a, Sound(a), NEW u \in Bodies
    PROVE  /\ Common(a, u) \in {0, 1} /\ u.lookback <= Common(a, u)
           /\ DOMAIN Conjoined(a, u) = DOMAIN a
           /\ \A k \in DOMAIN a :
                 /\ Conjoined(a, u)[k] \in Bodies
                 /\ Conjoined(a, u)[k].lookback = Common(a, u)
                 /\ Conjoined(a, u)[k].frames \subseteq Aligned(u, Common(a, u)).frames
                 /\ Executable(Conjoined(a, u)[k]) => Executable(a[k])
           /\ \A j, k \in DOMAIN a :
                 j < k => Conjoined(a, u)[j].frames \subseteq Conjoined(a, u)[k].frames
<1> DEFINE n == Common(a, u)
           B(k) == [lookback |-> n,
                    frames |-> Aligned(a[k], n).frames \cap Aligned(u, n).frames]
<1>1. \A k \in DOMAIN a : a[k] \in Bodies /\ a[k] \in Range(a)
  BY RangeIs DEF Sound, IsPart
<1>2. Range(a) \cup {u} \subseteq Bodies
  BY RangeIs DEF Sound, IsPart
<1>3. n \in {0, 1} /\ u.lookback <= n /\ \A k \in DOMAIN a : a[k].lookback <= n
  BY <1>1, <1>2, DepthIs DEF Common
<1>4. Conjoined(a, u) = [k \in DOMAIN a |-> B(k)]
  BY DEF Conjoined, Common
<1> HIDE DEF n
<1>5. Aligned(u, n) \in Bodies /\ Aligned(u, n).lookback = n
  BY <1>3, AlignedType
<1>6. \A k \in DOMAIN a : Aligned(a[k], n) \in Bodies /\ Aligned(a[k], n).lookback = n
  BY <1>1, <1>3, AlignedType
<1>7. \A k \in DOMAIN a : B(k) \in Bodies
  BY <1>3, <1>5, <1>6 DEF Bodies
<1>8. \A k \in DOMAIN a : Executable(B(k)) => Executable(a[k])
  <2> TAKE k \in DOMAIN a
  <2> HAVE Executable(B(k))
  <2>1. B(k).frames \subseteq Aligned(a[k], n).frames
    OBVIOUS
  <2> HIDE DEF B
  <2>2. Executable(Aligned(a[k], n))
    BY <2>1, ExecutableGrows
  <2> QED BY <2>2, <1>1, <1>3, AlignedExecutable
<1>9. \A j, k \in DOMAIN a : j < k => B(j).frames \subseteq B(k).frames
  <2> SUFFICES ASSUME NEW j \in DOMAIN a, NEW k \in DOMAIN a, j < k
               PROVE  B(j).frames \subseteq B(k).frames
    OBVIOUS
  <2>1. Weaker(a[j], a[k])
    BY DEF Sound, Chain
  <2>2. Aligned(a[j], n).frames \subseteq Aligned(a[k], n).frames
    BY <2>1, <1>1, <1>3, AlignedWeaker
  <2> QED BY <2>2
<1> QED BY <1>3, <1>4, <1>7, <1>8, <1>9 DEF n

(* The gate is passed when the last alternative can obey the update. *)
LEMMA GateIs ==
    ASSUME NEW a, Sound(a), NEW u \in Bodies
    PROVE  Gate(Conjoined(a, u)) <=> Executable(Conjoined(a, u)[Last(a)])
<1> DEFINE B == Conjoined(a, u)
           m == Last(a)
           U == UNION {b.frames : b \in Range(B)}
<1>1. IsLast(a, m) /\ DOMAIN a \subseteq Nat
  BY SoundLast DEF Sound, IsPart
<1>2. \A k \in DOMAIN a : B[k].frames \subseteq B[m].frames
  <2> TAKE k \in DOMAIN a
  <2>1. k < m \/ k = m
    BY <1>1 DEF IsLast
  <2> QED BY <2>1, <1>1, ConjoinedIs DEF IsLast
<1>3. DOMAIN B = DOMAIN a /\ m \in DOMAIN a
  BY <1>1, ConjoinedIs DEF IsLast
<1> HIDE DEF B, m
<1>4. U = B[m].frames
  BY <1>2, <1>3, RangeIs
<1>5. Gate(B) <=> Executable([lookback |-> Depth(Range(B)), frames |-> U])
  BY DEF Gate
<1> HIDE DEF U
<1> QED BY <1>4, <1>5 DEF Executable, B, m

(* The alternatives a revision has before duplicates and the cap. *)
Alive(a, u) == {k \in DOMAIN a : Live(Conjoined(a, u)[k])}
Rebuilt(a, u) ==
    IF Gate(Conjoined(a, u)) THEN Restrict(Conjoined(a, u), Alive(a, u))
                             ELSE LastResort(Conjoined(a, u), Alive(a, u), u)

(* The part with the update has the last alternative of the part for its    *)
(* last one, or, when that cannot be executed with the update, the update.  *)
LEMMA RebuiltPlain ==
    ASSUME NEW a, Sound(a), NEW u \in Bodies, Gate(Conjoined(a, u))
    PROVE  Sound(Rebuilt(a, u))
<1> DEFINE B == Conjoined(a, u)
           S == Alive(a, u)
           m == Last(a)
           r == Restrict(B, S)
<1>1. IsLast(a, m) /\ DOMAIN a \subseteq Nat /\ IsFiniteSet(DOMAIN a)
  BY SoundLast DEF Sound, IsPart
<1>2. Executable(B[m])
  BY GateIs
<1>3. m \in S
  BY <1>1, <1>2, ExecutableLives DEF Alive, IsLast
<1>4. S \subseteq DOMAIN a
  BY DEF Alive
<1>5. DOMAIN r = S /\ \A k \in S : r[k] = B[k]
  BY DEF Restrict
<1>6. \A k \in DOMAIN a : B[k] \in Bodies /\ B[k].lookback = Common(a, u)
  BY ConjoinedIs
<1>7. IsFiniteSet(S)
  BY <1>1, <1>4, FS_Subset
<1>8. r \in [S -> Bodies]
  BY <1>4, <1>6 DEF Restrict
<1>9. \A j, k \in DOMAIN a : j < k => B[j].frames \subseteq B[k].frames
  BY ConjoinedIs
<1>10. \A k \in DOMAIN a : Executable(B[k]) => k = m
  <2> TAKE k \in DOMAIN a
  <2> HAVE Executable(B[k])
  <2>1. Executable(a[k])
    BY ConjoinedIs
  <2>2. IsLast(a, k)
    BY <2>1 DEF Sound, LastPlays
  <2> QED BY <2>2, <1>1, LastIs
<1> HIDE DEF B, S, m, r
<1>11. IsPart(r)
  BY <1>1, <1>4, <1>5, <1>7, <1>8 DEF IsPart
<1>12. IsLast(r, m)
  BY <1>1, <1>3, <1>4, <1>5 DEF IsLast
<1>13. Chain(r)
  <2> SUFFICES ASSUME NEW j \in S, NEW k \in S, j < k
               PROVE  Weaker(B[j], B[k])
    BY <1>5 DEF Chain
  <2>1. Common(a, u) \in Nat
    BY ConjoinedIs
  <2>2. B[j].lookback = B[k].lookback /\ B[k].lookback \in Nat
    BY <2>1, <1>4, <1>6
  <2>3. B[j].frames \subseteq B[k].frames
    BY <1>4, <1>9
  <2> QED BY <2>2, <2>3 DEF Weaker, Aligned
<1>14. LastPlays(r)
  <2> SUFFICES ASSUME NEW k \in S
               PROVE  Executable(B[k]) <=> IsLast(r, k)
    BY <1>5 DEF LastPlays
  <2>1. IsLast(r, k) => k = m
    BY <1>11, <1>12, LastIs DEF IsPart
  <2> QED BY <2>1, <1>2, <1>4, <1>10, <1>12
<1>15. Sound(r)
  BY <1>11, <1>12, <1>13, <1>14 DEF Sound, IsLast
<1> QED BY <1>15 DEF Rebuilt, r, B, S

LEMMA RebuiltWithResort ==
    ASSUME NEW a, Sound(a), NEW u \in Bodies, Executable(u), ~Gate(Conjoined(a, u))
    PROVE  Sound(Rebuilt(a, u))
<1> DEFINE B == Conjoined(a, u)
           S == Alive(a, u)
           z == Last(a) + 1
           r == LastResort(B, S, u)
<1>1. IsLast(a, Last(a)) /\ DOMAIN a \subseteq Nat /\ IsFiniteSet(DOMAIN a) /\ Last(a) \in Nat
  BY SoundLast DEF Sound, IsPart
<1>2. DOMAIN B = DOMAIN a
  BY ConjoinedIs
<1>3. IsLast(B, Last(a))
  BY <1>1, <1>2 DEF IsLast
<1>4. Last(B) = Last(a)
  BY <1>1, <1>2, <1>3, LastIs
<1>5. S \subseteq DOMAIN a
  BY DEF Alive
<1>6. z \in Nat /\ \A k \in S : k \in Nat /\ k < z
  BY <1>1, <1>5 DEF IsLast
<1>7. DOMAIN r = S \cup {z} /\ r[z] = u /\ \A k \in S : r[k] = B[k]
  BY <1>4, <1>6 DEF LastResort
<1>8. \A k \in DOMAIN a : B[k] \in Bodies /\ B[k].lookback = Common(a, u)
  BY ConjoinedIs
<1>9. IsFiniteSet(S \cup {z})
  BY <1>1, <1>5, FS_Subset, FS_AddElement
<1>10. r \in [S \cup {z} -> Bodies]
  BY <1>4, <1>5, <1>6, <1>8 DEF LastResort
<1>11. \A k \in S : ~Executable(B[k])
  <2> SUFFICES ASSUME NEW k \in S, Executable(B[k]) PROVE FALSE
    OBVIOUS
  <2>1. Executable(a[k])
    BY <1>5, ConjoinedIs
  <2>2. IsLast(a, k)
    BY <2>1, <1>5 DEF Sound, LastPlays
  <2>3. k = Last(a)
    BY <2>2, <1>1, LastIs
  <2> QED BY <2>3, GateIs
<1>12. Common(a, u) \in {0, 1} /\ u.lookback <= Common(a, u)
  BY ConjoinedIs
<1>13. \A k \in DOMAIN a : B[k].frames \subseteq Aligned(u, Common(a, u)).frames
  BY ConjoinedIs
<1>14. \A j, k \in DOMAIN a : j < k => B[j].frames \subseteq B[k].frames
  BY ConjoinedIs
<1> HIDE DEF B, S, z, r
<1>15. IsPart(r)
  BY <1>6, <1>7, <1>9, <1>10 DEF IsPart
<1>16. IsLast(r, z) /\ \A k \in S : ~IsLast(r, k)
  BY <1>6, <1>7 DEF IsLast
<1>17. Chain(r)
  <2> SUFFICES ASSUME NEW j \in S \cup {z}, NEW k \in S \cup {z}, j < k
               PROVE  Weaker(r[j], r[k])
    BY <1>7 DEF Chain
  <2>1. j \in S
    BY <1>6
  <2>2. B[j].lookback = Common(a, u) /\ Common(a, u) \in Nat
    BY <2>1, <1>5, <1>8, <1>12
  <2>3. CASE k = z
    <3>1. Weaker(B[j], u)
      BY <2>1, <2>2, <1>5, <1>12, <1>13 DEF Weaker
    <3> QED BY <3>1, <2>1, <2>3, <1>7
  <2>4. CASE k \in S
    <3>1. B[k].lookback = Common(a, u) /\ B[j].frames \subseteq B[k].frames
      BY <2>1, <2>4, <1>5, <1>8, <1>14
    <3>2. Weaker(B[j], B[k])
      BY <2>2, <3>1 DEF Weaker, Aligned
    <3> QED BY <3>2, <2>1, <2>4, <1>7
  <2> QED BY <2>3, <2>4
<1>18. LastPlays(r)
  BY <1>7, <1>11, <1>16 DEF LastPlays
<1>19. Sound(r)
  BY <1>15, <1>16, <1>17, <1>18 DEF Sound, IsLast
<1> QED BY <1>19 DEF Rebuilt, r, B, S

LEMMA RebuiltSound ==
    ASSUME NEW a, Sound(a), NEW u \in Bodies, Executable(u)
    PROVE  Sound(Rebuilt(a, u))
BY RebuiltPlain, RebuiltWithResort

(* What a revision leaves is a sound part again. *)
LEMMA RevisedIs ==
    ASSUME NEW a, NEW u
    PROVE  Revised(a, u) = Finalized(Rebuilt(a, u))
BY DEF Revised, Rebuilt, Alive

LEMMA RevisedSound ==
    ASSUME NEW a, Sound(a), NEW u \in Bodies, Executable(u)
    PROVE  Sound(Revised(a, u))
BY RevisedIs, RebuiltSound, FinalizedSound

LEMMA OutcomeSound ==
    ASSUME NEW a, Sound(a), NEW u \in Bodies, Executable(u)
    PROVE  Sound(Outcome(a, u))
BY RevisedSound DEF Outcome

(* Each of its alternatives is one of the part together with the update, or *)
(* the update alone, after all of the part.                                 *)
Joins(a, u, k, b) ==
    k \in DOMAIN a /\ Live(Conjoined(a, u)[k]) /\ b = Conjoined(a, u)[k]
LEMMA RebuiltFrom ==
    ASSUME NEW a, Sound(a), NEW u \in Bodies, NEW k \in DOMAIN Rebuilt(a, u)
    PROVE  \/ Joins(a, u, k, Rebuilt(a, u)[k])
           \/ k = Last(a) + 1 /\ Rebuilt(a, u)[k] = u
<1> DEFINE B == Conjoined(a, u)
           S == Alive(a, u)
<1>1. IsLast(a, Last(a)) /\ DOMAIN a \subseteq Nat /\ DOMAIN B = DOMAIN a
  BY SoundLast, ConjoinedIs DEF Sound, IsPart
<1>2. IsLast(B, Last(a))
  BY <1>1 DEF IsLast
<1>3. Last(B) = Last(a)
  BY <1>1, <1>2, LastIs
<1>4. \A j \in S : j \in DOMAIN a /\ Live(B[j])
  BY DEF Alive
<1>5. CASE Gate(B)
  <2>1. Rebuilt(a, u) = Restrict(B, S)
    BY <1>5 DEF Rebuilt
  <2>2. k \in S /\ Rebuilt(a, u)[k] = B[k]
    BY <2>1 DEF Restrict
  <2> QED BY <2>2, <1>4 DEF Joins
<1>6. CASE ~Gate(B)
  <2>1. Rebuilt(a, u) = [j \in S \cup {Last(a) + 1} |-> IF j \in S THEN B[j] ELSE u]
    BY <1>6, <1>3 DEF Rebuilt, LastResort
  <2>2. \/ k \in S /\ Rebuilt(a, u)[k] = B[k]
        \/ k = Last(a) + 1 /\ Rebuilt(a, u)[k] = u
    BY <2>1
  <2> QED BY <2>2, <1>4 DEF Joins
<1> QED BY <1>5, <1>6

LEMMA RevisedFrom ==
    ASSUME NEW a, Sound(a), NEW u \in Bodies, Executable(u),
           NEW k \in DOMAIN Revised(a, u)
    PROVE  \/ Joins(a, u, k, Revised(a, u)[k])
           \/ k = Last(a) + 1 /\ Revised(a, u)[k] = u
<1>1. Sound(Rebuilt(a, u))
  BY RebuiltSound
<1>2. k \in DOMAIN Rebuilt(a, u) /\ Revised(a, u)[k] = Rebuilt(a, u)[k]
  BY <1>1, RevisedIs, FinalizedSound
<1> QED BY <1>2, RebuiltFrom

-----------------------------------------------------------------------------
(* The invariant.                                                           *)

LEMMA DepthType == \A S : Depth(S) \in {0, 1}
BY DEF Depth

LEMMA InitInv == Init => Inv
<1> SUFFICES ASSUME Init PROVE Inv
  OBVIOUS
<1>1. PICK b \in Specs : Executable(b) /\ alts = [k \in {1} |-> b] /\ warm = b.lookback /\ law = b
  BY DEF Init
<1>2. b \in Bodies /\ b.lookback \in {0, 1}
  BY RevisionAssumption DEF Bodies
<1>3. Sound(alts)
  BY <1>1, <1>2, SingleSound
<1> QED BY <1>1, <1>2, <1>3 DEF Init, Inv, StateInv, HistoryInv, MadeBy

LEMMA UpdateKeepsInv == Inv /\ Update => Inv'
<1> SUFFICES ASSUME Inv, Update PROVE Inv'
  OBVIOUS
<1>0. PICK clauses \in Updates : \E k \in DOMAIN clauses :
          /\ Accepts(clauses[k])
          /\ law' = clauses[k]
          /\ alts' = Outcome(alts, clauses[k])
  BY DEF Update
<1>1. PICK k \in DOMAIN clauses :
          /\ Accepts(clauses[k])
          /\ law' = clauses[k]
          /\ alts' = Outcome(alts, clauses[k])
  BY <1>0
<1>2. clauses[k] \in Bodies
  BY RevisionAssumption
<1>3. Executable(clauses[k]) /\ Sound(alts)
  BY <1>1 DEF Accepts, Inv, StateInv
<1>4. Sound(alts')
  BY <1>1, <1>2, <1>3, OutcomeSound
<1>5. /\ before' = alts /\ ctns' = Continuations(alts') /\ previous' = previous
      /\ updates' = updates + 1 /\ warm' \in {0, 1}
  BY DepthType DEF Update
<1>6. MadeBy(before', law', alts')
  BY <1>1, <1>5 DEF MadeBy
<1>7. StateInv'
  BY <1>4, <1>5 DEF Inv, StateInv
<1>8. HistoryInv'
  BY <1>1, <1>2, <1>3, <1>5, <1>6 DEF HistoryInv
<1> QED BY <1>7, <1>8 DEF Inv

LEMMA StepKeepsInv == Inv /\ Step => Inv'
<1> SUFFICES ASSUME Inv, Step PROVE Inv'
  OBVIOUS
<1>1. previous' \in Letters
  BY DEF Step, Played, Solving, Letters
<1>2. warm' \in {0, 1}
  BY DEF Step, Inv, StateInv
<1>3. UNCHANGED <<alts, ctns, updates, law, before>>
  BY DEF Step
<1> QED BY <1>1, <1>2, <1>3 DEF Inv, StateInv, HistoryInv

LEMMA InvHolds == Spec => []Inv
<1>1. Inv /\ [Next]_vars => Inv'
  <2> SUFFICES ASSUME Inv, [Next]_vars PROVE Inv'
    OBVIOUS
  <2>1. CASE Update
    BY <2>1, UpdateKeepsInv
  <2>2. CASE Step
    BY <2>2, StepKeepsInv
  <2>3. CASE UNCHANGED vars
    BY <2>3 DEF vars, Inv, StateInv, HistoryInv
  <2> QED BY <2>1, <2>2, <2>3 DEF Next
<1> QED BY InitInv, <1>1, PTL DEF Spec

-----------------------------------------------------------------------------
(* What a step plays.                                                       *)

(* A continuation has the frames of its alternative, and of an executable   *)
(* last one those after which the play can go on.                           *)
LEMMA ContinuationIs ==
    ASSUME Inv
    PROVE  /\ DOMAIN ctns = DOMAIN alts
           /\ \A k \in DOMAIN alts : ctns[k].frames \subseteq alts[k].frames
           /\ \A k \in DOMAIN alts : ~Executable(alts[k]) => ctns[k] = alts[k]
           /\ \A k \in DOMAIN alts : \A f \in alts[k].frames :
                 f[2] \in Winning(alts[k].frames) => f \in ctns[k].frames
           /\ ctns[Last(alts)].frames =
                 {f \in alts[Last(alts)].frames : f[2] \in Winning(alts[Last(alts)].frames)}
<1> DEFINE M(k) == \E i, j \in DOMAIN alts : i < k /\ k < j
<1>1. /\ DOMAIN ctns = DOMAIN alts
      /\ \A k \in DOMAIN alts : ctns[k] = IF Executable(alts[k]) /\ ~M(k)
                                          THEN Continuation(alts[k]) ELSE alts[k]
  BY DEF Inv, StateInv, Continuations
<1>2. IsLast(alts, Last(alts)) /\ Executable(alts[Last(alts)]) /\ DOMAIN alts \subseteq Nat
  BY SoundLast DEF Inv, StateInv, Sound, IsPart
<1>3. ~M(Last(alts))
  BY <1>2 DEF IsLast
<1>4. \A k \in DOMAIN alts :
         alts[k] \in Bodies /\ Continuation(alts[k]).frames =
            {f \in alts[k].frames : f[2] \in Winning(alts[k].frames)}
  BY DEF Inv, StateInv, Sound, IsPart, Continuation, Bodies
<1> HIDE DEF M
<1>5. ctns[Last(alts)] = Continuation(alts[Last(alts)])
  BY <1>1, <1>2, <1>3 DEF IsLast
<1>6. \A k \in DOMAIN alts : ctns[k] = Continuation(alts[k]) \/ ctns[k] = alts[k]
  BY <1>1
<1>7. Last(alts) \in DOMAIN alts
  BY <1>2 DEF IsLast
<1>8. \A k \in DOMAIN alts : ctns[k].frames \subseteq alts[k].frames
  BY <1>4, <1>6
<1>9. \A k \in DOMAIN alts : \A f \in alts[k].frames :
         f[2] \in Winning(alts[k].frames) => f \in ctns[k].frames
  BY <1>4, <1>6
<1> QED BY <1>1, <1>4, <1>5, <1>7, <1>8, <1>9

(* What is played past the warm-up is in the frames of an alternative,      *)
(* before which none has a solution.                                        *)
LEMMA PlayedIs ==
    ASSUME Inv, warm = 0, NEW i \in Inputs, NEW o \in Played(i)
    PROVE  \E k \in DOMAIN alts :
              /\ <<previous, <<i, o>>>> \in ctns[k].frames
              /\ <<previous, <<i, o>>>> \in alts[k].frames
              /\ \A j \in DOMAIN alts : j < k => Solving(i, j) = {}
<1>1. PICK k \in DOMAIN ctns : Chosen(i, k) /\ o \in Solving(i, k)
  BY DEF Played
<1>2. <<previous, <<i, o>>>> \in ctns[k].frames
  BY <1>1 DEF Solving, Allows
<1> QED BY <1>1, <1>2, ContinuationIs DEF Chosen

(* An input for which some alternative has a solution is answered. *)
LEMMA SolvedIsPlayed ==
    ASSUME Inv, NEW i \in Inputs, NEW k \in DOMAIN alts, Solving(i, k) # {}
    PROVE  Played(i) # {}
<1> DEFINE T == {j \in DOMAIN alts : Solving(i, j) # {}}
<1>1. T \subseteq Nat /\ T # {} /\ DOMAIN ctns = DOMAIN alts
  BY ContinuationIs DEF Inv, StateInv, Sound, IsPart
<1> HIDE DEF T
<1>2. PICK m \in T : \A j \in T : ~(<<j, m>> \in OpToRel(<, Nat))
  BY <1>1, WFMin, NatLessThanWellFounded
<1>3. \A j \in T : ~(j < m)
  BY <1>1, <1>2 DEF OpToRel
<1>4. m \in DOMAIN ctns /\ Chosen(i, m) /\ Solving(i, m) # {}
  BY <1>1, <1>3 DEF T, Chosen
<1> QED BY <1>4 DEF Played

-----------------------------------------------------------------------------
(* NeverStuck.                                                              *)

(* The last alternative has a solution wherever it can be played on. *)
LEMMA LastSolves ==
    ASSUME Inv, NEW i \in Inputs,
           warm > 0 \/ previous \in Winning(alts[Last(alts)].frames)
    PROVE  Solving(i, Last(alts)) # {}
<1> DEFINE m == Last(alts)
           R == alts[m].frames
           W == Winning(R)
           c == ctns[m]
<1>1. Executable(alts[m])
  BY SoundLast DEF Inv, StateInv
<1>2. \A q \in Inputs : \E o \in Outputs : <<q, o>> \in W
  BY <1>1 DEF Executable
<1>3. Answers(W, R)
  BY WinningAnswers
<1>4. c.frames = {f \in R : f[2] \in W}
  BY ContinuationIs
<1> HIDE DEF W, R, c
<1>5. CASE warm = 0
  <2>1. previous \in W
    BY <1>5 DEF W, R, m
  <2>2. PICK o \in Outputs : <<i, o>> \in W /\ <<previous, <<i, o>>>> \in R
    BY <2>1, <1>3 DEF Answers
  <2>3. <<previous, <<i, o>>>> \in c.frames
    BY <2>2, <1>4
  <2>4. Allows(c, i, o)
    BY <2>3, <1>5 DEF Allows
  <2> QED BY <2>4 DEF Solving, c, m
<1>6. CASE warm # 0
  <2>1. PICK o \in Outputs : <<i, o>> \in W
    BY <1>2
  <2>2. \A j \in Inputs : \E q \in Outputs : <<<<i, o>>, <<j, q>>>> \in c.frames
    <3> TAKE j \in Inputs
    <3>1. PICK q \in Outputs : <<j, q>> \in W /\ <<<<i, o>>, <<j, q>>>> \in R
      BY <2>1, <1>3 DEF Answers
    <3>2. <<<<i, o>>, <<j, q>>>> \in c.frames
      BY <3>1, <1>4
    <3> QED BY <3>2
  <2>3. Allows(c, i, o)
    BY <2>2, <1>6 DEF Allows
  <2> QED BY <2>3 DEF Solving, c, m
<1> QED BY <1>5, <1>6

LEMMA InvNeverStuck == Inv => NeverStuck
<1> SUFFICES ASSUME Inv, NEW i \in Inputs,
                    warm > 0 \/ previous \in Winning(alts[Last(alts)].frames)
             PROVE  Played(i) # {}
  BY DEF NeverStuck
<1>1. Last(alts) \in DOMAIN alts
  BY SoundLast DEF Inv, StateInv, IsLast
<1> QED BY <1>1, LastSolves, SolvedIsPlayed

-----------------------------------------------------------------------------
(* UpdateIsFollowed.                                                        *)

(* An update read a step back is obeyed now by whoever can go on.           *)
LEMMA GoesOnObeys ==
    ASSUME NEW a, Sound(a), NEW u \in Bodies, Executable(u),
           NEW k \in DOMAIN Revised(a, u), NEW f \in Revised(a, u)[k].frames,
           NEW c, <<f[2], c>> \in Revised(a, u)[k].frames
    PROVE  f \in u.frames
<1> DEFINE b == Revised(a, u)[k]
           n == Common(a, u)
<1>1. CASE b = u
  BY <1>1
<1>2. CASE Joins(a, u, k, b)
  <2>1. b \in Bodies /\ b.frames \subseteq Aligned(u, n).frames
    BY <1>2, ConjoinedIs DEF Joins
  <2>2. CASE u.lookback = n
    BY <2>1, <2>2 DEF Aligned
  <2>3. CASE u.lookback # n
    <3>1. u.lookback = 0
      BY <2>3, ConjoinedIs DEF Bodies
    <3>2. <<f[2], f[2]>> \in u.frames
      <4>1. <<f[2], c>> \in Aligned(u, n).frames
        BY <2>1
      <4> QED BY <4>1, <2>3 DEF Aligned
    <3>3. f \in Frames
      BY <2>1 DEF Bodies
    <3>4. f[1] \in Letters /\ f = <<f[1], f[2]>>
      BY <3>3 DEF Frames
    <3>5. \A g \in u.frames, p \in Letters : <<p, g[2]>> \in u.frames
      <4>1. u.lookback = 0 =>
               \A g \in u.frames, p \in Letters : <<p, g[2]>> \in u.frames
        BY Zenon DEF Bodies
      <4> QED BY <3>1, <4>1
    <3>6. <<f[1], <<f[2], f[2]>>[2]>> \in u.frames
      BY <3>2, <3>4, <3>5
    <3> QED BY <3>4, <3>6
  <2> QED BY <2>2, <2>3
<1> QED BY <1>1, <1>2, RevisedFrom

(* An update that looks back as far as the revised part is read as written. *)
LEMMA LevelObeys ==
    ASSUME NEW a, Sound(a), NEW u \in Bodies, Executable(u),
           NEW k \in DOMAIN Revised(a, u), NEW f \in Revised(a, u)[k].frames,
           u.lookback = Common(Revised(a, u), u)
    PROVE  f \in u.frames
<1> DEFINE r == Revised(a, u)
           n == Common(a, u)
<1>1. CASE r[k] = u
  BY <1>1
<1>2. CASE Joins(a, u, k, r[k])
  <2>1. r[k].lookback = n /\ f \in Aligned(u, n).frames
    BY <1>2, ConjoinedIs DEF Joins
  <2>2. Range(r) \cup {u} \subseteq Bodies
    BY RevisedSound, RangeIs DEF Sound, IsPart
  <2>3. n <= Common(r, u)
    <3>1. r[k] \in Range(r)
      BY RangeIs
    <3> QED BY <2>1, <2>2, <3>1, DepthIs DEF Common
  <2>4. n \in {0, 1} /\ u.lookback \in {0, 1} /\ u.lookback <= n
    BY ConjoinedIs DEF Bodies
  <2>5. u.lookback = n
    BY <2>3, <2>4
  <2> QED BY <2>1, <2>5 DEF Aligned
<1> QED BY <1>1, <1>2, RevisedFrom

(* A part left as it is obeys the update on the runs of its last alternative. *)
LEMMA UnchangedObeys ==
    ASSUME NEW a, Sound(a), NEW u \in Bodies, Executable(u), Outcome(a, u) = a,
           Revised(a, u) # a, NEW f \in Runs(a[Last(a)])
    PROVE  f \in u.frames
<1> DEFINE m == Last(a)
           r == Revised(a, u)
           b == r[Last(r)]
<1>1. m \in DOMAIN a /\ Executable(a[m])
  BY SoundLast DEF IsLast
<1>2. CASE Implied(a, u)
  <2>1. a[m] \in Range(a)
    BY <1>1, RangeIs
  <2> QED BY <1>1, <1>2, <2>1 DEF Implied
<1>3. CASE ~Implied(a, u)
  <2>1. SameTraces(a, r)
    BY <1>3 DEF Outcome
  <2>2. f \in Traces(a[m])
    <3>1. Winning(a[m].frames) \subseteq Living(a[m].frames)
      BY WinningLives
    <3> QED BY <3>1 DEF Runs, Traces, Within
  <2>3. f \in b.frames /\ f[2] \in Living(b.frames)
    BY <2>1, <2>2 DEF SameTraces, Traces, Within
  <2>4. Last(r) \in DOMAIN r
    BY RevisedSound, SoundLast DEF IsLast
  <2>5. PICK c \in Living(b.frames) : <<f[2], c>> \in b.frames
    BY <2>3, LivingGoesOn DEF GoesOn
  <2> QED BY <2>3, <2>4, <2>5, GoesOnObeys
<1> QED BY <1>2, <1>3

(* The last alternative of a revised part obeys the update. *)
LEMMA LastObeys ==
    ASSUME Inv, alts = Revised(before, law), NEW f \in ctns[Last(alts)].frames
    PROVE  f \in law.frames
<1> DEFINE b == alts[Last(alts)]
<1>1. f \in b.frames /\ f[2] \in Winning(b.frames)
  BY ContinuationIs
<1>2. PICK i \in Inputs : TRUE
  BY RevisionAssumption
<1>3. PICK o \in Outputs : <<f[2], <<i, o>>>> \in b.frames
  BY <1>1, <1>2, WinningAnswers DEF Answers
<1>4. Last(alts) \in DOMAIN alts
  BY SoundLast DEF Inv, StateInv, IsLast
<1> QED BY <1>1, <1>3, <1>4, GoesOnObeys DEF Inv, HistoryInv

(* So does every alternative that is bound to it, as a part left alone does *)
(* on its runs.                                                             *)
LEMMA BoundObeys ==
    ASSUME Inv, NEW k \in DOMAIN alts, Binds(k), NEW f \in ctns[k].frames
    PROVE  f \in law.frames \/ (alts = before /\ f \notin Runs(alts[Last(alts)]))
<1>1. f \in alts[k].frames
  BY ContinuationIs
<1>2. /\ Sound(before) /\ law \in Bodies /\ Executable(law)
      /\ MadeBy(before, law, alts) /\ Sound(alts)
  BY DEF Inv, HistoryInv, StateInv
<1>3. CASE alts = Revised(before, law)
  <2>1. CASE k = Last(alts)
    BY <1>3, <2>1, LastObeys
  <2>2. CASE k # Last(alts)
    <3>1. law.lookback = Common(Revised(before, law), law)
      BY <1>3, <2>2 DEF Binds, Common
    <3>2. k \in DOMAIN Revised(before, law) /\ f \in Revised(before, law)[k].frames
      BY <1>1, <1>3
    <3> QED BY <1>2, <3>1, <3>2, LevelObeys
  <2> QED BY <2>1, <2>2
<1>4. CASE alts = before /\ alts = Outcome(before, law) /\ alts # Revised(before, law)
  BY <1>2, <1>4, UnchangedObeys
<1>5. CASE alts = [j \in {1} |-> law]
  BY <1>1, <1>5
<1>6. Outcome(before, law) = before \/ Outcome(before, law) = Revised(before, law)
  BY DEF Outcome
<1> QED BY <1>2, <1>3, <1>4, <1>5, <1>6 DEF MadeBy

LEMMA InvUpdateIsFollowed == Inv => UpdateIsFollowed
<1> SUFFICES ASSUME Inv, warm = 0, NEW i \in Inputs, NEW k \in DOMAIN alts,
                    NEW o \in Solving(i, k), Binds(k)
             PROVE  \/ <<previous, <<i, o>>>> \in law.frames
                    \/ /\ alts = before
                       /\ <<previous, <<i, o>>>> \notin Runs(alts[Last(alts)])
  BY Zenon DEF UpdateIsFollowed
<1>1. <<previous, <<i, o>>>> \in ctns[k].frames
  BY DEF Solving, Allows
<1> QED BY <1>1, BoundObeys

-----------------------------------------------------------------------------
(* OldSpecKept.                                                             *)

(* The alternatives and how many come before one. *)
Rank(a, k) == Cardinality({j \in DOMAIN a : j < k})
Kept(a, u, k) ==
    /\ k \in Alive(a, u)
    /\ \A j \in Alive(a, u) : j < k => Conjoined(a, u)[j] # Conjoined(a, u)[k]
    /\ MaxAlts = 0 \/ Rank(a, k) < MaxAlts - 1

(* A strong enough alternative that is alive with the update stays. *)
LEMMA KeptIsRevised ==
    ASSUME NEW a, Sound(a), NEW u \in Bodies, Executable(u), NEW k \in DOMAIN a,
           Kept(a, u, k)
    PROVE  k \in DOMAIN Revised(a, u) /\ Revised(a, u)[k] = Conjoined(a, u)[k]
<1> DEFINE B == Conjoined(a, u)
           S == Alive(a, u)
           M == Rebuilt(a, u)
           d == Distinct(M)
<1>1. IsLast(a, Last(a)) /\ DOMAIN a \subseteq Nat /\ IsFiniteSet(DOMAIN a) /\ Last(a) \in Nat
  BY SoundLast DEF Sound, IsPart
<1>2. S \subseteq DOMAIN a /\ DOMAIN B = DOMAIN a
  BY ConjoinedIs DEF Alive
<1>3. Last(B) = Last(a)
  BY <1>1, <1>2, LastIs DEF IsLast
<1>4. \A j \in S : j \in DOMAIN M /\ M[j] = B[j]
  BY <1>3 DEF Rebuilt, Restrict, LastResort
<1>5. \A j \in DOMAIN M : j < k => j \in S
  <2> SUFFICES ASSUME NEW j \in DOMAIN M, j < k PROVE j \in S
    OBVIOUS
  <2>1. \/ Joins(a, u, j, M[j])
        \/ j = Last(a) + 1
    BY RebuiltFrom
  <2>2. j # Last(a) + 1
    BY <1>1 DEF IsLast
  <2> QED BY <2>1, <2>2 DEF Joins, Alive
<1>6. k \in S /\ \A j \in S : j < k => B[j] # B[k]
  BY DEF Kept
<1> HIDE DEF B, S, M
<1>7. k \in DOMAIN M /\ \A j \in DOMAIN M : j < k => M[j] # M[k]
  BY <1>4, <1>5, <1>6
<1>8. k \in DOMAIN d /\ DOMAIN d \subseteq DOMAIN M /\ d[k] = M[k]
  BY <1>7 DEF Distinct, Restrict
<1> DEFINE P == {j \in DOMAIN d : j < k}
           Q == {j \in DOMAIN a : j < k}
<1>9. P \subseteq Q
  BY <1>2, <1>5, <1>8
<1>10. IsFiniteSet(Q)
  BY <1>1, FS_Subset
<1>11. Cardinality(P) <= Cardinality(Q) /\ Cardinality(P) \in Nat /\ Cardinality(Q) \in Nat
  BY <1>9, <1>10, FS_Subset, FS_CardinalityType
<1>12. MaxAlts = 0 \/ Cardinality(Q) < MaxAlts - 1
  BY DEF Kept, Rank
<1>13. MaxAlts = 0 \/ Cardinality(P) < MaxAlts - 1
  BY <1>11, <1>12, RevisionAssumption
<1>14. k \in DOMAIN Capped(d) /\ Capped(d)[k] = d[k]
  BY <1>8, <1>13 DEF Capped, Restrict
<1>15. Revised(a, u) = Capped(d)
  BY RevisedIs DEF Finalized, M
<1> QED BY <1>4, <1>6, <1>8, <1>14, <1>15 DEF B

(* Where all look back equally far, a conjunction is what it says. *)
LEMMA LevelBoth ==
    ASSUME Inv, NEW k \in DOMAIN before, Level(k), NEW j \in DOMAIN before, j <= k
    PROVE  Both(j) = Conjoined(before, law)[j]
<1> DEFINE n == Common(before, law)
<1>1. Sound(before) /\ law \in Bodies
  BY DEF Inv, HistoryInv
<1>2. /\ before[j] \in Bodies /\ before[k] \in Bodies
      /\ j \in Nat /\ k \in Nat
      /\ j < k => before[k].lookback <= before[j].lookback
      /\ before[j] \in Range(before) /\ Range(before) \cup {law} \subseteq Bodies
  BY <1>1, RangeIs DEF Sound, IsPart, Chain, Weaker
<1>3. n = law.lookback
  BY <1>2, DepthIs DEF Level, Common, Depth
<1>4. before[j].lookback = n
  <2>1. before[j].lookback <= n /\ n \in {0, 1}
    BY <1>2, DepthIs DEF Common
  <2>2. before[k].lookback = n
    BY <1>3 DEF Level
  <2> QED BY <1>2, <2>1, <2>2 DEF Bodies
<1>5. Conjoined(before, law)[j] =
         [lookback |-> n,
          frames   |-> Aligned(before[j], n).frames \cap Aligned(law, n).frames]
  BY DEF Conjoined, Common
<1>6. Conjoined(before, law)[j] =
         [lookback |-> n, frames |-> before[j].frames \cap law.frames]
  BY <1>3, <1>4, <1>5 DEF Aligned
<1> QED BY <1>3, <1>6 DEF Both

LEMMA InvOldSpecKept == Inv => OldSpecKept
<1> SUFFICES ASSUME Inv, warm = 0, alts # before,
                    NEW i \in Inputs, NEW k \in DOMAIN before, Level(k),
                    Together(k, i),
                    \A j \in DOMAIN before : j < k => ~Together(j, i),
                    MaxAlts = 0 \/ Rank(before, k) < MaxAlts - 1,
                    NEW o \in Played(i)
             PROVE  <<previous, <<i, o>>>> \in Both(k).frames
  BY DEF OldSpecKept, Rank
<1> DEFINE f == <<previous, <<i, o>>>>
<1>1. /\ Sound(before) /\ law \in Bodies /\ Executable(law) /\ alts = Revised(before, law)
      /\ DOMAIN before \subseteq Nat
  BY DEF Inv, HistoryInv, MadeBy, Outcome, Sound, IsPart
<1>2. \A j \in DOMAIN before : j <= k => Both(j) = Conjoined(before, law)[j]
  BY LevelBoth
<1>3. k \in Nat /\ k \in Alive(before, law)
  BY <1>1, <1>2 DEF Together, Alive, Live
<1>4. Kept(before, law, k)
  <2>1. \A j \in Alive(before, law) : j < k => Both(j) # Both(k)
    BY DEF Together, Alive
  <2>2. \A j \in Alive(before, law) :
           j < k => Conjoined(before, law)[j] # Conjoined(before, law)[k]
    BY <1>1, <1>2, <1>3, <2>1 DEF Alive
  <2> QED BY <1>3, <2>2 DEF Kept
<1>5. k \in DOMAIN alts /\ alts[k] = Both(k)
  BY <1>1, <1>2, <1>3, <1>4, KeptIsRevised
<1>6. Solving(i, k) # {}
  <2>1. PICK p \in Outputs :
           /\ <<previous, <<i, p>>>> \in Both(k).frames
           /\ Executable(Both(k)) => <<i, p>> \in Winning(Both(k).frames)
    BY DEF Together
  <2>2. <<previous, <<i, p>>>> \in ctns[k].frames
    BY <2>1, <1>5, ContinuationIs
  <2> QED BY <2>2 DEF Solving, Allows
<1>7. PICK c \in DOMAIN alts :
         f \in ctns[c].frames /\ f \in alts[c].frames /\ \A j \in DOMAIN alts : j < c => Solving(i, j) = {}
  BY PlayedIs
<1>8. ~(k < c)
  BY <1>5, <1>6, <1>7
<1>9. CASE c = k
  BY <1>5, <1>7, <1>9
<1>10. CASE c # k
  <2>1. c \in Nat /\ k \in Nat /\ k <= Last(before) /\ Last(before) \in Nat
    BY <1>1, SoundLast DEF IsLast, Inv, StateInv, Sound, IsPart
  <2>2. c < k
    BY <2>1, <1>8, <1>10
  <2>3. Joins(before, law, c, alts[c])
    BY <2>1, <2>2, <1>1, RevisedFrom
  <2>4. c \in DOMAIN before /\ alts[c] = Both(c) /\ Live(Both(c))
    BY <1>2, <2>1, <2>2, <2>3 DEF Joins
  <2>5. ~Executable(alts[c])
    <3>1. ~IsLast(alts, c)
      BY <2>1, <2>2, <1>5 DEF IsLast
    <3> QED BY <3>1 DEF Inv, StateInv, Sound, LastPlays
  <2>6. o \in Outputs
    BY DEF Played, Solving
  <2>7. Together(c, i)
    BY <2>4, <2>5, <2>6, <1>7 DEF Together, Live
  <2> QED BY <2>2, <2>4, <2>7
<1> QED BY <1>9, <1>10

-----------------------------------------------------------------------------
(* The theorems.                                                            *)

(* The part, its continuations and the step in hand have their types, and   *)
(* the last alternative is the one that plays against every input.          *)
THEOREM PartsAreSound == Spec => []Inv
BY InvHolds

(* Past the warm-up a revised part plays by the update applied last, as it  *)
(* was written: its last alternative always, the others when the update     *)
(* looks back as far as they do; a part the update left alone does so on    *)
(* its own runs.                                                            *)
THEOREM FollowsUpdates == Spec => []UpdateIsFollowed
<1>1. Inv => UpdateIsFollowed
  BY InvUpdateIsFollowed
<1> QED BY <1>1, InvHolds, PTL

(* Where an alternative of the revised part and the update, which look back *)
(* equally far, can hold together, the step plays both.                     *)
THEOREM KeepsOldSpec == Spec => []OldSpecKept
<1>1. Inv => OldSpecKept
  BY InvOldSpecKept
<1> QED BY <1>1, InvHolds, PTL

(* A part that was accepted answers every input, as long as its last        *)
(* alternative can be played on.                                            *)
THEOREM AnswersEveryInput == Spec => []NeverStuck
<1>1. Inv => NeverStuck
  BY InvNeverStuck
<1> QED BY <1>1, InvHolds, PTL
=============================================================================
