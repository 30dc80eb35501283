-------------------------- MODULE WorkBudgetProofs --------------------------
(***************************************************************************)
(* What a missing answer can reach, for every set of questions, values and *)
(* any nesting of units.  MissingIsReported, StartsClean and NoneElseBlamed*)
(* are not inductive.  The first two rest on DoubtIsMarked: as long as     *)
(* anything doubtful is computed or cached, the flag or a note tells so.   *)
(* The third rests on Recorded.  Both need the shape of the call stack: a  *)
(* handled scope is the innermost entry and is inside a unit.              *)
(***************************************************************************)
EXTENDS WorkBudget, SequenceTheorems, TLAPS

\* The note as the open unit will see it, a handled scope being open or not.
UnitNote == IF InHandled THEN Top.outer ELSE note

\* A handled scope is inside a unit.
Shape == calls # <<>> => calls[1].kind = "unit"

DoubtIsMarked == doubt \/ Tainted => full \/ UnitNote

\* What ran out in the open unit was recorded.
Recorded == calls # <<>> /\ (full \/ UnitNote) => ran_out

IInv == TypeOK /\ Shape /\ DoubtIsMarked /\ Recorded /\ MissingIsReported /\ NoneElseBlamed

-----------------------------------------------------------------------------

\* What may open where no handled scope is innermost.
LEMMA AppendShape ==
    ASSUME TypeOK, Shape, ~InHandled, NEW e \in Entries, calls = <<>> => e.kind = "unit"
    PROVE  LET c == Append(calls, e)
           IN  /\ c \in Seq(Entries)
               /\ \A i \in 1..Len(c) : c[i].kind = "handled" => i = Len(c)
               /\ c[1].kind = "unit"
               /\ c # <<>>
               /\ c[Len(c)] = e
<1> DEFINE c == Append(calls, e)
<1>2. calls \in Seq(Entries) BY DEF TypeOK
<1>3. c \in Seq(Entries) /\ Len(c) = Len(calls) + 1 /\ c # <<>> /\ c[Len(c)] = e
      /\ \A i \in 1..Len(calls) : c[i] = calls[i]
  BY <1>2
<1>5. ASSUME NEW i \in 1..Len(c), c[i].kind = "handled" PROVE i = Len(c)
  <2>1. CASE i = Len(c) BY <2>1
  <2>2. CASE i # Len(c)
    <3>1. i \in 1..Len(calls) BY <2>2, <1>3, <1>2
    <3>2. calls[i].kind = "handled" BY <3>1, <1>3, <1>5
    <3>3. i = Len(calls) BY <3>1, <3>2 DEF TypeOK
    <3>4. InHandled BY <3>1, <3>2, <3>3, <1>2 DEF InHandled, Top
    <3> QED BY <3>4
  <2> QED BY <2>1, <2>2
<1>6. c[1].kind = "unit"
  <2>1. CASE calls = <<>> BY <2>1, <1>3
  <2>2. CASE calls # <<>>
    <3>1. 1 \in 1..Len(calls) BY <2>2, <1>2
    <3> QED BY <3>1, <2>2, <1>3 DEF Shape
  <2> QED BY <2>1, <2>2
<1> QED BY <1>3, <1>5, <1>6

\* What is left when the innermost entry closes: units only.
LEMMA PoppedShape ==
    ASSUME TypeOK, calls # <<>>
    PROVE  /\ Popped \in Seq(Entries)
           /\ Len(Popped) = Len(calls) - 1
           /\ \A i \in 1..Len(Popped) : Popped[i].kind = "unit"
<1>1. calls \in Seq(Entries) /\ Len(calls) \in Nat \ {0} BY DEF TypeOK
<1> DEFINE n == Len(calls) - 1
<1>2. n \in Int /\ \A i \in 1..n : calls[i] \in Entries /\ i # Len(calls) /\ i \in 1..Len(calls)
  BY <1>1
<1>3. /\ SubSeq(calls, 1, n) \in Seq(Entries)
      /\ Len(SubSeq(calls, 1, n)) = IF 1 <= n THEN n - 1 + 1 ELSE 0
      /\ \A i \in 1..(n - 1 + 1) : SubSeq(calls, 1, n)[i] = calls[1 + i - 1]
  <2> HIDE DEF n
  <2> QED BY <1>2, SubSeqProperties
<1>4. Popped = SubSeq(calls, 1, n) BY DEF Popped
<1>5. Popped \in Seq(Entries) BY <1>3, <1>4
<1>6. Len(Popped) = n
  <2>1. n \in Nat BY <1>1
  <2> HIDE DEF n
  <2>2. (IF 1 <= n THEN n - 1 + 1 ELSE 0) = n BY <2>1
  <2> QED BY <2>2, <1>3, <1>4
<1>7. ASSUME NEW i \in 1..Len(Popped) PROVE Popped[i].kind = "unit"
  <2>1. i \in 1..n BY <1>6
  <2>2. Popped[i] = calls[i] BY <2>1, <1>1, <1>3, <1>4
  <2>3. calls[i].kind # "handled" BY <2>1, <1>2 DEF TypeOK
  <2>4. calls[i] \in Entries BY <2>1, <1>2
  <2>5. calls[i].kind = "unit" BY <2>3, <2>4 DEF Entries
  <2> QED BY <2>2, <2>5
<1> QED BY <1>5, <1>6, <1>7

-----------------------------------------------------------------------------
(* Types, one variable at a time.                                           *)

LEMMA StackStep ==
    ASSUME TypeOK, Shape, Next
    PROVE  /\ calls' \in Seq(Entries)
           /\ \A i \in 1..Len(calls') : calls'[i].kind = "handled" => i = Len(calls')
           /\ Shape'
<1>1. CASE UNCHANGED calls BY <1>1 DEF TypeOK, Shape
<1>2. CASE Enter
  <2>1. Unit \in Entries /\ Unit.kind = "unit" BY DEF Unit, Entries
  <2>2. calls' = Append(calls, Unit) /\ ~InHandled BY <1>2 DEF Enter
  <2> QED BY <2>1, <2>2, AppendShape DEF Shape
<1>3. CASE Open
  <2>1. Handled(note) \in Entries BY DEF Handled, Entries, TypeOK
  <2>2. calls' = Append(calls, Handled(note)) /\ ~InHandled /\ calls # <<>>
    BY <1>3 DEF Open
  <2> QED BY <2>1, <2>2, AppendShape DEF Shape
<1>4. CASE Leave \/ Close
  <2>1. calls' = Popped /\ calls # <<>> BY <1>4 DEF Leave, Close, InUnit, InHandled
  <2>2. calls' \in Seq(Entries) /\ \A i \in 1..Len(calls') : calls'[i].kind = "unit"
    BY <2>1, PoppedShape
  <2>3. calls' # <<>> => 1 \in 1..Len(calls') BY <2>2
  <2> QED BY <2>2, <2>3 DEF Shape
<1> QED
  BY <1>1, <1>2, <1>3, <1>4
  DEF Next, RefuseFull, RefuseOver, TableFills, StoreChanges, Hit, Decide, RunOut,
      Memoize, CommandDone, LineDone

LEMMA FlagsStep ==
    ASSUME TypeOK, Next
    PROVE  full' \in BOOLEAN /\ note' \in BOOLEAN /\ over' \in BOOLEAN /\ doubt' \in BOOLEAN
           /\ ran_out' \in BOOLEAN
<1> USE DEF TypeOK
<1>1. CASE Close
  <2>1. calls \in Seq(Entries) /\ Len(calls) \in 1..Len(calls) BY <1>1 DEF Close, InHandled
  <2>2. Top \in Entries BY <2>1 DEF Top
  <2>3. Restored \in BOOLEAN BY <2>2 DEF Restored, Entries
  <2> QED BY <1>1, <2>3 DEF Close
<1>2. CASE RefuseFull \/ RefuseOver \/ Enter
  BY <1>2 DEF RefuseFull, RefuseOver, Enter, Begin, Leftover
<1>3. CASE Leave BY <1>3 DEF Leave
<1>4. CASE Open \/ TableFills \/ StoreChanges \/ CommandDone \/ LineDone
  BY <1>4 DEF Open, TableFills, StoreChanges, CommandDone, LineDone
<1>5. ASSUME NEW k \in Keys, Hit(k) \/ Decide(k) \/ Memoize(k)
      PROVE  full' \in BOOLEAN /\ note' \in BOOLEAN /\ over' \in BOOLEAN /\ doubt' \in BOOLEAN
             /\ ran_out' \in BOOLEAN
  BY <1>5 DEF Hit, Decide, Memoize
<1>6. ASSUME NEW q \in Questions, RunOut(q)
      PROVE  full' \in BOOLEAN /\ note' \in BOOLEAN /\ over' \in BOOLEAN /\ doubt' \in BOOLEAN
             /\ ran_out' \in BOOLEAN
  BY <1>6 DEF RunOut, Missing
<1> QED BY <1>1, <1>2, <1>3, <1>4, <1>5, <1>6 DEF Next, Keys

LEMMA CacheStep ==
    ASSUME TypeOK, Next
    PROVE  cache' \in [Keys -> {"none", "sound", "doubtful"}]
  BY DEF TypeOK, Next, RefuseFull, RefuseOver, Enter, Leave, Open, Close, TableFills,
         StoreChanges, Hit, Decide, RunOut, Memoize, CommandDone, LineDone, Begin, Leftover,
         Cleared, Keys, Unanswered

LEMMA ReturnedStep ==
    ASSUME TypeOK, Next
    PROVE  returned' \in [error : BOOLEAN, blamed : BOOLEAN, doubt : BOOLEAN]
<1>1. CASE UNCHANGED returned BY <1>1 DEF TypeOK
<1>2. CASE returned' = Refused BY <1>2 DEF Refused
<1>3. CASE returned' = [error |-> note \/ full, blamed |-> ~ran_out, doubt |-> doubt]
  <2>1. (note \/ full) \in BOOLEAN /\ (~ran_out) \in BOOLEAN /\ doubt \in BOOLEAN
    BY DEF TypeOK
  <2> QED BY <1>3, <2>1
<1> QED
  BY <1>1, <1>2, <1>3
  DEF Next, RefuseFull, RefuseOver, Enter, Leave, Open, Close, TableFills, StoreChanges,
      Hit, Decide, RunOut, Memoize, CommandDone, LineDone

LEMMA TypeStep ==
    ASSUME TypeOK, Shape, [Next]_vars
    PROVE  TypeOK' /\ Shape'
<1>1. CASE Next
  <2>1. TypeOK' BY <1>1, StackStep, FlagsStep, CacheStep, ReturnedStep DEF TypeOK
  <2>2. Shape' BY <1>1, StackStep
  <2> QED BY <2>1, <2>2
<1>2. CASE UNCHANGED vars BY <1>2 DEF vars, TypeOK, Shape
<1> QED BY <1>1, <1>2

-----------------------------------------------------------------------------
(* Doubt is marked, and what marks it is recorded.                          *)

LEMMA ClearedIsSound == ASSUME cache' = Cleared PROVE ~Tainted'
  BY DEF Cleared, Tainted

\* The note of a unit, where no handled scope is open.
LEMMA OwnNote == ASSUME ~InHandled PROVE UnitNote = note
  BY DEF UnitNote

LEMMA SameNote ==
    ASSUME calls' = calls, note' = note
    PROVE  UnitNote' = UnitNote /\ (InHandled <=> InHandled')
  BY DEF UnitNote, InHandled, Top

\* What a unit, or what follows it, begins with.
LEMMA BeginIsClean ==
    ASSUME DoubtIsMarked, Outermost, ~full, Begin
    PROVE  ~Tainted' /\ ~note' /\ ~doubt'
<1>1. ~InHandled BY DEF Outermost, InHandled
<1>2. note' = FALSE /\ doubt' = FALSE /\ cache' = (IF note THEN Cleared ELSE cache)
  BY DEF Begin, Leftover
<1>3. CASE note BY <1>2, <1>3, ClearedIsSound
<1>4. CASE ~note
  <2>1. ~Tainted BY <1>1, <1>4, OwnNote DEF DoubtIsMarked
  <2> QED BY <2>1, <1>2, <1>4 DEF Tainted
<1> QED BY <1>2, <1>3, <1>4

LEMMA EnterStep ==
    ASSUME TypeOK, Shape, DoubtIsMarked, Recorded, Enter
    PROVE  DoubtIsMarked' /\ Recorded'
<1>1. ~InHandled /\ calls' = Append(calls, Unit) /\ full' = full BY DEF Enter
<1>2. Unit \in Entries /\ Unit.kind = "unit" BY DEF Unit, Entries
<1>3. ~InHandled'
  <2>1. calls'[Len(calls')] = Unit BY <1>1, <1>2, AppendShape
  <2> QED BY <2>1, <1>2 DEF InHandled, Top
<1>4. UnitNote' = note' BY <1>3 DEF UnitNote
<1>5. CASE Outermost
  <2>1. ~full /\ Begin BY <1>5 DEF Enter
  <2>2. ~Tainted' /\ ~note' /\ ~doubt' /\ ~full' BY <2>1, <1>1, <1>5, BeginIsClean
  <2> QED BY <2>2, <1>4 DEF DoubtIsMarked, Recorded
<1>6. CASE ~Outermost
  <2>1. UNCHANGED <<note, cache, doubt, ran_out>> BY <1>6 DEF Enter, Begin
  <2>2. UnitNote = note BY <1>1, OwnNote
  <2>3. Tainted' <=> Tainted BY <2>1 DEF Tainted
  <2>4. calls # <<>> BY <1>6 DEF Outermost
  <2>5. DoubtIsMarked' BY <2>1, <2>2, <2>3, <1>1, <1>4 DEF DoubtIsMarked
  <2>6. Recorded' BY <2>1, <2>2, <2>4, <1>1, <1>4 DEF Recorded
  <2> QED BY <2>5, <2>6
<1> QED BY <1>5, <1>6

LEMMA RefuseOverStep ==
    ASSUME DoubtIsMarked, Recorded, RefuseOver
    PROVE  DoubtIsMarked' /\ Recorded'
<1>1. ~InHandled /\ calls' = calls /\ full' = full BY DEF RefuseOver
<1>2. CASE Outermost
  <2>1. ~full /\ Begin BY <1>2 DEF RefuseOver
  <2>2. ~Tainted' /\ ~doubt' BY <2>1, <1>2, BeginIsClean
  <2>3. calls' = <<>> BY <1>1, <1>2 DEF Outermost
  <2> QED BY <2>2, <2>3 DEF DoubtIsMarked, Recorded
<1>3. CASE ~Outermost
  <2>1. UNCHANGED <<note, cache, doubt, ran_out>> BY <1>3 DEF RefuseOver, Begin
  <2>2. UnitNote' = UnitNote BY <1>1, <2>1, SameNote
  <2> QED BY <1>1, <2>1, <2>2 DEF DoubtIsMarked, Recorded, Tainted
<1> QED BY <1>2, <1>3

LEMMA NoHandledUnder ==
    ASSUME TypeOK, calls # <<>>, calls' = Popped
    PROVE  ~InHandled'
<1>1. /\ calls' \in Seq(Entries)
      /\ \A i \in 1..Len(calls') : calls'[i].kind = "unit"
  BY PoppedShape
<1>2. CASE calls' = <<>> BY <1>2 DEF InHandled
<1>3. CASE calls' # <<>>
  <2>1. Len(calls') \in 1..Len(calls') BY <1>1, <1>3
  <2>2. calls'[Len(calls')].kind = "unit" BY <2>1, <1>1
  <2> QED BY <2>2 DEF InHandled, Top
<1> QED BY <1>2, <1>3

LEMMA LeaveStep ==
    ASSUME TypeOK, DoubtIsMarked, Recorded, Leave
    PROVE  DoubtIsMarked' /\ Recorded'
<1>1. calls' = Popped /\ calls # <<>> BY DEF Leave, InUnit
<1>2. ~InHandled BY DEF Leave, InUnit, InHandled
<1>3. UnitNote = note BY <1>2, OwnNote
<1>4. UnitNote' = note' BY <1>1, NoHandledUnder DEF UnitNote
<1>5. CASE Len(calls) = 1
  <2>1. note' = FALSE /\ full' = FALSE /\ doubt' = FALSE
        /\ cache' = (IF note \/ full THEN Cleared ELSE cache)
    BY <1>5 DEF Leave
  <2>2. CASE note \/ full BY <2>1, <2>2, <1>4, ClearedIsSound DEF DoubtIsMarked, Recorded
  <2>3. CASE ~(note \/ full)
    <3>1. ~Tainted BY <1>3, <2>3 DEF DoubtIsMarked
    <3>2. ~Tainted' BY <3>1, <2>1, <2>3 DEF Tainted
    <3> QED BY <3>2, <2>1, <1>4 DEF DoubtIsMarked, Recorded
  <2> QED BY <2>2, <2>3
<1>6. CASE Len(calls) # 1
  <2>1. UNCHANGED <<note, cache, doubt, ran_out>> /\ full' = (full /\ ~TakesFull)
    BY <1>6 DEF Leave
  <2>2. full' <=> full BY <2>1, <1>6 DEF TakesFull
  <2>3. DoubtIsMarked' BY <2>1, <2>2, <1>3, <1>4 DEF DoubtIsMarked, Tainted
  <2>4. Recorded' BY <2>1, <2>2, <1>1, <1>3, <1>4 DEF Recorded
  <2> QED BY <2>3, <2>4
<1> QED BY <1>5, <1>6

LEMMA OpenStep ==
    ASSUME TypeOK, Shape, DoubtIsMarked, Recorded, Open
    PROVE  DoubtIsMarked' /\ Recorded'
<1>1. ~InHandled /\ calls # <<>> /\ calls' = Append(calls, Handled(note))
      /\ UNCHANGED <<full, cache, doubt, ran_out>>
  BY DEF Open
<1>2. Handled(note) \in Entries BY DEF Handled, Entries, TypeOK
<1>3. calls'[Len(calls')] = Handled(note) /\ calls' # <<>> BY <1>1, <1>2, AppendShape
<1>4. InHandled' /\ Top'.outer = note BY <1>3 DEF InHandled, Top, Handled
<1>5. UnitNote' = note /\ UnitNote = note BY <1>1, <1>4, OwnNote DEF UnitNote
<1>6. DoubtIsMarked' BY <1>1, <1>5 DEF DoubtIsMarked, Tainted
<1>7. Recorded' BY <1>1, <1>5 DEF Recorded
<1> QED BY <1>6, <1>7

LEMMA CloseStep ==
    ASSUME TypeOK, DoubtIsMarked, Recorded, Close
    PROVE  DoubtIsMarked' /\ Recorded'
<1>1. InHandled /\ calls # <<>> /\ calls' = Popped /\ note' = Top.outer
      /\ UNCHANGED <<full, cache, doubt, ran_out>>
  BY DEF Close, InHandled, Restored
<1>2. UnitNote = Top.outer BY <1>1 DEF UnitNote
<1>3. UnitNote' = note' BY <1>1, NoHandledUnder DEF UnitNote
<1>4. DoubtIsMarked' BY <1>1, <1>2, <1>3 DEF DoubtIsMarked, Tainted
<1>5. Recorded' BY <1>1, <1>2, <1>3 DEF Recorded
<1> QED BY <1>4, <1>5

LEMMA RunOutStep ==
    ASSUME NEW q \in Questions, TypeOK, DoubtIsMarked, Recorded, RunOut(q)
    PROVE  DoubtIsMarked' /\ Recorded'
<1>1. /\ calls' = calls /\ full' = full /\ cache' = cache /\ note' = TRUE
      /\ doubt' = (doubt \/ ~InHandled)
      /\ ran_out' = (ran_out \/ (~InHandled /\ ~note))
  BY DEF RunOut, Missing, Unanswered
<1>2. InHandled' <=> InHandled BY <1>1 DEF InHandled, Top
<1>3. CASE InHandled
  <2>1. UnitNote' = UnitNote BY <1>1, <1>2, <1>3 DEF UnitNote, Top
  <2>2. (doubt' <=> doubt) /\ (ran_out' <=> ran_out) BY <1>1, <1>3
  <2> QED BY <1>1, <2>1, <2>2 DEF DoubtIsMarked, Recorded, Tainted
<1>4. CASE ~InHandled
  <2>1. UnitNote' /\ UnitNote = note BY <1>1, <1>2, <1>4 DEF UnitNote
  <2>2. ran_out' \/ calls = <<>> BY <1>1, <1>4, <2>1 DEF Recorded
  <2> QED BY <1>1, <2>1, <2>2 DEF DoubtIsMarked, Recorded
<1> QED BY <1>3, <1>4

LEMMA TableFillsStep ==
    ASSUME TableFills
    PROVE  DoubtIsMarked' /\ Recorded'
  BY DEF TableFills, DoubtIsMarked, Recorded

\* Steps after which neither the flag nor a note is another one.
LEMMA QuietStep ==
    ASSUME DoubtIsMarked, Recorded, UNCHANGED <<calls, full, note, ran_out>>,
           doubt' \/ Tainted' => doubt \/ Tainted
    PROVE  DoubtIsMarked' /\ Recorded'
<1>1. UnitNote' = UnitNote BY SameNote
<1> QED BY <1>1 DEF DoubtIsMarked, Recorded

LEMMA HitStep ==
    ASSUME NEW k \in Keys, DoubtIsMarked, Recorded, Hit(k)
    PROVE  DoubtIsMarked' /\ Recorded'
<1>1. cache' = cache /\ doubt' = (doubt \/ cache[k] = "doubtful") BY DEF Hit
<1>2. doubt' \/ Tainted' => doubt \/ Tainted BY <1>1 DEF Tainted
<1> QED BY <1>2, QuietStep DEF Hit

LEMMA DecideStep ==
    ASSUME NEW q \in Questions, TypeOK, DoubtIsMarked, Recorded, Decide(q)
    PROVE  DoubtIsMarked' /\ Recorded'
<1>1. cache' = [cache EXCEPT ![q] = "sound"] /\ doubt' = doubt BY DEF Decide
<1>2. Tainted' => Tainted BY <1>1 DEF Tainted, TypeOK
<1> QED BY <1>1, <1>2, QuietStep DEF Decide

LEMMA MemoizeStep ==
    ASSUME NEW v \in Values, TypeOK, DoubtIsMarked, Recorded, Memoize(v)
    PROVE  DoubtIsMarked' /\ Recorded'
<1>1. /\ cache' = [cache EXCEPT ![v] = IF doubt THEN "doubtful" ELSE "sound"]
      /\ doubt' = doubt
  BY DEF Memoize
<1>2. Tainted' => doubt \/ Tainted BY <1>1 DEF Tainted, TypeOK
<1> QED BY <1>1, <1>2, QuietStep DEF Memoize

\* The boundaries outside of every unit.
LEMMA DoneStep ==
    ASSUME DoubtIsMarked, RefuseFull \/ CommandDone \/ LineDone
    PROVE  DoubtIsMarked' /\ Recorded'
<1>1. calls = <<>> /\ calls' = <<>> /\ doubt' = FALSE
  BY DEF RefuseFull, CommandDone, LineDone, Outermost
<1>2. ~Tainted'
  <2>1. CASE cache' = Cleared BY <2>1, ClearedIsSound
  <2>2. CASE cache' = cache /\ ~full /\ ~note
    <3>1. ~InHandled BY <1>1 DEF InHandled
    <3>2. ~Tainted BY <3>1, <2>2, OwnNote DEF DoubtIsMarked
    <3> QED BY <3>2, <2>2 DEF Tainted
  <2> QED BY <2>1, <2>2 DEF RefuseFull, CommandDone, LineDone
<1> QED BY <1>1, <1>2 DEF DoubtIsMarked, Recorded

LEMMA MarkStep ==
    ASSUME TypeOK, Shape, DoubtIsMarked, Recorded, Next
    PROVE  DoubtIsMarked' /\ Recorded'
<1>1. CASE StoreChanges
  <2>1. UNCHANGED <<calls, full, note, ran_out>> /\ UNCHANGED <<doubt, cache>>
    BY <1>1 DEF StoreChanges
  <2> QED BY <2>1, QuietStep DEF Tainted
<1> QED
  BY <1>1, EnterStep, RefuseOverStep, LeaveStep, OpenStep, CloseStep, TableFillsStep,
     HitStep, DecideStep, RunOutStep, MemoizeStep, DoneStep
  DEF Next

-----------------------------------------------------------------------------
(* What the outermost unit returns.                                         *)

LEMMA ReportStep ==
    ASSUME DoubtIsMarked, Recorded, MissingIsReported, NoneElseBlamed, Next
    PROVE  MissingIsReported' /\ NoneElseBlamed'
<1>1. CASE UNCHANGED returned BY <1>1 DEF MissingIsReported, NoneElseBlamed
<1>2. CASE returned' = Refused BY <1>2 DEF Refused, MissingIsReported, NoneElseBlamed
<1>3. CASE Leave /\ Len(calls) = 1
  <2>1. returned' = [error |-> note \/ full, blamed |-> ~ran_out, doubt |-> doubt]
    BY <1>3 DEF Leave
  <2>2. (returned'.error <=> note \/ full) /\ (returned'.blamed <=> ~ran_out)
        /\ (returned'.doubt <=> doubt)
    BY <2>1
  <2>3. ~InHandled /\ calls # <<>> BY <1>3 DEF Leave, InUnit, InHandled
  <2>4. UnitNote = note BY <2>3, OwnNote
  <2>5. MissingIsReported' BY <2>2, <2>4 DEF MissingIsReported, DoubtIsMarked
  <2>6. NoneElseBlamed' BY <2>2, <2>3, <2>4 DEF NoneElseBlamed, Recorded
  <2> QED BY <2>5, <2>6
<1> QED
  BY <1>1, <1>2, <1>3
  DEF Next, RefuseFull, RefuseOver, Enter, Leave, Open, Close, TableFills, StoreChanges,
      Hit, Decide, RunOut, Memoize, CommandDone, LineDone

LEMMA InitInvariant == Init => IInv
<1> SUFFICES ASSUME Init PROVE IInv
  OBVIOUS
<1>1. TypeOK
  <2>1. calls = <<>> BY DEF Init
  <2>2. calls \in Seq(Entries)
        /\ \A i \in 1..Len(calls) : calls[i].kind = "handled" => i = Len(calls)
    BY <2>1
  <2>3. returned \in [error : BOOLEAN, blamed : BOOLEAN, doubt : BOOLEAN] BY DEF Init
  <2>4. cache \in [Keys -> {"none", "sound", "doubtful"}] BY DEF Init, Cleared
  <2>5. full \in BOOLEAN /\ note \in BOOLEAN /\ over \in BOOLEAN /\ doubt \in BOOLEAN
        /\ ran_out \in BOOLEAN
    BY DEF Init
  <2> QED BY <2>2, <2>3, <2>4, <2>5 DEF TypeOK
<1>2. Shape BY DEF Init, Shape
<1>3. ~Tainted BY DEF Init, Tainted, Cleared
<1>4. DoubtIsMarked BY <1>3 DEF Init, DoubtIsMarked
<1>5. Recorded BY DEF Init, Recorded
<1>6. MissingIsReported /\ NoneElseBlamed BY DEF Init, MissingIsReported, NoneElseBlamed
<1> QED BY <1>1, <1>2, <1>4, <1>5, <1>6 DEF IInv

LEMMA StepInvariant == IInv /\ [Next]_vars => IInv'
<1> SUFFICES ASSUME IInv, [Next]_vars PROVE IInv'
  OBVIOUS
<1>1. TypeOK' /\ Shape' BY TypeStep DEF IInv
<1>2. CASE Next BY <1>1, <1>2, MarkStep, ReportStep DEF IInv
<1>3. CASE UNCHANGED vars
  <2>1. UnitNote' = UnitNote BY <1>3, SameNote DEF vars
  <2>2. DoubtIsMarked' /\ Recorded'
    BY <1>3, <2>1 DEF IInv, vars, DoubtIsMarked, Recorded, Tainted
  <2>3. MissingIsReported' /\ NoneElseBlamed'
    BY <1>3 DEF IInv, vars, MissingIsReported, NoneElseBlamed
  <2> QED BY <1>1, <2>2, <2>3 DEF IInv
<1> QED BY <1>2, <1>3

LEMMA Invariance == Spec => []IInv
  BY InitInvariant, StepInvariant, PTL DEF Spec

-----------------------------------------------------------------------------
(* Every reachable state is well typed, however deep the calls nest.         *)
THEOREM TypeCorrect == Spec => []TypeOK
<1>1. IInv => TypeOK BY DEF IInv
<1> QED BY <1>1, Invariance, PTL

(* The outermost call of with_budget returns a budget's error whenever its   *)
(* value was computed from a missing answer, by it, by a callee, or before   *)
(* it through a cache: for any nesting and any number of cached keys.        *)
THEOREM MissingAnswersReported == Spec => []MissingIsReported
<1>1. IInv => MissingIsReported BY DEF IInv
<1> QED BY <1>1, Invariance, PTL

(* An outermost call that ran and failed had something run out in it.        *)
THEOREM NobodyElseBlamed == Spec => []NoneElseBlamed
<1>1. IInv => NoneElseBlamed BY DEF IInv
<1> QED BY <1>1, Invariance, PTL

(* An outermost unit begins with no flag up and with no tree cache holding   *)
(* what was computed from a missing answer before.                           *)
THEOREM UnitsStartClean == Spec => StartsClean
<1>1. IInv /\ [Next]_vars => [Outermost /\ calls' # <<>> => ~Tainted' /\ ~full' /\ ~note']_vars
  <2> SUFFICES ASSUME IInv, Next, Outermost, calls' # <<>>
               PROVE  ~Tainted' /\ ~full' /\ ~note'
    BY DEF vars
  <2>1. Enter
    BY DEF Next, RefuseFull, RefuseOver, Leave, InUnit, Open, Close, InHandled, TableFills,
           StoreChanges, Hit, Decide, RunOut, Memoize, CommandDone, LineDone, Outermost
  <2>2. ~full /\ Begin /\ full' = full BY <2>1 DEF Enter
  <2> QED BY <2>2, BeginIsClean DEF IInv
<1> QED BY <1>1, Invariance, PTL DEF Spec, StartsClean
=============================================================================
