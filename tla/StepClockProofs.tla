-------------------------- MODULE StepClockProofs ---------------------------
(***************************************************************************)
(* For every lookback, every set of fixed positions and every sequence of   *)
(* steps, failed steps, updates and resets: what a step reads is still      *)
(* held, what it solves is current, and no clause is asked early or late.   *)
(***************************************************************************)
EXTENDS StepClock, FiniteSetTheorems, TLAPS

(* The formula is phrased `lookback` steps into the revision, and at the    *)
(* clock from there on.                                                     *)
ClockInv ==
    /\ formula_time_point = Larger(start + lookback, time_point)
    /\ highest_initial_pos \in MaxInitial(fixed)

(* Memory holds nothing of the future, the last step, every past fixed      *)
(* position and the part of the window that has been executed.              *)
HeldInv ==
    /\ memory \subseteq 0..time_point
    /\ time_point > 0 => time_point - 1 \in memory
    /\ \A p \in fixed : p < time_point => p \in memory
    /\ \A p \in Nat : formula_time_point - lookback <= p /\ p < time_point
                      => p \in memory

(* Values for the step in hand are held only if an attempt at it failed:    *)
(* its specification is then built, or it was revised since.                *)
AttemptInv ==
    time_point \in memory =>
        \/ time_point \in preset
        \/ final_system
        \/ step_spec_time_point = time_point

(* What a built step specification is. *)
SpecInv ==
    /\ step_spec_time_point <= time_point
    /\ final_system =>
          /\ step_spec.rev = epoch
          /\ step_spec.final
          /\ time_point >= highest_initial_pos
          /\ time_point = formula_time_point
          /\ \A p \in step_spec.folded : p < time_point \/ p \in preset
    /\ ~final_system =>
          /\ time_point <= InitialSegment
          /\ step_spec_time_point = time_point =>
                step_spec = UbtCtnAt /\ time_point < InitialSegment

(* The inductive invariant. *)
IInv ==
    /\ TypeOK
    /\ ClockInv
    /\ HeldInv
    /\ AttemptInv
    /\ SpecInv
    /\ ClauseAskedFromItsStart
    /\ FixedLiteralAskedAtItsStep

-----------------------------------------------------------------------------
(* The largest fixed position bounds them all and is one of them, or -1. *)
LEMMA MaxInitialBounds ==
    ASSUME NEW P \in SUBSET Nat, NEW h \in MaxInitial(P)
    PROVE  h \in Nat \cup {-1} /\ \A p \in P : p <= h
BY DEF MaxInitial

(* What calculate_initial_spec() leaves: the final specification, only at   *)
(* or after the end of the initial segment, or the instance of this step.   *)
Left(spec, at, final) ==
    /\ spec \in StepSpecs
    /\ at \in Nat \cup {-1}
    /\ at <= time_point
    /\ final \in BOOLEAN
    /\ spec.rev = epoch
    /\ spec.final = final
    /\ final =>
          /\ time_point >= highest_initial_pos
          /\ time_point = formula_time_point
          /\ \A p \in spec.folded : p < time_point \/ p \in preset
    /\ ~final =>
          /\ spec = UbtCtnAt
          /\ at = time_point
          /\ time_point < InitialSegment

LEMMA Calculation ==
    ASSUME IInv
    PROVE  Left(CalculateInitialSpec.spec, CalculateInitialSpec.at,
                CalculateInitialSpec.final)
<1> DEFINE c == CalculateInitialSpec
           keep == final_system \/ step_spec_time_point = time_point
                       \/ time_point > InitialSegment
<1> SUFFICES Left(c.spec, c.at, c.final)
  OBVIOUS
<1> USE BoundsAssumption DEF BoundsAssumption, IInv, TypeOK
<1>0. UbtCtnAt \in StepSpecs /\ UbtCtnAt.rev = epoch /\ UbtCtnAt.final = FALSE
  BY DEF UbtCtnAt, StepSpecs, ClockInv, Larger
<1>1. CASE keep
  <2>1. c.spec = step_spec /\ c.at = step_spec_time_point /\ c.final = final_system
    BY <1>1 DEF CalculateInitialSpec
  <2>2. CASE final_system
    BY <2>1, <2>2 DEF SpecInv, StepSpecs, Left
  <2>3. CASE ~final_system
    <3>1. step_spec_time_point = time_point
      BY <1>1, <2>3 DEF SpecInv, InitialSegment, Larger
    <3>2. step_spec = UbtCtnAt /\ time_point < InitialSegment
      BY <3>1, <2>3 DEF SpecInv
    <3> HIDE DEF c, keep
    <3>3. c.spec.final = c.final /\ ~c.final
      BY <2>1, <2>3, <3>2, <1>0
    <3> QED BY <2>1, <3>1, <3>2, <3>3, <1>0 DEF Left
  <2> QED BY <2>2, <2>3
<1>2. CASE ~keep /\ time_point < InitialSegment
  <2>1. c.spec = UbtCtnAt /\ c.at = time_point /\ c.final = FALSE
    BY <1>2 DEF CalculateInitialSpec
  <2> HIDE DEF c, keep
  <2>2. c.spec.final = c.final /\ ~c.final
    BY <2>1, <1>0
  <2>3. c.spec \in StepSpecs /\ c.spec.rev = epoch
    BY <2>1, <1>0
  <2>4. c.at \in Nat \cup {-1} /\ c.at <= time_point
    BY <2>1
  <2>5. c.final \in BOOLEAN
    BY <2>1
  <2> QED BY <2>1, <2>2, <2>3, <2>4, <2>5, <1>2 DEF Left
<1>3. CASE ~keep /\ ~(time_point < InitialSegment)
  <2> DEFINE s == [rev |-> epoch, final |-> TRUE, instance |-> -1,
                   upto |-> -1, folded |-> fixed \cap memory]
  <2>1. c.spec = s /\ c.at = time_point /\ c.final = TRUE
    BY <1>3 DEF CalculateInitialSpec
  <2>2. time_point >= highest_initial_pos /\ time_point = formula_time_point
    BY <1>3 DEF InitialSegment, Larger, ClockInv
  <2>3. \A p \in fixed \cap memory : p < time_point \/ p \in preset
    BY <1>3 DEF HeldInv, AttemptInv
  <2>4. s \in StepSpecs
    BY DEF StepSpecs
  <2>5. s.rev = epoch /\ s.final = TRUE /\ s.folded = fixed \cap memory
    OBVIOUS
  <2> HIDE DEF s, c, keep
  <2>6. c.spec.final = c.final /\ c.final
    BY <2>1, <2>5
  <2> QED BY <2>1, <2>2, <2>3, <2>4, <2>5, <2>6 DEF Left
<1> QED BY <1>1, <1>2, <1>3

(* A step solves the instance at the formula's time point. *)
LEMMA SolvedInstance ==
    ASSUME IInv
    PROVE  InstanceOf(CalculateInitialSpec.spec) = formula_time_point
<1> DEFINE c == CalculateInitialSpec
<1>1. c.spec.final = c.final /\ (~c.final => c.spec = UbtCtnAt)
  BY Calculation DEF Left
<1>2. UbtCtnAt.instance = formula_time_point
  BY DEF UbtCtnAt, IInv, ClockInv, TypeOK, Larger
<1> QED BY <1>1, <1>2 DEF InstanceOf

(* Every past position a step reads is held, given what memory holds. *)
LEMMA ReadsAreHeld ==
    ASSUME IInv
    PROVE  ReadsHeld
<1> DEFINE s == CalculateInitialSpec.spec
<1>1. InstanceOf(s) = formula_time_point
  BY SolvedInstance
<1>2. SUFFICES ASSUME NEW p \in ReadsOf(s), p < time_point
               PROVE  p \in memory
  BY DEF ReadsHeld
<1> HIDE DEF s
<1>3. CASE p \in fixed
  BY <1>2, <1>3 DEF IInv, HeldInv
<1>4. CASE p \in (formula_time_point - lookback)..formula_time_point
  <2>1. p \in Int /\ formula_time_point - lookback <= p
    BY <1>4 DEF IInv, TypeOK
  <2>2. formula_time_point - lookback >= 0
    BY BoundsAssumption DEF BoundsAssumption, IInv, TypeOK, ClockInv, Larger
  <2>3. p \in Nat
    BY <2>1, <2>2 DEF IInv, TypeOK
  <2> QED BY <1>2, <2>1, <2>3 DEF IInv, HeldInv
<1> QED BY <1>1, <1>2, <1>3, <1>4 DEF ReadsOf, FixedReadsOf

(* The specification of the next step is current. *)
LEMMA SpecIsCurrent ==
    ASSUME IInv
    PROVE  StepSpecIsCurrent
<1> DEFINE c == CalculateInitialSpec
<1>1. Left(c.spec, c.at, c.final)
  BY Calculation
<1>2. ~c.final => c.spec.upto = time_point
  BY <1>1 DEF Left, UbtCtnAt
<1> SUFFICES /\ c.spec.rev = epoch
             /\ c.spec.final = c.final
             /\ c.final => /\ time_point >= highest_initial_pos
                           /\ time_point = formula_time_point
             /\ ~c.final => c.spec.upto = time_point
  BY DEF StepSpecIsCurrent
<1> HIDE DEF c
<1> QED BY <1>1, <1>2 DEF Left

-----------------------------------------------------------------------------
(* make_interpreter() establishes the invariant. *)
LEMMA InitIInv ==
    ASSUME Init
    PROVE  IInv
<1> USE BoundsAssumption DEF BoundsAssumption, Init
<1>1. /\ lookback \in Nat
      /\ fixed \in SUBSET Nat
      /\ highest_initial_pos \in Nat \cup {-1}
  BY MaxInitialBounds
<1>2. step_spec \in StepSpecs
  BY DEF StepSpecs, Unbuilt
<1>3. TypeOK
  <2>1. final_system \in BOOLEAN
    OBVIOUS
  <2>2. time_point \in 0..MaxTime /\ start \in 0..time_point
        /\ epoch \in 0..MaxRevisions /\ formula_time_point \in Nat
    BY <1>1
  <2>3. memory \in SUBSET Nat /\ asked \in SUBSET Nat
        /\ settled \in SUBSET Nat /\ preset \in SUBSET Nat
    OBVIOUS
  <2>4. step_spec_time_point \in Nat \cup {-1}
    OBVIOUS
  <2> QED BY <1>1, <1>2, <2>1, <2>2, <2>3, <2>4 DEF TypeOK
<1>4. ClockInv
  BY <1>1 DEF ClockInv, Larger
<1>5. HeldInv
  BY <1>1 DEF HeldInv
<1>6. AttemptInv
  BY DEF AttemptInv
<1>7. SpecInv
  BY <1>1 DEF SpecInv, InitialSegment, Larger
<1>8. ClauseAskedFromItsStart
  BY <1>1 DEF ClauseAskedFromItsStart
<1>9. FixedLiteralAskedAtItsStep
  BY <1>1 DEF FixedLiteralAskedAtItsStep
<1> QED BY <1>3, <1>4, <1>5, <1>6, <1>7, <1>8, <1>9 DEF IInv

(* Calculating a step specification ahead of its step, with or without      *)
(* values left in memory by an attempt that fails.                          *)
LEMMA CalculatedIInv ==
    ASSUME IInv, Calculated, time_point < MaxTime,
           memory' = memory \/ memory' = memory \cup {time_point},
           UNCHANGED <<time_point, window, epoch, ghosts>>
    PROVE  IInv'
<1> DEFINE c == CalculateInitialSpec
<1>1. Left(c.spec, c.at, c.final)
  BY Calculation
<1>2. step_spec' = c.spec /\ step_spec_time_point' = c.at
      /\ final_system' = c.final
  BY DEF Calculated
<1> HIDE DEF c
<1>u. UNCHANGED <<time_point, formula_time_point, lookback,
                  highest_initial_pos, fixed, epoch, start, asked, settled,
                  preset>>
  BY DEF window, ghosts
<1> USE BoundsAssumption DEF BoundsAssumption
<1>m. memory' \in SUBSET Nat /\ memory \subseteq memory'
      /\ memory' \subseteq 0..time_point
  <2>1. /\ time_point \in 0..time_point /\ time_point \in Nat
        /\ memory \in SUBSET Nat /\ memory \subseteq 0..time_point
    BY DEF IInv, TypeOK, HeldInv
  <2>2. CASE memory' = memory
    BY <2>1, <2>2
  <2>3. CASE memory' = memory \cup {time_point}
    BY <2>1, <2>3
  <2> QED BY <2>2, <2>3
<1>3. TypeOK'
  BY <1>1, <1>2, <1>u, <1>m DEF IInv, TypeOK, Left
<1>4. ClockInv'
  BY <1>u DEF IInv, ClockInv, Larger, MaxInitial
<1>5. HeldInv'
  BY <1>u, <1>m DEF IInv, HeldInv
<1>6. AttemptInv'
  <2>1. c.final \/ c.at = time_point
    BY <1>1 DEF Left
  <2> QED BY <1>2, <1>u, <2>1 DEF AttemptInv
<1>7. SpecInv'
  <2>1. InitialSegment' = InitialSegment /\ UbtCtnAt' = UbtCtnAt
    BY <1>u DEF InitialSegment, Larger, UbtCtnAt
  <2>2. time_point < InitialSegment => time_point <= InitialSegment
    BY DEF InitialSegment, IInv, TypeOK, Larger
  <2> QED BY <1>1, <1>2, <1>u, <2>1, <2>2 DEF SpecInv, Left
<1>8. ClauseAskedFromItsStart'
  BY <1>u DEF IInv, ClauseAskedFromItsStart
<1>9. FixedLiteralAskedAtItsStep'
  BY <1>u DEF IInv, FixedLiteralAskedAtItsStep
<1> QED BY <1>3, <1>4, <1>5, <1>6, <1>7, <1>8, <1>9 DEF IInv

(* A step that completes. *)
LEMMA StepIInv ==
    ASSUME IInv, Step
    PROVE  IInv'
<1> DEFINE c == CalculateInitialSpec
           t == time_point
           f == IF t < formula_time_point THEN formula_time_point ELSE t + 1
<1> USE BoundsAssumption DEF BoundsAssumption
<1>0. /\ t \in Nat /\ t < MaxTime /\ start \in 0..t
      /\ formula_time_point \in Nat /\ lookback \in Nat
      /\ highest_initial_pos \in Nat \cup {-1}
      /\ fixed \in SUBSET Nat /\ memory \in SUBSET Nat
  BY DEF IInv, TypeOK, Step
<1>1. Left(c.spec, c.at, c.final)
  BY Calculation
<1>2. step_spec' = c.spec /\ step_spec_time_point' = c.at
      /\ final_system' = c.final
  BY DEF Step, Calculated
<1>3. InstanceOf(c.spec) = formula_time_point
  BY SolvedInstance
<1>4. /\ time_point' = t + 1
      /\ formula_time_point' = f
      /\ memory' = Pruned(memory \cup {t}, f, t)
      /\ asked' = IF formula_time_point = t THEN asked \cup {t} ELSE asked
      /\ settled' = settled \cup ({t} \cap FixedReadsOf(c.spec))
  BY <1>3 DEF Step
<1>5. UNCHANGED <<lookback, highest_initial_pos, fixed, epoch, start, preset>>
  BY DEF Step
<1>6. /\ formula_time_point = Larger(start + lookback, t)
      /\ f = Larger(start + lookback, t + 1)
      /\ f \in Nat /\ formula_time_point <= f
  BY <1>0 DEF IInv, ClockInv, Larger
<1> HIDE DEF c, f
<1>7. memory' = {p \in memory \cup {t} :
                   \/ p <= highest_initial_pos
                   \/ p >= Smaller(f - lookback, t)}
  BY <1>4 DEF Pruned
<1>m. /\ memory' \in SUBSET Nat
      /\ memory' \subseteq 0..t
      /\ t \in memory'
  <2>1. memory \cup {t} \subseteq 0..t
    BY <1>0 DEF IInv, HeldInv
  <2>2. t >= Smaller(f - lookback, t)
    BY <1>0, <1>6 DEF Smaller
  <2>3. memory' \subseteq memory \cup {t}
    BY <1>7
  <2> QED BY <1>0, <1>7, <2>1, <2>2, <2>3
<1>t. TypeOK'
  <2>1. asked' \in SUBSET Nat /\ settled' \in SUBSET Nat
    BY <1>0, <1>4 DEF IInv, TypeOK
  <2>2. time_point' \in 0..MaxTime /\ start' \in 0..time_point'
    BY <1>0, <1>4, <1>5
  <2>3. /\ step_spec' \in StepSpecs /\ step_spec_time_point' \in Nat \cup {-1}
        /\ final_system' \in BOOLEAN
    BY <1>1, <1>2 DEF Left
  <2> QED BY <1>4, <1>5, <1>6, <1>m, <2>1, <2>2, <2>3 DEF IInv, TypeOK
<1>c. ClockInv'
  BY <1>4, <1>5, <1>6 DEF IInv, ClockInv, MaxInitial, Larger
<1>h. HeldInv'
  <2>1. \A p \in fixed : p < t + 1 => p \in memory'
    <3> SUFFICES ASSUME NEW p \in fixed, p < t + 1 PROVE p \in memory'
      OBVIOUS
    <3>1. p \in Nat /\ p <= highest_initial_pos
      BY <1>0 DEF IInv, ClockInv, MaxInitial
    <3>2. p \in memory \cup {t}
      BY <1>0, <3>1 DEF IInv, HeldInv
    <3> QED BY <1>7, <3>1, <3>2
  <2>2. \A p \in Nat : f - lookback <= p /\ p < t + 1 => p \in memory'
    <3> SUFFICES ASSUME NEW p \in Nat, f - lookback <= p, p < t + 1
                 PROVE  p \in memory'
      OBVIOUS
    <3>1. p \in memory \cup {t}
      <4>1. formula_time_point - lookback <= p
        BY <1>0, <1>6
      <4> QED BY <1>0, <4>1 DEF IInv, HeldInv
    <3>2. p >= Smaller(f - lookback, t)
      BY <1>0, <1>6 DEF Smaller
    <3> QED BY <1>7, <3>1, <3>2
  <2>3. memory' \subseteq 0..(t + 1) /\ (t + 1) - 1 \in memory'
    BY <1>0, <1>m
  <2> QED BY <1>4, <1>5, <2>1, <2>2, <2>3 DEF HeldInv
<1>a. AttemptInv'
  <2>1. t + 1 \notin memory'
    BY <1>0, <1>m
  <2> QED BY <1>4, <2>1 DEF AttemptInv
<1>s. SpecInv'
  <2>1. c.at <= t /\ c.at \in Int /\ ~(t + 1 = c.at) /\ c.at <= t + 1
    BY <1>0, <1>1 DEF Left
  <2>2. ASSUME c.final
        PROVE  /\ c.spec.rev = epoch /\ c.spec.final
               /\ t + 1 >= highest_initial_pos
               /\ t + 1 = f
               /\ \A p \in c.spec.folded : p < t + 1 \/ p \in preset
    <3>1. t >= highest_initial_pos /\ t = formula_time_point
          /\ c.spec.rev = epoch /\ c.spec.final
          /\ \A p \in c.spec.folded : p < t \/ p \in preset
      BY <2>2, <1>1 DEF Left
    <3>2. c.spec.folded \in SUBSET Int
      BY <1>1 DEF Left, StepSpecs
    <3>3. t + 1 = f
      BY <3>1, <1>0 DEF f
    <3> QED BY <3>1, <3>2, <3>3, <1>0
  <2>3. ASSUME ~c.final PROVE t + 1 <= InitialSegment'
    <3>1. t < InitialSegment
      BY <2>3, <1>1 DEF Left
    <3> QED BY <3>1, <1>0, <1>4, <1>5, <1>6 DEF InitialSegment, Larger
  <2> QED BY <1>2, <1>4, <1>5, <2>1, <2>2, <2>3 DEF SpecInv
<1>k. ClauseAskedFromItsStart'
  <2>1. asked = (start + lookback)..(t - 1)
    BY DEF IInv, ClauseAskedFromItsStart
  <2>2. asked' = (start + lookback)..t
    <3>1. CASE formula_time_point = t
      <4>1. asked' = ((start + lookback)..(t - 1)) \cup {t}
        BY <3>1, <1>4, <2>1
      <4>2. start + lookback \in Nat /\ start + lookback <= t
        BY <3>1, <1>0, <1>6 DEF Larger
      <4> HIDE DEF t
      <4> QED BY <4>1, <4>2, <1>0
    <3>2. CASE formula_time_point # t
      <4>1. asked' = (start + lookback)..(t - 1)
        BY <3>2, <1>4, <2>1
      <4>2. start + lookback \in Nat /\ start + lookback > t
        BY <3>2, <1>0, <1>6 DEF Larger
      <4> QED BY <4>1, <4>2, <1>0
    <3> QED BY <3>1, <3>2
  <2>3. (t + 1) - 1 = t
    BY <1>0
  <2> QED BY <1>4, <1>5, <2>2, <2>3 DEF ClauseAskedFromItsStart
<1>l. FixedLiteralAskedAtItsStep'
  <2>1. t \in fixed => t \in FixedReadsOf(c.spec) \/ t \in preset
    BY <1>0, <1>1 DEF Left, FixedReadsOf, UbtCtnAt
  <2> QED BY <1>0, <1>4, <1>5, <2>1 DEF IInv, FixedLiteralAskedAtItsStep
<1> QED BY <1>t, <1>c, <1>h, <1>a, <1>s, <1>k, <1>l DEF IInv

(* An update that commits: every fixed position it adds that has passed is  *)
(* replaced by its value.                                                   *)
LEMMA UpdateIInv ==
    ASSUME IInv, Update
    PROVE  IInv'
<1> USE BoundsAssumption DEF BoundsAssumption
<1>1. PICK k \in 0..MaxShift, kept \in SUBSET fixed,
           offsets \in SUBSET ((-MaxShift - 1)..MaxAhead) :
        LET named == {time_point + d : d \in offsets}
        IN  /\ epoch < MaxRevisions
            /\ \A p \in named : p >= 0
            /\ \A p \in named : p < time_point => p \in memory
            /\ ComputeLookbackAndInitial(k, kept \cup (named \ memory), time_point)
            /\ ForgetStepSpec
            /\ epoch' = epoch + 1
            /\ start' = time_point
            /\ asked' = {}
            /\ settled' = {}
            /\ preset' = preset \cup ({time_point} \cap memory)
            /\ UNCHANGED <<time_point, memory, step_spec>>
  BY DEF Update
<1> DEFINE named == {time_point + d : d \in offsets}
           P == kept \cup (named \ memory)
<1>0. /\ time_point \in 0..MaxTime /\ time_point \in Nat
      /\ memory \in SUBSET Nat /\ preset \in SUBSET Nat
      /\ fixed \in SUBSET Nat /\ step_spec \in StepSpecs
      /\ epoch \in 0..MaxRevisions /\ k \in Nat
  BY DEF IInv, TypeOK
<1>2. P \in SUBSET Nat
  <2>1. named \in SUBSET Int
    BY <1>0
  <2>2. \A p \in named : p >= 0
    BY <1>1
  <2> HIDE DEF named
  <2> QED BY <1>0, <2>1, <2>2
<1>3. \A p \in P : p < time_point => p \in memory
  <2>1. \A p \in named : p < time_point => p \in memory
    BY <1>1
  <2> HIDE DEF named
  <2> QED BY <2>1 DEF IInv, HeldInv
<1>4. /\ lookback' = k /\ formula_time_point' = time_point + k
      /\ fixed' = P /\ highest_initial_pos' \in MaxInitial(P)
      /\ final_system' = FALSE /\ step_spec_time_point' = -1
      /\ epoch < MaxRevisions /\ epoch' = epoch + 1
      /\ start' = time_point /\ asked' = {} /\ settled' = {}
      /\ preset' = preset \cup ({time_point} \cap memory)
      /\ time_point' = time_point /\ memory' = memory /\ step_spec' = step_spec
  BY <1>1 DEF ComputeLookbackAndInitial, ForgetStepSpec
<1> HIDE DEF P
<1>5. highest_initial_pos' \in Nat \cup {-1}
  BY <1>2, <1>4, MaxInitialBounds
<1>t. TypeOK'
  <2>1. preset' \in SUBSET Nat
    BY <1>0, <1>4
  <2>2. epoch' \in 0..MaxRevisions /\ start' \in 0..time_point'
    BY <1>0, <1>4
  <2>3. formula_time_point' \in Nat /\ step_spec_time_point' \in Nat \cup {-1}
    BY <1>0, <1>4
  <2>4. final_system' \in BOOLEAN
    BY <1>4
  <2>5. asked' \in SUBSET Nat /\ settled' \in SUBSET Nat
    BY <1>4
  <2> QED BY <1>0, <1>2, <1>4, <1>5, <2>1, <2>2, <2>3, <2>4, <2>5 DEF TypeOK
<1>c. ClockInv'
  BY <1>0, <1>4 DEF ClockInv, Larger, MaxInitial
<1>h. HeldInv'
  BY <1>0, <1>3, <1>4 DEF IInv, HeldInv
<1>a. AttemptInv'
  BY <1>4 DEF AttemptInv
<1>s. SpecInv'
  <2>1. step_spec_time_point' <= time_point' /\ step_spec_time_point' # time_point'
    BY <1>0, <1>4
  <2>2. time_point' <= InitialSegment'
    BY <1>0, <1>4, <1>5 DEF InitialSegment, Larger
  <2> QED BY <1>4, <2>1, <2>2 DEF SpecInv
<1>k. ClauseAskedFromItsStart'
  BY <1>0, <1>4 DEF ClauseAskedFromItsStart
<1>l. FixedLiteralAskedAtItsStep'
  BY <1>0, <1>2, <1>4 DEF FixedLiteralAskedAtItsStep
<1> QED BY <1>t, <1>c, <1>h, <1>a, <1>s, <1>k, <1>l DEF IInv

(* A reset: memory is empty, so nothing of the past may be needed. *)
LEMMA ResetIInv ==
    ASSUME IInv, Reset
    PROVE  IInv'
<1> USE BoundsAssumption DEF BoundsAssumption
<1>1. /\ lookback' = lookback /\ formula_time_point' = 0 + lookback
      /\ fixed' = fixed /\ highest_initial_pos' \in MaxInitial(fixed)
      /\ final_system' = FALSE /\ step_spec_time_point' = -1
      /\ epoch < MaxRevisions /\ epoch' = epoch + 1
      /\ start' = 0 /\ asked' = {} /\ settled' = {} /\ preset' = {}
      /\ time_point' = 0 /\ memory' = {} /\ step_spec' = Unbuilt
  BY DEF Reset, ComputeLookbackAndInitial, ForgetStepSpec
<1>2. /\ fixed \in SUBSET Nat /\ lookback \in Nat /\ epoch \in 0..MaxRevisions
  BY DEF IInv, TypeOK
<1>3. highest_initial_pos' \in Nat \cup {-1}
  BY <1>1, <1>2, MaxInitialBounds
<1>t. TypeOK'
  <2>1. step_spec' \in StepSpecs
    BY <1>1 DEF StepSpecs, Unbuilt
  <2>2. final_system' \in BOOLEAN
    BY <1>1
  <2>3. epoch' \in 0..MaxRevisions /\ start' \in 0..time_point'
        /\ time_point' \in 0..MaxTime
    BY <1>1, <1>2
  <2>4. asked' \in SUBSET Nat /\ settled' \in SUBSET Nat
        /\ preset' \in SUBSET Nat /\ memory' \in SUBSET Nat
    BY <1>1
  <2>5. formula_time_point' \in Nat /\ step_spec_time_point' \in Nat \cup {-1}
    BY <1>1, <1>2
  <2> QED BY <1>1, <1>2, <1>3, <2>1, <2>2, <2>3, <2>4, <2>5 DEF TypeOK
<1>c. ClockInv'
  BY <1>1, <1>2 DEF ClockInv, Larger, MaxInitial
<1>h. HeldInv'
  BY <1>1, <1>2 DEF HeldInv
<1>a. AttemptInv'
  BY <1>1 DEF AttemptInv
<1>s. SpecInv'
  <2>1. step_spec_time_point' <= time_point' /\ step_spec_time_point' # time_point'
    BY <1>1
  <2>2. time_point' <= InitialSegment'
    BY <1>1, <1>2, <1>3 DEF InitialSegment, Larger
  <2> QED BY <1>1, <2>1, <2>2 DEF SpecInv
<1>k. ClauseAskedFromItsStart'
  BY <1>1, <1>2 DEF ClauseAskedFromItsStart
<1>l. FixedLiteralAskedAtItsStep'
  BY <1>1, <1>2 DEF FixedLiteralAskedAtItsStep
<1> QED BY <1>t, <1>c, <1>h, <1>a, <1>s, <1>k, <1>l DEF IInv

(* Every action, and a stuttering step, preserves the invariant. *)
LEMMA NextIInv ==
    ASSUME IInv, [Next]_vars
    PROVE  IInv'
<1>1. CASE Prepare
  <2>1. Calculated /\ time_point < MaxTime /\ memory' = memory
        /\ UNCHANGED <<time_point, window, epoch, ghosts>>
    BY <1>1 DEF Prepare
  <2> QED BY <2>1, CalculatedIInv
<1>2. CASE FailStep
  <2>1. Calculated /\ time_point < MaxTime
        /\ memory' = memory \cup {time_point}
        /\ UNCHANGED <<time_point, window, epoch, ghosts>>
    BY <1>2 DEF FailStep
  <2> QED BY <2>1, CalculatedIInv
<1>3. CASE Step
  BY <1>3, StepIInv
<1>4. CASE Update
  BY <1>4, UpdateIInv
<1>5. CASE Reset
  BY <1>5, ResetIInv
<1>6. CASE UNCHANGED vars
  BY <1>6 DEF vars, window, built, ghosts, IInv, TypeOK, ClockInv, HeldInv,
     AttemptInv, SpecInv, UbtCtnAt, InitialSegment, Larger, MaxInitial,
     ClauseAskedFromItsStart, FixedLiteralAskedAtItsStep
<1> QED BY <1>1, <1>2, <1>3, <1>4, <1>5, <1>6 DEF Next

(* What a completed step leaves of the relative positions is one window. *)
LEMMA StepBoundsMemory ==
    ASSUME IInv, Step
    PROVE  Cardinality({p \in memory' : p > highest_initial_pos'})
               <= Larger(lookback', 1)
<1> DEFINE t == time_point
           f == IF t < formula_time_point THEN formula_time_point ELSE t + 1
           low == Smaller(f - lookback, t)
           W == {p \in memory' : p > highest_initial_pos'}
<1>1. /\ t \in Nat /\ lookback \in Nat /\ formula_time_point \in Nat
      /\ highest_initial_pos \in Int
      /\ memory \in SUBSET Nat /\ memory \subseteq 0..t
  BY DEF IInv, TypeOK, HeldInv
<1>2. /\ memory' = Pruned(memory \cup {t}, f, t)
      /\ lookback' = lookback /\ highest_initial_pos' = highest_initial_pos
  BY DEF Step
<1>3. /\ low \in Int /\ low <= t /\ t - low + 1 <= Larger(lookback, 1)
      /\ Larger(lookback, 1) \in Nat /\ t - low + 1 \in Nat
  BY <1>1 DEF Smaller, Larger
<1>4. memory' = {p \in memory \cup {t} : p <= highest_initial_pos \/ p >= low}
  BY <1>2 DEF Pruned
<1> HIDE DEF low
<1>5. W \subseteq low..t
  <2> SUFFICES ASSUME NEW p \in memory', p > highest_initial_pos
               PROVE  p \in low..t
    BY <1>2
  <2>1. p \in 0..t
    BY <1>1, <1>4
  <2> QED BY <1>1, <1>3, <1>4, <2>1
<1>6. IsFiniteSet(low..t) /\ Cardinality(low..t) = t - low + 1
  <2>1. t \in Int /\ ~(low > t)
    BY <1>1, <1>3
  <2>2. IsFiniteSet(low..t)
        /\ Cardinality(low..t) = IF low > t THEN 0 ELSE t - low + 1
    BY <1>3, <2>1, FS_Interval
  <2> QED BY <2>1, <2>2
<1>7. IsFiniteSet(W) /\ Cardinality(W) <= Cardinality(low..t)
  BY <1>5, <1>6, FS_Subset
<1>8. Cardinality(W) \in Nat
  BY <1>7, FS_CardinalityType
<1> HIDE DEF W
<1>9. Cardinality(W) <= Larger(lookback, 1)
  BY <1>3, <1>6, <1>7, <1>8
<1> QED BY <1>2, <1>9 DEF W

-----------------------------------------------------------------------------
(* The inductive invariant holds throughout. *)
THEOREM Invariance == Spec => []IInv
<1>1. Init => IInv
  BY InitIInv
<1>2. IInv /\ [Next]_vars => IInv'
  BY NextIInv
<1> QED BY <1>1, <1>2, PTL DEF Spec

(* prune_memory() never drops a value a later step reads. *)
THEOREM NothingReadIsPruned == Spec => []ReadsHeld
<1>1. IInv => ReadsHeld
  BY ReadsAreHeld
<1> QED BY <1>1, Invariance, PTL

(* No step solves a specification built for another step or revision. *)
THEOREM NothingStaleIsSolved == Spec => []StepSpecIsCurrent
<1>1. IInv => StepSpecIsCurrent
  BY SpecIsCurrent
<1> QED BY <1>1, Invariance, PTL

(* The lookback rule of the README, across revisions and resets. *)
THEOREM ClausesStartOnTime == Spec => []ClauseAskedFromItsStart
<1>1. IInv => ClauseAskedFromItsStart
  BY DEF IInv
<1> QED BY <1>1, Invariance, PTL

(* Fixed-step literals are asked at the step they name. *)
THEOREM FixedLiteralsAsked == Spec => []FixedLiteralAskedAtItsStep
<1>1. IInv => FixedLiteralAskedAtItsStep
  BY DEF IInv
<1> QED BY <1>1, Invariance, PTL

(* The last step is held for the update it triggers. *)
THEOREM LastStepIsHeld == Spec => []LastStepHeld
<1>1. IInv => LastStepHeld
  BY DEF IInv, HeldInv, LastStepHeld
<1> QED BY <1>1, Invariance, PTL

(* Memory does not grow with the length of a run. *)
THEOREM MemoryStaysBounded == Spec => MemoryBounded
<1>1. IInv /\ [Next]_vars
      => [Step => Cardinality({p \in memory' : p > highest_initial_pos'})
                  <= Larger(lookback', 1)]_vars
  BY StepBoundsMemory
<1> QED BY <1>1, Invariance, PTL DEF Spec, MemoryBounded

(* Type correctness. *)
THEOREM TypeCorrect == Spec => []TypeOK
<1>1. IInv => TypeOK
  BY DEF IInv
<1> QED BY <1>1, Invariance, PTL
=============================================================================
