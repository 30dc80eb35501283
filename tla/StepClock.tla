----------------------------- MODULE StepClock ------------------------------
(***************************************************************************)
(* The clock and the memory window of an interpreter (interpreter.tmpl.h): *)
(* which instance of the running specification each step solves, which     *)
(* stream positions that instance reads, and which positions memory still  *)
(* holds.  Values are abstracted away: memory is the set of time points    *)
(* whose stream values are held.                                           *)
(***************************************************************************)
EXTENDS Integers, FiniteSets

CONSTANTS
    MaxShift,      \* deepest lookback of any specification
    MaxAhead,      \* how far ahead of the clock a fixed position may lie
    MaxTime,       \* model bound: no step is started at this time point
    MaxRevisions   \* model bound: updates and resets

ASSUME BoundsAssumption ==
    /\ MaxShift \in Nat
    /\ MaxAhead \in Nat
    /\ MaxTime \in Nat
    /\ MaxRevisions \in Nat

VARIABLES
    time_point,             \* the step to execute next
    formula_time_point,     \* where the relative positions are phrased
    lookback,               \* deepest relative shift of ubt_ctn
    highest_initial_pos,    \* largest fixed position of ubt_ctn, or -1
    fixed,                  \* the fixed positions ubt_ctn names
    memory,                 \* time points whose values memory holds
    step_spec,              \* what step_spec was built as, see Unbuilt
    step_spec_time_point,   \* step_spec_time_point_
    final_system,
    epoch,                  \* history: updates and resets so far
    start,                  \* history: first step of this revision
    asked,                  \* history: instances of ubt_ctn solved in full
    settled,                \* history: fixed positions solved at their step
    preset                  \* history: steps revised over a failed attempt

window == <<formula_time_point, lookback, highest_initial_pos, fixed>>
built  == <<step_spec, step_spec_time_point, final_system>>
ghosts == <<start, asked, settled, preset>>
vars   == <<time_point, window, memory, built, epoch, ghosts>>

Larger(a, b)  == IF a >= b THEN a ELSE b
Smaller(a, b) == IF a <= b THEN a ELSE b

(* get_max_initial(): the largest position of P, -1 when P is empty (as a   *)
(* set with one element).                                                   *)
MaxInitial(P) == {h \in P \cup {-1} : \A p \in P : p <= h}

(* A step specification stands for ubt_ctn of revision rev.  Unless final   *)
(* it is ubt_ctn shifted to `instance`, the positions after `upto`          *)
(* quantified away; when final it is still relative, and `folded` are the   *)
(* fixed positions that memory has been substituted for.                    *)
StepSpecs == [rev : Nat, final : BOOLEAN, instance : Int, upto : Int,
              folded : SUBSET Int]

Unbuilt == [rev |-> 0, final |-> FALSE, instance |-> -1, upto |-> -1,
            folded |-> {}]

(* Faulty variant: a revision has no warm-up. *)
ComputeLookbackAndInitial_NoWarmUp(k, P, t) ==
    /\ lookback' = k
    /\ formula_time_point' = t
    /\ fixed' = P
    /\ highest_initial_pos' \in MaxInitial(P)

(* compute_lookback_and_initial() for a continuation with lookback k and    *)
(* fixed positions P, at time point t.                                      *)
ComputeLookbackAndInitial(k, P, t) ==
    /\ lookback' = k
    /\ formula_time_point' = t + k
    /\ fixed' = P
    /\ highest_initial_pos' \in MaxInitial(P)

(* Faulty variant: the segment recedes with the formula's time point. *)
InitialSegment_Recedes == Larger(highest_initial_pos, formula_time_point + 1)

(* The end of the initial segment. *)
InitialSegment == Larger(highest_initial_pos, formula_time_point)

(* Faulty variant: the present position is quantified away as well. *)
UbtCtnAt_Past ==
    [rev |-> epoch, final |-> FALSE,
     instance |-> Larger(time_point, formula_time_point),
     upto |-> time_point - 1, folded |-> {}]

(* get_ubt_ctn_at(time_point): while the clock is behind the formula, the   *)
(* instance at the formula's time point.                                    *)
UbtCtnAt ==
    [rev |-> epoch, final |-> FALSE,
     instance |-> Larger(time_point, formula_time_point),
     upto |-> time_point, folded |-> {}]

(* calculate_initial_spec(): the three members it leaves behind. *)
CalculateInitialSpec ==
    IF final_system \/ step_spec_time_point = time_point
       \/ time_point > InitialSegment
    THEN [spec |-> step_spec, at |-> step_spec_time_point, final |-> final_system]
    ELSE IF time_point < InitialSegment
    THEN [spec |-> UbtCtnAt, at |-> time_point, final |-> FALSE]
    ELSE [spec |-> [rev |-> epoch, final |-> TRUE, instance |-> -1,
                    upto |-> -1, folded |-> fixed \cap memory],
          at |-> time_point, final |-> TRUE]

Calculated ==
    /\ step_spec' = CalculateInitialSpec.spec
    /\ step_spec_time_point' = CalculateInitialSpec.at
    /\ final_system' = CalculateInitialSpec.final

(* The instance a step solves from step specification s: a final one is     *)
(* shifted to formula_time_point when it is solved.                         *)
InstanceOf(s) == IF s.final THEN formula_time_point ELSE s.instance

(* The fixed positions s still names, and all positions its instance reads. *)
FixedReadsOf(s) ==
    IF s.final THEN fixed \ s.folded ELSE {p \in fixed : p <= s.upto}

ReadsOf(s) ==
    FixedReadsOf(s) \cup
    {p \in (InstanceOf(s) - lookback)..InstanceOf(s) : s.final \/ p <= s.upto}

(* Faulty variants: the lookback is forgotten; the comparison with the      *)
(* fixed positions is the wrong way round.                                  *)
Pruned_NoLookback(m, f, completed) ==
    {p \in m : p <= highest_initial_pos \/ p >= completed}
Pruned_Swapped(m, f, completed) ==
    {p \in m : p >= highest_initial_pos \/ p >= Smaller(f - lookback, completed)}

(* What prune_memory(completed) keeps of a memory m, the clock standing at  *)
(* formula time point f.                                                    *)
Pruned(m, f, completed) ==
    {p \in m : p <= highest_initial_pos \/ p >= Smaller(f - lookback, completed)}

(* Faulty variant: the time point of the last calculation is remembered. *)
ForgetStepSpec_KeepsTimePoint ==
    /\ final_system' = FALSE
    /\ UNCHANGED step_spec_time_point

(* What update() and reset() do to make the next step recalculate. *)
ForgetStepSpec ==
    /\ final_system' = FALSE
    /\ step_spec_time_point' = -1

-----------------------------------------------------------------------------
(* make_interpreter(): any continuation, played from step 0. *)
Init ==
    /\ time_point = 0
    /\ lookback \in 0..MaxShift
    /\ formula_time_point = lookback
    /\ fixed \in SUBSET (0..MaxAhead)
    /\ highest_initial_pos \in MaxInitial(fixed)
    /\ memory = {}
    /\ step_spec = Unbuilt
    /\ step_spec_time_point = -1
    /\ final_system = FALSE
    /\ epoch = 0
    /\ start = 0
    /\ asked = {}
    /\ settled = {}
    /\ preset = {}

(* get_inputs_for_step(), or a step() whose input read fails: the step      *)
(* specification is calculated and nothing else happens.                    *)
Prepare ==
    /\ time_point < MaxTime
    /\ Calculated
    /\ UNCHANGED <<time_point, window, memory, epoch, ghosts>>

(* step(values) that fails after it saved its inputs, or some of its        *)
(* outputs, in memory.                                                      *)
FailStep ==
    /\ time_point < MaxTime
    /\ Calculated
    /\ memory' = memory \cup {time_point}
    /\ UNCHANGED <<time_point, window, epoch, ghosts>>

(* step(values) that completes. *)
Step ==
    LET s == CalculateInitialSpec.spec
        f == IF time_point < formula_time_point
             THEN formula_time_point ELSE time_point + 1
    IN  /\ time_point < MaxTime
        /\ Calculated
        /\ time_point' = time_point + 1
        /\ formula_time_point' = f
        /\ memory' = Pruned(memory \cup {time_point}, f, time_point)
        /\ asked' = IF InstanceOf(s) = time_point
                    THEN asked \cup {time_point} ELSE asked
        /\ settled' = settled \cup ({time_point} \cap FixedReadsOf(s))
        /\ UNCHANGED <<lookback, highest_initial_pos, fixed, epoch, start, preset>>

(* update() that commits.  The update's fixed positions are offsets from    *)
(* the clock (prepare_update_at_time_point): none may fall below 0, those   *)
(* memory holds are replaced by their values, and a past one that memory    *)
(* does not hold rejects the update.  Of the running continuation the kept  *)
(* parts keep their fixed positions.                                        *)
Update ==
    \E k \in 0..MaxShift, kept \in SUBSET fixed,
       offsets \in SUBSET ((-MaxShift - 1)..MaxAhead) :
        LET named == {time_point + d : d \in offsets}
        IN  /\ epoch < MaxRevisions
            /\ \A p \in named : p >= 0
            /\ \A p \in named : p < time_point => p \in memory
            /\ ComputeLookbackAndInitial(k, kept \cup (named \ memory), time_point)
            /\ ForgetStepSpec
            /\ epoch' = epoch + 1
            /\ start' = time_point
            /\ asked' = {}
            /\ settled' = {}
            /\ preset' = preset \cup ({time_point} \cap memory)
            /\ UNCHANGED <<time_point, memory, step_spec>>

(* reset(): the running continuation again, from step 0. *)
Reset ==
    /\ epoch < MaxRevisions
    /\ time_point' = 0
    /\ memory' = {}
    /\ ForgetStepSpec
    /\ step_spec' = Unbuilt
    /\ ComputeLookbackAndInitial(lookback, fixed, 0)
    /\ epoch' = epoch + 1
    /\ start' = 0
    /\ asked' = {}
    /\ settled' = {}
    /\ preset' = {}

Next == Prepare \/ FailStep \/ Step \/ Update \/ Reset

Spec == Init /\ [][Next]_vars

(* A driver (run_loop, the REPL, an API client) keeps calling step(), and   *)
(* the specification it runs is one that can be played.                     *)
FairSpec == Spec /\ WF_vars(Step)

-----------------------------------------------------------------------------
(* Type invariant of the clock and the window. *)
TypeOK ==
    /\ time_point \in 0..MaxTime
    /\ lookback \in Nat
    /\ formula_time_point \in Nat
    /\ highest_initial_pos \in Nat \cup {-1}
    /\ fixed \in SUBSET Nat
    /\ memory \in SUBSET Nat
    /\ step_spec \in StepSpecs
    /\ step_spec_time_point \in Nat \cup {-1}
    /\ final_system \in BOOLEAN
    /\ epoch \in 0..MaxRevisions
    /\ start \in 0..time_point
    /\ asked \in SUBSET Nat
    /\ settled \in SUBSET Nat
    /\ preset \in SUBSET Nat

(* Every past position the next step reads is still held: prune_memory      *)
(* (interpreter.tmpl.h:2549) never drops a value that a later step, of this *)
(* revision or of one that moved the window, substitutes into its           *)
(* specification.                                                           *)
ReadsHeld ==
    \A p \in ReadsOf(CalculateInitialSpec.spec) :
        p < time_point => p \in memory

(* The step specification the next step solves was built from the running   *)
(* revision, and unless final for this very step: neither update() nor      *)
(* reset() (interpreter.tmpl.h:4200, 4840) lets a stale one survive,        *)
(* whatever was calculated ahead of the step.                               *)
StepSpecIsCurrent ==
    LET c == CalculateInitialSpec
    IN  /\ c.spec.rev = epoch
        /\ c.spec.final = c.final
        /\ IF c.final THEN time_point >= highest_initial_pos
                           /\ time_point = formula_time_point
           ELSE c.spec.upto = time_point

(* README, "Lookback initialization" and the restart after a revision: a    *)
(* clause with lookback k is asked at every step from k steps after the     *)
(* revision's first one, and at no earlier step.                            *)
ClauseAskedFromItsStart == asked = (start + lookback)..(time_point - 1)

(* README, "Lookback initialization", rule 5: a literal at a fixed step     *)
(* holds at the step it names, warm-up included.  The exception is a step   *)
(* that failed once and was then revised before it was tried again: what    *)
(* the failed attempt left in memory is folded into the literal.            *)
FixedLiteralAskedAtItsStep ==
    \A p \in fixed : start <= p /\ p < time_point => p \in settled \cup preset

(* The step just completed is still held, so that the update it triggers    *)
(* can name it (the caller's literal shift o[-1], interpreter.tmpl.h:2564). *)
LastStepHeld == time_point > 0 => time_point - 1 \in memory

(* A completed step leaves at most one window of relative positions in      *)
(* memory, however long the run and however often it was revised.           *)
MemoryBounded ==
    [][Step => Cardinality({p \in memory' : p > highest_initial_pos'})
               <= Larger(lookback', 1)]_vars

(* Warm-up ends: a run that keeps stepping reaches the specification that   *)
(* all later steps use, unless the modelled horizon lies within the segment.*)
Playable == Larger(start + lookback, highest_initial_pos) < MaxTime
InitialSegmentEnds == Playable ~> (final_system \/ ~Playable)
=============================================================================
