------------------------------ MODULE Revision ------------------------------
(***************************************************************************)
(* The pointwise revision of one part of a running specification and the   *)
(* steps the interpreter plays between revisions (interpreter.tmpl.h).     *)
(*                                                                         *)
(* A letter is what the streams hold at one step, an input and an output.  *)
(* The body of an `always` clause reads the current letter and, when its   *)
(* lookback is 1, the one before it: it is the set of pairs <<previous,    *)
(* current>>, its frames, in which it holds.  A formula is its frames and  *)
(* the lookback it is written with; how a solver decides it is not         *)
(* modelled.  The part has pure `always` alternatives and one output       *)
(* stream; the update may be disjunctive.  The alternatives are numbered,  *)
(* strongest first, and one that is dropped leaves its number unused.      *)
(***************************************************************************)
EXTENDS Integers, Sequences, FiniteSets, Functions

CONSTANTS
    Inputs, Outputs,    \* the values of the input and of the output stream
    Specs,              \* the bodies a run may start with
    Updates,            \* updates written to u: sequences of bodies
    MaxAlts,            \* max_revision_alts, 0 for no cap
    MaxUpdates          \* model bound: the updates of a run

Letters == Inputs \X Outputs
Frames  == Letters \X Letters

\* A body that looks back at nothing holds whatever the letter before was.
Bodies ==
    {b \in [lookback : {0, 1}, frames : SUBSET Frames] :
        b.lookback = 0 =>
            \A f \in b.frames, p \in Letters : <<p, f[2]>> \in b.frames}

ASSUME RevisionAssumption ==
    /\ Inputs # {} /\ Outputs # {}
    /\ Specs \subseteq Bodies
    /\ Updates \subseteq Seq(Bodies)
    /\ MaxAlts \in Nat /\ MaxUpdates \in Nat

VARIABLES
    alts,       \* original_spec: the alternatives of the part
    ctns,       \* ubt_ctn: what each of them lets a step do
    previous,   \* memory: the letter of the last step
    warm,       \* formula_time_point - time_point: warm-up steps left
    updates,    \* the updates applied
    law,        \* history: the clause applied last, or the first spec
    before      \* history: the alternatives it was applied to

vars == <<alts, ctns, previous, warm, updates, law, before>>

---------------------------------------------------------------------------
(* Satisfiability: what an execution against every input can rely on.      *)

\* The letters from which R can be played for ever whatever the inputs are.
Winning(R) ==
    UNION {W \in SUBSET Letters :
              \A p \in W, i \in Inputs :
                  \E o \in Outputs : <<i, o>> \in W /\ <<p, <<i, o>>>> \in R}

\* The same with the inputs read as outputs.
Living(R) ==
    UNION {W \in SUBSET Letters : \A p \in W : \E c \in W : <<p, c>> \in R}

Executable(b) ==
    \A i \in Inputs : \E o \in Outputs : <<i, o>> \in Winning(b.frames)

\* mutant: an alternative must be playable against every input
Live_Executable(b) == Executable(b)

Live(b) == Living(b.frames) # {}

\* The frames that can be followed by a step, for every next input.
Continuation(b) ==
    [b EXCEPT !.frames = {f \in @ : f[2] \in Winning(b.frames)}]

\* The frames of the runs of b, and those of its traces under any input.
Within(b, W) ==
    {f \in b.frames : /\ f[1] \in W /\ f[2] \in W
                      /\ b.lookback = 0 => <<f[1], f[1]>> \in b.frames}
Runs(b)   == Within(b, Winning(b.frames))
Traces(b) == Within(b, Living(b.frames))

---------------------------------------------------------------------------
(* pointwise_revision                                                      *)

Depth(S) == IF \E b \in S : b.lookback = 1 THEN 1 ELSE 0

\* shift_io_vars_in_fm: a body aligned to lookback n is read n steps back.
Aligned(b, n) ==
    IF b.lookback = n THEN b
    ELSE [lookback |-> n,
          frames   |-> {f \in Frames : <<f[1], f[1]>> \in b.frames}]

Conjoined(a, u) ==
    LET n == Depth(Range(a) \cup {u})
    IN  [k \in DOMAIN a |->
            [lookback |-> n,
             frames   |-> Aligned(a[k], n).frames \cap Aligned(u, n).frames]]

\* The number of the last alternative, the weakest one.
Last(a) == CHOOSE k \in DOMAIN a : \A j \in DOMAIN a : j <= k

\* Of equal alternatives the first one stays.
Distinct(a) ==
    Restrict(a, {k \in DOMAIN a :
                    \A j \in DOMAIN a : j < k => a[j] # a[k]})

\* mutant: the cap drops the last alternative like the others
Capped_Prefix(a) ==
    Restrict(a, {k \in DOMAIN a :
                    \/ MaxAlts = 0
                    \/ Cardinality({j \in DOMAIN a : j < k}) < MaxAlts})

\* The cap keeps the strongest alternatives and the last one.
Capped(a) ==
    Restrict(a, {k \in DOMAIN a :
                    \/ MaxAlts = 0 \/ k = Last(a)
                    \/ Cardinality({j \in DOMAIN a : j < k}) < MaxAlts - 1})

Finalized(a) == Capped(Distinct(a))

\* The update together with the part, as one clause.
Gate(a) == Executable([lookback |-> Depth(Range(a)),
                       frames   |-> UNION {b.frames : b \in Range(a)}])

\* The alternatives numbered in S, and the update after all of a.
LastResort(a, S, u) ==
    [k \in S \cup {Last(a) + 1} |-> IF k \in S THEN a[k] ELSE u]

Revised(a, u) ==
    LET bodies == Conjoined(a, u)
        S      == {k \in DOMAIN a : Live(bodies[k])}
    IN  Finalized(IF Gate(bodies) THEN Restrict(bodies, S)
                                  ELSE LastResort(bodies, S, u))

\* mutant: one alternative that implies the clause is enough
Implied_Any(a, u) == \E b \in Range(a) : Runs(b) \subseteq u.frames

\* The part already implies the clause: every run of it obeys the clause,
\* at the step where the clause starts and it does not, too.
Implied(a, u) ==
    \A b \in {x \in Range(a) : Executable(x)} :
        /\ Runs(b) \subseteq u.frames
        /\ b.lookback > u.lookback =>
              \A p \in Winning(b.frames) : <<p, p>> \in u.frames

\* Equal on every trace, as disjunctions.
SameTraces(a, b) == Traces(a[Last(a)]) = Traces(b[Last(b)])

\* plan_update, for one clause of the update
Outcome(a, u) ==
    IF Implied(a, u) THEN a
    ELSE LET r == Revised(a, u)
         IN  IF DOMAIN r # {} /\ SameTraces(a, r) THEN a ELSE r

\* compute_part_continuations: only the first and the last alternative are
\* transformed; a middle one, and one that no strategy plays against every
\* input, is played as it is written.
Continuations(a) ==
    [k \in DOMAIN a |->
        IF Executable(a[k]) /\ ~\E i, j \in DOMAIN a : i < k /\ k < j
        THEN Continuation(a[k]) ELSE a[k]]
---------------------------------------------------------------------------
Init ==
    /\ \E b \in {x \in Specs : Executable(x)} :
          /\ alts = [k \in {1} |-> b]
          /\ warm = b.lookback
          /\ law = b
    /\ ctns = Continuations(alts)
    /\ before = alts
    /\ previous \in Letters     \* read only once a step was played
    /\ updates = 0

\* The first clause that is satisfiable and yields a revision is applied;
\* with none, nothing changes.
Accepts(u) == Executable(u) /\ DOMAIN Outcome(alts, u) # {}

Update ==
    /\ updates < MaxUpdates
    /\ \E clauses \in Updates : \E k \in DOMAIN clauses :
          /\ Accepts(clauses[k])
          /\ \A j \in 1 .. k - 1 : ~Accepts(clauses[j])
          /\ law' = clauses[k]
          /\ alts' = Outcome(alts, clauses[k])
    /\ before' = alts
    /\ ctns' = Continuations(alts')
    /\ warm' = Depth(Range(ctns'))
    /\ updates' = updates + 1
    /\ UNCHANGED previous

\* What a continuation lets the outputs be at this step.  During a warm-up
\* the continuation is the one of the next step, whose input is quantified
\* universally and whose output existentially.
Allows(c, i, o) ==
    IF warm = 0 THEN <<previous, <<i, o>>>> \in c.frames
    ELSE \A j \in Inputs : \E q \in Outputs : <<<<i, o>>, <<j, q>>>> \in c.frames

\* first_solvable_alternative
Solving(i, k)  == {o \in Outputs : Allows(ctns[k], i, o)}
Chosen(i, k)   == /\ Solving(i, k) # {}
                  /\ \A j \in DOMAIN ctns : j < k => Solving(i, j) = {}
Played(i)      == UNION {Solving(i, k) : k \in {j \in DOMAIN ctns : Chosen(i, j)}}

Step ==
    /\ \E i \in Inputs : \E o \in Played(i) : previous' = <<i, o>>
    /\ warm' = IF warm = 0 THEN 0 ELSE warm - 1
    /\ UNCHANGED <<alts, ctns, updates, law, before>>

Next == Update \/ Step

Spec == Init /\ [][Next]_vars
---------------------------------------------------------------------------
(* Past the warm-up.                                                       *)

\* The last alternative plays only what lets it go on, and so obeys at this
\* step also an update that alignment reads a step back.
Binds(k) == law.lookback = Depth(Range(alts) \cup {law}) \/ k = Last(alts)

\* A part rebuilt for an update obeys it at every step, as it was written
\* (README.md:3420 says "otherwise only `update` is" executed): the last
\* alternative always, the others when the update looks back as far as the
\* part.  Otherwise alignment reads the update a step back
\* (interpreter.tmpl.h:4517), and an alternative played without look-ahead
\* may disobey it.  A part that implied the update before and is left as it
\* is obeys it on the runs of its last alternative, the one that is played
\* against every input.
UpdateIsFollowed ==
    warm = 0 => \A i \in Inputs, k \in DOMAIN alts : \A o \in Solving(i, k) :
        LET f == <<previous, <<i, o>>>>
        IN  Chosen(i, k) /\ Binds(k) =>
                f \in law.frames \/ (alts = before /\ f \notin Runs(alts[Last(alts)]))

\* The update applied last, the part it was applied to and its alternative k
\* look back equally far, so that alignment leaves them as they are.
Level(k) ==
    /\ law.lookback = Depth(Range(before))
    /\ before[k].lookback = law.lookback

\* Both the update and an alternative it was applied to hold.
Both(k) == [lookback |-> law.lookback, frames |-> law.frames \cap before[k].frames]

\* They can hold together from this step on.
Together(k, i) ==
    /\ Living(Both(k).frames) # {}
    /\ \E o \in Outputs :
          /\ <<previous, <<i, o>>>> \in Both(k).frames
          /\ Executable(Both(k)) => <<i, o>> \in Winning(Both(k).frames)

\* pointwise_revision: where the input lets the update and an alternative
\* of the revised part hold together, both are played, and the strongest
\* such alternative, unless it stands where finalize_alternatives may have
\* capped it off.  Of clauses that look back differently far this is not
\* so: alignment reads one of them a step back.
OldSpecKept ==
    warm = 0 /\ alts # before =>
        \A i \in Inputs, k \in {j \in DOMAIN before : Level(j)} :
            /\ Together(k, i)
            /\ \A j \in DOMAIN before : j < k => ~Together(j, i)
            /\ \/ MaxAlts = 0
               \/ Cardinality({j \in DOMAIN before : j < k}) < MaxAlts - 1
            => \A o \in Played(i) : <<previous, <<i, o>>>> \in Both(k).frames

\* A specification accepted by make_interpreter or update() finds a
\* solution for every input in first_solvable_alternative, except past a
\* step from which its last alternative cannot be played on; none is like
\* that when the part looks back at nothing.
NeverStuck ==
    warm > 0 \/ previous \in Winning(alts[Last(alts)].frames) =>
        \A i \in Inputs : Played(i) # {}
=============================================================================
