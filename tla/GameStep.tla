------------------------------ MODULE GameStep ------------------------------
(***************************************************************************)
(* A run that plays strategies of the data game (interpreter.tmpl.h):      *)
(* data_game_step_provider and composite_step_provider, the steps that ask *)
(* them for outputs, the window of memory they read, the updates that      *)
(* solve a part of the specification anew from the step they are made at,  *)
(* and resets.                                                             *)
(*                                                                         *)
(* A strategy is seen from outside: how far it looks back, from which step *)
(* it plays, and the inputs and outputs that brought it where it is.  A    *)
(* value is the number of the attempt that made it: what a step is given   *)
(* or chooses may differ from one attempt to the next.                     *)
(***************************************************************************)
EXTENDS Integers, Sequences, FiniteSetsExt

CONSTANTS
    Outs,         \* the output streams, the input stream is "i"
    InitialParts, \* the runs to start with, each a sequence of [outs, depth]
    Depths,       \* the depths of a strategy an update solves
    MaxTime, MaxFailures, MaxUpdates, MaxResets \* bounds of the checked runs

ASSUME ConstantsAssumption ==
    /\ "i" \notin Outs
    /\ InitialParts \subseteq Seq([outs : SUBSET Outs, depth : Nat]) \ {<<>>}
    /\ Depths \subseteq Nat
    /\ {MaxTime, MaxFailures, MaxUpdates, MaxResets} \subseteq Nat

VARIABLES
    time, ftime, lookback,  \* time_point, formula_time_point, lookback
    memory,     \* <<stream, step>> to its value
    parts,      \* the parts of the provider: a number, in their order, to each
    composite,  \* the provider is a composite_step_provider
    tried,      \* attempts that failed at this step
    failures, updates, resets, \* how many there were
    given,      \* history: what each step was given and delivered
    slipped,    \* history: a part moved in a step that was not taken
    ownStart,   \* history: an update started from values of its own
    ruling      \* history: how the last update was decided

vars == <<time, ftime, lookback, memory, parts, composite, tried, failures,
          updates, resets, given, slipped, ownStart, ruling>>

\* Values no step made: chosen by a strategy before its first step, and the
\* value of a stream the run never had.
Own == -1
Zero == -2

-----------------------------------------------------------------------------
(* A part: the streams it chooses, its strategy's depth, the step its      *)
(* strategy's step 0 is, whether the play has started, the values before   *)
(* it (before[s][k] is k steps before), the values it played, the input it *)
(* took without an answer.  History: the step its strategy was solved for, *)
(* its streams that the run had dropped before, whether solving it again   *)
(* failed once, the steps of the updates that kept it as it runs.           *)

Streams(p) == p.outs \union {"i"}

Part(outs, depth, offset, before, lost) ==
    [outs |-> outs, depth |-> depth, offset |-> offset,
     ready |-> before # <<>>, before |-> before, path |-> <<>>, midway |-> <<>>,
     unsolved |-> FALSE, solvedFor |-> offset, lost |-> lost, refused |-> FALSE,
     kept |-> {}]

\* The values of streams held for a step, none or one.
Remembered(s, t) == IF <<s, t>> \in DOMAIN memory THEN {memory[<<s, t>>]} ELSE {}

Lacks(p) ==
    \E s \in Streams(p), k \in 1 .. p.depth :
        time - k >= p.offset /\ Remembered(s, time - k) = {}

\* The first step asked of a strategy chooses the values before it.
Readied(p) ==
    IF p.ready THEN p
    ELSE [p EXCEPT !.ready = TRUE,
                   !.before = [s \in Streams(p) |-> [k \in 1 .. p.depth |-> Own]]]

Taken(p, v) == IF p.midway = <<>> THEN v ELSE p.midway[1]

\* A strategy's step: the inputs, then the outputs it finds for them.
Moved(p, v) ==
    [Readied(p) EXCEPT !.midway = <<>>,
                       !.path = Append(@, [s \in Streams(p) |->
                                              IF s = "i" THEN Taken(p, v) ELSE tried])]

(***************************************************************************)
(* One that fails: at its start (not solved, no values before step 0), at  *)
(* its reads (a value or a label is unknown, or a machine's outputs have   *)
(* no solution), at its outputs, its inputs taken already.                 *)
(***************************************************************************)
FailedAt(p, v, where) ==
    CASE where = "start"   -> p
      [] where = "reads"   -> Readied(p)
      [] where = "outputs" -> [Readied(p) EXCEPT !.midway = <<Taken(p, v)>>]

MayFailAt(p, where) ==
    CASE where = "start"   -> p.unsolved \/ ~p.ready
      [] where = "reads"   -> ~p.unsolved
      [] where = "outputs" -> ~p.unsolved /\ ~Lacks(p)

\* The inputs of a step that is tried again may be new ones.
Given == IF tried = 0 THEN {0} ELSE {0, tried}

\* History: a part took other inputs than these, in an attempt that failed.
Contradicted(v) == \E k \in DOMAIN parts : parts[k].midway \notin {<<>>, <<v>>}

Provided(v) == [m \in DOMAIN memory \union {<<"i", time>>} |->
                   IF m = <<"i", time>> THEN v ELSE memory[m]]

AllOuts == UNION {parts[k].outs : k \in DOMAIN parts}

\* Outputs enter memory where it has none for the step.
Emplaced(mem, S) ==
    [m \in DOMAIN mem \union (S \X {time}) |-> IF m \in DOMAIN mem THEN mem[m] ELSE tried]

\* Steps at or below the highest fixed step, 0 for a game, are never dropped.
Pruned(mem, newFtime) ==
    LET oldest == Min({newFtime - lookback, time})
    IN [m \in {x \in DOMAIN mem : x[2] <= 0 \/ x[2] >= oldest} |-> mem[m]]

\* The parts are asked in their order; the first that fails ends the step.
Fails(k) == parts[k].unsolved \/ Lacks(parts[k])

Bounded == time < MaxTime

Step(v) ==
    /\ Bounded
    /\ \A k \in DOMAIN parts : ~Fails(k)
    /\ parts' = [k \in DOMAIN parts |-> Moved(parts[k], v)]
    /\ ftime' = IF time < ftime THEN ftime ELSE time + 1
    /\ time' = time + 1
    /\ memory' = Pruned(Emplaced(Provided(v), AllOuts), ftime')
    /\ given' = Append(given, [s \in AllOuts \union {"i"} |-> IF s = "i" THEN v ELSE tried])
    /\ tried' = 0
    /\ slipped' = (slipped \/ Contradicted(v))
    /\ ruling' = <<>>
    /\ UNCHANGED <<lookback, composite, failures, updates, resets, ownStart>>

ProduceFails(v, k, where) ==
    /\ Bounded
    /\ failures < MaxFailures
    /\ \A h \in DOMAIN parts : h < k => ~Fails(h)
    /\ MayFailAt(parts[k], where)
    /\ parts' = [h \in DOMAIN parts |->
                    IF h < k THEN Moved(parts[h], v)
                    ELSE IF h = k THEN FailedAt(parts[h], v, where) ELSE parts[h]]
    /\ memory' = Provided(v)
    /\ tried' = tried + 1
    /\ failures' = failures + 1
    /\ slipped' = (slipped \/ Contradicted(v) \/ \E h \in DOMAIN parts : h < k)
    /\ ruling' = <<>>
    /\ UNCHANGED <<time, ftime, lookback, composite, updates, resets, given, ownStart>>

\* An output cannot be put in its canonical form, S went in before it.
CommitFails(v, S) ==
    /\ Bounded
    /\ failures < MaxFailures
    /\ \A k \in DOMAIN parts : ~Fails(k)
    /\ parts' = [k \in DOMAIN parts |-> Moved(parts[k], v)]
    /\ memory' = Emplaced(Provided(v), S)
    /\ tried' = tried + 1
    /\ failures' = failures + 1
    /\ slipped' = TRUE
    /\ ruling' = <<>>
    /\ UNCHANGED <<time, ftime, lookback, composite, updates, resets, given, ownStart>>

-----------------------------------------------------------------------------
(* Updates. *)

\* Of the part added last.
Deepest_Last(ps) == ps[Max(DOMAIN ps)].depth

Deepest(ps) == Max({ps[k].depth : k \in DOMAIN ps} \union {0})

\* The parts that share an output with the update; a strategy of the whole
\* specification is always solved anew.
Touched(U) == {k \in DOMAIN parts : ~composite \/ parts[k].outs \intersect U # {}}

Kept(U) ==
    [k \in DOMAIN parts \ Touched(U) |-> [parts[k] EXCEPT !.kept = @ \union {time}]]

\* push_back of a part.
Added(ps, p) ==
    LET new == Max(DOMAIN ps \union {0}) + 1
    IN [k \in DOMAIN ps \union {new} |-> IF k = new THEN p ELSE ps[k]]

\* Reading the values before the part's first step from its last one.
PriorAt_Recent(s, k) ==
    LET owners == {j \in DOMAIN parts : s \in Streams(parts[j])}
        p == parts[Min(owners)]
        t == time - k
    IN IF owners = {} THEN (IF Remembered(s, t) = {} THEN {Zero} ELSE Remembered(s, t))
       ELSE IF t >= p.offset THEN Remembered(s, t)
       ELSE IF p.ready /\ k <= p.depth THEN {p.before[s][k]} ELSE {}

\* The value of a stream k steps before the update, as the first part that
\* plays it has it; none when that part does not know it any more.
PriorAt(s, k) ==
    LET owners == {j \in DOMAIN parts : s \in Streams(parts[j])}
        p == parts[Min(owners)]
        t == time - k
    IN IF owners = {} THEN (IF Remembered(s, t) = {} THEN {Zero} ELSE Remembered(s, t))
       ELSE IF t >= p.offset THEN Remembered(s, t)
       ELSE IF p.ready /\ p.offset - t <= p.depth THEN {p.before[s][p.offset - t]} ELSE {}

PriorKnown(S, depth) == \A s \in S, k \in 1 .. depth : PriorAt(s, k) # {}

Prior(S, depth) == [s \in S |-> [k \in 1 .. depth |-> CHOOSE v \in PriorAt(s, k) : TRUE]]

\* History: a stream an update dropped, and a part that goes back to one.
Dropped(s) ==
    \/ s \notin AllOuts /\ \E t \in DOMAIN given : s \in DOMAIN given[t]
    \/ \E k \in DOMAIN parts : s \in parts[k].lost

Candidates == {"revision", "without goals", "update alone"}

Unjudged == [chosen |-> "none", refuted |-> {}, undecided |-> FALSE]

\* Undecided candidates judged as if they were refuted.
Judged_Undecided(verdict) ==
    LET Judge(acc, c) ==
            IF \/ acc.chosen # "none"
               \/ c = "without goals" /\ "revision" \notin acc.refuted
               \/ c = "update alone" /\ acc.undecided
            THEN acc
            ELSE CASE verdict[c] = "won" -> [acc EXCEPT !.chosen = c]
                   [] OTHER -> [acc EXCEPT !.refuted = @ \union {c}]
    IN Judge(Judge(Judge(Unjudged, "revision"), "without goals"), "update alone")

\* The candidates in their order, by what the game says of each: "absent"
\* for one the revision does not offer.
Judged(verdict) ==
    LET Judge(acc, c) ==
            IF \/ acc.chosen # "none"
               \/ verdict[c] = "absent"
               \/ c = "without goals" /\ "revision" \notin acc.refuted
               \/ c = "update alone" /\ acc.undecided
            THEN acc
            ELSE CASE verdict[c] = "won" -> [acc EXCEPT !.chosen = c]
                   [] verdict[c] = "refuted" -> [acc EXCEPT !.refuted = @ \union {c}]
                   [] OTHER -> [acc EXCEPT !.undecided = TRUE]
    IN Judge(Judge(Judge(Unjudged, "revision"), "without goals"), "update alone")

\* What the game says of the candidates, up to one it wins; a revision
\* without goals to give up offers no second one.
Verdicts ==
    LET Lost == {"refuted", "undecided"}
    IN {v \in [Candidates -> Lost \union {"won", "absent"}] :
          \/ v["revision"] = "won" /\ v["without goals"] = "absent" /\ v["update alone"] = "absent"
          \/ v["revision"] = "absent" /\ v["without goals"] = "absent" /\ v["update alone"] = "won"
          \/ v["revision"] \in Lost /\ v["without goals"] = "won" /\ v["update alone"] = "absent"
          \/ v["revision"] \in Lost /\ v["without goals"] # "won" /\ v["update alone"] = "won"}

\* The update U is taken, over the outputs outs, with a strategy of this
\* depth, from the values played when it is won from them.
Update(U, outs, depth, verdict, continued) ==
    /\ updates < MaxUpdates
    /\ Judged(verdict).chosen # "none"
    /\ LET S == outs \union {"i"}
           known == time > 0 /\ PriorKnown(S, depth)
       IN /\ continued => known
          /\ parts' = Added(Kept(U),
                Part(outs, depth, time, IF continued THEN Prior(S, depth) ELSE <<>>,
                     {s \in outs : Dropped(s)}))
          /\ ownStart' = (ownStart \/ (time > 0 /\ ~continued))
    /\ lookback' = Deepest(parts')
    /\ ftime' = time + lookback'
    /\ updates' = updates + 1
    /\ ruling' = [chosen |-> Judged(verdict).chosen,
                  doubted |-> {c \in Candidates : verdict[c] = "undecided"}]
    /\ UNCHANGED <<time, memory, composite, tried, failures, resets, given, slipped>>

\* A strategy that only starts again.
Restarted_AsItIs(p, again) ==
    [p EXCEPT !.offset = 0, !.ready = FALSE, !.before = <<>>, !.path = <<>>, !.midway = <<>>,
              !.lost = {}, !.kept = {}]

\* The play goes on from where it is.
Restarted_GoesOn(p, again) ==
    [p EXCEPT !.offset = 0, !.solvedFor = 0, !.lost = {}, !.kept = {}]

\* A reset plays from step 0; a strategy solved for a later step is solved
\* again, which may fail.
Restarted(p, again) ==
    [p EXCEPT !.offset = 0, !.ready = FALSE, !.before = <<>>, !.path = <<>>, !.midway = <<>>,
              !.unsolved = p.offset > 0 /\ ~again,
              !.solvedFor = IF p.offset > 0 /\ again THEN 0 ELSE @,
              !.refused = @ \/ (p.offset > 0 /\ ~again),
              !.lost = {}, !.kept = {}]

Reset(again) ==
    /\ resets < MaxResets
    /\ memory' = <<>>
    /\ time' = 0
    /\ lookback' = Deepest(parts)
    /\ ftime' = lookback'
    /\ parts' = [k \in DOMAIN parts |-> Restarted(parts[k], k \in again)]
    /\ tried' = 0
    /\ resets' = resets + 1
    /\ given' = <<>>
    /\ slipped' = FALSE
    /\ ownStart' = FALSE
    /\ ruling' = <<>>
    /\ UNCHANGED <<composite, failures, updates>>

Init ==
    /\ \E ps \in InitialParts :
          /\ parts = [k \in DOMAIN ps |-> Part(ps[k].outs, ps[k].depth, 0, <<>>, {})]
          /\ composite = (Len(ps) > 1)
    /\ time = 0
    /\ lookback = Deepest(parts)
    /\ ftime = lookback
    /\ memory = <<>>
    /\ tried = 0
    /\ failures = 0
    /\ updates = 0
    /\ resets = 0
    /\ given = <<>>
    /\ slipped = FALSE
    /\ ownStart = FALSE
    /\ ruling = <<>>

\* The update revises what it touches, or replaces it.
Revised(U) ==
    LET touched == UNION {parts[k].outs : k \in Touched(U)}
    IN {U \union touched, U}

Next ==
    \/ \E v \in Given :
          \/ Step(v)
          \/ \E k \in DOMAIN parts, where \in {"start", "reads", "outputs"} : ProduceFails(v, k, where)
          \/ \E S \in {{}} \union {{s} : s \in AllOuts} : CommitFails(v, S)
    \/ \E U \in (SUBSET Outs) \ {{}}, depth \in Depths, verdict \in Verdicts, continued \in BOOLEAN :
          \E outs \in Revised(U) : Update(U, outs, depth, verdict, continued)
    \/ \E again \in SUBSET {k \in DOMAIN parts : parts[k].offset > 0} : Reset(again)

Spec == Init /\ [][Next]_vars

-----------------------------------------------------------------------------
(* Properties. *)

(***************************************************************************)
(* A strategy that is asked for a step finds every value it looks back on: *)
(* the window of memory, which is the deepest strategy's and starts over   *)
(* at every update, covers them all.  The one exception is a strategy an   *)
(* update keeps as it runs, which looks back more than one step, in the    *)
(* steps after the update that it reads over: the window starts over at    *)
(* the update for all parts.                                               *)
(***************************************************************************)
LacksOnlyAsKept ==
    \A k \in DOMAIN parts :
        LET p == parts[k]
        IN Lacks(p) => \E t \in p.kept : time - t \in 1 .. p.depth - 1

(***************************************************************************)
(* Where a strategy stands is where the inputs and outputs of the run,     *)
(* from the step it plays from, have brought it: parts in lockstep, each   *)
(* step played once, attempts that failed at their first part included     *)
(* when they are repeated with their inputs.                               *)
(***************************************************************************)
PlaysTheHistory ==
    slipped \/ \A k \in DOMAIN parts :
        LET p == parts[k]
        IN p.path = [j \in 1 .. time - p.offset |->
                        [s \in Streams(p) |-> given[p.offset + j][s]]]

(***************************************************************************)
(* The values an updated part starts from are those the run delivered in   *)
(* the steps before the update, also those from before the start of the    *)
(* part it revises.                                                        *)
(***************************************************************************)
ContinuesWhatWasDelivered ==
    slipped \/ ownStart \/ \A k \in DOMAIN parts :
        LET p == parts[k]
        IN p.ready => \A s \in Streams(p) \ p.lost, j \in 1 .. p.depth :
               (p.offset - j >= 0 /\ s \in DOMAIN given[p.offset - j + 1])
                   => p.before[s][j] = given[p.offset - j + 1][s]

(***************************************************************************)
(* A strategy plays from the step it was solved for: one solved for the    *)
(* step of an update never plays from step 0 after a reset.  Left out is a *)
(* part that a reset could not solve: the next reset plays it as it is.    *)
(***************************************************************************)
SolvedForItsStart ==
    \A k \in DOMAIN parts :
        parts[k].unsolved \/ parts[k].refused \/ parts[k].solvedFor = parts[k].offset

(***************************************************************************)
(* The running goals give way only to an update whose revision with them   *)
(* the game refutes, and the whole running part only when nothing that     *)
(* keeps some of it is left undecided.                                     *)
(***************************************************************************)
GoalsGiveWay ==
    ruling # <<>> =>
        /\ ruling.chosen = "without goals" => "revision" \notin ruling.doubted
        /\ ruling.chosen = "update alone" => ruling.doubted = {}

=============================================================================
