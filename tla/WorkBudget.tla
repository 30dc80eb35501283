----------------------------- MODULE WorkBudget -----------------------------
(***************************************************************************)
(* Units of work and what runs out during them: with_budget                *)
(* (tau_memory_budget.h), the time-budget note (bounded_call.h) and the    *)
(* tree caches that outlive a unit.                                        *)
(*                                                                         *)
(* An answer is missing when a bdd node table is full (F takes its place)  *)
(* or a solver question passed its time budget (unknown takes its place).  *)
(* Nothing in a value tells that it was computed from a missing answer; a  *)
(* flag and a note do, and the outermost unit looks at them when it ends.  *)
(* `doubt` follows the values themselves: it is history, and holds while   *)
(* what is being computed was computed from a missing answer.              *)
(***************************************************************************)
EXTENDS Naturals, Sequences

CONSTANTS
    Questions,  \* keys of caches of solver verdicts
    Values,     \* keys of caches of computed values
    MaxCalls    \* model bound: calls and scopes open at a time

ASSUME WorkBudgetAssumption == Questions \cap Values = {} /\ MaxCalls \in Nat

Keys == Questions \cup Values

VARIABLES
    calls,      \* the open with_budget calls and time_budget_handled scopes
    full,       \* bdd_node_table_exhausted
    note,       \* time_budget_exhausted() is not empty
    over,       \* the tree store is at its cap
    cache,      \* tree caches: what each key holds
    doubt,      \* history: see above
    ran_out,    \* history: something ran out since the outermost unit began
    returned    \* history: of the last outermost call, whether it returned
                \* an error of a budget, whether nothing had run out during
                \* it, and whether its value was computed in doubt

vars == <<calls, full, note, over, cache, doubt, ran_out, returned>>

Unit           == [kind |-> "unit", outer |-> FALSE]
Handled(outer) == [kind |-> "handled", outer |-> outer]
Entries        == [kind : {"unit", "handled"}, outer : BOOLEAN]

Top       == calls[Len(calls)]
Popped    == SubSeq(calls, 1, Len(calls) - 1)
InUnit    == calls # <<>> /\ Top.kind = "unit"
InHandled == calls # <<>> /\ Top.kind = "handled"

\* tree<node>::clear_caches()
Cleared == [k \in Keys |-> "none"]

Init ==
    /\ calls = <<>>
    /\ full = FALSE
    /\ note = FALSE
    /\ over = FALSE
    /\ cache = Cleared
    /\ doubt = FALSE
    /\ ran_out = FALSE
    /\ returned = [error |-> FALSE, blamed |-> FALSE, doubt |-> FALSE]

-----------------------------------------------------------------------------
(* with_budget.  Work outside of every unit ends where a unit begins: no     *)
(* cache is written from a value computed before the call.                   *)

Outermost == calls = <<>>

Refused == [error |-> TRUE, blamed |-> FALSE, doubt |-> FALSE]

(* A node table filled outside of every unit: the call is refused.           *)
RefuseFull ==
    /\ Outermost
    /\ full
    /\ full' = FALSE
    /\ cache' = Cleared
    /\ doubt' = FALSE
    /\ ran_out' = FALSE
    /\ returned' = Refused
    /\ UNCHANGED <<calls, note, over>>

(* What work outside any unit left behind after its budget ran out.          *)
Leftover ==
    /\ note' = FALSE
    /\ cache' = IF note THEN Cleared ELSE cache

Begin == IF Outermost THEN Leftover /\ doubt' = FALSE /\ ran_out' = FALSE
                      ELSE UNCHANGED <<note, cache, doubt, ran_out>>

(* The tree store is at its cap: f() is not run.                             *)
RefuseOver ==
    /\ Outermost => ~full
    /\ ~InHandled
    /\ over
    /\ Begin
    /\ returned' = IF Outermost THEN Refused ELSE returned
    /\ UNCHANGED <<calls, full, over>>

Enter ==
    /\ Outermost => ~full
    /\ ~InHandled
    /\ ~over
    /\ Len(calls) < MaxCalls
    /\ Begin
    /\ calls' = Append(calls, Unit)
    /\ UNCHANGED <<full, over, returned>>

(* Faulty variant: an inner call, too, takes the flag that it reports.       *)
TakesFull_Inner == full

(* Only the outermost call recovers from a full table; a nested one leaves   *)
(* the flag up, so that its caller cannot turn the failure into an answer.   *)
TakesFull == full /\ Len(calls) = 1

(* f() returned.                                                             *)
Leave ==
    /\ InUnit
    /\ calls' = Popped
    /\ IF Len(calls) = 1
       THEN /\ returned' = [error |-> note \/ full, blamed |-> ~ran_out, doubt |-> doubt]
            /\ note' = FALSE
            /\ cache' = IF note \/ full THEN Cleared ELSE cache
            /\ full' = FALSE
            /\ doubt' = FALSE
            /\ ran_out' = FALSE
       ELSE /\ full' = (full /\ ~TakesFull)
            /\ UNCHANGED <<note, cache, doubt, ran_out, returned>>
    /\ UNCHANGED over

-----------------------------------------------------------------------------
(* Scopes whose caller reads a missing answer as "undecided" and derives     *)
(* nothing from it: the decisions of a data game's closed regions.  They ask *)
(* questions and call no unit.                                               *)
Open ==
    /\ ~InHandled
    /\ Len(calls) < MaxCalls
    /\ calls # <<>>
    /\ calls' = Append(calls, Handled(note))
    /\ note' = FALSE
    /\ UNCHANGED <<full, over, cache, doubt, ran_out, returned>>

(* Faulty variant: what ran out inside stays.                                *)
Restored_Inner == note \/ Top.outer

(* What ran out before the scope opened still reaches the boundary.          *)
Restored == Top.outer

Close ==
    /\ InHandled
    /\ calls' = Popped
    /\ note' = Restored
    /\ UNCHANGED <<full, over, cache, doubt, ran_out, returned>>

-----------------------------------------------------------------------------
(* Work, in a unit or outside                                                *)

(* A bdd node table has no id left for a new node.                           *)
TableFills ==
    /\ ~full
    /\ full' = TRUE
    /\ doubt' = TRUE
    /\ ran_out' = TRUE
    /\ UNCHANGED <<calls, note, over, cache, returned>>

(* Nodes are interned, or swept.                                             *)
StoreChanges ==
    /\ over' = ~over
    /\ UNCHANGED <<calls, full, note, cache, doubt, ran_out, returned>>

(* A missing answer is read.                                                 *)
Missing == doubt' = (doubt \/ ~InHandled)

(* A cached verdict or value is read.                                        *)
Hit(k) ==
    /\ cache[k] # "none"
    /\ doubt' = (doubt \/ cache[k] = "doubtful")
    /\ UNCHANGED <<calls, full, note, over, cache, ran_out, returned>>

(* bv_formula_sat_status on a question that is not cached: decided and       *)
(* cached, or its time budget runs out.  Once one ran out nothing is asked.  *)
Decide(q) ==
    /\ cache[q] = "none"
    /\ ~note
    /\ cache' = [cache EXCEPT ![q] = "sound"]
    /\ UNCHANGED <<calls, full, note, over, doubt, ran_out, returned>>

(* Faulty variant: unknown is cached like a verdict.                         *)
Unanswered_Cached(q) == [cache EXCEPT ![q] = "doubtful"]

(* An unknown left by a spent budget is not cached.                          *)
Unanswered(q) == cache

RunOut(q) ==
    /\ cache[q] = "none"
    /\ note' = TRUE
    /\ Missing
    /\ ran_out' = (ran_out \/ (~InHandled /\ ~note))
    /\ cache' = Unanswered(q)
    /\ UNCHANGED <<calls, full, over, returned>>

(* A computed value is cached; nothing asks whether it is to be trusted.     *)
Memoize(v) ==
    /\ cache[v] = "none"
    /\ cache' = [cache EXCEPT ![v] = IF doubt THEN "doubtful" ELSE "sound"]
    /\ UNCHANGED <<calls, full, note, over, doubt, ran_out, returned>>

-----------------------------------------------------------------------------
(* The REPL executed a command, part of it outside of every unit.            *)
CommandDone ==
    /\ calls = <<>>
    /\ full' = FALSE
    /\ note' = FALSE
    /\ cache' = IF full \/ note THEN Cleared ELSE cache
    /\ doubt' = FALSE
    /\ ran_out' = FALSE
    /\ UNCHANGED <<calls, over, returned>>

(* A line was parsed, or the answer to a pending request ended.              *)
LineDone ==
    /\ calls = <<>>
    /\ full
    /\ full' = FALSE
    /\ cache' = Cleared
    /\ doubt' = FALSE
    /\ ran_out' = FALSE
    /\ UNCHANGED <<calls, note, over, returned>>

Next ==
    \/ RefuseFull \/ RefuseOver \/ Enter \/ Leave
    \/ Open \/ Close
    \/ TableFills \/ StoreChanges
    \/ \E k \in Keys : Hit(k)
    \/ \E q \in Questions : Decide(q) \/ RunOut(q)
    \/ \E v \in Values : Memoize(v)
    \/ CommandDone \/ LineDone

Spec == Init /\ [][Next]_vars

-----------------------------------------------------------------------------
(* Type invariant; a handled scope is the innermost thing open.              *)
TypeOK ==
    /\ calls \in Seq(Entries)
    /\ \A i \in 1..Len(calls) : calls[i].kind = "handled" => i = Len(calls)
    /\ full \in BOOLEAN
    /\ note \in BOOLEAN
    /\ over \in BOOLEAN
    /\ cache \in [Keys -> {"none", "sound", "doubtful"}]
    /\ doubt \in BOOLEAN
    /\ ran_out \in BOOLEAN
    /\ returned \in [error : BOOLEAN, blamed : BOOLEAN, doubt : BOOLEAN]

(* A value computed from a missing answer is never returned as an answer:    *)
(* the outermost call, whatever its callees made of the failure and whatever *)
(* was cached before it began, reports an error (tau_memory_budget.h:203).   *)
MissingIsReported == returned.doubt => returned.error

(* A unit of work begins with nothing cached that was computed from an       *)
(* answer missing before, and with no flag up: it fails only if it, too,     *)
(* needs what ran out (tau_memory_budget.h:177).                             *)
Tainted == \E k \in Keys : cache[k] = "doubtful"
StartsClean ==
    [][Outermost /\ calls' # <<>> => ~Tainted' /\ ~full' /\ ~note']_vars

(* No unit that ran is blamed for what ran out before it, or in a scope      *)
(* whose caller handled it (bounded_call.h:314).                             *)
NoneElseBlamed == returned.error => ~returned.blamed
=============================================================================
