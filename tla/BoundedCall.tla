----------------------------- MODULE BoundedCall ----------------------------
(***************************************************************************)
(* run_bounded (bounded_call.h): work that may not return, run in a forked *)
(* child that writes one byte of answer to a pipe, the parent waiting for  *)
(* it until a deadline.  Processes: the parent, the child's main thread,   *)
(* the child's watchdog thread, and the clock.                             *)
(***************************************************************************)
EXTENDS Integers

CONSTANTS
    Answers,    \* the bytes the work may answer
    None,       \* no byte
    Timeout,    \* timeout_ms, in ticks: the deadline of a call made at 0
    Grace,      \* how long past the deadline the child ends itself
    PollMax,    \* INT32_MAX in ticks: the longest wait poll() takes
    Horizon     \* model bound: the last tick of the clock

ASSUME BoundedCallAssumption ==
    /\ Timeout \in Nat
    /\ Grace \in Nat
    /\ PollMax \in Nat \ {0}
    /\ Horizon \in Nat
    /\ None \notin Answers


VARIABLES
    now,        \* clock::now() - start
    parent,     \* where run_bounded stands
    wake,       \* when its poll() gives up
    child,      \* the child process
    watch,      \* its watchdog thread: "none" when it does not run, "due" for
                \* its next look, or "resting" until the next tick
    pipe,       \* the byte in the pipe, or None
    answer,     \* history: what the work computed, or None
    forked,     \* history: when the child was made
    died,       \*          and the parent killed
    answered,   \* run_bounded's locals
    timed_out,
    value,
    status      \* out.status, or "none" before the return

locals == <<answered, timed_out, value, status>>
vars   == <<now, parent, wake, child, watch, pipe, answer, forked, died, locals>>

Alive == {"working", "writing", "leaving"}

Init ==
    /\ now = 0
    /\ parent = "calling"
    /\ wake = 0
    /\ child = "none"
    /\ watch = "none"
    /\ pipe = None
    /\ answer = None
    /\ forked = 0
    /\ died = 0
    /\ answered = FALSE
    /\ timed_out = FALSE
    /\ value = None
    /\ status = "none"

-----------------------------------------------------------------------------
(* The parent *)

(* pipe() or fork() fails. *)
NoChild ==
    /\ parent = "calling"
    /\ parent' = "returned"
    /\ status' = "failed"
    /\ UNCHANGED <<now, wake, child, watch, pipe, answer, forked, died, answered, timed_out, value>>

(* The child of a parent with other threads may never get its own to run.  *)
Fork ==
    /\ parent = "calling"
    /\ parent' = "checking"
    /\ child' = "working"
    /\ watch' \in {"due", "none"}
    /\ forked' = now
    /\ UNCHANGED <<now, wake, pipe, answer, died, locals>>

(* The time left to the deadline is computed, rounded up and clamped. *)
CheckLeft ==
    /\ parent = "checking"
    /\ IF now >= Timeout
       THEN parent' = "closing" /\ timed_out' = TRUE /\ UNCHANGED wake
       ELSE /\ parent' = "polling"
            /\ wake' = now + (IF Timeout - now > PollMax THEN PollMax ELSE Timeout - now)
            /\ UNCHANGED timed_out
    /\ UNCHANGED <<now, child, watch, pipe, answer, forked, died, answered, value, status>>

(* A byte, or the end of the file once the child is gone. *)
Readable == pipe # None \/ child \notin Alive

(* Faulty variant: the poll gives up a tick early (rounded down). *)
PollExpired_Early == now >= wake - 1

(* poll() has waited for the time that was left. *)
PollExpired == now >= wake

(* poll() returns: readable, out of time, interrupted, or failed. *)
Poll ==
    /\ parent = "polling"
    /\ \/ Readable /\ parent' = "reading" /\ UNCHANGED timed_out
       \/ PollExpired /\ ~Readable /\ parent' = "closing" /\ timed_out' = TRUE
    /\ UNCHANGED <<now, wake, child, watch, pipe, answer, forked, died, answered, value, status>>
PollInterrupted ==
    /\ parent = "polling"
    /\ parent' \in {"checking", "closing"}
    /\ UNCHANGED <<now, wake, child, watch, pipe, answer, forked, died, locals>>

(* read() returned the byte, not the end of the file. *)
Answered == pipe # None

ReadAnswer ==
    /\ parent = "reading"
    /\ answered' = Answered
    /\ value' = pipe
    /\ pipe' = None
    /\ parent' = "closing"
    /\ UNCHANGED <<now, wake, child, watch, answer, forked, died, timed_out, status>>

(* Faulty variant: a child without an answer is left running. *)
AfterClose_NoKill == child

(* close() and kill(SIGKILL): the child afterwards. *)
AfterClose == IF ~answered /\ child \in Alive THEN "killed" ELSE child

Close ==
    /\ parent = "closing"
    /\ child' = AfterClose
    /\ parent' = "waiting"
    /\ UNCHANGED <<now, wake, watch, pipe, answer, forked, died, locals>>

(* waitpid() and the outcome. *)
Reap ==
    /\ parent = "waiting"
    /\ child \notin Alive
    /\ child' = "reaped"
    /\ status' = IF answered THEN "done" ELSE IF timed_out THEN "timed_out" ELSE "failed"
    /\ parent' = "returned"
    /\ UNCHANGED <<now, wake, watch, pipe, answer, forked, died, answered, timed_out, value>>

(* The parent itself is killed, without a chance to kill its child. *)
ParentDies ==
    /\ parent \notin {"returned", "dead"}
    /\ parent' = "dead"
    /\ died' = now
    /\ UNCHANGED <<now, wake, child, watch, pipe, answer, forked, locals>>

Parent == NoChild \/ Fork \/ CheckLeft \/ Poll \/ ReadAnswer \/ Close \/ Reap

-----------------------------------------------------------------------------
(* The child *)

(* The work ends with an answer; nothing makes it end. *)
Work ==
    /\ child = "working"
    /\ answer' \in Answers
    /\ child' = "writing"
    /\ UNCHANGED <<now, parent, wake, watch, pipe, forked, died, locals>>

(* The work dies: a signal, no memory, an abort. *)
WorkDies ==
    /\ child = "working"
    /\ child' = "exited"
    /\ UNCHANGED <<now, parent, wake, watch, pipe, answer, forked, died, locals>>

(* write(): with the read end closed the child is ended by it. *)
WriteAnswer ==
    /\ child = "writing"
    /\ IF parent \in {"waiting", "dead"}
       THEN child' = "exited" /\ UNCHANGED pipe
       ELSE child' = "leaving" /\ pipe' = answer
    /\ UNCHANGED <<now, parent, wake, watch, answer, forked, died, locals>>

Leave ==
    /\ child = "leaving"
    /\ child' = "exited"
    /\ UNCHANGED <<now, parent, wake, watch, pipe, answer, forked, died, locals>>

(* Faulty variant: the watchdog looks at its parent only. *)
Orphaned_Parent == parent = "dead"

(* What the watchdog thread looks for. *)
Orphaned == parent = "dead" \/ now > Timeout + Grace

(* The child after a look. *)
Looked == IF child \in Alive /\ Orphaned THEN "exited" ELSE child

(* The watchdog wakes, looks, and sleeps again. *)
Watchdog ==
    /\ child \in Alive
    /\ watch = "due"
    /\ child' = Looked
    /\ watch' = "resting"
    /\ UNCHANGED <<now, parent, wake, pipe, answer, forked, died, locals>>

Child == Work \/ WorkDies \/ WriteAnswer \/ Leave \/ Watchdog

(* A tick is longer than the 100 ms between two looks: no tick passes        *)
(* without one, wherever in the tick it falls.                              *)
Tick ==
    /\ now < Horizon
    /\ now' = now + 1
    /\ child' = IF watch = "due" THEN Looked ELSE child
    /\ watch' = IF watch = "none" THEN "none" ELSE "due"
    /\ UNCHANGED <<parent, wake, pipe, answer, forked, died, locals>>

Next == Parent \/ PollInterrupted \/ ParentDies \/ Child \/ Tick

Spec == Init /\ [][Next]_vars

(* The parent and the clock go on, and the child once it has its answer.    *)
(* The work need not end, poll() may be interrupted any number of times,    *)
(* and the child's watchdog need not run.                                   *)
FairSpec == Spec /\ WF_vars(Parent) /\ WF_vars(WriteAnswer \/ Leave) /\ WF_vars(Tick)

-----------------------------------------------------------------------------
(* `done` carries the answer of the work, `timed_out` is said only at the   *)
(* bound, and a call that returned left no child behind, running or zombie  *)
(* (the contract of run_bounded, bounded_call.h:88).                        *)
OutcomeIsTrue ==
    parent = "returned" =>
        /\ status = "done" => value = answer /\ value # None
        /\ status = "timed_out" => now >= Timeout
        /\ child \in {"none", "reaped"}

(* A child whose watchdog runs outlives neither its own bound nor a parent  *)
(* killed without a chance to kill it (bounded_call.h:128) by more than the *)
(* time to the watchdog's next look, whatever its work and its caller do: a *)
(* look may come just before the end of either.                             *)
ChildEnds ==
    child \in Alive /\ watch # "none" =>
        /\ now <= Timeout + Grace + 1 \/ now = forked
        /\ parent = "dead" => now <= died + 1

(* The call returns though the work never ends, without counting on the     *)
(* child's own watchdog.                                                    *)
CallReturns == (parent = "calling") ~> (parent \in {"returned", "dead"})
=============================================================================
