---------------------------- MODULE ProcessProofs ----------------------------
(***************************************************************************)
(* What a bounded call says of its work is true, and its child ends, for   *)
(* every time-out, grace time and set of answers, wherever the parent is   *)
(* killed and however often poll() is interrupted.                         *)
(***************************************************************************)
EXTENDS BoundedCall, SpawnCapture, TLAPS

TypeOK ==
    /\ now \in Nat
    /\ parent \in {"calling", "checking", "polling", "reading", "closing",
                   "waiting", "returned", "dead"}
    /\ wake \in Nat
    /\ child \in Alive \cup {"none", "exited", "killed", "reaped"}
    /\ watch \in {"none", "due", "resting"}
    /\ pipe \in Answers \cup {None}
    /\ answer \in Answers \cup {None}
    /\ forked \in Nat
    /\ died \in Nat
    /\ answered \in BOOLEAN
    /\ timed_out \in BOOLEAN
    /\ value \in Answers \cup {None}
    /\ status \in {"none", "failed", "done", "timed_out"}

(* There is no child before the call makes one, and a child at work has     *)
(* answered nothing.                                                        *)
ChildInv ==
    /\ parent = "calling" => child = "none" /\ answer = None
    /\ child = "working" => answer = None
    /\ child = "writing" => answer # None

(* Whatever byte is in the pipe, or was read from it, is the work's answer. *)
ByteInv ==
    /\ pipe # None => pipe = answer
    /\ answered => value # None /\ value = answer

(* What the returned status rests on.                                       *)
StatusInv ==
    /\ status = "done" => answered
    /\ status = "timed_out" => timed_out
    /\ parent # "returned" => status = "none"
    /\ parent = "returned" => child \in {"none", "reaped"}

(* A time limit that poll() can wait out at once.                           *)
LimitFitsPoll == Timeout <= PollMax

(* The wait ends at the deadline, neither before nor after.                 *)
DeadlineInv ==
    /\ parent = "polling" => wake = Timeout
    /\ timed_out => now >= Timeout

-----------------------------------------------------------------------------
(* Every reachable state is well typed.                                     *)
THEOREM TypeCorrect == Spec => []TypeOK
<1> USE BoundedCallAssumption DEF BoundedCallAssumption
<1>1. Init => TypeOK
  <2>1. Init => answered \in BOOLEAN /\ timed_out \in BOOLEAN
    BY DEF Init
  <2> QED BY <2>1 DEF Init, TypeOK
<1>2. TypeOK /\ [Next]_vars => TypeOK'
  <2> SUFFICES ASSUME TypeOK, [Next]_vars
               PROVE  TypeOK'
    OBVIOUS
  <2> USE DEF TypeOK, Alive, locals
  <2>1. CASE NoChild
    BY <2>1 DEF NoChild
  <2>2. CASE Fork
    BY <2>2 DEF Fork
  <2>3. CASE CheckLeft
    <3>1. wake' \in Nat
      BY <2>3 DEF CheckLeft
    <3>2. timed_out' \in BOOLEAN
      BY <2>3 DEF CheckLeft
    <3> QED BY <2>3, <3>1, <3>2 DEF CheckLeft
  <2>4. CASE Poll
    <3>1. /\ parent' \in {"reading", "closing"} /\ timed_out' \in BOOLEAN
          /\ UNCHANGED <<now, wake, child, watch, pipe, answer, forked, died, answered, value, status>>
      BY <2>4 DEF Poll
    <3> HIDE DEF TypeOK
    <3> QED BY <3>1 DEF TypeOK
  <2>5. CASE ReadAnswer
    <3>1. answered' \in BOOLEAN
      BY <2>5 DEF ReadAnswer, Answered
    <3> QED BY <2>5, <3>1 DEF ReadAnswer
  <2>6. CASE Close
    BY <2>6 DEF Close, AfterClose
  <2>7. CASE Reap
    BY <2>7 DEF Reap
  <2>8. CASE PollInterrupted
    BY <2>8 DEF PollInterrupted
  <2>9. CASE ParentDies
    BY <2>9 DEF ParentDies
  <2>10. CASE Work
    BY <2>10 DEF Work
  <2>11. CASE WorkDies
    BY <2>11 DEF WorkDies
  <2>12. CASE WriteAnswer
    BY <2>12 DEF WriteAnswer
  <2>13. CASE Leave
    BY <2>13 DEF Leave
  <2>14. CASE Watchdog
    BY <2>14 DEF Watchdog, Looked
  <2>15. CASE Tick
    BY <2>15 DEF Tick, Looked
  <2>16. CASE UNCHANGED vars
    BY <2>16 DEF vars
  <2> QED
    BY <2>1, <2>2, <2>3, <2>4, <2>5, <2>6, <2>7, <2>8, <2>9, <2>10, <2>11,
       <2>12, <2>13, <2>14, <2>15, <2>16 DEF Next, Parent, Child
<1> QED BY <1>1, <1>2, PTL DEF Spec

(* What is said at the end, but for when: the inductive invariant.          *)
OutcomeInv == ChildInv /\ ByteInv /\ StatusInv

(* The child's state, the byte and the status fit together.                 *)
LEMMA OutcomeInvHolds == Spec => []OutcomeInv
<1> USE BoundedCallAssumption DEF BoundedCallAssumption
<1>1. Init => OutcomeInv
  BY DEF Init, OutcomeInv, ChildInv, ByteInv, StatusInv
<1>2. TypeOK /\ OutcomeInv /\ [Next]_vars => OutcomeInv'
  <2> SUFFICES ASSUME TypeOK, OutcomeInv, [Next]_vars
               PROVE  OutcomeInv'
    OBVIOUS
  <2> USE DEF TypeOK, Alive, locals, OutcomeInv, ChildInv, ByteInv, StatusInv
  <2>1. CASE NoChild
    BY <2>1 DEF NoChild
  <2>2. CASE Fork
    BY <2>2 DEF Fork
  <2>3. CASE CheckLeft
    BY <2>3 DEF CheckLeft
  <2>4. CASE Poll
    BY <2>4 DEF Poll
  <2>5. CASE ReadAnswer
    BY <2>5 DEF ReadAnswer, Answered
  <2>6. CASE Close
    BY <2>6 DEF Close, AfterClose
  <2>7. CASE Reap
    BY <2>7 DEF Reap
  <2>8. CASE PollInterrupted
    BY <2>8 DEF PollInterrupted
  <2>9. CASE ParentDies
    BY <2>9 DEF ParentDies
  <2>10. CASE Work
    BY <2>10 DEF Work
  <2>11. CASE WorkDies
    BY <2>11 DEF WorkDies
  <2>12. CASE WriteAnswer
    BY <2>12 DEF WriteAnswer
  <2>13. CASE Leave
    BY <2>13 DEF Leave
  <2>14. CASE Watchdog
    BY <2>14 DEF Watchdog, Looked
  <2>15. CASE Tick
    BY <2>15 DEF Tick, Looked
  <2>16. CASE UNCHANGED vars
    BY <2>16 DEF vars
  <2> QED
    BY <2>1, <2>2, <2>3, <2>4, <2>5, <2>6, <2>7, <2>8, <2>9, <2>10, <2>11,
       <2>12, <2>13, <2>14, <2>15, <2>16 DEF Next, Parent, Child
<1> QED BY <1>1, <1>2, TypeCorrect, PTL DEF Spec

(* A call that timed out did so at its deadline: with a limit that fits     *)
(* poll(), the wait computed by run_bounded ends exactly there, however     *)
(* often poll() is interrupted.                                             *)
LEMMA DeadlineInvHolds ==
    ASSUME LimitFitsPoll
    PROVE  Spec => []DeadlineInv
<1> USE BoundedCallAssumption, LimitFitsPoll
    DEF BoundedCallAssumption, LimitFitsPoll, DeadlineInv
<1>1. Init => DeadlineInv
  BY DEF Init
<1>2. TypeOK /\ DeadlineInv /\ [Next]_vars => DeadlineInv'
  <2> SUFFICES ASSUME TypeOK, DeadlineInv, [Next]_vars
               PROVE  DeadlineInv'
    OBVIOUS
  <2> USE DEF TypeOK
  <2>1. CASE CheckLeft
    BY <2>1 DEF CheckLeft
  <2>2. CASE Poll
    BY <2>2 DEF Poll, PollExpired
  <2>3. CASE Tick
    BY <2>3 DEF Tick, locals
  <2>4. CASE NoChild \/ Fork \/ ReadAnswer \/ Close \/ Reap \/ PollInterrupted \/ ParentDies
    BY <2>4 DEF NoChild, Fork, ReadAnswer, Close, Reap, PollInterrupted, ParentDies, locals
  <2>5. CASE Child \/ UNCHANGED vars
    BY <2>5 DEF Child, Work, WorkDies, WriteAnswer, Leave, Watchdog, vars, locals
  <2> QED
    BY <2>1, <2>2, <2>3, <2>4, <2>5 DEF Next, Parent
<1> QED BY <1>1, <1>2, TypeCorrect, PTL DEF Spec

(* The contract of run_bounded (bounded_call.h:88): `done` carries the      *)
(* answer of the work, `timed_out` is said only at the bound, and no child  *)
(* is left behind.  Of a limit that poll() cannot wait out at once the      *)
(* second is not true (bounded_call.h:156).                                 *)
THEOREM OutcomeHolds ==
    ASSUME LimitFitsPoll
    PROVE  Spec => []OutcomeIsTrue
<1>1. OutcomeInv /\ DeadlineInv => OutcomeIsTrue
  BY DEF OutcomeInv, ByteInv, StatusInv, DeadlineInv, OutcomeIsTrue
<1> QED BY <1>1, OutcomeInvHolds, DeadlineInvHolds, PTL

(* A watchdog at rest has looked in this tick, and found neither end.       *)
RestInv ==
    child \in Alive /\ watch = "resting" =>
        /\ now <= Timeout + Grace
        /\ parent = "dead" => now = died

WatchInv == RestInv /\ ChildEnds

(* A child whose watchdog runs ends within a tick of its own bound, and of  *)
(* the death of its parent (bounded_call.h:128).                            *)
THEOREM ChildDoesNotLinger == Spec => []ChildEnds
<1> USE BoundedCallAssumption
    DEF BoundedCallAssumption, WatchInv, RestInv, ChildEnds, Alive, Orphaned, Looked
<1>1. Init => WatchInv
  BY DEF Init
<1>2. TypeOK /\ WatchInv /\ [Next]_vars => WatchInv'
  <2> SUFFICES ASSUME TypeOK, WatchInv, [Next]_vars
               PROVE  WatchInv'
    OBVIOUS
  <2> USE DEF TypeOK
  <2>1. CASE Fork
    BY <2>1 DEF Fork
  <2>2. CASE Tick
    BY <2>2 DEF Tick
  <2>3. CASE ParentDies
    BY <2>3 DEF ParentDies
  <2>4. CASE NoChild \/ CheckLeft \/ Poll \/ ReadAnswer \/ Reap \/ PollInterrupted
    BY <2>4 DEF NoChild, CheckLeft, Poll, ReadAnswer, Reap, PollInterrupted
  <2>5. CASE Close
    BY <2>5 DEF Close, AfterClose
  <2>6. CASE Watchdog
    BY <2>6 DEF Watchdog
  <2>7. CASE Work \/ WorkDies \/ WriteAnswer \/ Leave
    BY <2>7 DEF Work, WorkDies, WriteAnswer, Leave
  <2>8. CASE UNCHANGED vars
    BY <2>8 DEF vars
  <2> QED
    BY <2>1, <2>2, <2>3, <2>4, <2>5, <2>6, <2>7, <2>8 DEF Next, Parent, Child
<1>3. WatchInv => ChildEnds
  OBVIOUS
<1> QED BY <1>1, <1>2, <1>3, TypeCorrect, PTL DEF Spec

-----------------------------------------------------------------------------
(* spawn_capture.                                                           *)

SpawnTypeOK ==
    /\ main \in {"calling", "draining", "joining", "reaping", "returned"}
    /\ killer \in {"none", "waiting", "firing", "terminating", "grace", "killing", "ended"}
    /\ polls \in Nat
    /\ done \in BOOLEAN
    /\ fired \in BOOLEAN
    /\ command \in {"none", "running", "exited", "signalled", "reaped"}
    /\ helper \in {"none", "running", "gone"}
    /\ holders \in SUBSET {"command", "helper"}
    /\ cut \in BOOLEAN
    /\ unread \in BOOLEAN
    /\ outcome \in {"none", "not_spawned", "timed_out", "signalled", "output", "unexpected"}

(* Nothing runs before the call, and the call goes on past the watchdog     *)
(* only once that is over.                                                  *)
CallInv ==
    /\ main = "calling" => killer = "none" /\ command = "none" /\ holders = {}
    /\ main \in {"reaping", "returned"} => killer \in {"none", "ended"}
    /\ command = "reaped" => main = "returned"

(* Once the pipe has ended, and was not given up, nobody holds it again.    *)
DrainedInv == main # "draining" => holders = {} \/ unread

(* The watchdog says that it fired before it ends anybody.                  *)
FiredInv ==
    /\ killer \in {"terminating", "grace", "killing"} => fired
    /\ cut => fired

(* Output is what an unfired watchdog leaves, and then the last word.       *)
OutputInv == outcome = "output" => ~fired /\ main = "returned"

SpawnIInv == SpawnTypeOK /\ CallInv /\ DrainedInv /\ FiredInv /\ OutputInv

-----------------------------------------------------------------------------
(* The signal reaches members of the group only, and gives nobody the pipe. *)
LEMMA EndsType ==
    ASSUME SpawnTypeOK, NEW ended \in SUBSET Group, Ends(ended)
    PROVE  /\ command' \in {command, "signalled"}
           /\ command = "reaped" \/ command = "none" => command' = command
           /\ command' # "reaped" \/ command = "reaped"
           /\ helper' \in {"none", "running", "gone"}
           /\ holders' \in SUBSET holders
           /\ cut' \in BOOLEAN
BY DEF Ends, SpawnTypeOK, Group

(* The inductive invariant holds at first, and every step keeps it.         *)
LEMMA SpawnIInvInit == SpawnInit => SpawnIInv
<1> SUFFICES ASSUME SpawnInit PROVE SpawnIInv
  OBVIOUS
<1>1. SpawnTypeOK
  BY DEF SpawnInit, SpawnTypeOK
<1> QED BY <1>1 DEF SpawnInit, SpawnIInv, CallInv, DrainedInv, FiredInv, OutputInv

LEMMA SpawnIInvStep == SpawnIInv /\ [SpawnNext]_spawn_vars => SpawnIInv'
<1> SUFFICES ASSUME SpawnIInv, [SpawnNext]_spawn_vars
             PROVE  SpawnIInv'
  OBVIOUS
<1> USE DEF SpawnIInv, CallInv, DrainedInv, FiredInv, OutputInv, procs
<1>1. CASE NotSpawned
  BY <1>1 DEF NotSpawned, SpawnTypeOK
<1>2. ASSUME NEW timed \in BOOLEAN, SpawnCommand(timed)
      PROVE  SpawnIInv'
  BY <1>2 DEF SpawnCommand, SpawnTypeOK
<1>3. CASE Drained
  BY <1>3 DEF Drained, SpawnTypeOK
<1>4. CASE ReadFails
  BY <1>4 DEF ReadFails, SpawnTypeOK
<1>5. CASE Join
  BY <1>5 DEF Join, Joined, SpawnTypeOK
<1>6. CASE ReapCommand
  BY <1>6 DEF ReapCommand, Outcomes, SpawnTypeOK
<1>7. ASSUME NEW at \in {"waiting", "grace"}, NEW n \in Nat, Sleep(at, n)
      PROVE  SpawnIInv'
  BY <1>7 DEF Sleep, SpawnTypeOK
<1>8. CASE WaitOver("waiting", Polls, "firing")
  BY <1>8 DEF WaitOver, SpawnTypeOK
<1>9. CASE WaitOver("grace", GracePolls, "killing")
  BY <1>9 DEF WaitOver, SpawnTypeOK
<1>10. CASE Fire
  BY <1>10 DEF Fire, SpawnTypeOK
<1>11. CASE Terminate
  <2>1. PICK ended \in SUBSET Group : Ends(ended)
    BY <1>11 DEF Terminate, Reached
  <2>2. /\ killer' = "grace" /\ killer = "terminating"
        /\ UNCHANGED <<main, polls, done, fired, unread, outcome>>
    BY <1>11 DEF Terminate
  <2> HIDE DEF SpawnIInv
  <2>3. SpawnTypeOK'
    BY <2>1, <2>2, EndsType DEF SpawnTypeOK, SpawnIInv
  <2> QED BY <2>1, <2>2, <2>3, EndsType DEF SpawnTypeOK, SpawnIInv
<1>12. CASE Kill
  <2>1. Ends(Group)
    BY <1>12 DEF Kill, Reached
  <2>2. /\ killer' = "ended" /\ killer = "killing"
        /\ UNCHANGED <<main, polls, done, fired, unread, outcome>>
    BY <1>12 DEF Kill
  <2>3. SpawnTypeOK'
    BY <2>1, <2>2, EndsType DEF SpawnTypeOK
  <2> QED BY <2>1, <2>2, <2>3, EndsType DEF SpawnTypeOK
<1>13. CASE StartHelper
  BY <1>13 DEF StartHelper, SpawnTypeOK
<1>14. CASE CommandEnds
  BY <1>14 DEF CommandEnds, SpawnTypeOK
<1>15. CASE HelperEnds
  BY <1>15 DEF HelperEnds, SpawnTypeOK
<1>16. CASE CloseStdout
  BY <1>16 DEF CloseStdout, SpawnTypeOK
<1>17. CASE UNCHANGED spawn_vars
  BY <1>17 DEF spawn_vars, SpawnTypeOK
<1> QED
  BY <1>1, <1>2, <1>3, <1>4, <1>5, <1>6, <1>7, <1>8, <1>9, <1>10, <1>11, <1>12, <1>13,
     <1>14, <1>15, <1>16, <1>17, SpawnAssumption
  DEF SpawnNext, Caller, Killer, SpawnAssumption

LEMMA SpawnIInvHolds == SpawnSpec => []SpawnIInv
<1>1. SpawnInit => SpawnIInv
  BY SpawnIInvInit
<1>2. SpawnIInv /\ [SpawnNext]_spawn_vars => SpawnIInv'
  BY SpawnIInvStep
<1> QED BY <1>1, <1>2, PTL DEF SpawnSpec

(* Every reachable state is well typed.                                     *)
THEOREM SpawnTypeCorrect == SpawnSpec => []SpawnTypeOK
<1>1. SpawnIInv => SpawnTypeOK
  BY DEF SpawnIInv
<1> QED BY <1>1, SpawnIInvHolds, PTL

(* No signal is sent to a group whose leader has been reaped, and whose id  *)
(* another process may have (spawn_capture.tmpl.h:420).                     *)
THEOREM SignalsStayInTheGroup == SpawnSpec => []SignalsReachTheGroup
<1>1. SpawnIInv => SignalsReachTheGroup
  BY DEF SpawnIInv, CallInv, SpawnTypeOK, SignalsReachTheGroup
<1> QED BY <1>1, SpawnIInvHolds, PTL

(* What is returned as the command's output was not cut by the watchdog,    *)
(* and is all of it, no writer being left, unless reading it failed         *)
(* (spawn_capture.tmpl.h:416, :437).                                        *)
THEOREM OutputIsComplete == SpawnSpec => []OutputIsWhole
<1>1. SpawnIInv => OutputIsWhole
  BY DEF SpawnIInv, DrainedInv, FiredInv, OutputInv, OutputIsWhole
<1> QED BY <1>1, SpawnIInvHolds, PTL
=============================================================================
