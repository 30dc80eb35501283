---------------------------- MODULE ReplRunProofs ----------------------------
(***************************************************************************)
(* The budget of a run, and which value of which stream its steps use, for *)
(* any streams, in any order, and any number of commands on a line.        *)
(***************************************************************************)
EXTENDS ReplRun, WellFoundedInduction, TLAPS

StreamType == [value : Lines, delivered : Lines, at : Nat, awaiting : BOOLEAN]
FileType   == [cursor : Nat, next_row : Int]
Counts     == Nat \cup {Unbounded}

TypeOK ==
    /\ loop \in {"prompt", "stepping", "returning"}
    /\ queued \in Nat
    /\ running \in BOOLEAN
    /\ time_point \in Nat
    /\ steps_to_run \in Counts
    /\ steps_done \in Nat
    /\ need \in SUBSET Streams
    /\ console \in [Console -> StreamType]
    /\ file \in [Files -> FileType]
    /\ pending \in Requests
    /\ retry \in Requests
    /\ budget \in Counts
    /\ ran \in Nat

-----------------------------------------------------------------------------
(* The streams of the step in hand.                                         *)

(* A console stream holds a value for this step that parses, one that does  *)
(* not, or is the one to ask for: it is open.                               *)
Given(c)    == Line(c).ok
Rejected(c) == Line(c) # NoLine /\ ~Line(c).ok
OpenFor(c)  == console[c].awaiting \/ Rejected(c)

(* A request for a value of the running session.                            *)
Asks(req) == req.kind = "stream_value" /\ req.own

(* A stream holds only values typed for the step they are handed out for,   *)
(* and awaits one only while it has none.                                   *)
StreamInv ==
    \A c \in Console :
        /\ console[c].value # NoLine =>
              console[c].value.tag = time_point /\ c \in need
        /\ console[c].delivered # NoLine =>
              console[c].delivered.tag = console[c].at /\ console[c].at <= time_point
        /\ console[c].awaiting =>
              console[c].value = NoLine /\ console[c].delivered = NoLine /\ c \in need

(* A value is asked for the step in hand, and while commands of the line    *)
(* are left, or a step is tried under it, it is still missing.              *)
RequestInv ==
    /\ Asks(pending) =>
          /\ pending.at = time_point
          /\ pending.stream \in need
          /\ queued # 0 \/ loop = "stepping" => console[pending.stream].awaiting
    /\ retry # NoRequest =>
          /\ retry.kind = "stream_value"
          /\ loop = "stepping"
          /\ queued = 0
          /\ pending = NoRequest
          /\ retry.own => retry.at = time_point /\ retry.stream \in need

(* The rows of all files parse.                                             *)
RowsParse == BadRows = {}

(* Until its input has ended, what was accepted for this step stays, the    *)
(* streams before an open one have their values, so that one is open at     *)
(* most: the one asked for, also while its answer is tried.                 *)
AnsweredInv ==
    /\ answered \subseteq Console \X (0..time_point)
    /\ ~InputEnded =>
          /\ \A c \in Console : <<c, time_point>> \in answered => Given(c)
          /\ \A c, r \in need \cap Console :
                OpenFor(c) /\ Rank[r] < Rank[c] => Given(r)
          /\ Asks(pending) => OpenFor(pending.stream)
          /\ retry # NoRequest /\ retry.own =>
                \A c \in need \cap Console : OpenFor(c) => c = retry.stream

(* One file, read after the console streams, whose rows parse: then no step *)
(* is given up after it took its row.                                       *)
FileReadLast ==
    /\ \A f, g \in Files : f = g
    /\ \A c \in Console, f \in Files : Rank[c] < Rank[f]
    /\ BadRows = {}

(* The file is never ahead of the run, and what a step used counts rows.    *)
Placed(f) ==
    /\ file[f].cursor <= Rows[f]
    /\ file[f].next_row = -1 \/ file[f].next_row \in Nat
    /\ file[f].next_row <= time_point

FileInv ==
    \A f \in Files :
        /\ Placed(f)
        /\ f \in DOMAIN last.lines => file[f].next_row # -1

USE StreamsAssumption, BoundsAssumption DEF StreamsAssumption, BoundsAssumption

-----------------------------------------------------------------------------
(* What the streams answer is a line, and they stay streams.                *)
LEMMA ConsoleGetType ==
    ASSUME NEW st \in StreamType, NEW t \in Nat
    PROVE  ConsoleGet(st, t).line \in Lines /\ ConsoleGet(st, t).st \in StreamType
<1>1. CASE st.value # NoLine
  BY <1>1 DEF ConsoleGet, StreamType, Lines
<1>2. CASE st.value = NoLine /\ st.delivered # NoLine /\ st.at = t
  BY <1>2 DEF ConsoleGet, StreamType
<1>3. CASE st.value = NoLine /\ ~(st.delivered # NoLine /\ st.at = t)
  BY <1>3 DEF ConsoleGet, StreamType, Lines
<1> QED BY <1>1, <1>2, <1>3

LEMMA FileGetType ==
    ASSUME NEW f \in Files, NEW st \in FileType, NEW t \in Nat
    PROVE  FileGet(f, st, t).line \in Lines /\ FileGet(f, st, t).st \in FileType
<1> DEFINE next == IF st.next_row = -1 THEN t ELSE st.next_row
           skip == IF next < t THEN t - next ELSE 0
           row  == st.cursor + skip
<1>1. next \in Int /\ skip \in Nat /\ row \in Nat /\ Rows[f] \in Nat
  BY DEF FileType
<1>2. (<<f, row>> \notin BadRows) \in BOOLEAN
  OBVIOUS
<1>3. CASE row < Rows[f]
  <2>1. FileGet(f, st, t) =
           [line |-> [ok |-> <<f, row>> \notin BadRows, tag |-> row],
            st |-> [cursor |-> row + 1, next_row |-> next + skip + 1]]
    BY <1>3 DEF FileGet
  <2> HIDE DEF next, skip, row
  <2> QED BY <2>1, <1>1, <1>2 DEF FileType, Lines
<1>4. CASE ~(row < Rows[f])
  <2>1. FileGet(f, st, t) =
           [line |-> NoLine,
            st |-> [cursor |-> Rows[f], next_row |-> next + (Rows[f] - st.cursor)]]
    BY <1>4 DEF FileGet
  <2>2. st.cursor \in Nat
    BY DEF FileType
  <2> HIDE DEF next, skip, row
  <2> QED BY <2>1, <2>2, <1>1 DEF FileType, Lines
<1> QED BY <1>3, <1>4

LEMMA GetType ==
    ASSUME TypeOK
    PROVE  /\ \A s \in Streams : Line(s) \in Lines
           /\ \A c \in Console : Get(c) = ConsoleGet(console[c], time_point)
                                /\ Get(c).st \in StreamType
           /\ \A f \in Files : Get(f) = FileGet(f, file[f], time_point)
                              /\ Get(f).st \in FileType
<1>1. ASSUME NEW c \in Console
      PROVE  Get(c) = ConsoleGet(console[c], time_point)
             /\ Get(c).st \in StreamType /\ Line(c) \in Lines
  <2>1. console[c] \in StreamType /\ time_point \in Nat
    BY DEF TypeOK
  <2> QED BY <2>1, ConsoleGetType DEF Get, Line
<1>2. ASSUME NEW f \in Files
      PROVE  Get(f) = FileGet(f, file[f], time_point)
             /\ Get(f).st \in FileType /\ Line(f) \in Lines
  <2>1. file[f] \in FileType /\ time_point \in Nat /\ f \notin Console
    BY DEF TypeOK
  <2> QED BY <2>1, FileGetType DEF Get, Line
<1> QED BY <1>1, <1>2 DEF Streams

LEMMA ReadInputsType ==
    ASSUME TypeOK
    PROVE  /\ [c \in Console |-> IF c \in Read THEN Get(c).st ELSE console[c]]
                  \in [Console -> StreamType]
           /\ [f \in Files |-> IF f \in Read THEN Get(f).st ELSE file[f]]
                  \in [Files -> FileType]
<1> USE GetType DEF TypeOK
<1>1. \A c \in Console : (IF c \in Read THEN Get(c).st ELSE console[c]) \in StreamType
  OBVIOUS
<1>2. \A f \in Files : (IF f \in Read THEN Get(f).st ELSE file[f]) \in FileType
  OBVIOUS
<1> QED BY <1>1, <1>2

LEMMA FreshType == /\ [c \in Console |-> Fresh] \in [Console -> StreamType]
                   /\ [f \in Files |-> Opened] \in [Files -> FileType]
BY DEF Fresh, Opened, StreamType, FileType, Lines, NoLine

-----------------------------------------------------------------------------
(* The requests the session makes.                                          *)
LEMMA RequestTypes ==
    /\ Gate \in Requests /\ NoRequest \in Requests
    /\ \A c \in Console, t \in Nat : ValueOf(c, t) \in Requests
    /\ \A req \in Requests : Disowned(req) \in Requests
<1>1. ASSUME NEW req \in Requests
      PROVE  Disowned(req) \in Requests
  <2>1. CASE req = NoRequest
    BY <2>1 DEF Disowned
  <2>2. CASE req \in [kind : {"continue_or_quit"}, own : BOOLEAN]
    BY <2>2 DEF Disowned, Requests, NoRequest
  <2>3. CASE req \in [kind : {"stream_value"}, own : BOOLEAN, stream : Console, at : Nat]
    BY <2>3 DEF Disowned, Requests, NoRequest
  <2> QED BY <2>1, <2>2, <2>3 DEF Requests
<1> QED BY <1>1 DEF Gate, ValueOf, Requests

LEMMA TypeInit == Init => TypeOK
<1> SUFFICES ASSUME Init PROVE TypeOK
  OBVIOUS
<1>1. /\ loop \in {"prompt", "stepping", "returning"}
      /\ queued \in Nat /\ running \in BOOLEAN /\ time_point \in Nat
      /\ steps_to_run \in Counts /\ steps_done \in Nat /\ need \in SUBSET Streams
      /\ budget \in Counts /\ ran \in Nat
  BY DEF Init, Counts
<1> QED BY <1>1, FreshType, RequestTypes DEF Init, TypeOK

LEMMA NoSessionType ==
    ASSUME NoSession
    PROVE  /\ running' \in BOOLEAN /\ time_point' \in Nat
           /\ steps_to_run' \in Counts /\ steps_done' \in Nat
           /\ need' \in SUBSET Streams
           /\ console' \in [Console -> StreamType]
           /\ file' \in [Files -> FileType]
BY FreshType DEF NoSession, Counts

LEMMA CommandType ==
    ASSUME TypeOK, Command
    PROVE  loop = "prompt" /\ queued' \in Nat
<1>1. queued \in Nat
  BY DEF TypeOK
<1> QED BY <1>1 DEF Command

LEMMA TypeStep == TypeOK /\ [Next]_vars => TypeOK'
<1> SUFFICES ASSUME TypeOK, [Next]_vars
             PROVE  TypeOK'
  OBVIOUS
<1> USE DEF TypeOK, session, ghosts
<1>1. ASSUME NEW n \in 1..MaxSteps \cup {Unbounded}, RunFormula(n)
      PROVE  TypeOK'
  <2>1. n \in Counts
    BY DEF Counts
  <2>2. /\ queued' \in Nat /\ running' \in BOOLEAN /\ time_point' \in Nat
        /\ steps_to_run' \in Counts /\ steps_done' \in Nat
        /\ budget' \in Counts /\ ran' \in Nat /\ need' \in SUBSET Streams
        /\ loop' = "stepping" /\ retry' = retry
    BY <1>1, <2>1, CommandType DEF RunFormula
  <2>3. pending' \in Requests
    BY <1>1, RequestTypes DEF RunFormula
  <2>4. console' \in [Console -> StreamType] /\ file' \in [Files -> FileType]
    BY <1>1, FreshType DEF RunFormula
  <2> QED BY <2>2, <2>3, <2>4
<1>2. ASSUME NEW n \in 1..MaxSteps \cup {Unbounded}, RunMore(n)
      PROVE  TypeOK'
  <2>1. n \in Counts /\ StepsToRun(n) \in Counts
    BY DEF Counts, StepsToRun
  <2> QED BY <1>2, <2>1, CommandType DEF RunMore
<1>3. CASE Stop
  <2>1. budget' \in Counts /\ ran' \in Nat
    BY <1>3 DEF Stop, Counts
  <2> QED BY <1>3, <2>1, CommandType, NoSessionType, RequestTypes DEF Stop
<1>4. CASE OtherCommand
  BY <1>4, CommandType DEF OtherCommand
<1>5. ASSUME NEW ok \in BOOLEAN, Answer(ok)
      PROVE  TypeOK'
  <2>1. pending \in [kind : {"stream_value"}, own : BOOLEAN, stream : Console, at : Nat]
    BY <1>5 DEF Answer, Requests, NoRequest
  <2>2. [ok |-> ok, tag |-> pending.at] \in Lines
    BY <2>1 DEF Lines
  <2>3. console' \in [Console -> StreamType]
    <3>1. CASE pending.own
      BY <1>5, <3>1, <2>1, <2>2 DEF Answer, StreamType
    <3>2. CASE ~pending.own
      BY <1>5, <3>2 DEF Answer
    <3> QED BY <3>1, <3>2
  <2>4. loop' \in {"prompt", "stepping", "returning"} /\ retry' \in Requests
    BY <1>5, RequestTypes DEF Answer
  <2> QED BY <1>5, <2>3, <2>4, RequestTypes DEF Answer
<1>6. CASE Continue
  <2>1. loop' \in {"prompt", "stepping", "returning"}
    BY <1>6 DEF Continue
  <2> QED BY <1>6, <2>1, RequestTypes DEF Continue
<1>7. CASE Quit
  <2>1. budget' \in Counts /\ ran' \in Nat
    BY <1>7 DEF Quit, Counts
  <2> QED BY <1>7, <2>1, NoSessionType, RequestTypes DEF Quit
<1>8. CASE Pause
  BY <1>8, RequestTypes DEF Pause
<1>9. CASE Lack
  <2>1. console' \in [Console -> StreamType] /\ file' \in [Files -> FileType]
    BY <1>9, ReadInputsType DEF Lack, ReadInputs
  <2>2. pending' \in Requests
    BY <1>9, RequestTypes DEF Lack
  <2> QED BY <1>9, <2>1, <2>2, RequestTypes DEF Lack
<1>10. ASSUME Completed
       PROVE  /\ queued' \in Nat /\ running' \in BOOLEAN /\ time_point' \in Nat
              /\ steps_to_run' \in Counts /\ need' \in SUBSET Streams
              /\ console' \in [Console -> StreamType] /\ file' \in [Files -> FileType]
              /\ budget' \in Counts /\ ran' \in Nat /\ loop = "stepping"
  <2>1. console' \in [Console -> StreamType] /\ file' \in [Files -> FileType]
    BY <1>10, ReadInputsType, FreshType DEF Completed, ReadInputs
  <2> QED BY <1>10, <2>1 DEF Completed, Stepping
<1>11. CASE StepDone
  <2>1. steps_done' \in Nat
    BY <1>11 DEF StepDone
  <2> QED BY <1>10, <1>11, <2>1, RequestTypes DEF StepDone
<1>12. CASE StepPaused
  <2>1. steps_done' \in Nat
    BY <1>12 DEF StepPaused, CountPaused
  <2>2. loop' \in {"prompt", "stepping", "returning"} /\ pending' \in Requests
    BY <1>12, RequestTypes DEF StepPaused
  <2> QED BY <1>10, <1>12, <2>1, <2>2, RequestTypes DEF StepPaused
<1>13. CASE StepFails
  <2>1. budget' \in Counts /\ ran' \in Nat
    BY <1>13 DEF StepFails, Counts
  <2> QED BY <1>13, <2>1, NoSessionType, RequestTypes DEF StepFails
<1>14. CASE Return
  BY <1>14 DEF Return
<1>15. CASE Exhausted
  <2>1. budget' \in Counts /\ ran' \in Nat
    BY <1>15 DEF Exhausted, Counts
  <2> QED BY <1>15, <2>1, NoSessionType, RequestTypes DEF Exhausted
<1>16. CASE UNCHANGED vars
  BY <1>16 DEF vars
<1> QED
  BY <1>1, <1>2, <1>3, <1>4, <1>5, <1>6, <1>7, <1>8, <1>9, <1>11, <1>12,
     <1>13, <1>14, <1>15, <1>16
  DEF Next, Commands, Loop

(* Every reachable state is well typed.                                     *)
THEOREM TypeCorrect == Spec => []TypeOK
BY TypeInit, TypeStep, PTL DEF Spec

-----------------------------------------------------------------------------
(* The steps left of the budget, and those done since it was set.           *)
LEMMA BudgetStep == TypeOK /\ BudgetExact /\ [Next]_vars => BudgetExact'
<1> SUFFICES ASSUME TypeOK, BudgetExact, [Next]_vars
             PROVE  BudgetExact'
  OBVIOUS
<1> USE DEF TypeOK, BudgetExact, session, ghosts, Counts, Unbounded
<1>1. ASSUME NEW n \in 1..MaxSteps \cup {Unbounded}, RunFormula(n) \/ RunMore(n)
      PROVE  BudgetExact'
  <2>1. n = -1 \/ n \in Nat
    <3>1. MaxSteps \in Nat
      OBVIOUS
    <3> QED BY <3>1
  <2>2. CASE RunFormula(n)
    BY <2>1, <2>2 DEF RunFormula
  <2>3. CASE RunMore(n)
    BY <2>1, <2>3 DEF RunMore, StepsToRun
  <2> QED BY <1>1, <2>2, <2>3
<1>2. CASE NoSession
  BY <1>2 DEF NoSession
<1>3. ASSUME NEW ok \in BOOLEAN, Answer(ok)
      PROVE  BudgetExact'
  BY <1>3 DEF Answer
<1>4. CASE Completed /\ (StepDone \/ StepPaused)
  <2>1. ran' = ran + 1 /\ UNCHANGED <<running, steps_to_run, budget>>
        /\ ~(steps_to_run # -1 /\ steps_done >= steps_to_run)
    BY <1>4 DEF Completed, Stepping, BudgetSpent
  <2>2. steps_to_run # -1 => steps_done' = steps_done + 1
    BY <1>4 DEF StepDone, StepPaused, CountPaused
  <2> QED BY <2>1, <2>2
<1>5. CASE OtherCommand \/ Continue \/ Pause \/ Lack \/ Return \/ UNCHANGED vars
  BY <1>5 DEF OtherCommand, Continue, Pause, Lack, Return, vars
<1> QED
  BY <1>1, <1>2, <1>3, <1>4, <1>5
  DEF Next, Commands, Loop, Stop, Quit, StepDone, StepPaused, StepFails, Exhausted

(* `run N steps` takes N steps and no more, however often a step of it was  *)
(* given up, asked for a value, paused or was entered again                 *)
(* (repl_evaluator.tmpl.h:831, 851).                                        *)
THEOREM BudgetIsExact == Spec => []BudgetExact
<1>1. Init => BudgetExact
  BY DEF Init, BudgetExact
<1> QED BY <1>1, BudgetStep, TypeCorrect, PTL DEF Spec

-----------------------------------------------------------------------------
(* What the step takes from a console stream, and what that leaves.         *)
LEMMA ConsoleStep ==
    ASSUME TypeOK, StreamInv, NEW c \in Console
    PROVE  /\ Get(c).st.value = NoLine
           /\ Line(c) # NoLine => /\ Line(c).tag = time_point
                                  /\ Get(c).st.delivered = Line(c)
                                  /\ Get(c).st.at = time_point
                                  /\ ~Get(c).st.awaiting
           /\ Line(c) = NoLine => /\ Get(c).st.delivered = NoLine
                                  /\ Get(c).st.awaiting
           /\ console[c].awaiting => Line(c) = NoLine
<1>1. Get(c) = ConsoleGet(console[c], time_point) /\ console[c] \in StreamType
  BY GetType DEF TypeOK
<1>2. CASE console[c].value # NoLine
  BY <1>1, <1>2 DEF ConsoleGet, StreamInv, Line
<1>3. CASE /\ console[c].value = NoLine
           /\ console[c].delivered # NoLine /\ console[c].at = time_point
  BY <1>1, <1>3 DEF ConsoleGet, StreamInv, Line, StreamType
<1>4. CASE /\ console[c].value = NoLine
           /\ ~(console[c].delivered # NoLine /\ console[c].at = time_point)
  BY <1>1, <1>4 DEF ConsoleGet, StreamInv, Line, StreamType
<1> QED BY <1>2, <1>3, <1>4

(* A step that has its values reads all its streams, and asks for none.     *)
LEMMA CompleteStep ==
    ASSUME TypeOK, StreamInv, Complete
    PROVE  /\ Read = need
           /\ \A c \in need \cap Console :
                 Line(c) # NoLine /\ Line(c).ok /\ ~console[c].awaiting
<1>1. Read = need
  BY DEF Read, Complete
<1> QED BY <1>1, ConsoleStep DEF Complete, NoLine

(* A stream that awaits its value still does when the step was tried.       *)
LEMMA StillAwaiting ==
    ASSUME TypeOK, StreamInv, ReadInputs, NEW c \in Console, console[c].awaiting
    PROVE  console'[c].awaiting
BY ConsoleStep DEF ReadInputs

(* A stream holds values typed for the step they are used for.              *)
LEMMA StreamStep == TypeOK /\ StreamInv /\ RequestInv /\ [Next]_vars => StreamInv'
<1> SUFFICES ASSUME TypeOK, StreamInv, RequestInv, [Next]_vars
             PROVE  StreamInv'
  OBVIOUS
<1>1. CASE console' = [c \in Console |-> Fresh]
  BY <1>1 DEF StreamInv, Fresh
<1>2. CASE UNCHANGED <<console, time_point, need>>
  BY <1>2 DEF StreamInv
<1>3. ASSUME NEW ok \in BOOLEAN, Answer(ok), pending.own
      PROVE  StreamInv'
  <2>1. /\ pending.at = time_point /\ pending.stream \in need
        /\ UNCHANGED <<time_point, need>>
    BY <1>3 DEF Answer, RequestInv, Asks
  <2>2. console' = [console EXCEPT ![pending.stream].value = [ok |-> ok, tag |-> time_point],
                                   ![pending.stream].awaiting = FALSE]
    BY <1>3, <2>1 DEF Answer
  <2> QED BY <2>1, <2>2 DEF StreamInv, TypeOK, StreamType
<1>4. CASE Lack
  <2>1. UNCHANGED <<time_point, need>>
    BY <1>4 DEF Lack
  <2>2. ASSUME NEW c \in Console, c \in Read
        PROVE  console'[c] = Get(c).st /\ c \in need
    BY <1>4, <2>2 DEF Lack, ReadInputs, Read
  <2>3. ASSUME NEW c \in Console, c \notin Read
        PROVE  console'[c] = console[c]
    BY <1>4, <2>3 DEF Lack, ReadInputs
  <2> QED BY <2>1, <2>2, <2>3, ConsoleStep DEF StreamInv, TypeOK
<1>5. CASE Completed
  <2>1. time_point' = time_point + 1 /\ Complete /\ time_point \in Nat
    BY <1>5 DEF Completed, TypeOK
  <2>2. CASE /\ console' = [c \in Console |-> IF c \in Read THEN Get(c).st ELSE console[c]]
    <3>1. ASSUME NEW c \in Console, c \in need
          PROVE  /\ console'[c].value = NoLine /\ ~console'[c].awaiting
                 /\ console'[c].delivered.tag = console'[c].at /\ console'[c].at = time_point
      BY <3>1, <2>1, <2>2, CompleteStep, ConsoleStep
    <3>2. ASSUME NEW c \in Console, c \notin need
          PROVE  /\ console'[c] = console[c]
                 /\ console[c].value = NoLine /\ ~console[c].awaiting
      BY <3>2, <2>1, <2>2, CompleteStep DEF StreamInv
    <3>3. \A c \in Console : console[c].at \in Nat
      BY DEF TypeOK, StreamType
    <3> QED BY <3>1, <3>2, <3>3, <2>1 DEF StreamInv
  <2> QED BY <1>1, <1>5, <2>2 DEF Completed, ReadInputs
<1> QED
  BY <1>1, <1>2, <1>3, <1>4, <1>5
  DEF Next, Commands, Loop, RunFormula, RunMore, Stop, OtherCommand, Answer, Continue,
      Quit, Pause, StepDone, StepPaused, StepFails, Return, Exhausted, NoSession,
      session, vars

(* A step that completes leaves nothing to ask for.                         *)
LEMMA NothingAsked ==
    ASSUME TypeOK, StreamInv, RequestInv, StepDone \/ StepPaused
    PROVE  ~Asks(pending) /\ ~Asks(pending')
<1> USE DEF RequestInv, Asks
<1>1. ~Asks(pending)
  <2> SUFFICES ASSUME Asks(pending) PROVE FALSE
    OBVIOUS
  <2>1. pending.stream \in Console
    BY DEF TypeOK, Requests, NoRequest
  <2> QED BY <2>1, CompleteStep DEF StepDone, StepPaused, Completed, Stepping
<1>2. CASE StepDone
  BY <1>1, <1>2 DEF StepDone
<1>3. CASE StepPaused
  BY <1>1, <1>3 DEF StepPaused, Gate
<1> QED BY <1>1, <1>2, <1>3

(* The request is for the step in hand.                                     *)
LEMMA RequestStep == TypeOK /\ StreamInv /\ RequestInv /\ [Next]_vars => RequestInv'
<1> SUFFICES ASSUME TypeOK, StreamInv, RequestInv, [Next]_vars
             PROVE  RequestInv'
  OBVIOUS
<1> USE DEF RequestInv, Asks
<1>1. \A req \in Requests : ~Asks(Disowned(req))
  BY DEF Disowned, Requests, NoRequest
<1>2. ~Asks(NoRequest) /\ ~Asks(Gate)
  BY DEF NoRequest, Gate
<1>3. pending \in Requests /\ queued \in Nat /\ StreamInv'
  BY StreamStep DEF TypeOK
<1>4. ASSUME NEW n \in 1..MaxSteps \cup {Unbounded}, RunFormula(n)
      PROVE  RequestInv'
  BY <1>1, <1>3, <1>4 DEF RunFormula, Command
<1>5. CASE (OtherCommand \/ \E n \in 1..MaxSteps \cup {Unbounded} : RunMore(n))
  <2>1. /\ UNCHANGED <<time_point, need, console, pending, retry>> /\ retry = NoRequest
        /\ queued = 0 => pending = NoRequest
    BY <1>5 DEF OtherCommand, RunMore, Command, session, ghosts
  <2> QED BY <2>1, <1>2, <1>3
<1>6. CASE Stop \/ Quit \/ StepFails \/ Exhausted
  <2>1. pending' = NoRequest \/ pending' = Disowned(pending)
    BY <1>6 DEF Stop, Quit, StepFails, Exhausted
  <2>2. retry' = NoRequest
    BY <1>6 DEF Stop, Quit, StepFails, Exhausted, Command, Answering
  <2> QED BY <1>1, <1>2, <1>3, <2>1, <2>2
<1>7. ASSUME NEW ok \in BOOLEAN, Answer(ok)
      PROVE  RequestInv'
  BY <1>2, <1>7 DEF Answer, Answering
<1>8. CASE Continue
  BY <1>2, <1>8 DEF Continue, Answering, session
<1>9. CASE Pause \/ Return \/ UNCHANGED vars
  BY <1>9 DEF Pause, Return, session, vars
<1>10. CASE Lack
  <2>1. UNCHANGED <<queued, time_point, need>> /\ retry' = NoRequest
        /\ loop = "stepping" /\ loop' = "returning" /\ ReadInputs
    BY <1>10 DEF Lack, Stepping
  <2>2. ASSUME NEW c \in Console, console'[c].awaiting, pending' = ValueOf(c, time_point)
        PROVE  RequestInv'
    BY <2>1, <2>2, <1>3 DEF StreamInv, ValueOf
  <2>3. ASSUME \A c \in Console : ~console'[c].awaiting
        PROVE  ~Asks(pending)
    <3> SUFFICES ASSUME Asks(pending) PROVE FALSE
      OBVIOUS
    <3>1. pending.stream \in Console
      BY <1>3 DEF Requests, NoRequest
    <3> QED BY <2>1, <2>3, <3>1, StillAwaiting
  <2>4. CASE retry # NoRequest /\ pending' = retry
    BY <2>1, <2>4
  <2> QED BY <1>2, <1>10, <2>1, <2>2, <2>3, <2>4 DEF Lack
<1>11. CASE StepDone \/ StepPaused
  BY <1>11, NothingAsked DEF StepDone, StepPaused
<1> QED
  BY <1>4, <1>5, <1>6, <1>7, <1>8, <1>9, <1>10, <1>11
  DEF Next, Commands, Loop

LEMMA SessionInvHolds == Spec => [](TypeOK /\ StreamInv /\ RequestInv)
<1>1. Init => StreamInv /\ RequestInv
  BY DEF Init, StreamInv, RequestInv, Asks, Fresh, NoRequest
<1> QED BY <1>1, TypeInit, TypeStep, StreamStep, RequestStep, PTL DEF Spec

(* A completed step used, of each console stream it reads, the value typed  *)
(* for it (repl_pending_input_stream::get, and its set_value).              *)
THEOREM StepUsesOwnAnswers == Spec => []StepUsesItsAnswer
<1>1. Init => StepUsesItsAnswer
  BY DEF Init, StepUsesItsAnswer
<1>2. ASSUME TypeOK, StreamInv, StepUsesItsAnswer, [Next]_vars
      PROVE  StepUsesItsAnswer'
  <2>1. CASE UNCHANGED last
    BY <1>2, <2>1 DEF StepUsesItsAnswer
  <2>2. CASE NothingYet
    BY <2>2 DEF NothingYet, StepUsesItsAnswer
  <2>3. CASE Completed
    <3>1. last' = [at |-> time_point, lines |-> [s \in need |-> Line(s)]]
      BY <2>3 DEF Completed
    <3>2. ASSUME NEW c \in Console, c \in need
          PROVE  Line(c) = [ok |-> TRUE, tag |-> time_point]
      <4>1. Line(c) # NoLine /\ Line(c).ok /\ Line(c).tag = time_point
        BY <1>2, <2>3, <3>2, CompleteStep, ConsoleStep DEF Completed
      <4>2. Line(c) \in [ok : BOOLEAN, tag : Nat]
        BY <1>2, <4>1, GetType DEF Lines, Streams
      <4> QED BY <4>1, <4>2
    <3> QED BY <3>1, <3>2 DEF StepUsesItsAnswer
  <2> QED
    BY <1>2, <2>1, <2>2, <2>3
    DEF Next, Commands, Loop, RunFormula, RunMore, Stop, OtherCommand, Answer, Continue,
        Quit, Pause, Lack, StepDone, StepPaused, StepFails, Return, Exhausted,
        ghosts, vars
<1> QED BY <1>1, <1>2, SessionInvHolds, PTL DEF Spec

-----------------------------------------------------------------------------
(* A step that is given up lacks the value of a first stream, which it      *)
(* reads.                                                                   *)
LEMMA Smallest ==
    ASSUME NEW T, T \subseteq Nat, T # {}
    PROVE  \E n \in T : \A m \in T : n <= m
<1>1. PICK less : /\ IsWellFoundedOn(less, Nat)
                  /\ \A m, n \in Nat : m < n => <<m, n>> \in less
  <2>1. \A m, n \in Nat : m < n => <<m, n>> \in OpToRel(<, Nat)
    BY DEF OpToRel
  <2> QED BY <2>1, NatLessThanWellFounded, Zenon
<1>2. PICK n \in T : \A m \in T : ~ (<<m, n>> \in less)
  <2>1. IsWellFoundedOn(less, Nat)
    BY <1>1
  <2> QED BY <2>1, WFMin, Zenon
<1>3. \A m \in T : ~(m < n)
  BY <1>1, <1>2
<1> QED BY <1>2, <1>3

LEMMA FirstLacking ==
    ASSUME TypeOK, ~Complete
    PROVE  \E s \in Read : ~Line(s).ok
<1> DEFINE T == {Rank[s] : s \in {x \in need : ~Line(x).ok}}
<1>1. T # {} /\ T \subseteq Nat
  BY DEF Complete, TypeOK
<1>2. PICK n \in T : \A m \in T : n <= m
  BY <1>1, Smallest
<1>3. PICK s \in need : ~Line(s).ok /\ n = Rank[s]
  BY <1>2
<1>4. \A r \in need : Rank[r] < Rank[s] => Line(r).ok
  <2> SUFFICES ASSUME NEW r \in need, Rank[r] < Rank[s], ~Line(r).ok
               PROVE  FALSE
    OBVIOUS
  <2>1. Rank[r] \in T
    OBVIOUS
  <2>2. Rank[s] <= Rank[r]
    BY <1>2, <1>3, <2>1
  <2>3. Rank[r] \in Nat /\ Rank[s] \in Nat
    BY DEF TypeOK
  <2> QED BY <2>2, <2>3
<1> QED BY <1>3, <1>4 DEF Read

(* What a tried step leaves of a console stream: a value stays given, or    *)
(* rejected; a stream that is read and has none awaits it.                  *)
LEMMA TriedStream ==
    ASSUME TypeOK, StreamInv, ReadInputs, time_point' = time_point,
           NEW c \in Console
    PROVE  /\ Line(c)' = Line(c)
           /\ console'[c].awaiting <=>
                 console[c].awaiting \/ (c \in Read /\ Line(c) = NoLine)
<1>1. Get(c) = ConsoleGet(console[c], time_point)
      /\ Get(c)' = ConsoleGet(console'[c], time_point)
  BY DEF Get
<1>2. CASE c \notin Read
  <2>1. console'[c] = console[c]
    BY <1>2 DEF ReadInputs
  <2> QED BY <1>1, <1>2, <2>1 DEF Line
<1>3. CASE c \in Read
  <2>1. console'[c] = Get(c).st
    BY <1>3 DEF ReadInputs
  <2>2. Line(c) # NoLine => Line(c)' = Line(c)
    BY <1>1, <2>1, ConsoleStep DEF ConsoleGet, Line
  <2>3. Line(c) = NoLine => Line(c)' = NoLine
    BY <1>1, <2>1, ConsoleStep DEF ConsoleGet, Line
  <2> QED BY <1>3, <2>1, <2>2, <2>3, ConsoleStep
<1> QED BY <1>2, <1>3

(* Nothing is open, asked or accepted for a step that is yet to be tried.   *)
LEMMA NewStep ==
    ASSUME \A c \in Console :
              /\ console'[c].value = NoLine
              /\ ~console'[c].awaiting
              /\ console'[c].delivered = NoLine \/ console'[c].at # time_point',
           answered' \subseteq Console \X (0..time_point'),
           \A c \in Console : <<c, time_point'>> \notin answered',
           ~Asks(pending')
    PROVE  AnsweredInv'
<1>1. ASSUME NEW c \in Console
      PROVE  ~OpenFor(c)'
  <2>1. Line(c)' = ConsoleGet(console'[c], time_point').line
    BY DEF Line, Get
  <2>2. Line(c)' = NoLine
    BY <2>1 DEF ConsoleGet
  <2> QED BY <2>2 DEF OpenFor, Rejected
<1> QED BY <1>1 DEF AnsweredInv, Asks

(* A file that has ended stays so.                                          *)
LEMMA EndStays ==
    ASSUME TypeOK, ReadInputs, need' = need, InputEnded
    PROVE  InputEnded'
<1>1. PICK f \in Files \cap need : file[f].cursor = Rows[f]
  BY DEF InputEnded
<1>2. CASE f \in Read
  <2>1. file'[f] = FileGet(f, file[f], time_point).st
    BY <1>2, GetType DEF ReadInputs
  <2>2. file[f] \in FileType /\ time_point \in Nat /\ Rows[f] \in Nat
    BY DEF TypeOK
  <2>3. file'[f].cursor = Rows[f]
    BY <1>1, <2>1, <2>2 DEF FileGet, FileType
  <2> QED BY <2>3 DEF InputEnded
<1>3. CASE f \notin Read
  BY <1>1, <1>3 DEF ReadInputs, InputEnded
<1> QED BY <1>2, <1>3

(* A step given up for a file whose rows parse leaves its input ended.      *)
LEMMA LackingFileEnds ==
    ASSUME TypeOK, ReadInputs, need' = need, NEW f \in Files, f \in Read,
           ~Line(f).ok, RowsParse
    PROVE  InputEnded'
<1>1. Get(f) = FileGet(f, file[f], time_point)
      /\ file'[f] = Get(f).st /\ f \in need
  BY GetType DEF ReadInputs, Read
<1>2. file'[f].cursor = Rows[f]
  <2> DEFINE st   == file[f]
             next == IF st.next_row = -1 THEN time_point ELSE st.next_row
             skip == IF next < time_point THEN time_point - next ELSE 0
             row  == st.cursor + skip
  <2>1. CASE row < Rows[f]
    <3>1. Get(f).line = [ok |-> <<f, row>> \notin BadRows, tag |-> row]
      BY <1>1, <2>1 DEF FileGet
    <3>2. (<<f, row>> \notin BadRows) = TRUE
      BY DEF RowsParse
    <3> HIDE DEF row
    <3>3. Line(f) = [ok |-> TRUE, tag |-> row]
      BY <3>1, <3>2 DEF Line
    <3> QED BY <3>3
  <2>2. CASE ~(row < Rows[f])
    BY <1>1, <2>2 DEF FileGet
  <2> QED BY <2>1, <2>2
<1> QED BY <1>1, <1>2 DEF InputEnded

LEMMA AnsweredStep ==
    ASSUME RowsParse, TypeOK, StreamInv, RequestInv, AnsweredInv, [Next]_vars
    PROVE  AnsweredInv'
<1>1. TypeOK' /\ StreamInv' /\ RequestInv'
  BY TypeStep, StreamStep, RequestStep
<1>2. /\ \A req \in Requests : ~Asks(Disowned(req))
      /\ ~Asks(NoRequest) /\ ~Asks(Gate)
  BY DEF Disowned, Requests, NoRequest, Gate, Asks
<1>3. ASSUME console' = [c \in Console |-> Fresh], answered' = {}, ~Asks(pending')
      PROVE  AnsweredInv'
  BY <1>3, NewStep DEF Fresh
<1>4. ASSUME UNCHANGED <<time_point, need, console, file, answered>>,
             pending' = pending \/ pending' = NoRequest,
             retry' # NoRequest /\ retry'.own => retry' = retry
      PROVE  AnsweredInv'
  <2>1. InputEnded' = InputEnded
    BY <1>4 DEF InputEnded
  <2>2. ASSUME NEW c \in Console
        PROVE  Line(c)' = Line(c) /\ Given(c)' = Given(c) /\ OpenFor(c)' = OpenFor(c)
    BY <1>4, <2>2 DEF Line, Get, Given, OpenFor, Rejected
  <2>3. Asks(pending') => pending' = pending /\ pending.stream \in Console
    BY <1>2, <1>4 DEF TypeOK, Requests, NoRequest, Asks
  <2> QED BY <1>4, <2>1, <2>2, <2>3 DEF AnsweredInv, Asks, TypeOK, OpenFor
<1>5. ASSUME NEW ok \in BOOLEAN, Answer(ok), pending.own
      PROVE  AnsweredInv'
  <2> DEFINE v == [ok |-> ok, tag |-> time_point]
  <2>0. PICK s \in Console : s = pending.stream
    BY <1>5 DEF Answer, TypeOK, Requests, NoRequest
  <2>1. /\ Asks(pending) /\ s \in need /\ pending.at = time_point
        /\ time_point \in Nat
    BY <1>5, <2>0 DEF Answer, Asks, RequestInv, TypeOK
  <2>2. /\ UNCHANGED <<time_point, need, file>>
        /\ console' = [console EXCEPT ![s].value = v, ![s].awaiting = FALSE]
        /\ answered' = IF ok THEN answered \cup {<<s, time_point>>} ELSE answered
        /\ pending' = NoRequest
        /\ retry' \in {pending, NoRequest}
    <3>1. [ok |-> ok, tag |-> pending.at] = v
      BY <2>1
    <3>2. retry' \in {pending, NoRequest}
      BY <1>5 DEF Answer
    <3> QED BY <1>5, <2>0, <3>1, <3>2 DEF Answer
  <2>3. InputEnded' = InputEnded
    BY <2>2 DEF InputEnded
  <2>4. ASSUME NEW c \in Console, c # s
        PROVE  Given(c)' = Given(c) /\ OpenFor(c)' = OpenFor(c)
    <3>1. console'[c] = console[c]
      BY <2>0, <2>1, <2>2, <2>4 DEF TypeOK
    <3>2. Line(c)' = Line(c)
      BY <2>2, <3>1 DEF Line, Get
    <3> QED BY <3>1, <3>2 DEF Given, OpenFor, Rejected
  <2>5. Line(s)' = v /\ v # NoLine /\ ~console'[s].awaiting
    <3>1. console'[s].value = v /\ ~console'[s].awaiting
      BY <2>0, <2>1, <2>2 DEF TypeOK, StreamType
    <3>2. v # NoLine
      BY <2>0, <2>1 DEF NoLine
    <3> QED BY <2>0, <2>1, <3>1, <3>2 DEF Line, Get, ConsoleGet
  <2>6. (ok => Given(s)') /\ (OpenFor(s)' => ~ok)
    BY <2>5 DEF Given, OpenFor, Rejected
  <2>7. ASSUME ~InputEnded
        PROVE  /\ ~Given(s)
               /\ <<s, time_point>> \notin answered
               /\ \A c \in need \cap Console : OpenFor(c) => c = s
    <3>1. OpenFor(s)
      BY <2>0, <2>1, <2>7 DEF AnsweredInv
    <3>2. \A c \in Console : OpenFor(c) => ~Given(c)
      BY ConsoleStep DEF OpenFor, Given, Rejected, NoLine
    <3>3. ASSUME NEW c \in need \cap Console, OpenFor(c), c # s
          PROVE  FALSE
      <4>1. Rank[c] \in Nat /\ Rank[s] \in Nat /\ Rank[c] # Rank[s]
        BY <2>0, <2>1, <3>3 DEF Streams
      <4>2. CASE Rank[c] < Rank[s]
        BY <2>0, <2>1, <2>7, <3>1, <3>2, <3>3, <4>2 DEF AnsweredInv
      <4>3. CASE Rank[s] < Rank[c]
        BY <2>0, <2>1, <2>7, <3>1, <3>2, <3>3, <4>3 DEF AnsweredInv
      <4> QED BY <4>1, <4>2, <4>3
    <3> QED BY <2>0, <2>1, <2>7, <3>1, <3>2, <3>3 DEF AnsweredInv
  <2> HIDE DEF v
  <2>8. answered' \subseteq Console \X (0..time_point')
    BY <2>0, <2>1, <2>2 DEF AnsweredInv
  <2>9. ASSUME ~InputEnded, NEW c \in Console, <<c, time_point>> \in answered'
        PROVE  Given(c)'
    <3>1. CASE c = s
      BY <2>2, <2>6, <2>7, <2>9, <3>1
    <3>2. CASE c # s
      BY <2>2, <2>4, <2>9, <3>2 DEF AnsweredInv
    <3> QED BY <3>1, <3>2
  <2>10. ASSUME ~InputEnded, NEW c \in need \cap Console, OpenFor(c)'
         PROVE  c = s /\ \A r \in need \cap Console : Rank[r] < Rank[c] => Given(r)'
    <3>1. c = s
      BY <2>4, <2>7, <2>10
    <3>2. ASSUME NEW r \in need \cap Console, Rank[r] < Rank[c]
          PROVE  Given(r)'
      <4>1. OpenFor(s)
        BY <2>0, <2>1, <2>10 DEF AnsweredInv
      <4>2. r # s
        BY <3>1, <3>2, <2>0 DEF Streams
      <4> QED BY <2>4, <2>10, <3>1, <3>2, <4>1, <4>2 DEF AnsweredInv
    <3> QED BY <3>1, <3>2
  <2> QED BY <1>2, <2>0, <2>1, <2>2, <2>3, <2>8, <2>9, <2>10 DEF AnsweredInv
<1>6. CASE StepDone \/ StepPaused
  <2>1. /\ Completed /\ Complete /\ Read = need /\ time_point' = time_point + 1
        /\ time_point \in Nat /\ answered' = answered
    BY <1>6, CompleteStep DEF StepDone, StepPaused, Completed, TypeOK
  <2>2. ~Asks(pending')
    BY <1>6, NothingAsked
  <2>3. answered' \subseteq Console \X (0..time_point')
        /\ \A c \in Console : <<c, time_point'>> \notin answered'
    BY <2>1 DEF AnsweredInv
  <2>4. ASSUME NEW c \in Console
        PROVE  /\ console'[c].value = NoLine
               /\ ~console'[c].awaiting
               /\ console'[c].delivered = NoLine \/ console'[c].at # time_point'
    <3>1. CASE console'[c] = Fresh
      BY <3>1 DEF Fresh
    <3>2. CASE c \in need /\ console'[c] = Get(c).st
      BY <2>1, <3>2, CompleteStep, ConsoleStep
    <3>3. CASE c \notin need /\ console'[c] = console[c]
      <4>1. console[c].at \in Nat
        BY DEF TypeOK, StreamType
      <4> QED BY <2>1, <3>3, <4>1 DEF StreamInv
    <3> QED BY <2>1, <3>1, <3>2, <3>3 DEF Completed, ReadInputs
  <2> QED BY <2>2, <2>3, <2>4, NewStep
<1>7. CASE Lack
  <2>1. /\ ReadInputs /\ ~Complete /\ retry' = NoRequest
        /\ UNCHANGED <<time_point, need, answered>>
    BY <1>7 DEF Lack, ghosts
  <2> SUFFICES ASSUME ~InputEnded' PROVE AnsweredInv'
    BY <2>1 DEF AnsweredInv
  <2>2. ~InputEnded
    BY <2>1, EndStays
  <2>3. ASSUME NEW c \in Console
        PROVE  /\ Given(c)' = Given(c) /\ Rejected(c)' = Rejected(c)
               /\ console'[c].awaiting <=>
                     console[c].awaiting \/ (c \in Read /\ Line(c) = NoLine)
    BY <2>1, TriedStream DEF Given, Rejected
  <2>4. ASSUME NEW c \in need \cap Console, NEW r \in need \cap Console,
               OpenFor(c)', Rank[r] < Rank[c]
        PROVE  Given(r)'
    <3>1. CASE OpenFor(c)
      BY <2>2, <2>3, <2>4, <3>1 DEF AnsweredInv
    <3>2. CASE c \in Read
      BY <2>3, <2>4, <3>2 DEF Read, Given
    <3> QED BY <2>3, <2>4, <3>1, <3>2 DEF OpenFor
  <2>5. ASSUME Asks(pending')
        PROVE  OpenFor(pending.stream)'
    <3>1. CASE \E c \in Console : console'[c].awaiting /\ pending' = ValueOf(c, time_point)
      BY <3>1 DEF ValueOf, OpenFor
    <3>2. CASE /\ \A c \in Console : ~console'[c].awaiting
               /\ pending' = pending
      <4>1. pending.stream \in Console /\ console[pending.stream].awaiting
        BY <1>7, <2>5, <3>2
        DEF Lack, Stepping, RequestInv, TypeOK, Asks, Requests, NoRequest
      <4> QED BY <2>3, <3>2, <4>1
    <3>3. CASE /\ \A c \in Console : ~console'[c].awaiting
               /\ retry # NoRequest /\ pending' = retry
      <4>1. PICK s \in Read : ~Line(s).ok
        BY <2>1, FirstLacking
      <4>2. s \in need /\ s \in Console
        BY <2>1, <4>1, LackingFileEnds DEF Read, TypeOK, Streams
      <4>3. Line(s) # NoLine
        BY <2>3, <3>3, <4>1, <4>2
      <4>4. Rejected(s)
        BY <4>1, <4>3 DEF Rejected
      <4>5. s = retry.stream
        BY <2>2, <2>5, <3>3, <4>2, <4>4 DEF AnsweredInv, Asks, OpenFor
      <4> QED BY <2>3, <3>3, <4>2, <4>4, <4>5 DEF OpenFor
    <3> QED BY <1>2, <1>7, <2>5, <3>1, <3>2, <3>3 DEF Lack
  <2> QED BY <2>1, <2>2, <2>3, <2>4, <2>5 DEF AnsweredInv
<1> QED
  <2>1. CASE \/ \E n \in 1..MaxSteps \cup {Unbounded} : RunFormula(n)
             \/ Stop \/ Quit \/ StepFails \/ Exhausted
    BY <1>2, <1>3, <2>1
    DEF RunFormula, Stop, Quit, StepFails, Exhausted, NoSession, NothingYet, TypeOK
  <2>2. CASE \/ \E n \in 1..MaxSteps \cup {Unbounded} : RunMore(n)
             \/ OtherCommand \/ Continue \/ Pause \/ Return \/ UNCHANGED vars
    BY <1>4, <2>2
    DEF RunMore, OtherCommand, Continue, Pause, Return, session, ghosts, vars
  <2>3. ASSUME NEW ok \in BOOLEAN, Answer(ok), ~pending.own
        PROVE  AnsweredInv'
    BY <1>4, <2>3 DEF Answer
  <2> QED
    BY <1>5, <1>6, <1>7, <2>1, <2>2, <2>3 DEF Next, Commands, Loop

(* A console value is asked for the step about to be taken, and not once    *)
(* it was given one that parses, until a file the step reads has ended      *)
(* (repl_evaluator.tmpl.h:926).  Rows that do not parse are left out: a     *)
(* step given up for one makes its last request again, as at a file's end.  *)
THEOREM AcceptedIsNotAskedAgain == RowsParse => (Spec => []NotAskedAgainBeforeTheEnd)
<1> SUFFICES ASSUME RowsParse PROVE Spec => []NotAskedAgainBeforeTheEnd
  OBVIOUS
<1>1. Init => AnsweredInv
  BY DEF Init, AnsweredInv, Asks, NoRequest
<1>2. TypeOK /\ StreamInv /\ RequestInv /\ AnsweredInv /\ [Next]_vars => AnsweredInv'
  BY AnsweredStep
<1>3. TypeOK /\ StreamInv /\ RequestInv /\ AnsweredInv => NotAskedAgainBeforeTheEnd
  <2> SUFFICES ASSUME TypeOK, StreamInv, RequestInv, AnsweredInv,
                      Asks(pending), ~InputEnded
               PROVE  /\ pending.at = time_point
                      /\ <<pending.stream, time_point>> \notin answered
    BY DEF NotAskedAgainBeforeTheEnd, Asks
  <2>1. pending.at = time_point /\ pending.stream \in Console
    BY DEF RequestInv, Asks, TypeOK, Requests, NoRequest
  <2>2. OpenFor(pending.stream) /\ ~Given(pending.stream)
    BY <2>1, ConsoleStep DEF AnsweredInv, OpenFor, Given, Rejected, NoLine
  <2> QED BY <2>1, <2>2 DEF AnsweredInv
<1> QED BY <1>1, <1>2, <1>3, SessionInvHolds, PTL DEF Spec

-----------------------------------------------------------------------------
(* A read takes the row of its step, or leaves the file at its end, no      *)
(* further than the run and with its rows counted as before.                *)
RowTaken(f, st) ==
    /\ Line(f).ok
    /\ st.next_row = time_point + 1
    /\ st.cursor = Line(f).tag + 1
    /\ st.cursor <= Rows[f]
EndMet(f, st) ==
    /\ st.cursor = Rows[f]
    /\ st.next_row \in Nat
    /\ st.next_row <= time_point
    /\ file[f].next_row # -1 =>
          st.next_row - st.cursor = file[f].next_row - file[f].cursor

LEMMA FileStep ==
    ASSUME TypeOK, NEW f \in Files, FileReadLast, Placed(f)
    PROVE  /\ Line(f) # NoLine => RowTaken(f, Get(f).st)
           /\ Line(f) = NoLine => EndMet(f, Get(f).st)
<1> USE DEF RowTaken, EndMet, Placed
<1> DEFINE next == IF file[f].next_row = -1 THEN time_point ELSE file[f].next_row
           skip == IF next < time_point THEN time_point - next ELSE 0
           row  == file[f].cursor + skip
<1>1. /\ next \in Nat /\ skip \in Nat /\ row \in Nat /\ Rows[f] \in Nat
      /\ file[f].cursor \in Nat /\ time_point \in Nat /\ next + skip = time_point
      /\ file[f].next_row # -1 => next = file[f].next_row
  BY DEF TypeOK, FileType
<1>2. Get(f) = FileGet(f, file[f], time_point) /\ Line(f) = Get(f).line
  BY GetType DEF Line
<1>3. CASE row < Rows[f]
  <2>1. /\ Line(f) = [ok |-> <<f, row>> \notin BadRows, tag |-> row]
        /\ Get(f).st = [cursor |-> row + 1, next_row |-> next + skip + 1]
    BY <1>2, <1>3 DEF FileGet
  <2>2. (<<f, row>> \notin BadRows) = TRUE
    BY DEF FileReadLast
  <2> HIDE DEF next, skip, row
  <2>3. Line(f) = [ok |-> TRUE, tag |-> row]
    BY <2>1, <2>2
  <2> QED BY <1>1, <1>3, <2>1, <2>3 DEF NoLine
<1>4. CASE ~(row < Rows[f])
  <2>1. Get(f) = [line |-> NoLine,
                  st |-> [cursor |-> Rows[f],
                          next_row |-> next + (Rows[f] - file[f].cursor)]]
    BY <1>2, <1>4 DEF FileGet
  <2>2. next + (Rows[f] - file[f].cursor) <= time_point
    BY <1>1, <1>4
  <2> HIDE DEF next, skip, row
  <2> QED BY <1>1, <1>2, <2>1, <2>2
<1> QED BY <1>3, <1>4

LEMMA FileInvStep ==
    ASSUME FileReadLast, TypeOK, FileInv, FileRowOfItsStep, [Next]_vars
    PROVE  FileInv' /\ FileRowOfItsStep'
<1> USE DEF FileInv, FileRowOfItsStep
<1>1. CASE NoSession /\ NothingYet
  BY <1>1 DEF NoSession, NothingYet, Opened, Placed
<1>2. CASE UNCHANGED <<time_point, file, last>>
  BY <1>2 DEF Placed
<1>3. ASSUME NEW n \in 1..MaxSteps \cup {Unbounded}, RunFormula(n)
      PROVE  FileInv' /\ FileRowOfItsStep'
  BY <1>3 DEF RunFormula, NothingYet, Opened, Placed
<1>4. CASE Completed
  <2>1. /\ Complete /\ Read = need /\ time_point' = time_point + 1 /\ time_point \in Nat
        /\ file' = [f \in Files |-> IF f \in need THEN Get(f).st ELSE file[f]]
        /\ last' = [at |-> time_point, lines |-> [s \in need |-> Line(s)]]
    <3>1. Read = need
      BY <1>4 DEF Completed, Complete, Read
    <3> QED BY <1>4, <3>1 DEF Completed, ReadInputs, TypeOK
  <2>2. ASSUME NEW f \in Files, f \in need
        PROVE  /\ file'[f].next_row = time_point + 1
               /\ file'[f].cursor = Line(f).tag + 1
               /\ file'[f].cursor <= Rows[f]
               /\ file'[f].cursor \in Int
               /\ Line(f).tag \in Int
    <3>1. Line(f).ok
      BY <2>1, <2>2 DEF Complete
    <3>2. Line(f) # NoLine
      BY <3>1 DEF NoLine
    <3>3. Get(f).st \in FileType /\ Line(f) \in Lines
      BY GetType DEF Streams
    <3>4. file'[f] = Get(f).st
      BY <2>1, <2>2
    <3>5. RowTaken(f, file'[f])
      <4>1. Placed(f) /\ f \in Files
        BY <2>2
      <4>2. RowTaken(f, Get(f).st)
        BY <3>2, <4>1, FileStep
      <4> QED BY <3>4, <4>2 DEF RowTaken
    <3>6. file'[f].cursor \in Int /\ Line(f).tag \in Int
      <4>1. Get(f).st.cursor \in Int
        BY <3>3 DEF FileType
      <4>2. Line(f).tag \in Int
        BY <3>2, <3>3 DEF Lines
      <4> QED BY <3>4, <4>1, <4>2
    <3> QED BY <3>5, <3>6 DEF RowTaken
  <2>3. ASSUME NEW f \in Files, f \notin need
        PROVE  file'[f] = file[f] /\ f \notin DOMAIN last'.lines
               /\ file[f].next_row \in Int
    BY <2>1, <2>3 DEF TypeOK, FileType
  <2>4. /\ \A f \in Files : f \in need => last'.lines[f] = Line(f)
        /\ DOMAIN last'.lines = need /\ last'.at = time_point
    BY <2>1
  <2>5. FileInv'
    <3> SUFFICES ASSUME NEW f \in Files
                 PROVE  /\ Placed(f)'
                        /\ f \in DOMAIN last'.lines => file'[f].next_row # -1
      OBVIOUS
    <3>1. CASE f \in need
      BY <2>1, <2>2, <3>1 DEF Placed
    <3>2. CASE f \notin need
      BY <2>1, <2>3, <3>2 DEF Placed
    <3> QED BY <3>1, <3>2
  <2>6. ASSUME NEW f \in Files, f \in need
        PROVE  Line(f).tag = time_point - (file'[f].next_row - file'[f].cursor)
    BY <2>1, <2>2, <2>6
  <2> QED BY <2>4, <2>5, <2>6
<1>5. CASE Lack
  <2>1. /\ ~Complete /\ UNCHANGED <<time_point, last>>
        /\ file' = [f \in Files |-> IF f \in Read THEN Get(f).st ELSE file[f]]
    BY <1>5 DEF Lack, ReadInputs, ghosts
  <2>2. ASSUME NEW f \in Files, f \in Read
        PROVE  Line(f) = NoLine
    <3> SUFFICES ASSUME Line(f) # NoLine PROVE FALSE
      OBVIOUS
    <3>1. Line(f).ok
      BY FileStep DEF RowTaken
    <3>2. ASSUME NEW s \in need, s # f
          PROVE  Line(s).ok
      <4>1. s \in Console
        BY <3>2 DEF FileReadLast, TypeOK, Streams
      <4> QED BY <2>2, <3>2, <4>1 DEF FileReadLast, Read
    <3> QED BY <2>1, <3>1, <3>2 DEF Complete
  <2>3. ASSUME NEW f \in Files, f \in Read
        PROVE  /\ file'[f].cursor = Rows[f]
               /\ file'[f].next_row \in Nat
               /\ file'[f].next_row <= time_point
               /\ file[f].next_row # -1 => file'[f].next_row - file'[f].cursor =
                                           file[f].next_row - file[f].cursor
    <3>1. EndMet(f, file'[f])
      BY <2>1, <2>2, <2>3, FileStep
    <3> QED BY <3>1 DEF EndMet
  <2>4. ASSUME NEW f \in Files, f \notin Read
        PROVE  file'[f] = file[f]
    BY <2>1, <2>4
  <2>5. \A f \in Files : Rows[f] \in Nat
    OBVIOUS
  <2> QED BY <2>1, <2>3, <2>4, <2>5 DEF Placed
<1> HIDE DEF FileInv, FileRowOfItsStep
<1> QED
  <2>1. CASE Stop \/ Quit \/ StepFails \/ Exhausted
    BY <1>1, <2>1 DEF Stop, Quit, StepFails, Exhausted
  <2>2. CASE \/ \E n \in 1..MaxSteps \cup {Unbounded} : RunMore(n)
             \/ \E ok \in BOOLEAN : Answer(ok)
             \/ OtherCommand \/ Continue \/ Pause \/ Return \/ UNCHANGED vars
    <3>1. UNCHANGED <<time_point, file, last>>
      BY <2>2
      DEF RunMore, OtherCommand, Answer, Continue, Pause, Return, session, ghosts, vars
    <3> QED BY <1>2, <3>1
  <2>3. CASE StepDone \/ StepPaused
    BY <1>4, <2>3 DEF StepDone, StepPaused
  <2> QED BY <1>3, <1>5, <2>1, <2>2, <2>3 DEF Next, Commands, Loop

(* A completed step used the row of its own time point: none is left out,   *)
(* and none is used twice, however often the step was given up for a        *)
(* console value (README:2606, io_context.h:214).  Where a step can be      *)
(* given up after it took a row the row is lost, as the run on a file read  *)
(* before a console stream shows.                                           *)
THEOREM RowsFollowTheSteps == FileReadLast => (Spec => []FileRowOfItsStep)
<1> SUFFICES ASSUME FileReadLast PROVE Spec => []FileRowOfItsStep
  OBVIOUS
<1>1. Init => FileInv /\ FileRowOfItsStep
  BY DEF Init, FileInv, FileRowOfItsStep, Opened, Placed
<1>2. TypeOK /\ FileInv /\ FileRowOfItsStep /\ [Next]_vars => FileInv' /\ FileRowOfItsStep'
  BY FileInvStep
<1> QED BY <1>1, <1>2, TypeCorrect, PTL DEF Spec
=============================================================================
