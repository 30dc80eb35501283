------------------------------- MODULE ReplRun ------------------------------
(***************************************************************************)
(* The REPL's `run` session (repl_evaluator.tmpl.h) with the input streams *)
(* its interpreter reads (io_context.tmpl.h).  The session never blocks: a *)
(* step that lacks a console value is given up, the value is asked for,    *)
(* and the step is entered again once the user answered.  Outputs and the  *)
(* values themselves are abstracted away; an input line keeps whether it   *)
(* parses and where it came from.                                          *)
(***************************************************************************)
EXTENDS Integers

CONSTANTS
    Console,    \* input streams read from the console
    Files,      \* input streams read from a file
    Rank,       \* [Console \cup Files -> Nat]: the order read() takes them in
    Rows,       \* [Files -> Nat]: the rows of each file, none of them empty
    BadRows,    \* <<f, row>>: rows that do not parse as the stream's type
    MaxTime,    \* model bound: no step is taken at this time point
    MaxSteps,   \* model bound: the largest N of `run N steps`
    MaxQueued   \* model bound: commands of a line after its first

Streams == Console \cup Files

ASSUME StreamsAssumption ==
    /\ Console \cap Files = {}
    /\ Rank \in [Streams -> Nat]
    /\ \A r, s \in Streams : Rank[r] = Rank[s] => r = s
    /\ Rows \in [Files -> Nat]
    /\ BadRows \subseteq Files \X Nat

ASSUME BoundsAssumption == {MaxTime, MaxSteps, MaxQueued} \subseteq Nat

VARIABLES
    loop,           \* continue_running(): "prompt" outside of it, or inside
    queued,         \* commands left on the line eval() executes
    running,        \* whether there is a run session
    time_point,     \* its interpreter's next step
    steps_to_run,   \* step count at which it pauses, or Unbounded
    steps_done,
    need,           \* the streams the next step reads
    console,        \* the state of each repl_pending_input_stream
    file,           \* the state of each file_input_stream
    pending,        \* the request the next line answers, or NoRequest
    retry,          \* continue_running's `retry` while `first` holds
    last,           \* history: the last completed step and what it read
    answered,       \* history: <<s, t>> given a value that parses
    budget,         \* history: N of the last `run N steps`, or Unbounded
    ran             \* history: steps completed since that command

session == <<running, time_point, steps_to_run, steps_done, need, console, file>>
ghosts  == <<last, answered, budget, ran>>
vars    == <<loop, queued, session, pending, retry, ghosts>>

Unbounded == -1
NoLine    == [ok |-> FALSE, tag |-> -1]
NoRequest == [kind |-> "none"]

(* A request names the session that made it: own tells whether that session *)
(* is still the running one.                                                *)
Gate          == [kind |-> "continue_or_quit", own |-> TRUE]
ValueOf(s, t) == [kind |-> "stream_value", own |-> TRUE, stream |-> s, at |-> t]
Disowned(req) == IF req = NoRequest THEN req ELSE [req EXCEPT !.own = FALSE]

(* An input line: whether it parses, and the time point it was typed for,   *)
(* or the row it is.                                                        *)
Lines    == [ok : BOOLEAN, tag : Nat] \cup {NoLine}
Requests == {NoRequest}
    \cup [kind : {"continue_or_quit"}, own : BOOLEAN]
    \cup [kind : {"stream_value"}, own : BOOLEAN, stream : Console, at : Nat]

-----------------------------------------------------------------------------
(* A fresh repl_pending_input_stream, and a file just opened. *)
Fresh  == [value |-> NoLine, delivered |-> NoLine, at |-> 0, awaiting |-> FALSE]
Opened == [cursor |-> 0, next_row |-> -1]

(* Faulty variants: the value handed out is forgotten at once; it is handed *)
(* out again at whatever time point.                                        *)
ConsoleGet_Consumes(st, t) ==
    IF st.value # NoLine
    THEN [line |-> st.value,
          st |-> [st EXCEPT !.value = NoLine, !.awaiting = FALSE]]
    ELSE [line |-> NoLine, st |-> [st EXCEPT !.awaiting = TRUE]]
ConsoleGet_AnyTime(st, t) ==
    IF st.value # NoLine
    THEN [line |-> st.value,
          st |-> [value |-> NoLine, delivered |-> st.value, at |-> t,
                  awaiting |-> FALSE]]
    ELSE [line |-> st.delivered,
          st |-> [st EXCEPT !.awaiting = st.delivered = NoLine]]

(* repl_pending_input_stream::get(t): the value that was set, else the one  *)
(* already handed out for t, else none, flagged awaiting.                   *)
ConsoleGet(st, t) ==
    IF st.value # NoLine
    THEN [line |-> st.value,
          st |-> [value |-> NoLine, delivered |-> st.value, at |-> t,
                  awaiting |-> FALSE]]
    ELSE IF st.delivered # NoLine /\ st.at = t
    THEN [line |-> st.delivered, st |-> [st EXCEPT !.awaiting = FALSE]]
    ELSE [line |-> NoLine,
          st |-> [st EXCEPT !.delivered = NoLine, !.awaiting = TRUE]]

(* Faulty variant: the rows of the steps that read nothing are not skipped. *)
FileGet_NoSkip(f, st, t) ==
    IF st.cursor < Rows[f]
    THEN [line |-> [ok |-> <<f, st.cursor>> \notin BadRows, tag |-> st.cursor],
          st |-> [cursor |-> st.cursor + 1,
                  next_row |-> (IF st.next_row = -1 THEN t ELSE st.next_row) + 1]]
    ELSE [line |-> NoLine, st |-> st]

(* file_input_stream::get(t): skips to the row after the skipped steps' and *)
(* takes it; at the end of the file the line is empty.                      *)
FileGet(f, st, t) ==
    LET next == IF st.next_row = -1 THEN t ELSE st.next_row
        skip == IF next < t THEN t - next ELSE 0
        row  == st.cursor + skip
    IN  IF row < Rows[f]
        THEN [line |-> [ok |-> <<f, row>> \notin BadRows, tag |-> row],
              st |-> [cursor |-> row + 1, next_row |-> next + skip + 1]]
        ELSE [line |-> NoLine,
              st |-> [cursor |-> Rows[f], next_row |-> next + (Rows[f] - st.cursor)]]

(* What get(time_point) answers on stream s. *)
Get(s) == IF s \in Console THEN ConsoleGet(console[s], time_point)
                           ELSE FileGet(s, file[s], time_point)
Line(s) == Get(s).line

(* interpreter::read(): the streams of the step in order, up to the first   *)
(* one that has no line or whose line does not parse.                       *)
Read == {s \in need : \A r \in need : Rank[r] < Rank[s] => Line(r).ok}

(* Every stream of the step had a value. *)
Complete == \A s \in need : Line(s).ok

ReadInputs ==
    /\ console' = [c \in Console |-> IF c \in Read THEN Get(c).st ELSE console[c]]
    /\ file' = [f \in Files |-> IF f \in Read THEN Get(f).st ELSE file[f]]

(* No session: running.reset(). *)
NoSession ==
    /\ running' = FALSE
    /\ time_point' = 0
    /\ steps_to_run' = Unbounded
    /\ steps_done' = 0
    /\ need' = {}
    /\ console' = [c \in Console |-> Fresh]
    /\ file' = [f \in Files |-> Opened]

NothingYet ==
    /\ last' = [at |-> -1, lines |-> <<>>]
    /\ answered' = {}

Init ==
    /\ loop = "prompt"
    /\ queued = 0
    /\ running = FALSE
    /\ time_point = 0
    /\ steps_to_run = Unbounded
    /\ steps_done = 0
    /\ need = {}
    /\ console = [c \in Console |-> Fresh]
    /\ file = [f \in Files |-> Opened]
    /\ pending = NoRequest
    /\ retry = NoRequest
    /\ last = [at |-> -1, lines |-> <<>>]
    /\ answered = {}
    /\ budget = Unbounded
    /\ ran = 0

-----------------------------------------------------------------------------
(* A command is executed: the first of a line, which eval() takes as a line *)
(* of commands only while no request is pending, or the next one of it.     *)
Command ==
    /\ loop = "prompt"
    /\ IF queued = 0
       THEN pending = NoRequest /\ queued' \in 0..MaxQueued
       ELSE queued' = queued - 1

(* run [N steps] <fm>: a new session replaces the stored one. *)
RunFormula(n) ==
    /\ Command
    /\ n <= MaxTime
    /\ running' = TRUE
    /\ time_point' = 0
    /\ steps_to_run' = n
    /\ steps_done' = 0
    /\ need' \in SUBSET Streams
    /\ console' = [c \in Console |-> Fresh]
    /\ file' = [f \in Files |-> Opened]
    /\ loop' = "stepping"
    /\ budget' = n
    /\ ran' = 0
    /\ NothingYet
    /\ pending' = Disowned(pending)
    /\ UNCHANGED retry

(* The step count at which `run N steps` or a bare `run` pauses next. *)
StepsToRun(n) == IF n = Unbounded THEN Unbounded ELSE steps_done + n

(* run [N steps], continuing the stored session. *)
RunMore(n) ==
    /\ Command
    /\ running
    /\ n <= MaxTime - time_point
    /\ steps_to_run' = StepsToRun(n)
    /\ loop' = "stepping"
    /\ budget' = n
    /\ ran' = 0
    /\ UNCHANGED <<running, time_point, steps_done, need, console, file,
                   pending, retry, last, answered>>

(* reset, or stop while there is a session: finish_running().  Without one  *)
(* stop, like any other command, leaves the session alone.                  *)
Stop ==
    /\ Command
    /\ NoSession
    /\ NothingYet
    /\ pending' = NoRequest
    /\ budget' = Unbounded
    /\ ran' = 0
    /\ UNCHANGED <<loop, retry>>
OtherCommand ==
    /\ Command
    /\ queued > 0
    /\ UNCHANGED <<loop, session, pending, retry, ghosts>>

(* The next line is the answer to the pending request. *)
Answering == loop = "prompt" /\ queued = 0 /\ pending # NoRequest

(* continue_running() has nothing to do without a session. *)
Entered == running

(* The answer to a stream prompt: the value is set on the stream, the one   *)
(* of a replaced session included, and the running session's step entered   *)
(* again, the request kept in case the value is rejected.                   *)
Answer(ok) ==
    /\ Answering
    /\ pending.kind = "stream_value"
    /\ IF pending.own
       THEN /\ console' = [console EXCEPT ![pending.stream].value =
                                             [ok |-> ok, tag |-> pending.at],
                                          ![pending.stream].awaiting = FALSE]
            /\ answered' = IF ok THEN answered \cup {<<pending.stream, pending.at>>}
                                 ELSE answered
       ELSE UNCHANGED <<console, answered>>
    /\ pending' = NoRequest
    /\ loop' = IF Entered THEN "stepping" ELSE "returning"
    /\ retry' = IF Entered THEN pending ELSE NoRequest
    /\ UNCHANGED <<queued, running, time_point, steps_to_run, steps_done, need,
                   file, last, budget, ran>>

(* Enter at the continue? gate. *)
Continue ==
    /\ Answering
    /\ pending.kind = "continue_or_quit"
    /\ pending' = NoRequest
    /\ loop' = IF Entered THEN "stepping" ELSE "returning"
    /\ UNCHANGED <<queued, session, retry, ghosts>>

(* q at the gate, or Ctrl-C at a stream prompt. *)
Quit ==
    /\ Answering
    /\ NoSession
    /\ pending' = NoRequest
    /\ NothingYet
    /\ budget' = Unbounded
    /\ ran' = 0
    /\ UNCHANGED <<loop, queued, retry>>

-----------------------------------------------------------------------------
(* One iteration of continue_running()'s loop, by its outcome.              *)

BudgetSpent == steps_to_run # Unbounded /\ steps_done >= steps_to_run

(* The budget is used up: the loop ends, the session is kept. *)
Pause ==
    /\ loop = "stepping"
    /\ BudgetSpent
    /\ loop' = "returning"
    /\ retry' = NoRequest
    /\ UNCHANGED <<queued, session, pending, ghosts>>

Stepping == loop = "stepping" /\ ~BudgetSpent

(* The inputs are incomplete.  A stream that awaits its value is asked for; *)
(* with none, the request just answered is made again; with none either the *)
(* input has ended: a bounded run stops, any other asks whether to go on.   *)
Lack ==
    /\ Stepping
    /\ ~Complete
    /\ ReadInputs
    /\ \/ \E c \in Console :
            console'[c].awaiting /\ pending' = ValueOf(c, time_point)
       \/ /\ \A c \in Console : ~console'[c].awaiting
          /\ pending' = IF retry # NoRequest THEN retry
                        ELSE IF steps_to_run # Unbounded THEN pending
                        ELSE Gate
    /\ retry' = NoRequest
    /\ loop' = "returning"
    /\ UNCHANGED <<queued, running, time_point, steps_to_run, steps_done, need,
                   ghosts>>

(* The bookkeeping of a completed step.  It may revise the specification:   *)
(* then console streams are made anew.  The next step reads other streams.  *)
Completed ==
    /\ Stepping
    /\ Complete
    /\ time_point < MaxTime
    /\ time_point' = time_point + 1
    /\ need' \in SUBSET Streams
    /\ last' = [at |-> time_point, lines |-> [s \in need |-> Line(s)]]
    /\ ran' = ran + 1
    /\ \/ ReadInputs
       \/ /\ console' = [c \in Console |-> Fresh]
          /\ file' = [f \in Files |-> IF f \in Read THEN Get(f).st ELSE file[f]]
    /\ UNCHANGED <<queued, running, steps_to_run, answered, budget>>

(* A step that api::step reports as done. *)
StepDone ==
    /\ Completed
    /\ steps_done' = steps_done + 1
    /\ retry' = NoRequest
    /\ UNCHANGED <<loop, pending>>

(* Faulty variant: the paused step of a bounded run is not counted. *)
CountPaused_Not == steps_done

(* steps_done after a step that completed and paused. *)
CountPaused == IF steps_to_run # Unbounded THEN steps_done + 1 ELSE steps_done

(* A step that read nothing pauses when it completed, unless the run is     *)
(* still warming up (auto_continue): the user is asked whether to go on, or *)
(* a bounded run goes on.                                                   *)
StepPaused ==
    /\ Completed
    /\ need = {}
    /\ steps_done' = CountPaused
    /\ IF steps_to_run # Unbounded
       THEN UNCHANGED <<loop, pending>>
       ELSE loop' = "returning" /\ pending' = IF retry # NoRequest THEN retry ELSE Gate
    /\ retry' = NoRequest

(* A step that fails for another reason than a missing input, or one whose  *)
(* output cannot be written: the session ends.                              *)
StepFails ==
    /\ Stepping
    /\ NoSession
    /\ NothingYet
    /\ retry' = NoRequest
    /\ loop' = "returning"
    /\ budget' = Unbounded
    /\ ran' = 0
    /\ pending' = Disowned(pending)
    /\ UNCHANGED queued

(* Back in eval().  When the bdd node table filled up meanwhile the run is  *)
(* finished, whatever it was about to ask.                                  *)
Return ==
    /\ loop = "returning"
    /\ loop' = "prompt"
    /\ UNCHANGED <<queued, session, pending, retry, ghosts>>
Exhausted ==
    /\ loop = "returning"
    /\ loop' = "prompt"
    /\ NoSession
    /\ NothingYet
    /\ pending' = NoRequest
    /\ budget' = Unbounded
    /\ ran' = 0
    /\ UNCHANGED <<queued, retry>>

Loop == Pause \/ Lack \/ StepDone \/ StepPaused \/ StepFails \/ Return \/ Exhausted

Commands ==
    \/ \E n \in 1..MaxSteps \cup {Unbounded} : RunFormula(n) \/ RunMore(n)
    \/ Stop
    \/ OtherCommand

Next ==
    \/ Commands
    \/ \E ok \in BOOLEAN : Answer(ok)
    \/ Continue
    \/ Quit
    \/ Loop

Spec == Init /\ [][Next]_vars

(* The loop and the commands of a line run without waiting for anything,    *)
(* and a user who is asked for a value over and over sooner or later types  *)
(* one that parses.                                                         *)
FairSpec ==
    /\ Spec
    /\ WF_vars(Loop)
    /\ WF_vars(queued > 0 /\ Commands)
    /\ SF_vars(Answer(TRUE))

-----------------------------------------------------------------------------
(* `run N steps` runs N steps, no more, however often a step was entered    *)
(* again, paused or asked for a value, and N further ones when it continues *)
(* a session (repl_evaluator.tmpl.h:831, 851).                              *)
BudgetExact ==
    running => /\ budget = Unbounded <=> steps_to_run = Unbounded
               /\ budget # Unbounded => /\ ran <= budget
                                        /\ steps_to_run - steps_done = budget - ran

(* A console value is asked for the step about to be taken, and not once    *)
(* the user gave that stream a value for it that parses: a step entered     *)
(* again for another stream hands the earlier answers out again             *)
(* (repl_pending_input_stream::get, and "a rejected value is asked again",  *)
(* repl_evaluator.tmpl.h:926).  Not so a step that reads a file that has    *)
(* ended: there continue_running makes its last request again               *)
(* (repl_evaluator.tmpl.h:928) although the value was accepted.             *)
InputEnded == \E f \in Files \cap need : file[f].cursor = Rows[f]
NotAskedAgainBeforeTheEnd ==
    pending.kind = "stream_value" /\ pending.own /\ ~InputEnded =>
        /\ pending.at = time_point
        /\ <<pending.stream, time_point>> \notin answered

(* A completed step used, of each console stream it reads, the value typed  *)
(* for that very step.                                                      *)
StepUsesItsAnswer ==
    \A c \in Console : c \in DOMAIN last.lines =>
        last.lines[c] = [ok |-> TRUE, tag |-> last.at]

(* README:2606 and io_context.h:214: the first read of an input file takes  *)
(* its first row, and each step after it has a row of its own, skipped when *)
(* the step does not read the stream.  The row a completed step used is     *)
(* that of its time point: next_row - cursor is the step of row 0.          *)
FileRowOfItsStep ==
    \A f \in Files : f \in DOMAIN last.lines =>
        last.lines[f].tag = last.at - (file[f].next_row - file[f].cursor)

(* A bounded run comes back to the prompt, with its steps done or its       *)
(* session gone, if the user answers what it asks and its files last        *)
(* (the loop of continue_running, repl_evaluator.tmpl.h:829).               *)
Back == loop = "prompt" /\ (BudgetSpent \/ pending = NoRequest)
BoundedRunReturns ==
    (running /\ budget # Unbounded)
        ~> (Back \/ budget = Unbounded \/ InputEnded)
=============================================================================
