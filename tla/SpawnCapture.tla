---------------------------- MODULE SpawnCapture ----------------------------
(***************************************************************************)
(* spawn_capture (spawn_capture.tmpl.h, POSIX): a command started as the   *)
(* leader of a process group, its stdout drained through a pipe, with a    *)
(* watchdog thread that signals the group when it takes too long.          *)
(* Processes: the caller, the watchdog, the command and one process the    *)
(* command may start.                                                      *)
(***************************************************************************)
EXTENDS Naturals

CONSTANTS
    Polls,          \* polls of the watchdog before it fires
    GracePolls      \* and between its two signals

ASSUME SpawnAssumption ==
    /\ Polls \in Nat \ {0}
    /\ GracePolls \in Nat

VARIABLES
    main,       \* where the caller stands
    killer,     \* where the watchdog thread stands
    polls,      \* its loop counter
    done,       \* the two atomics
    fired,
    command,    \* the group's leader
    helper,     \* the process it started
    holders,    \* the processes that hold the write end of the pipe
    cut,        \* history: the watchdog ended one of them
    unread,     \* history: the pipe was given up with an error
    outcome     \* what the call returned, or "none"

procs == <<command, helper, holders, cut>>
spawn_vars  == <<main, killer, polls, done, fired, procs, unread, outcome>>

SpawnInit ==
    /\ main = "calling"
    /\ killer = "none"
    /\ polls = 0
    /\ done = FALSE
    /\ fired = FALSE
    /\ command = "none"
    /\ helper = "none"
    /\ holders = {}
    /\ cut = FALSE
    /\ unread = FALSE
    /\ outcome = "none"

-----------------------------------------------------------------------------
(* The caller *)

(* The pipe or the process cannot be made, or there is no such command. *)
NotSpawned ==
    /\ main = "calling"
    /\ main' = "returned"
    /\ outcome' = "not_spawned"
    /\ UNCHANGED <<killer, polls, done, fired, procs, unread>>

(* The command is started, and with a timeout its watchdog. *)
SpawnCommand(timed) ==
    /\ main = "calling"
    /\ main' = "draining"
    /\ killer' = IF timed THEN "waiting" ELSE "none"
    /\ command' = "running"
    /\ holders' = {"command"}
    /\ UNCHANGED <<polls, done, fired, helper, cut, unread, outcome>>

(* read() returns 0 once nobody holds the write end. *)
Drained ==
    /\ main = "draining"
    /\ holders = {}
    /\ done' = TRUE
    /\ main' = "joining"
    /\ UNCHANGED <<killer, polls, fired, procs, unread, outcome>>

(* read() fails, other than by a signal: what it returned so far is kept. *)
ReadFails ==
    /\ main = "draining"
    /\ unread' = TRUE
    /\ done' = TRUE
    /\ main' = "joining"
    /\ UNCHANGED <<killer, polls, fired, procs, outcome>>

(* Faulty variant: the command is reaped without joining the watchdog. *)
Joined_NotWaited == TRUE

(* The watchdog thread, if there was one, is over. *)
Joined == killer \in {"none", "ended"}

Join ==
    /\ main = "joining"
    /\ Joined
    /\ main' = "reaping"
    /\ UNCHANGED <<killer, polls, done, fired, procs, unread, outcome>>

(* Faulty variant: the exit status alone decides. *)
Outcomes_StatusOnly == IF command = "signalled" THEN {"signalled"} ELSE {"output", "unexpected"}

(* What the call answers of the command reaped. *)
Outcomes ==
    IF fired THEN {"timed_out"}
    ELSE IF command = "signalled" THEN {"signalled"}
    ELSE {"output", "unexpected"}

(* waitpid() returns. *)
ReapCommand ==
    /\ main = "reaping"
    /\ command \in {"exited", "signalled"}
    /\ outcome' \in Outcomes
    /\ command' = "reaped"
    /\ main' = "returned"
    /\ UNCHANGED <<killer, polls, done, fired, helper, holders, cut, unread>>

Caller == Drained \/ Join \/ ReapCommand

-----------------------------------------------------------------------------
(* The watchdog *)

(* A poll of wait(n): done is looked at before each sleep. *)
Sleep(at, n) ==
    /\ killer = at
    /\ ~done
    /\ polls < n
    /\ polls' = polls + 1
    /\ UNCHANGED <<main, killer, done, fired, procs, unread, outcome>>

(* wait(n) returns whether the time passed without done. *)
WaitOver(at, n, next) ==
    /\ killer = at
    /\ done \/ polls = n
    /\ polls' = 0
    /\ killer' = IF done THEN "ended" ELSE next
    /\ UNCHANGED <<main, done, fired, procs, unread, outcome>>

Fire ==
    /\ killer = "firing"
    /\ fired' = TRUE
    /\ killer' = "terminating"
    /\ UNCHANGED <<main, polls, done, procs, unread, outcome>>

Group == {p \in {"command", "helper"} :
            IF p = "command" THEN command = "running" ELSE helper = "running"}

(* Faulty variant: the signal goes to the command alone. *)
Reached_Leader == Group \cap {"command"}

(* The processes a signal to the group reaches. *)
Reached == Group

(* The signal ends the processes `ended`. *)
Ends(ended) ==
    /\ command' = IF "command" \in ended THEN "signalled" ELSE command
    /\ helper' = IF "helper" \in ended THEN "gone" ELSE helper
    /\ holders' = holders \ ended
    /\ cut' = (cut \/ ended # {})

(* SIGTERM, which a process may ignore. *)
Terminate ==
    /\ killer = "terminating"
    /\ \E ended \in SUBSET Reached : Ends(ended)
    /\ killer' = "grace"
    /\ UNCHANGED <<main, polls, done, fired, unread, outcome>>

(* SIGKILL *)
Kill ==
    /\ killer = "killing"
    /\ Ends(Reached)
    /\ killer' = "ended"
    /\ UNCHANGED <<main, polls, done, fired, unread, outcome>>

Killer ==
    \/ Sleep("waiting", Polls) \/ WaitOver("waiting", Polls, "firing")
    \/ Fire \/ Terminate
    \/ Sleep("grace", GracePolls) \/ WaitOver("grace", GracePolls, "killing")
    \/ Kill

-----------------------------------------------------------------------------
(* The command and its helper *)

StartHelper ==
    /\ command = "running"
    /\ helper = "none"
    /\ helper' = "running"
    /\ holders' = IF "command" \in holders THEN holders \cup {"helper"} ELSE holders
    /\ UNCHANGED <<main, killer, polls, done, fired, command, cut, unread, outcome>>

CommandEnds ==
    /\ command = "running"
    /\ command' \in {"exited", "signalled"}
    /\ holders' = holders \ {"command"}
    /\ UNCHANGED <<main, killer, polls, done, fired, helper, cut, unread, outcome>>

HelperEnds ==
    /\ helper = "running"
    /\ helper' = "gone"
    /\ holders' = holders \ {"helper"}
    /\ UNCHANGED <<main, killer, polls, done, fired, command, cut, unread, outcome>>

(* stdout is closed, or turned to a file. *)
CloseStdout ==
    /\ command = "running"
    /\ "command" \in holders
    /\ holders' = holders \ {"command"}
    /\ UNCHANGED <<main, killer, polls, done, fired, command, helper, cut, unread, outcome>>

SpawnNext ==
    \/ NotSpawned
    \/ \E timed \in BOOLEAN : SpawnCommand(timed)
    \/ Caller \/ ReadFails
    \/ Killer
    \/ StartHelper \/ CommandEnds \/ HelperEnds \/ CloseStdout

SpawnSpec == SpawnInit /\ [][SpawnNext]_spawn_vars

(* The caller and the watchdog are scheduled; the command may run on. *)
SpawnFairSpec == SpawnSpec /\ WF_spawn_vars(Caller) /\ WF_spawn_vars(Killer)

-----------------------------------------------------------------------------
(* A signal is sent to the group only while its leader is not reaped: "after *)
(* waitpid returns the pid may already belong to another process, and a poll *)
(* firing in that window would signal it instead"                            *)
(* (spawn_capture.tmpl.h:420).                                               *)
SignalsReachTheGroup ==
    killer \in {"firing", "terminating", "grace", "killing"} => command # "reaped"

(* Output is returned as the command's only when it is all of it: nobody     *)
(* that could still write holds the pipe, and the watchdog ended no one.     *)
(* Not so when read() failed: the drain loop ends there, too                 *)
(* (spawn_capture.tmpl.h:416), and what it had is returned as the output.    *)
OutputIsWhole == outcome = "output" => ~cut /\ (holders = {} \/ unread)

(* A call with a timeout returns, whatever the command and the process it    *)
(* started do: ignore SIGTERM, outlive each other, hold the pipe.  Not so    *)
(* when the command runs on after the drain, having closed its stdout or     *)
(* with the pipe given up: the watchdog is stopped                           *)
(* (spawn_capture.tmpl.h:424), and waitpid() has no limit.                   *)
RunsOn == command = "running" /\ ("command" \notin holders \/ unread)
CaptureReturns ==
    (killer = "waiting") ~> (main = "returned" \/ RunsOn)
=============================================================================
