------------------------------ MODULE Commands ------------------------------
(* SAL commands and events, tasks of the ControllerThread: which             *)
(* acknowledgements the sender of a command gets. ControllerThread has the   *)
(* queue, its times and its mutex; here a task that is queued is due.        *)
(*                                                                           *)
(* Outside: SAL, which hands over each command once, and the subclasses,     *)
(* whose validate, execute and received may throw.                           *)
EXTENDS Naturals, Sequences

CONSTANTS
    SALCommands,    \* the commands, by their ids
    Validated,      \* those of a SAL_COMMAND_CLASS_validate
    Events          \* of a SAL_EVENT_CLASS

ASSUME CommandsAssumption ==
    /\ Validated \subseteq SALCommands
    /\ SALCommands \cap Events = {}

Received == SALCommands \cup Events

VARIABLES
    place,      \* of each task: "SAL", "refused", "queued", "running",
                \* "executed", "finished"
    acks,       \* of each command, what ackCommand_... was called with
    unguarded,  \* a task has thrown and the controller has not waited or run
                \* another one since: it is at the queue without runMutex
    controller, \* "runs", "stops" (keepRunning is false), "ended", or
                \* "undefined": two threads have been at the queue at once
    outcome     \* of each command: "none", "invalid", "thrown" or "done"

commands == << place, acks, unguarded, controller, outcome >>

CommandsInit ==
    /\ place = [t \in Received |-> "SAL"]
    /\ acks = [c \in SALCommands |-> << >>]
    /\ unguarded = FALSE
    /\ controller = "runs"
    /\ outcome = [c \in SALCommands |-> "none"]

Put(t, where) == place' = [place EXCEPT ![t] = where]
Ended(t, how) == outcome' = IF t \in Events THEN outcome ELSE [outcome EXCEPT ![t] = how]
Ack(t, ack) == acks' = IF t \in Events THEN acks ELSE [acks EXCEPT ![t] = Append(@, ack)]

\* Mutant: what Task does.
ForgetsException(t) == UNCHANGED acks

\* Command::reportException; Task's does nothing for events.
reportException(t) == Ack(t, "FAILED")

----------------------------------------------------------------------------
\* ControllerThread::enqueue. A task that is not valid is forgotten, without an
\* acknowledgement when validate has returned false.
enqueue(t) ==
    /\ place[t] = "SAL"
    /\ Put(t, "queued")
    /\ controller' \in {controller} \cup IF unguarded THEN {"undefined"} ELSE {}
    /\ UNCHANGED << acks, unguarded, outcome >>

refuse(t) ==
    /\ t \in Validated
    /\ place[t] = "SAL"
    /\ Put(t, "refused")
    /\ \/ UNCHANGED acks
       \/ reportException(t)
    /\ Ended(t, "invalid")
    /\ UNCHANGED << unguarded, controller >>

InHand == { t \in Received : place[t] \in {"running", "executed"} }

\* Command::run: ackInProgress,
Run(t) ==
    /\ place[t] = "queued"
    /\ InHand = {}
    /\ Put(t, "running")
    /\ Ack(t, "INPROGRESS")
    /\ unguarded' = FALSE
    /\ UNCHANGED << controller, outcome >>

\* execute, or received of an event,
Execute(t) ==
    /\ place[t] = "running"
    /\ Put(t, "executed")
    /\ Ended(t, "done")
    /\ UNCHANGED << acks, unguarded, controller >>

\* which may throw,
ExecuteThrows(t) ==
    /\ place[t] = "running"
    /\ Put(t, "finished")
    /\ Ended(t, "thrown")
    /\ reportException(t)
    /\ unguarded' = TRUE
    /\ UNCHANGED controller

\* and ackComplete.
Complete(t) ==
    /\ place[t] = "executed"
    /\ Put(t, "finished")
    /\ Ack(t, "COMPLETE")
    /\ UNCHANGED << unguarded, controller, outcome >>

\* The loop of ControllerThread::run comes to its wait, which gives up the mutex
\* whether it was held or not,
Wait ==
    /\ unguarded /\ InHand = {}
    /\ unguarded' = FALSE
    /\ UNCHANGED << place, acks, controller, outcome >>

\* or ends. What is queued then, or later, stays there.
stop ==
    /\ controller = "runs"
    /\ controller' = "stops"
    /\ UNCHANGED << place, acks, unguarded, outcome >>

LoopEnds ==
    /\ controller = "stops" /\ InHand = {}
    /\ controller' = "ended"
    /\ UNCHANGED << place, acks, unguarded, outcome >>

----------------------------------------------------------------------------
ControllerStep ==
    /\ controller \in {"runs", "stops"}
    /\ \/ \E t \in Received : Run(t) \/ Execute(t) \/ ExecuteThrows(t) \/ Complete(t)
       \/ Wait
       \/ LoopEnds

CommandsNext ==
    \/ controller # "undefined" /\ \E t \in Received : enqueue(t) \/ refuse(t)
    \/ ControllerStep
    \/ stop

CommandsSpec == CommandsInit /\ [][CommandsNext]_commands

CommandsFairness == WF_commands(ControllerStep)

----------------------------------------------------------------------------
Final == {"COMPLETE", "FAILED"}

\* No command gets a second answer or anything after it, COMPLETE only one that
\* was executed to its end, FAILED only another.
OneAnswer ==
    \A c \in SALCommands : \A i \in DOMAIN acks[c] :
        /\ acks[c][i] \in Final => i = Len(acks[c])
        /\ acks[c][i] = "COMPLETE" => outcome[c] = "done"
        /\ acks[c][i] = "FAILED" => outcome[c] \in {"thrown", "invalid"}

\* Whoever has sent a command that was queued gets an answer, and only one,
\* whether or not it or any other task throws, unless the controller is stopped
\* or was disturbed after such a task.
Answered ==
    /\ []OneAnswer
    /\ \A c \in SALCommands :
          place[c] = "queued" ~>
              \/ \E i \in DOMAIN acks[c] : acks[c][i] \in Final
              \/ controller \in {"ended", "undefined"}
=============================================================================
