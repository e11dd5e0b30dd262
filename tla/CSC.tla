-------------------------------- MODULE CSC --------------------------------
(* A Commandable SAL Component (CSC.cpp): the start as a daemon, confirmed  *)
(* to the process that started it over a pipe, the life of the main thread, *)
(* its threads, its interrupts and its end.                                 *)
(*                                                                          *)
(* Parent is the process that forks, waits for the confirmation and exits.  *)
(* Main is the main thread of the daemon or, without a PID file, of the     *)
(* only process. init, runLoop and done are the subclass's and outside the  *)
(* repository; what they do is taken from CSC.h and the tests.              *)
EXTENDS Application, InterruptWatcher

VARIABLES
    parent,     \* where the process that forks is; "none" in foreground
    answer,     \* what it read from the pipe
    pipe,       \* what is in the pipe
    readers,    \* who has its reading end open: "parent", "daemon"
    writers,    \* who has its writing end open
    main,       \* where run is
    reported,   \* auxiliary: "OK" or "failed" when the daemon has said so to
                \* its parent, "unheard" when to nobody
    fpga,       \* "none", "open", "closed" or "finalized"
    exitRequested,  \* _exit_requested of ControllerThread, or _keep_running
                    \* is false
    controller  \* the controller thread: "none", "running" or "ended"

start == << parent, answer, pipe, readers, writers, reported >>
life == << main, fpga, exitRequested, controller >>
vars == << application, interrupts, start, life >>

\* What a read that finds no data returns when no writing end is open
EOF == "EOF"

CSCInit ==
    /\ ApplicationInit
    /\ InterruptInit
    /\ parent = "none"
    /\ answer = EOF
    /\ pipe = EOF
    /\ readers = {}
    /\ writers = {}
    /\ main = "run"
    /\ reported = "none"
    /\ fpga = "none"
    /\ exitRequested = FALSE
    /\ controller = "none"

Terminated == {"exited", "died"}
Alive == main \notin Terminated

\* Phases of main in which the daemon is set up: up to the end of init
Starting == {"run", "daemonized", "init"}

----------------------------------------------------------------------------
(* _daemonize, in the process it is called in.                              *)

Foreground ==
    /\ main = "run"
    /\ parent = "none"
    /\ main' = "daemonized"
    /\ UNCHANGED << application, interrupts, start, fpga, exitRequested, controller >>

\* Mutant: the daemon leaves its copy of the reading end open.
ForkBothRead ==
    /\ main = "run"
    /\ parent' = "forked"
    /\ readers' = {"parent", "daemon"}
    /\ writers' = {"parent", "daemon"}
    /\ main' = "daemonized"
    /\ UNCHANGED << application, interrupts, answer, pipe, reported, fpga,
                    exitRequested, controller >>

\* No such user or group, no pipe, no process: exit. Otherwise both have both
\* ends, and the daemon closes the one it does not need.
Fork ==
    /\ main = "run"
    /\ \/ /\ parent' = "forked"
          /\ readers' = {"parent"}
          /\ writers' = {"parent", "daemon"}
          /\ main' = "daemonized"
       \/ /\ parent' = "failure"
          /\ main' = "exited"
          /\ UNCHANGED << readers, writers >>
    /\ UNCHANGED << application, interrupts, answer, pipe, reported, fpga,
                    exitRequested, controller >>

\* The process exits, and with it the ends it has open.
ParentExits(status) ==
    /\ parent' = status
    /\ readers' = readers \ {"parent"}
    /\ writers' = writers \ {"parent"}

\* The writing end is closed and the PID file written, or not; then the alarm
\* is set.
WritePID ==
    /\ parent = "forked"
    /\ \/ parent' = "reading" /\ writers' = writers \ {"parent"} /\ UNCHANGED readers
       \/ ParentExits("failure")
    /\ UNCHANGED << application, interrupts, answer, pipe, reported, life >>

Read ==
    /\ parent = "reading"
    /\ pipe # EOF \/ writers = {}
    /\ answer' = pipe
    /\ parent' = "answered"
    /\ UNCHANGED << application, interrupts, pipe, readers, writers, reported, life >>

Confirmed ==
    /\ parent = "answered"
    /\ ParentExits(IF answer = "OK" THEN "success" ELSE "failure")
    /\ UNCHANGED << application, interrupts, answer, pipe, reported, life >>

\* Mutant: the alarm is not set.
NoAlarm == FALSE /\ UNCHANGED vars

\* SIGALRM, which is not called off when an answer was read
Alarm ==
    /\ parent \in {"reading", "answered"}
    /\ ParentExits("failure")
    /\ UNCHANGED << application, interrupts, answer, pipe, reported, life >>

ParentProgress == WritePID \/ Read \/ Confirmed
ParentStep == ParentProgress \/ Alarm

----------------------------------------------------------------------------
(* The end of the process by an exception that leaves run, or by a signal:  *)
(* no destructor, no close of the FPGA.                                     *)

Die ==
    /\ main' = "died"
    /\ writers' = writers \ {"daemon"}

\* daemonOK and daemonFailed. In foreground, or when it was done before, there
\* is nothing to write to. Writing to a pipe that nobody reads is SIGPIPE.
Report(what) ==
    IF "daemon" \notin writers
    THEN UNCHANGED << pipe, writers, reported, main >>
    ELSE IF readers = {}
    THEN Die /\ UNCHANGED << pipe, reported >>
    ELSE /\ pipe' = what
         /\ reported' = IF "parent" \in readers THEN what ELSE "unheard"
         /\ writers' = writers \ {"daemon"}
         /\ UNCHANGED main

daemonOK ==
    /\ main = "init"
    /\ Report("OK")
    /\ UNCHANGED << application, interrupts, parent, answer, readers, fpga,
                    exitRequested, controller >>

daemonFailed ==
    /\ main = "init"
    /\ Report("failed")
    /\ UNCHANGED << application, interrupts, parent, answer, readers, fpga,
                    exitRequested, controller >>

----------------------------------------------------------------------------
(* run.                                                                     *)

Goto(phase) ==
    /\ main' = phase
    /\ UNCHANGED << start, exitRequested >>

\* A call made by run throws, and nothing catches it.
Throw ==
    /\ Die
    /\ UNCHANGED << parent, answer, pipe, readers, reported, exitRequested >>

initializeAndOpen ==
    /\ main = "daemonized"
    /\ \/ Goto("init") /\ fpga' = "open"
       \/ Throw /\ UNCHANGED fpga
    /\ UNCHANGED << application, interrupts, controller >>

\* What the subclass does in init: handlers, watcher, controller thread and
\* threads, in this order here, and the report.
InitInterrupts ==
    /\ main = "init"
    /\ \/ \E i \in Handled : setInterruptHandler(i) /\ UNCHANGED controller
       \/ /\ handlers = Handled
          /\ startInterruptWatcherTask
          /\ controller' = "running"
    /\ UNCHANGED << application, start, main, fpga, exitRequested >>

InitThreads ==
    /\ main = "init"
    /\ controller = "running"
    /\ (\E t \in Threads : addThread(t)) \/ ThreadAdded
    /\ UNCHANGED << interrupts, start, life >>

\* addThread throws out of init and run, or init says so and gives up.
InitFails ==
    /\ main = "init"
    /\ AddThrows
    /\ \/ Throw
       \/ /\ Report("failed")
          /\ exitRequested' = TRUE
          /\ UNCHANGED << parent, answer, readers >>
    /\ UNCHANGED << interrupts, fpga, controller >>

InitReturns ==
    /\ main = "init"
    /\ call = "none"
    /\ controller = "running"
    /\ writers \cap {"daemon"} = {}
    /\ Goto("loop")
    /\ UNCHANGED << application, interrupts, fpga, controller >>

\* SIGINT or SIGTERM, stop(), or the exitControl command
RequestExit ==
    /\ ~exitRequested
    /\ main \notin {"run"} \cup Terminated
    /\ exitRequested' = TRUE
    /\ UNCHANGED << application, interrupts, start, main, fpga, controller >>

\* runLoop returns 0 when the exit was requested.
LoopEnds ==
    /\ main = "loop"
    /\ exitRequested
    /\ Goto("stopping")
    /\ UNCHANGED << application, interrupts, fpga, controller >>

StopThreads ==
    /\ main = "stopping"
    /\ \/ /\ stopAllThreads \/ StopThread \/ JoinThread \/ ThreadStopped
          /\ Goto("stopping")
       \/ AllStopped /\ Goto("close")
       \/ StopThrows /\ Throw
    /\ UNCHANGED << interrupts, fpga, controller >>

\* done, and close
close ==
    /\ main = "close"
    /\ \/ Goto("finalize") /\ fpga' = "closed"
       \/ Throw /\ UNCHANGED fpga
    /\ UNCHANGED << application, interrupts, controller >>

finalize ==
    /\ main = "finalize"
    /\ \/ Goto("exit") /\ fpga' = "finalized"
       \/ Throw /\ UNCHANGED fpga
    /\ UNCHANGED << application, interrupts, controller >>

\* exit, or the return from main: ~ControllerThread stops and deletes the
\* watcher, then stops itself.
DeleteWatcher ==
    /\ main = "exit"
    /\ StopWatcher
    /\ Goto("exit")
    /\ UNCHANGED << application, fpga, controller >>

\* It does not end within 2 s, and stop throws in a destructor.
WatcherStays ==
    /\ main = "exit"
    /\ ~watching /\ watcher # "ended"
    /\ Throw
    /\ UNCHANGED << application, interrupts, fpga, controller >>

\* It waits for the interrupts of an FPGA that run has closed: an exception in
\* a thread is the end of the process.
WatcherThrows ==
    /\ Alive
    /\ watcher = "waiting" /\ watching /\ fpga # "open"
    /\ Throw
    /\ UNCHANGED << application, interrupts, fpga, controller >>

exit ==
    /\ main = "exit"
    /\ watcher = "ended"
    /\ controller' = "ended"
    /\ main' = "exited"
    /\ writers' = writers \ {"daemon"}
    /\ UNCHANGED << application, interrupts, parent, answer, pipe, readers,
                    reported, fpga, exitRequested >>

MainProgress ==
    LoopEnds \/ StopThreads \/ close \/ finalize \/ DeleteWatcher \/ exit

InitStep ==
    \/ Foreground \/ Fork \/ initializeAndOpen \/ InitInterrupts \/ InitThreads
    \/ InitFails \/ daemonOK \/ daemonFailed \/ InitReturns

Unchanged == UNCHANGED << start, life >>

WorkerStep(t) == Alive /\ ThreadStep(t) /\ UNCHANGED interrupts /\ Unchanged

Watching == Alive /\ WatcherStep /\ UNCHANGED application /\ Unchanged

Controlling ==
    /\ Alive /\ controller = "running"
    /\ Handles
    /\ UNCHANGED application /\ Unchanged

FPGARaises ==
    /\ main = "loop"
    /\ \E i \in Interrupt : Raise(i)
    /\ UNCHANGED application /\ Unchanged

Next ==
    \/ ParentStep \/ InitStep \/ RequestExit \/ MainProgress
    \/ (\E t \in Threads : WorkerStep(t))
    \/ WatcherStays \/ WatcherThrows \/ Watching \/ Controlling \/ FPGARaises

Spec == CSCInit /\ [][Next]_vars

\* The parent, the main thread once it is in its loop, and the threads go on;
\* the alarm, and a thread that is waited for with a timeout, are never late
\* for ever. Nothing is assumed of init.
Fairness ==
    /\ WF_vars(ParentProgress)
    /\ WF_vars(Alarm)
    /\ WF_vars(MainProgress)
    /\ \A t \in Threads :
          WF_vars(Alive /\ ThreadProgress(t) /\ UNCHANGED interrupts /\ Unchanged)
    /\ WF_vars(Watching)
    /\ WF_vars(Controlling)

FairSpec == Spec /\ Fairness

----------------------------------------------------------------------------
(* Properties.                                                              *)

TypeOK ==
    /\ ApplicationTypeOK
    /\ InterruptTypeOK
    /\ parent \in {"none", "forked", "reading", "answered", "success", "failure"}
    /\ answer \in {"OK", "failed", EOF}
    /\ pipe \in {"OK", "failed", EOF}
    /\ readers \subseteq {"parent", "daemon"}
    /\ writers \subseteq {"parent", "daemon"}
    /\ main \in Starting \cup {"loop", "stopping", "close", "finalize", "exit"}
               \cup Terminated
    /\ reported \in {"none", "OK", "failed", "unheard"}
    /\ fpga \in {"none", "open", "closed", "finalized"}
    /\ exitRequested \in BOOLEAN
    /\ controller \in {"none", "running", "ended"}

\* The parent confirms the start only of a daemon that said it is running, and
\* a daemon whose parent has given up does not come to run unknown to anybody:
\* its report is the end of it.
StartAgreed ==
    /\ parent = "success" => reported = "OK"
    /\ parent # "none" /\ main \notin Starting \cup Terminated =>
          reported \in {"OK", "failed"}

\* When the FPGA is closed none of the application's threads is in a call of
\* it, or will be.
ClosedFPGAUnused ==
    fpga \in {"closed", "finalized"} =>
        \A t \in Threads : worker[t] \in {"none", "ended"}

\* Who starts the daemon gets an answer, whatever the daemon does.
ParentAnswers == parent = "forked" ~> parent \in {"success", "failure"}

\* A component that runs and has to exit does so, though its threads may be
\* waiting for the mutex that the main thread holds to stop them. One thing
\* alone can keep it: a thread that was added, whose start timed out, and that
\* has not begun when it is stopped, which stop then joins for ever.
ExitsOnRequest == main = "loop" /\ exitRequested ~> ~Alive \/ Stuck

\* An interrupt that has a handler is served, unless the application is ending,
\* though others have none and nobody acknowledges those.
InterruptsServed ==
    \A i \in Handled : i \in unserved ~> i \notin unserved \/ main # "loop"

=============================================================================
