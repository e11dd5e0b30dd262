-------------------------- MODULE InterruptWatcher --------------------------
(* How the interrupts of the FPGA are served: the interrupt watcher thread  *)
(* waits for any of them and enqueues a task, which the controller thread   *)
(* runs and which calls the handlers (InterruptWatcherTask.cpp,             *)
(* ControllerThread::checkInterrupts).                                      *)
(*                                                                          *)
(* The watcher does not acknowledge interrupts, a handler does: until then  *)
(* it finds them again and enqueues more tasks, as fast as it can. The      *)
(* queue is modelled in ControllerThread, and so is what an exception of a  *)
(* handler leads to; the watcher's tasks leave it in order of their times.  *)
EXTENDS Naturals, Sequences

CONSTANTS
    CRIO_INTERRUPTS,    \* their number
    Handled,            \* those the application has a handler for
    MaxTasks            \* bound: tasks of the watcher in the queue

Interrupt == 1 .. CRIO_INTERRUPTS

ASSUME InterruptAssumption ==
    /\ CRIO_INTERRUPTS \in Nat
    /\ Handled \subseteq Interrupt
    /\ MaxTasks \in Nat \ {0}

VARIABLES
    irqs,           \* asserted and not acknowledged
    unserved,       \* auxiliary: those asserted since their handler looked last
    watcher,        \* "none", "waiting", "triggered" or "ended"
    triggered,      \* _triggeredInterrupts
    watching,       \* keepRunning of the watcher
    handlers,       \* those _interrupt_handlers has a handler for
    tasks,          \* the InterruptWatcherTasks in the queue, their masks
    mask,           \* what checkInterrupts has still to look at
    acknowledged    \* the handler was called and acknowledged its interrupt

interrupts == << irqs, unserved, watcher, triggered, watching, handlers, tasks,
                 mask, acknowledged >>

InterruptInit ==
    /\ irqs = {}
    /\ unserved = {}
    /\ watcher = "none"
    /\ triggered = {}
    /\ watching = FALSE
    /\ handlers = {}
    /\ tasks = << >>
    /\ mask = {}
    /\ acknowledged = FALSE

\* The FPGA has an interrupt.
Raise(i) ==
    /\ i \notin irqs
    /\ irqs' = irqs \cup {i}
    /\ unserved' = unserved \cup {i}
    /\ UNCHANGED << watcher, triggered, watching, handlers, tasks, mask, acknowledged >>

----------------------------------------------------------------------------
(* ControllerThread, called while the application is set up.                *)

setInterruptHandler(i) ==
    /\ i \in Interrupt \ handlers
    /\ handlers' = handlers \cup {i}
    /\ UNCHANGED << irqs, unserved, watcher, triggered, watching, tasks, mask, acknowledged >>

startInterruptWatcherTask ==
    /\ watcher = "none"
    /\ watcher' = "waiting"
    /\ watching' = TRUE
    /\ UNCHANGED << irqs, unserved, triggered, handlers, tasks, mask, acknowledged >>

----------------------------------------------------------------------------
(* InterruptWatcherThread::run. A wait that is over after 20 ms begins      *)
(* again.                                                                   *)

waitOnIrqs ==
    /\ watcher = "waiting"
    /\ watching
    /\ irqs # {}
    /\ Len(tasks) < MaxTasks
    /\ triggered' = irqs
    /\ watcher' = "triggered"
    /\ UNCHANGED << irqs, unserved, watching, handlers, tasks, mask, acknowledged >>

enqueue ==
    /\ watcher = "triggered"
    /\ tasks' = Append(tasks, triggered)
    /\ watcher' = "waiting"
    /\ UNCHANGED << irqs, unserved, triggered, watching, handlers, mask, acknowledged >>

WatcherEnds ==
    /\ watcher = "waiting"
    /\ ~watching
    /\ watcher' = "ended"
    /\ UNCHANGED << irqs, unserved, triggered, watching, handlers, tasks, mask, acknowledged >>

WatcherStep == waitOnIrqs \/ enqueue \/ WatcherEnds

\* ~InterruptWatcherThread calls stop, and deletes it when it has ended.
StopWatcher ==
    /\ watching
    /\ watching' = FALSE
    /\ UNCHANGED << irqs, unserved, watcher, triggered, handlers, tasks, mask, acknowledged >>

----------------------------------------------------------------------------
(* The controller thread: InterruptWatcherTask::run and checkInterrupts,    *)
(* which looks at one interrupt after the other.                            *)

RunTask ==
    /\ mask = {}
    /\ tasks # << >>
    /\ mask' = Head(tasks)
    /\ tasks' = Tail(tasks)
    /\ UNCHANGED << irqs, unserved, watcher, triggered, watching, handlers, acknowledged >>

Lowest == CHOOSE i \in mask : \A j \in mask : i <= j

\* Mutant: one without a handler ends the loop.
NotHandledReturns ==
    /\ mask # {}
    /\ Lowest \notin handlers
    /\ mask' = {}
    /\ UNCHANGED << irqs, unserved, watcher, triggered, watching, handlers,
                    tasks, acknowledged >>

\* A warning. Nobody acknowledges it.
NotHandled ==
    /\ mask # {}
    /\ Lowest \notin handlers
    /\ mask' = mask \ {Lowest}
    /\ UNCHANGED << irqs, unserved, watcher, triggered, watching, handlers,
                    tasks, acknowledged >>

\* A handler acknowledges the interrupt and then does what it is for, as
\* FPGA::ilcCommands does.
Acknowledge ==
    /\ mask # {} /\ ~acknowledged
    /\ Lowest \in handlers
    /\ irqs' = irqs \ {Lowest}
    /\ acknowledged' = TRUE
    /\ UNCHANGED << unserved, watcher, triggered, watching, handlers, tasks,
                    mask >>

Serve ==
    /\ acknowledged
    /\ unserved' = unserved \ {Lowest}
    /\ mask' = mask \ {Lowest}
    /\ acknowledged' = FALSE
    /\ UNCHANGED << irqs, watcher, triggered, watching, handlers, tasks >>

Handles == RunTask \/ NotHandled \/ Acknowledge \/ Serve

----------------------------------------------------------------------------
InterruptTypeOK ==
    /\ irqs \subseteq Interrupt
    /\ unserved \subseteq Interrupt
    /\ watcher \in {"none", "waiting", "triggered", "ended"}
    /\ triggered \subseteq Interrupt
    /\ watching \in BOOLEAN
    /\ handlers \subseteq Interrupt
    /\ tasks \in Seq(SUBSET Interrupt)
    /\ mask \subseteq Interrupt
    /\ acknowledged \in BOOLEAN

=============================================================================
