--------------------------- MODULE ControllerThread -------------------------
(***************************************************************************)
(* LSST::cRIO::ControllerThread: a thread that executes timed tasks taken  *)
(* from a queue, and the threads ("clients") that call its public methods. *)
(*                                                                         *)
(* The mutex runMutex and the condition variable runCondition, both        *)
(* inherited from Thread, are explicit.  A client holds the mutex from     *)
(* Acquire to the step of its method's body; the controller releases it    *)
(* only around Task::run and inside runCondition.wait*.  A method's body   *)
(* and its unlock are one step, its notify_one, made after the unlock, is  *)
(* another.                                                                *)
(*                                                                         *)
(* A task that throws makes the code run on without the mutex.  Unlocking  *)
(* a std::mutex the thread does not own is undefined behaviour; with the   *)
(* pthread mutex of the cRIO build it releases the mutex, whoever holds    *)
(* it, and that is what the model does.                                    *)
(***************************************************************************)
EXTENDS TaskHeap

S == INSTANCE SequencesExt
F == INSTANCE FiniteSetsExt

CONSTANTS
  Clients,    \* threads that call the methods of ControllerThread
  Tasks,      \* the tasks, numbers that stand for addresses
  Throwing,   \* tasks whose run() may throw
  Invalid,    \* tasks whose validate() returns false or throws
  Calls,      \* the methods the clients call
  Delays,     \* enqueue_at is called with the clock plus one of these
  Waits,      \* what run() may return, DONT_RESCHEDULE aside
  MaxTime,    \* bound: the clock stops here
  MaxQueue,   \* bound: no enqueue_at beyond this length
  Controller, Nobody

Methods == {"enqueue_at", "remove", "clear", "stop", "start"}

ASSUME ControllerAssumption ==
  /\ Controller \notin Clients
  /\ Nobody \notin Clients \cup {Controller}
  /\ Tasks \subseteq Nat
  /\ Throwing \subseteq Tasks
  /\ Invalid \subseteq Tasks
  /\ Calls \subseteq Methods
  /\ Delays \subseteq Int
  /\ Waits \subseteq Nat
  /\ MaxTime \in Nat
  /\ MaxQueue \in Nat

DONT_RESCHEDULE == -1     \* Task.h: 0xFFFFFFFF
Never == -1               \* the deadline of runCondition.wait

VARIABLES
  mutex,        \* who holds runMutex
  keepRunning,
  queue,        \* _task_queue
  clock,        \* steady_clock
  pc,           \* of each client: "idle", the method it is in, or "notify"
  ctl,          \* program counter of the controller thread
  now,          \* _process_tasks: the time read on entry
  task,         \* _process_tasks: the entry in hand
  wait,         \* _process_tasks: what run() returned
  deadline,     \* run: until when runCondition waits
  notified,     \* a waiting controller was woken by notify_one
  thrown        \* auxiliary: some task has thrown

others     == <<clock, pc, thrown>>
controller == <<ctl, now, task, wait, deadline, thrown>>
vars == <<mutex, keepRunning, queue, clock, pc, ctl, now, task, wait,
          deadline, notified, thrown>>

NoEntry == [when |-> 0, task |-> 0]

Init == /\ mutex = Nobody
        /\ keepRunning = FALSE
        /\ queue = <<>>
        /\ clock = 0
        /\ pc = [c \in Clients |-> "idle"]
        /\ ctl = "stopped"
        /\ now = 0
        /\ task = NoEntry
        /\ wait = DONT_RESCHEDULE
        /\ deadline = Never
        /\ notified = FALSE
        /\ thrown = FALSE

Tick == /\ clock < MaxTime
        /\ clock' = clock + 1
        /\ UNCHANGED <<mutex, keepRunning, queue, pc, controller,
                       notified>>

-----------------------------------------------------------------------------
(* The clients.                                                            *)

(* std::lock_guard at the head of every method.  start goes on only when   *)
(* there is no thread: a call that finds one throws and changes nothing.   *)
Acquire(c, m) ==
  /\ pc[c] = "idle"
  /\ mutex = Nobody
  /\ m = "enqueue_at" => Len(queue) < MaxQueue
  /\ m = "start" => ctl = "stopped"
  /\ mutex' = c
  /\ pc' = [pc EXCEPT ![c] = m]
  /\ UNCHANGED <<keepRunning, queue, clock, controller, notified>>

(* The step of method m that unlocks and leaves the client at next.        *)
Leave(c, m, next) ==
  /\ pc[c] = m
  /\ pc' = [pc EXCEPT ![c] = next]
  /\ mutex' = Nobody

(* Mutant of EnqueueAt: the caller leaves without notify_one.              *)
EnqueueSilently(c) ==
  /\ Leave(c, "enqueue_at", "idle")
  /\ \E t \in Tasks, d \in Delays :
       /\ clock + d >= 0
       /\ queue' = IF t \in Invalid THEN queue
                   ELSE Push(queue, [when |-> clock + d, task |-> t])
  /\ UNCHANGED <<keepRunning, clock, controller, notified>>

(* enqueue is enqueue_at with a delay of 1 ms.  The caller computed the    *)
(* time before it got the mutex, so it can be past.                        *)
EnqueueAt(c) ==
  /\ Leave(c, "enqueue_at", "notify")
  /\ \E t \in Tasks, d \in Delays :
       /\ clock + d >= 0
       /\ queue' = IF t \in Invalid THEN queue
                   ELSE Push(queue, [when |-> clock + d, task |-> t])
  /\ UNCHANGED <<keepRunning, clock, controller, notified>>

RemoveTask(c) ==
  /\ Leave(c, "remove", "idle")
  /\ \E t \in Tasks : queue' = Remove(queue, t)
  /\ UNCHANGED <<keepRunning, clock, controller, notified>>

Clear(c) ==
  /\ Leave(c, "clear", "idle")
  /\ queue' = <<>>
  /\ UNCHANGED <<keepRunning, clock, controller, notified>>

(* Mutant of Stop: keepRunning is cleared without notify_one.              *)
StopSilently(c) ==
  /\ Leave(c, "stop", "idle")
  /\ keepRunning' = FALSE
  /\ UNCHANGED <<queue, clock, controller, notified>>

(* The first half of Thread::stop; waiting for the thread is in Thread.    *)
Stop(c) ==
  /\ Leave(c, "stop", "notify")
  /\ keepRunning' = FALSE
  /\ UNCHANGED <<queue, clock, controller, notified>>

(* Thread::start creates the thread; the wait for it is in Thread.         *)
Start(c) ==
  /\ Leave(c, "start", "idle")
  /\ keepRunning' = TRUE
  /\ ctl' = "begin"
  /\ UNCHANGED <<queue, clock, now, task, wait, deadline, notified,
                 thrown>>

Notify(c) ==
  /\ pc[c] = "notify"
  /\ notified' = (notified \/ ctl = "waiting")
  /\ pc' = [pc EXCEPT ![c] = "idle"]
  /\ UNCHANGED <<mutex, keepRunning, queue, clock, controller>>

Body(c) == EnqueueAt(c) \/ RemoveTask(c) \/ Clear(c) \/ Stop(c) \/ Start(c)

-----------------------------------------------------------------------------
(* The controller thread.                                                  *)

At(p) == ctl = p
Goto(p) == ctl' = p

(* Thread::_run takes the mutex before it calls run.                       *)
Begin == /\ At("begin")
         /\ mutex = Nobody
         /\ mutex' = Controller
         /\ Goto("process")
         /\ UNCHANGED <<keepRunning, queue, others, now, task, wait,
                        deadline, notified>>

(* _process_tasks up to the test of its loop.  now and the first entry are *)
(* read once; now is only used while an entry is in hand.                  *)
ProcessTasks ==
  /\ At("process")
  /\ IF queue # <<>> /\ Top(queue).when <= clock
     THEN /\ now' = clock
          /\ task' = Top(queue)
          /\ Goto("pop")
     ELSE /\ Goto("loop")
          /\ UNCHANGED <<now, task>>
  /\ UNCHANGED <<mutex, keepRunning, queue, others, wait, deadline,
                 notified>>

(* Mutant of PopTask: the task is run from the top and not popped.         *)
RunWithoutPop == /\ At("pop")
                 /\ mutex' = Nobody
                 /\ Goto("run")
                 /\ UNCHANGED <<keepRunning, queue, others, now, task,
                                wait, deadline, notified>>

(* _task_queue.pop() and runMutex.unlock().  Popping an empty vector, which *)
(* needs a client inside the queue at the same time, leaves it empty here. *)
PopTask == /\ At("pop")
           /\ queue' = Pop(queue)
           /\ mutex' = Nobody
           /\ Goto("run")
           /\ UNCHANGED <<keepRunning, others, now, task, wait, deadline,
                          notified>>

(* Task::run returns.                                                      *)
RunTask == /\ At("run")
           /\ \E w \in Waits \cup {DONT_RESCHEDULE} : wait' = w
           /\ Goto("relock")
           /\ UNCHANGED <<mutex, keepRunning, queue, others, now, task,
                          deadline, notified>>

(* Task::run throws: reportException, and on without runMutex.lock().      *)
ThrowTask == /\ At("run")
             /\ task.task \in Throwing
             /\ thrown' = TRUE
             /\ Goto("next")
             /\ UNCHANGED <<mutex, keepRunning, queue, clock, pc, now,
                            task, wait, deadline, notified>>

(* Mutant of Relock: the controller goes on without runMutex.lock().       *)
NoRelock == /\ At("relock")
            /\ Goto("reschedule")
            /\ UNCHANGED <<mutex, keepRunning, queue, others, now, task,
                           wait, deadline, notified>>

Relock == /\ At("relock")
          /\ mutex = Nobody
          /\ mutex' = Controller
          /\ Goto("reschedule")
          /\ UNCHANGED <<keepRunning, queue, others, now, task, wait,
                         deadline, notified>>

Reschedule ==
  /\ At("reschedule")
  /\ queue' = IF wait = DONT_RESCHEDULE THEN queue
              ELSE Push(queue, [when |-> clock + wait, task |-> task.task])
  /\ wait' = DONT_RESCHEDULE
  /\ Goto("next")
  /\ UNCHANGED <<mutex, keepRunning, others, now, task, deadline,
                 notified>>

(* Mutant of NextTask: runs whatever is next, due or not.                  *)
NextTaskUntimed ==
  /\ At("next")
  /\ IF queue # <<>>
     THEN /\ task' = Top(queue)
          /\ Goto("pop")
          /\ UNCHANGED now
     ELSE /\ Goto("loop")
          /\ task' = NoEntry
          /\ now' = 0
  /\ UNCHANGED <<mutex, keepRunning, queue, others, wait, deadline,
                 notified>>

(* The tail of the loop and its test, against the now read on entry.       *)
NextTask ==
  /\ At("next")
  /\ IF queue # <<>> /\ Top(queue).when <= now
     THEN /\ task' = Top(queue)
          /\ Goto("pop")
          /\ UNCHANGED now
     ELSE /\ Goto("loop")
          /\ task' = NoEntry
          /\ now' = 0
  /\ UNCHANGED <<mutex, keepRunning, queue, others, wait, deadline,
                 notified>>

(* Mutant of LoopTest: always the wait without a deadline.                 *)
WaitForNotify ==
  /\ At("loop")
  /\ IF keepRunning THEN Goto("sleep") ELSE Goto("exit")
  /\ deadline' = Never
  /\ UNCHANGED <<mutex, keepRunning, queue, others, now, task, wait,
                 notified>>

(* run: the loop condition, and which of the two waits is called.          *)
LoopTest ==
  /\ At("loop")
  /\ IF keepRunning
     THEN /\ deadline' = IF queue = <<>> THEN Never ELSE Top(queue).when
          /\ Goto("sleep")
     ELSE /\ Goto("exit")
          /\ UNCHANGED deadline
  /\ UNCHANGED <<mutex, keepRunning, queue, others, now, task, wait,
                 notified>>

(* runCondition.wait*: become a waiter and unlock, atomically.             *)
Sleep == /\ At("sleep")
         /\ mutex' = Nobody
         /\ notified' = FALSE
         /\ Goto("waiting")
         /\ UNCHANGED <<keepRunning, queue, others, now, task, wait,
                        deadline>>

TimedOut == deadline # Never /\ clock >= deadline

(* Return from the wait, with the mutex.                                   *)
Resume == /\ mutex = Nobody
          /\ mutex' = Controller
          /\ deadline' = Never
          /\ notified' = FALSE
          /\ Goto("process")
          /\ UNCHANGED <<keepRunning, queue, others, now, task, wait>>

Wake == At("waiting") /\ (notified \/ TimedOut) /\ Resume

SpuriousWake == At("waiting") /\ Resume

(* run returns; _run unlocks and the thread ends, to be joined.            *)
Exit == /\ At("exit")
        /\ mutex' = Nobody
        /\ Goto("stopped")
        /\ UNCHANGED <<keepRunning, queue, others, now, task, wait,
                       deadline, notified>>

ControllerStep ==
  \/ Begin \/ ProcessTasks \/ PopTask \/ RunTask \/ ThrowTask \/ Relock
  \/ Reschedule \/ NextTask \/ LoopTest \/ Sleep \/ Wake \/ Exit

ClientStep(c) == (\E m \in Calls : Acquire(c, m)) \/ Body(c) \/ Notify(c)

Next == \/ Tick
        \/ ControllerStep
        \/ SpuriousWake
        \/ \E c \in Clients : ClientStep(c)

Spec == Init /\ [][Next]_vars

(* Fairness.  Threads that hold the mutex or do not need it keep running,  *)
(* which for RunTask says that tasks return; the controller is not starved *)
(* of the mutex for ever; time passes.  Clients need not call anything,    *)
(* but finish what they began.  No spurious wakeup is promised.            *)
FairSpec ==
  /\ Spec
  /\ WF_vars(Tick)
  /\ WF_vars(ProcessTasks \/ PopTask \/ RunTask \/ Reschedule \/ NextTask
             \/ LoopTest \/ Sleep \/ Exit)
  /\ SF_vars(Begin) /\ SF_vars(Relock) /\ SF_vars(Wake)
  /\ \A c \in Clients : WF_vars(Body(c)) /\ WF_vars(Notify(c))

-----------------------------------------------------------------------------
(* Types; and only tasks that validate are queued and run.                 *)

Valid == Tasks \ Invalid

Guarded == {"process", "pop", "reschedule", "next", "loop", "sleep", "exit"}

TypeOK ==
  /\ mutex \in Clients \cup {Controller, Nobody}
  /\ keepRunning \in BOOLEAN
  /\ queue \in Seq(Entry(Nat, Valid))
  /\ clock \in 0..MaxTime
  /\ pc \in [Clients -> Calls \cup {"idle", "notify"}]
  /\ ctl \in Guarded \cup {"stopped", "begin", "run", "relock", "waiting"}
  /\ now \in 0..MaxTime
  /\ task \in Entry(Nat, Valid \cup {0})
  /\ wait \in Waits \cup {DONT_RESCHEDULE}
  /\ deadline \in Nat \cup {Never}
  /\ notified \in BOOLEAN
  /\ thrown \in BOOLEAN

(* README.md: access to the queue is guarded by the mutex.  Until a task   *)
(* throws, a client in the body of a method, and the controller wherever   *)
(* it reads or writes the queue or keepRunning, owns runMutex; so no two   *)
(* of them are there.                                                      *)
QueueGuarded ==
  ~thrown => /\ \A c \in Clients : pc[c] \in Methods => mutex = c
             /\ ctl \in Guarded => mutex = Controller

(* README.md: the queue is thread safe.  Nobody touches it while a client  *)
(* is inside a method of ControllerThread.                                 *)
QueueExclusive ==
  \A c \in Clients : pc[c] \in Methods =>
    /\ ctl \notin Guarded
    /\ \A d \in Clients \ {c} : pc[d] \notin Methods

(* A controller asleep in runCondition.wait* that nobody has notified or   *)
(* is about to notify has nothing to do before its deadline: it was not    *)
(* told to stop, and what top() shows is not due before it wakes.  Until a *)
(* task throws: from then on somebody can change what it waits for between *)
(* its look and its wait.                                                  *)
Announced == notified \/ \E c \in Clients : pc[c] = "notify"

NoLostWakeup ==
  ~thrown /\ ctl = "waiting" /\ ~Announced =>
    /\ keepRunning
    /\ queue # <<>> => deadline # Never /\ deadline <= Top(queue).when

(* The task the controller is about to take out of the queue and run is    *)
(* the one at the top, and no other queued task is due before it; until a  *)
(* task throws.                                                            *)
EarliestFirst ==
  ~thrown /\ ctl = "pop" => /\ queue # <<>>
                            /\ task = Top(queue)
                            /\ TopEarliest(queue)

(* Whatever tasks do, throwing included, none is run before it is due.     *)
NeverEarly == ctl \in {"pop", "run"} => task.when <= clock

(* ControllerThread implements a pool of timed tasks: see TaskPool.  An    *)
(* entry is running from the pop to the end of its rescheduling.           *)
Horizon == MaxTime + F!Max(Delays \cup Waits \cup {0})

Pool == INSTANCE TaskPool WITH
          Times   <- 0..Horizon,
          pending <- S!ToBag(queue),
          running <- IF ctl \in {"run", "relock", "reschedule"}
                     THEN {task} ELSE {}

ImplementsPool == Pool!Spec

(* A task that is due is executed, taken out by somebody, or the thread is *)
(* told to stop: it does not stay in the queue for ever.                   *)
Due(t) == \E i \in 1..Len(queue) : queue[i].task = t /\ queue[i].when <= clock

DueTaskRuns ==
  \A t \in Tasks :
    Due(t) ~> \/ ctl = "run" /\ task.task = t
              \/ ~Due(t)
              \/ ~keepRunning

(* A stop request ends the thread, whatever it was doing, unless somebody  *)
(* starts it again.                                                        *)
StopEnds == ~keepRunning ~> (ctl = "stopped" \/ keepRunning)
=============================================================================
