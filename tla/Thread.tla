------------------------------- MODULE Thread -------------------------------
(***************************************************************************)
(* LSST::cRIO::Thread: starting, stopping and joining a thread, and        *)
(* waiting while it runs, called from several other threads at once.       *)
(*                                                                         *)
(* There is one object, so at most one std::thread behind _thread: the     *)
(* worker.  What its run() does is left to the subclass; here it loops on  *)
(* keepRunning and in each round waits on runCondition or works with the   *)
(* mutex released, as Thread.h asks of it.                                 *)
(*                                                                         *)
(* Everything the code does between locking runMutex and releasing it, in  *)
(* a wait or for good, is one step; join() alone can block inside.  With   *)
(* Serialized, start and stop are called as Application calls them, under  *)
(* its _threadsMutex.                                                      *)
(***************************************************************************)
EXTENDS Naturals

CONSTANTS
  Callers,      \* threads that call the methods of the object
  Calls,        \* the methods they call
  Timeouts,     \* the methods whose timeout may expire before what they await
  Serialized,   \* start and stop are called under Application's mutex
  Worker, Nobody

Methods == {"start", "stop", "wait_until"}

ASSUME ThreadAssumption ==
  /\ Worker \notin Callers
  /\ Nobody \notin Callers \cup {Worker}
  /\ Calls \subseteq Methods
  /\ Timeouts \subseteq Methods
  /\ Serialized \in BOOLEAN

VARIABLES
  mutex,          \* who holds runMutex
  appMutex,       \* who holds Application's _threadsMutex
  keepRunning,
  hasThread,      \* _thread is not null
  threadStarted,  \* _threadStarted
  worker,         \* where the worker is
  op,             \* of each caller: where it is
  waiting,        \* who is blocked on a condition variable
  expired         \* the callers whose timeout has expired

vars == <<mutex, appMutex, keepRunning, hasThread, threadStarted, worker, op,
          waiting, expired>>

Init == /\ mutex = Nobody
        /\ appMutex = Nobody
        /\ keepRunning = FALSE
        /\ hasThread = FALSE
        /\ threadStarted = FALSE
        /\ worker = "none"
        /\ op = [c \in Callers |-> "idle"]
        /\ waiting = {}
        /\ expired = {}

(* start and stop wait on _startCondition; wait_until and run wait on      *)
(* runCondition.                                                           *)
OnStart == {c \in Callers : op[c] \in {"start", "stop"}}
OnRun   == {Worker} \cup {c \in Callers : op[c] = "wait_until"}

(* notify_one: any one of those that wait, if there is one.                *)
NotifyOne(on) == \/ on \cap waiting = {} /\ UNCHANGED waiting
                 \/ \E w \in on \cap waiting : waiting' = waiting \ {w}

Goto(c, p) == op' = [op EXCEPT ![c] = p]

(* std::lock_guard of addThread and stopAllThreads.                        *)
Enter(c) == /\ op[c] = "idle"
            /\ Serialized => appMutex = Nobody
            /\ appMutex' = IF Serialized THEN c ELSE appMutex

(* The call returns or throws.                                             *)
Return(c) == /\ Goto(c, "idle")
             /\ appMutex' = IF appMutex = c THEN Nobody ELSE appMutex
             /\ expired' = expired \ {c}

(* The predicates the callers pass to wait_for and wait_until.             *)
Awaited(m) == \/ m = "start" /\ threadStarted
              \/ m = "stop" /\ ~threadStarted
              \/ m = "wait_until" /\ keepRunning

(* With the mutex: what was awaited is there, and start and wait_until     *)
(* return while stop goes on to join; or the time is over; or (again) wait.*)
Await(c, m) ==
  /\ mutex = Nobody
  /\ \/ /\ m = "stop" /\ Awaited(m)
        /\ mutex' = c
        /\ Goto(c, "join")
        /\ UNCHANGED <<appMutex, waiting, expired>>
     \/ /\ IF Awaited(m) THEN m # "stop" ELSE c \in expired
        /\ Return(c)
        /\ UNCHANGED <<mutex, waiting>>
     \/ /\ ~Awaited(m) /\ c \notin expired
        /\ waiting' = waiting \cup {c}
        /\ Goto(c, m)
        /\ UNCHANGED <<mutex, appMutex, expired>>

-----------------------------------------------------------------------------
(* The callers.                                                            *)

(* Mutant of Start: without the test of _thread.                           *)
StartTwice(c) ==
  /\ mutex = Nobody
  /\ Enter(c)
  /\ keepRunning' = TRUE
  /\ hasThread' = TRUE
  /\ worker' = "created"
  /\ waiting' = IF threadStarted THEN waiting ELSE waiting \cup {c}
  /\ Goto(c, "start")
  /\ UNCHANGED <<mutex, threadStarted, expired>>

(* start, up to its wait.  Called while there is a thread, it throws and   *)
(* changes nothing.                                                        *)
Start(c) ==
  /\ mutex = Nobody
  /\ ~hasThread
  /\ Enter(c)
  /\ keepRunning' = TRUE
  /\ hasThread' = TRUE
  /\ worker' = "created"
  /\ waiting' = IF threadStarted THEN waiting ELSE waiting \cup {c}
  /\ Goto(c, "start")
  /\ UNCHANGED <<mutex, threadStarted, expired>>

Stop(c) ==
  /\ mutex = Nobody
  /\ Enter(c)
  /\ keepRunning' = FALSE
  /\ Goto(c, "notify")
  /\ UNCHANGED <<mutex, hasThread, threadStarted, worker, waiting, expired>>

(* Mutant of StopNotify: no notify_one.                                    *)
StopSilent(c) ==
  /\ op[c] = "notify"
  /\ Goto(c, "stopping")
  /\ UNCHANGED <<mutex, appMutex, keepRunning, hasThread, threadStarted,
                 worker, waiting, expired>>

StopNotify(c) ==
  /\ op[c] = "notify"
  /\ NotifyOne(OnRun)
  /\ Goto(c, "stopping")
  /\ UNCHANGED <<mutex, appMutex, keepRunning, hasThread, threadStarted,
                 worker, expired>>

(* Mutant of StopLock: joins without waiting for the worker to end.        *)
StopJoins(c) ==
  /\ op[c] = "stopping"
  /\ mutex = Nobody
  /\ IF hasThread
     THEN mutex' = c /\ Goto(c, "join") /\ UNCHANGED <<appMutex, expired>>
     ELSE Return(c) /\ UNCHANGED mutex
  /\ UNCHANGED <<keepRunning, hasThread, threadStarted, worker, waiting>>

(* stop takes the mutex for the second time.                               *)
StopLock(c) ==
  /\ op[c] = "stopping"
  /\ IF hasThread THEN Await(c, "stop")
     ELSE mutex = Nobody /\ Return(c) /\ UNCHANGED <<mutex, waiting>>
  /\ UNCHANGED <<keepRunning, hasThread, threadStarted, worker>>

WaitUntil(c) ==
  /\ op[c] = "idle"
  /\ Goto(c, "wait_until")
  /\ UNCHANGED <<mutex, appMutex, keepRunning, hasThread, threadStarted,
                 worker, waiting, expired>>

(* A caller that was woken, or has just called wait_until, gets the mutex. *)
Retest(c) ==
  /\ op[c] \in Methods
  /\ c \notin waiting
  /\ Await(c, op[c])
  /\ UNCHANGED <<keepRunning, hasThread, threadStarted, worker>>

Expire(c) ==
  /\ op[c] \in Timeouts
  /\ c \notin expired
  /\ expired' = expired \cup {c}
  /\ waiting' = waiting \ {c}
  /\ UNCHANGED <<mutex, appMutex, keepRunning, hasThread, threadStarted,
                 worker, op>>

(* _thread->join(), with the mutex, then delete.  After the wait nobody    *)
(* asks again whether there still is a thread: what a call on a null       *)
(* pointer does is undefined, the caller is not followed further.          *)
Join(c) ==
  /\ op[c] = "join"
  /\ IF hasThread
     THEN /\ worker = "exited"
          /\ hasThread' = FALSE
          /\ worker' = "none"
          /\ mutex' = Nobody
          /\ Return(c)
     ELSE /\ Goto(c, "crashed")
          /\ UNCHANGED <<mutex, appMutex, hasThread, worker, expired>>
  /\ UNCHANGED <<keepRunning, threadStarted, waiting>>

Call(c) == \/ "start" \in Calls /\ Start(c)
           \/ "stop" \in Calls /\ Stop(c)
           \/ "wait_until" \in Calls /\ WaitUntil(c)

-----------------------------------------------------------------------------
(* The worker.                                                             *)

(* Mutant of Begin: _threadStarted is set without notify_one.              *)
BeginSilent == /\ worker = "created"
               /\ mutex = Nobody
               /\ mutex' = Worker
               /\ threadStarted' = TRUE
               /\ worker' = "running"
               /\ UNCHANGED <<appMutex, keepRunning, hasThread, op, waiting,
                              expired>>

(* _run up to the call of run.                                             *)
Begin == /\ worker = "created"
         /\ mutex = Nobody
         /\ mutex' = Worker
         /\ threadStarted' = TRUE
         /\ NotifyOne(OnStart)
         /\ worker' = "running"
         /\ UNCHANGED <<appMutex, keepRunning, hasThread, op, expired>>

(* A round of run that waits for a notification ...                        *)
RunWait == /\ worker = "running"
           /\ keepRunning
           /\ worker' = "waiting"
           /\ waiting' = waiting \cup {Worker}
           /\ mutex' = Nobody
           /\ UNCHANGED <<appMutex, keepRunning, hasThread, threadStarted, op,
                          expired>>

(* ... or works without the mutex, told to stop or not.                    *)
RunUnlock == /\ worker = "running"
             /\ worker' = "working"
             /\ mutex' = Nobody
             /\ UNCHANGED <<appMutex, keepRunning, hasThread, threadStarted,
                            op, waiting, expired>>

RunLock == /\ worker \in {"waiting", "working"}
           /\ Worker \notin waiting
           /\ mutex = Nobody
           /\ mutex' = Worker
           /\ worker' = "running"
           /\ UNCHANGED <<appMutex, keepRunning, hasThread, threadStarted, op,
                          waiting, expired>>

(* Mutant of Exit: _threadStarted is cleared without notify_one.           *)
ExitSilent == /\ worker = "running"
              /\ ~keepRunning
              /\ threadStarted' = FALSE
              /\ mutex' = Nobody
              /\ worker' = "exited"
              /\ UNCHANGED <<appMutex, keepRunning, hasThread, op, waiting,
                             expired>>

(* run saw keepRunning false and returns; the rest of _run.                *)
Exit == /\ worker = "running"
        /\ ~keepRunning
        /\ threadStarted' = FALSE
        /\ NotifyOne(OnStart)
        /\ mutex' = Nobody
        /\ worker' = "exited"
        /\ UNCHANGED <<appMutex, keepRunning, hasThread, op, expired>>

(* For the worker's wait this is also the end of a wait with a timeout.    *)
SpuriousWake(w) ==
  /\ w \in waiting
  /\ waiting' = waiting \ {w}
  /\ UNCHANGED <<mutex, appMutex, keepRunning, hasThread, threadStarted,
                 worker, op, expired>>

CallerStep(c) == \/ Call(c) \/ StopNotify(c) \/ StopLock(c) \/ Retest(c)
                 \/ Expire(c) \/ Join(c)

WorkerStep == Begin \/ RunWait \/ RunUnlock \/ RunLock \/ Exit

Next == \/ \E c \in Callers : CallerStep(c)
        \/ WorkerStep
        \/ \E w \in waiting : SpuriousWake(w)

Spec == Init /\ [][Next]_vars

(* Fairness.  Nobody is starved of runMutex for ever, run neither keeps it *)
(* for ever nor works for ever without testing keepRunning.  Nobody has to *)
(* call anything, and no timeout has to expire: what follows holds for     *)
(* timeouts of any length.                                                 *)
FairSpec ==
  /\ Spec
  /\ SF_vars(Begin) /\ SF_vars(RunLock) /\ SF_vars(Exit)
  /\ WF_vars(RunWait \/ RunUnlock)
  /\ \A c \in Callers :
       /\ WF_vars(StopNotify(c)) /\ WF_vars(Join(c))
       /\ SF_vars(StopLock(c)) /\ SF_vars(Retest(c))

-----------------------------------------------------------------------------
Live == {"running", "waiting", "working"}

TypeOK ==
  /\ mutex \in Callers \cup {Worker, Nobody}
  /\ appMutex \in Callers \cup {Nobody}
  /\ keepRunning \in BOOLEAN
  /\ hasThread \in BOOLEAN
  /\ threadStarted \in BOOLEAN
  /\ worker \in Live \cup {"none", "created", "exited"}
  /\ op \in [Callers -> Methods \cup
                         {"idle", "notify", "stopping", "join", "crashed"}]
  /\ waiting \subseteq Callers \cup {Worker}
  /\ expired \subseteq Callers

(* The records of the worker never disagree, whoever calls what: _thread   *)
(* is set exactly while there is a worker to join, so none is left behind  *)
(* and none is created beside another; _threadStarted, which isRunning     *)
(* returns, is true exactly while it is inside run; and keepRunning says a *)
(* worker is wanted only while there is one that runs or is about to: no   *)
(* call leaves it set for a worker that has ended.                         *)
Lifecycle == /\ hasThread <=> worker # "none"
             /\ threadStarted <=> worker \in Live
             /\ keepRunning => worker \in Live \cup {"created"}

(* join is called, with runMutex held, on a worker that needs the mutex no *)
(* more.                                                                   *)
JoinSafe == \A c \in Callers : op[c] = "join" => worker = "exited"

(* A start that does not time out returns: the worker's begin is not       *)
(* missed.                                                                 *)
StartReturns == \A c \in Callers : op[c] = "start" ~> op[c] # "start"

(* Callers of wait_until wait on the condition variable that stop notifies *)
(* with notify_one, and one of them may take what was meant for the        *)
(* worker.  What follows holds as long as nobody calls it.                 *)
Undistracted == [](\A c \in Callers : op[c] # "wait_until")

(* stop returns or throws, with a timeout however long: the worker's end   *)
(* is not missed, and nobody joins a worker that needs the mutex.          *)
StopReturns ==
  Undistracted =>
    \A c \in Callers :
      op[c] \in {"notify", "stopping", "stop", "join"} ~> op[c] = "idle"

(* Once stop was called the worker ends, even if stop gave up before,      *)
(* unless it is started again.                                             *)
WorkerStops ==
  Undistracted =>
    (~keepRunning ~> (worker \in {"none", "exited"} \/ keepRunning))
=============================================================================
