---------------------------- MODULE Application ----------------------------
(* The threads of an application (Application.cpp): addThread, which starts *)
(* one, stopAllThreads, which stops, joins and deletes them all, and        *)
(* runningThreads, which a thread may call too.                             *)
(*                                                                          *)
(* Main is the thread that adds and stops them. Starting and stopping one   *)
(* is modelled in Thread; of it there is here what its callers see: the     *)
(* thread gets there or the timeout is over, and it is joined with its      *)
(* runMutex held, which it needs to begin.                                  *)
EXTENDS Naturals, Sequences

CONSTANTS
    Threads,        \* the threads the application adds
    Main, Nobody

ASSUME ApplicationAssumption ==
    /\ Main \notin Threads
    /\ Nobody \notin Threads \cup {Main}

VARIABLES
    threads,        \* _threads
    threadsMutex,   \* who holds _threadsMutex
    worker,         \* of each thread, where it is
    keepRunning,    \* the flag of each
    call            \* what Main executes: "none", "adding", "stopping", or of
                    \* stop of the first thread: "waiting", "joining"

application == << threads, threadsMutex, worker, keepRunning, call >>

\* busy: in a call of the FPGA; asking: in runningThreads
WorkerState == {"none", "created", "running", "busy", "asking", "ended"}

ApplicationInit ==
    /\ threads = << >>
    /\ threadsMutex = Nobody
    /\ worker = [t \in Threads |-> "none"]
    /\ keepRunning = [t \in Threads |-> FALSE]
    /\ call = "none"

\* _threadStarted
Started(t) == worker[t] \in {"running", "busy", "asking"}

\* The number that runningThreads counts
runningThreads == { i \in DOMAIN threads : Started(threads[i]) }

----------------------------------------------------------------------------
(* Main. A lock_guard holds the mutex to the end of each of the functions.  *)

\* It is in the list before it is started.
addThread(t) ==
    /\ call = "none"
    /\ threadsMutex = Nobody
    /\ worker[t] = "none"
    /\ call' = "adding"
    /\ threadsMutex' = Main
    /\ threads' = Append(threads, t)
    /\ worker' = [worker EXCEPT ![t] = "created"]
    /\ keepRunning' = [keepRunning EXCEPT ![t] = TRUE]

Unlock ==
    /\ call' = "none"
    /\ threadsMutex' = Nobody
    /\ UNCHANGED << threads, worker, keepRunning >>

ThreadAdded ==
    /\ call = "adding"
    /\ Started(threads[Len(threads)])
    /\ Unlock

\* start throws, and the thread stays in the list.
AddThrows ==
    /\ call = "adding"
    /\ ~Started(threads[Len(threads)])
    /\ Unlock

stopAllThreads ==
    /\ call = "none"
    /\ threadsMutex = Nobody
    /\ call' = "stopping"
    /\ threadsMutex' = Main
    /\ UNCHANGED << threads, worker, keepRunning >>

\* stop of the first thread of the list
StopThread ==
    /\ call = "stopping"
    /\ threads # << >>
    /\ keepRunning' = [keepRunning EXCEPT ![Head(threads)] = FALSE]
    /\ call' = "waiting"
    /\ UNCHANGED << threads, threadsMutex, worker >>

\* Thread::stop sees that the thread is not running: _threadStarted is false
\* when it has ended, and also when it has not begun.
JoinThread ==
    /\ call = "waiting"
    /\ ~Started(Head(threads))
    /\ call' = "joining"
    /\ UNCHANGED << threads, threadsMutex, worker, keepRunning >>

\* Mutant: the thread is not waited for.
NotJoined ==
    /\ call = "waiting"
    /\ threads' = Tail(threads)
    /\ call' = "stopping"
    /\ UNCHANGED << threadsMutex, worker, keepRunning >>

\* Its end is waited for, however long it takes; it is deleted and erased.
ThreadStopped ==
    /\ call = "joining"
    /\ worker[Head(threads)] = "ended"
    /\ threads' = Tail(threads)
    /\ call' = "stopping"
    /\ UNCHANGED << threadsMutex, worker, keepRunning >>

\* Mutant: nothing but the end of the thread ends the wait.
NeverThrows == FALSE /\ Unlock

\* The timeout is over and the thread still runs: stop throws, and this thread
\* and those behind it stay in the list.
StopThrows ==
    /\ call = "waiting"
    /\ Started(Head(threads))
    /\ Unlock

AllStopped ==
    /\ call = "stopping"
    /\ threads = << >>
    /\ Unlock

----------------------------------------------------------------------------
(* The threads.                                                             *)

Go(t, from, to) ==
    /\ worker[t] = from
    /\ worker' = [worker EXCEPT ![t] = to]
    /\ UNCHANGED << threads, threadsMutex, keepRunning, call >>

\* Thread::_run, then rounds until keepRunning is false. It begins with
\* locking runMutex, which a stop that joins it does not give back.
Begin(t) ==
    /\ ~(call = "joining" /\ t = Head(threads))
    /\ Go(t, "created", "running")
UseFPGA(t) == keepRunning[t] /\ Go(t, "running", "busy")
FPGAUsed(t) == Go(t, "busy", "running")
AskRunning(t) == keepRunning[t] /\ Go(t, "running", "asking")
Counted(t) == threadsMutex = Nobody /\ Go(t, "asking", "running")
End(t) == ~keepRunning[t] /\ Go(t, "running", "ended")

\* stop joins a thread that has not begun: neither will go on.
Stuck == call = "joining" /\ worker[Head(threads)] = "created"

ThreadProgress(t) == Begin(t) \/ FPGAUsed(t) \/ Counted(t) \/ End(t)
ThreadStep(t) == ThreadProgress(t) \/ UseFPGA(t) \/ AskRunning(t)

----------------------------------------------------------------------------
ApplicationTypeOK ==
    /\ threads \in Seq(Threads)
    /\ threadsMutex \in {Main, Nobody}
    /\ worker \in [Threads -> WorkerState]
    /\ keepRunning \in [Threads -> BOOLEAN]
    /\ call \in {"none", "adding", "stopping", "waiting", "joining"}

=============================================================================
