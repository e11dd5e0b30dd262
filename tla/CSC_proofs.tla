----------------------------- MODULE CSC_proofs -----------------------------
(* Proofs about a CSC, for any number of threads and interrupts: the FPGA is *)
(* not used when it is closed, and parent and daemon agree on the start.     *)
EXTENDS CSC, SequenceTheorems, TLAPS

(* Threads.  A thread that runs is in the list of the application, which     *)
(* only stopAllThreads empties, one that has ended after the other.          *)
Listed ==
    \A t \in Threads :
        worker[t] \in {"none", "ended"} \/ \E i \in DOMAIN threads : threads[i] = t

ThreadsInv ==
    /\ threads \in Seq(Threads)
    /\ worker \in [Threads -> WorkerState]
    /\ call \in {"waiting", "joining"} => threads # << >>
    /\ Listed

\* What a call of the application, or a step of a thread, can be
ApplicationStep ==
    \/ \E t \in Threads : addThread(t) \/ ThreadStep(t)
    \/ ThreadAdded \/ AddThrows \/ stopAllThreads \/ StopThread
    \/ JoinThread \/ ThreadStopped \/ StopThrows \/ AllStopped
    \/ UNCHANGED application

LEMMA AddListed ==
  ASSUME ThreadsInv, NEW t \in Threads, addThread(t)
  PROVE  ThreadsInv'
<1>1. threads' = Append(threads, t) /\ threads \in Seq(Threads) /\ call' = "adding"
  BY DEF addThread, ThreadsInv
<1>2. /\ threads' \in Seq(Threads)
      /\ Len(threads') = Len(threads) + 1
      /\ \A i \in 1 .. Len(threads) : threads'[i] = threads[i]
      /\ threads'[Len(threads) + 1] = t
  BY <1>1, AppendProperties
<1>3. worker' \in [Threads -> WorkerState]
  BY DEF addThread, ThreadsInv, WorkerState
<1>4. Listed'
  <2> SUFFICES ASSUME NEW u \in Threads, worker'[u] \notin {"none", "ended"}
               PROVE  \E i \in DOMAIN threads' : threads'[i] = u
    BY DEF Listed
  <2>1. /\ DOMAIN threads = 1 .. Len(threads) /\ Len(threads) \in Nat
        /\ DOMAIN threads' = 1 .. Len(threads')
    BY <1>1, <1>2, LenProperties
  <2>2. CASE u = t
    BY <1>2, <2>1, <2>2
  <2>3. CASE u # t
    <3>1. worker'[u] = worker[u]
      BY <2>3 DEF addThread, ThreadsInv
    <3>2. PICK i \in DOMAIN threads : threads[i] = u
      BY <3>1 DEF ThreadsInv, Listed
    <3>3. i \in DOMAIN threads' /\ threads'[i] = u
      BY <1>2, <2>1, <3>2
    <3>4. QED
      BY <3>3
  <2>4. QED
    BY <2>2, <2>3
<1>5. QED
  BY <1>1, <1>2, <1>3, <1>4 DEF ThreadsInv

LEMMA StoppedListed ==
  ASSUME ThreadsInv, ThreadStopped
  PROVE  ThreadsInv'
<1>1. /\ threads \in Seq(Threads) /\ threads # << >>
      /\ threads' = Tail(threads) /\ call' = "stopping"
      /\ worker[Head(threads)] = "ended" /\ worker' = worker
  BY DEF ThreadStopped, ThreadsInv
<1>2. /\ threads' \in Seq(Threads)
      /\ Len(threads') = Len(threads) - 1
      /\ \A i \in 1 .. Len(threads') : threads'[i] = threads[i + 1]
      /\ Head(threads) = threads[1]
  BY <1>1, HeadTailProperties
<1>3. Listed'
  <2> SUFFICES ASSUME NEW u \in Threads, worker[u] \notin {"none", "ended"}
               PROVE  \E i \in DOMAIN threads' : threads'[i] = u
    BY <1>1 DEF Listed
  <2>1. PICK i \in DOMAIN threads : threads[i] = u
    BY DEF ThreadsInv, Listed
  <2>2. /\ DOMAIN threads = 1 .. Len(threads) /\ Len(threads) \in Nat
        /\ DOMAIN threads' = 1 .. Len(threads')
    BY <1>1, <1>2, LenProperties
  <2>3. i # 1
    BY <1>1, <1>2, <2>1
  <2>4. i - 1 \in DOMAIN threads' /\ threads'[i - 1] = u
    BY <1>2, <2>1, <2>2, <2>3
  <2>5. QED
    BY <2>4
<1>4. QED
  BY <1>1, <1>2, <1>3 DEF ThreadsInv

LEMMA ApplicationKeeps ==
  ASSUME ThreadsInv, ApplicationStep
  PROVE  ThreadsInv'
<1>1. ASSUME NEW t \in Threads, addThread(t) PROVE ThreadsInv'
  BY <1>1, AddListed
<1>2. ASSUME NEW t \in Threads, ThreadStep(t) PROVE ThreadsInv'
  <2>1. PICK from \in {"created", "running", "busy", "asking"},
             to \in WorkerState : Go(t, from, to)
    BY <1>2 DEF ThreadStep, ThreadProgress, Begin, UseFPGA, FPGAUsed, AskRunning,
                Counted, End, WorkerState
  <2>2. /\ worker[t] = from /\ worker' = [worker EXCEPT ![t] = to]
        /\ UNCHANGED << threads, call >>
    BY <2>1 DEF Go
  <2>3. worker' \in [Threads -> WorkerState]
    BY <2>2 DEF ThreadsInv
  <2>4. Listed'
    BY <2>2 DEF ThreadsInv, Listed
  <2>5. QED
    BY <2>2, <2>3, <2>4 DEF ThreadsInv
<1>3. CASE ThreadStopped
  BY <1>3, StoppedListed
<1>4. CASE StopThread \/ JoinThread
  BY <1>4 DEF StopThread, JoinThread, ThreadsInv, Listed
<1>5. CASE ThreadAdded \/ AddThrows \/ stopAllThreads \/ StopThrows \/ AllStopped
  BY <1>5 DEF ThreadAdded, AddThrows, stopAllThreads, StopThrows, AllStopped,
              Unlock, ThreadsInv, Listed
<1>6. CASE UNCHANGED application
  BY <1>6 DEF application, ThreadsInv, Listed
<1>7. QED
  BY <1>1, <1>2, <1>3, <1>4, <1>5, <1>6 DEF ApplicationStep

\* Every step of the component is such a step of its application.
LEMMA StepsApplication == [Next]_vars => ApplicationStep
<1> SUFFICES ASSUME [Next]_vars PROVE ApplicationStep
  OBVIOUS
<1> USE DEF ApplicationStep
<1>1. CASE ParentStep
  BY <1>1 DEF ParentStep, ParentProgress, WritePID, Read, Confirmed, Alarm
<1>2. CASE InitStep
  BY <1>2 DEF InitStep, Foreground, Fork, initializeAndOpen, InitInterrupts,
              InitThreads, InitFails, daemonOK, daemonFailed, InitReturns
<1>3. CASE MainProgress
  BY <1>3 DEF MainProgress, LoopEnds, StopThreads, close, finalize, DeleteWatcher, exit
<1>4. CASE \E t \in Threads : WorkerStep(t)
  BY <1>4 DEF WorkerStep
<1>5. CASE RequestExit \/ WatcherStays \/ WatcherThrows \/ Watching \/ Controlling \/ FPGARaises
  BY <1>5 DEF RequestExit, WatcherStays, WatcherThrows, Watching, Controlling, FPGARaises
<1>6. CASE UNCHANGED vars
  BY <1>6 DEF vars
<1>7. QED
  BY <1>1, <1>2, <1>3, <1>4, <1>5, <1>6 DEF Next

-----------------------------------------------------------------------------
(* The FPGA.  It is closed when the list is empty, and nothing is added to   *)
(* it from then on.                                                          *)
ClosedInv ==
    /\ main \in {"close", "finalize", "exit"} => threads = << >>
    /\ fpga \in {"closed", "finalized"} =>
           main \in {"finalize", "exit", "exited", "died"} /\ threads = << >>

LEMMA ClosedNext == ClosedInv /\ [Next]_vars => ClosedInv'
<1> SUFFICES ASSUME ClosedInv, [Next]_vars PROVE ClosedInv'
  OBVIOUS
<1> USE DEF ClosedInv
<1>1. CASE ParentStep
  BY <1>1 DEF ParentStep, ParentProgress, WritePID, Read, Confirmed, Alarm, life,
              application
<1>2. CASE Foreground \/ Fork \/ initializeAndOpen \/ InitReturns
  BY <1>2 DEF Foreground, Fork, initializeAndOpen, InitReturns, Goto, Throw, Die,
              application
<1>3. CASE InitInterrupts \/ InitThreads
  BY <1>3 DEF InitInterrupts, InitThreads, life, application
<1>4. CASE InitFails \/ daemonOK \/ daemonFailed
  BY <1>4 DEF InitFails, daemonOK, daemonFailed, Report, Throw, Die
<1>5. CASE LoopEnds \/ DeleteWatcher \/ exit
  BY <1>5 DEF LoopEnds, DeleteWatcher, exit, Goto, application
<1>6. CASE StopThreads
  BY <1>6 DEF StopThreads, Goto, Throw, Die, AllStopped, Unlock
<1>7. CASE close \/ finalize
  BY <1>7 DEF close, finalize, Goto, Throw, Die, application
<1>8. CASE \E t \in Threads : WorkerStep(t)
  BY <1>8 DEF WorkerStep, Unchanged, life, ThreadStep, ThreadProgress, Begin,
              UseFPGA, FPGAUsed, AskRunning, Counted, End, Go
<1>9. CASE RequestExit \/ WatcherStays \/ WatcherThrows
  BY <1>9 DEF RequestExit, WatcherStays, WatcherThrows, Throw, Die, application, Alive, Terminated
<1>10. CASE Watching \/ Controlling \/ FPGARaises \/ UNCHANGED vars
  BY <1>10 DEF Watching, Controlling, FPGARaises, Unchanged, life, application, vars
<1>11. QED
  BY <1>1, <1>2, <1>3, <1>4, <1>5, <1>6, <1>7, <1>8, <1>9, <1>10
  DEF Next, InitStep, MainProgress

(* No thread is in a call of the FPGA after run has closed it, nor will be,  *)
(* whichever of start, stop and the calls of the FPGA have thrown before.    *)
THEOREM FPGAUnused == Spec => []ClosedFPGAUnused
<1>1. CSCInit => ThreadsInv /\ ClosedInv
  <2> SUFFICES ASSUME CSCInit PROVE ThreadsInv /\ ClosedInv
    OBVIOUS
  <2>1. threads \in Seq(Threads)
    BY EmptySeq DEF CSCInit, ApplicationInit
  <2>2. worker \in [Threads -> WorkerState] /\ Listed
    BY DEF CSCInit, ApplicationInit, WorkerState, Listed
  <2>3. call \notin {"waiting", "joining"} /\ ClosedInv
    BY DEF CSCInit, ApplicationInit, ClosedInv
  <2>4. QED
    BY <2>1, <2>2, <2>3 DEF ThreadsInv
<1>2. ThreadsInv /\ ClosedInv /\ [Next]_vars => ThreadsInv' /\ ClosedInv'
  BY ApplicationKeeps, StepsApplication, ClosedNext
<1>3. ThreadsInv /\ ClosedInv => ClosedFPGAUnused
  <2>1. \A i \in DOMAIN << >> : FALSE
    OBVIOUS
  <2>2. QED
    BY <2>1 DEF ThreadsInv, Listed, ClosedInv, ClosedFPGAUnused
<1>4. QED
  BY <1>1, <1>2, <1>3, PTL DEF Spec

-----------------------------------------------------------------------------
(* The start.  The daemon has its end of the pipe until it reports, so there *)
(* is one report, and what the parent reads is that one.                     *)
StartInv ==
    /\ readers \subseteq {"parent"}
    /\ "daemon" \in writers => pipe = EOF /\ reported = "none"
    /\ pipe # EOF => reported = pipe
    /\ answer # EOF => answer = pipe
    /\ parent = "success" => answer = "OK"
    /\ parent # "none" /\ "daemon" \notin writers /\ main \notin Terminated =>
           reported \in {"OK", "failed"}
    /\ parent # "none" => main # "run"
    /\ parent = "none" => pipe = EOF /\ reported = "none" /\ "daemon" \notin writers
    /\ main \in Starting \cup Terminated \/ parent = "none" \/ "daemon" \notin writers

LEMMA ReportKeeps ==
  ASSUME StartInv, main = "init", NEW what \in {"OK", "failed"}, Report(what),
         UNCHANGED << parent, answer, readers >>
  PROVE  StartInv'
<1>1. CASE "daemon" \notin writers
  BY <1>1 DEF Report, StartInv, Starting, Terminated
<1>2. CASE "daemon" \in writers /\ readers = {}
  BY <1>2 DEF Report, Die, StartInv, Starting, Terminated
<1>3. CASE "daemon" \in writers /\ readers # {}
  BY <1>3 DEF Report, StartInv, Starting, Terminated, EOF
<1>4. QED
  BY <1>1, <1>2, <1>3

\* The end of the process by an exception, wherever it is
LEMMA ThrowKeeps == ASSUME StartInv, Throw PROVE StartInv'
  BY DEF StartInv, Throw, Die, Terminated, Starting

LEMMA StartNext == StartInv /\ [Next]_vars => StartInv'
<1> SUFFICES ASSUME StartInv, [Next]_vars PROVE StartInv'
  OBVIOUS
<1>1. CASE WritePID \/ Alarm
  BY <1>1 DEF WritePID, Alarm, ParentExits, StartInv, Starting, Terminated, life
<1>2. CASE Read
  BY <1>2 DEF Read, StartInv, Starting, Terminated, life
<1>3. CASE Confirmed
  BY <1>3 DEF Confirmed, ParentExits, StartInv, Starting, Terminated, life
<1>4. CASE Foreground
  BY <1>4 DEF Foreground, StartInv, Starting, Terminated, start
<1>5. CASE Fork
  BY <1>5 DEF Fork, StartInv, Starting, Terminated, EOF
<1>6. CASE initializeAndOpen
  BY <1>6, ThrowKeeps DEF initializeAndOpen, Goto, start, StartInv, Starting, Terminated
<1>7. CASE InitInterrupts \/ InitThreads
  BY <1>7 DEF InitInterrupts, InitThreads, start, life, StartInv
<1>8. CASE daemonOK \/ daemonFailed
  BY <1>8, ReportKeeps DEF daemonOK, daemonFailed
<1>9. CASE InitFails
  BY <1>9, ReportKeeps, ThrowKeeps DEF InitFails
<1>10. CASE InitReturns
  BY <1>10 DEF InitReturns, Goto, start, StartInv, Starting, Terminated
<1>11. CASE LoopEnds \/ DeleteWatcher
  BY <1>11 DEF LoopEnds, DeleteWatcher, Goto, start, StartInv, Starting, Terminated
<1>12. CASE StopThreads
  BY <1>12, ThrowKeeps DEF StopThreads, Goto, start, StartInv, Starting, Terminated
<1>13. CASE close \/ finalize
  BY <1>13, ThrowKeeps DEF close, finalize, Goto, start, StartInv, Starting, Terminated
<1>14. CASE exit
  BY <1>14 DEF exit, StartInv, Starting, Terminated
<1>15. CASE WatcherStays \/ WatcherThrows
  BY <1>15, ThrowKeeps DEF WatcherStays, WatcherThrows
<1>16. CASE RequestExit
  BY <1>16 DEF RequestExit, start, StartInv
<1>17. CASE Watching \/ Controlling \/ FPGARaises \/ UNCHANGED vars
  BY <1>17 DEF Watching, Controlling, FPGARaises, Unchanged, start, life, vars, StartInv
<1>18. CASE \E t \in Threads : WorkerStep(t)
  BY <1>18 DEF WorkerStep, Unchanged, start, life, StartInv
<1>19. QED
  BY <1>1, <1>2, <1>3, <1>4, <1>5, <1>6, <1>7, <1>8, <1>9, <1>10, <1>11, <1>12,
     <1>13, <1>14, <1>15, <1>16, <1>17, <1>18
  DEF Next, ParentStep, ParentProgress, InitStep, MainProgress

(* The parent reports success only of a daemon that has said it runs, and no *)
(* daemon goes on that has not told its parent, whatever comes first of the  *)
(* report, the alarm and the end of either.                                  *)
THEOREM StartIsAgreed == Spec => []StartAgreed
<1>1. CSCInit => StartInv
  BY DEF CSCInit, StartInv, Starting, Terminated, EOF
<1>2. StartInv => StartAgreed
  BY DEF StartInv, StartAgreed, Starting, Terminated, EOF
<1>3. QED
  BY <1>1, <1>2, StartNext, PTL DEF Spec
=============================================================================
