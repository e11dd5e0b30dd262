---------------------------- MODULE Thread_proofs ----------------------------
(***************************************************************************)
(* Theorems about Thread, for any number of callers.                       *)
(***************************************************************************)
EXTENDS Thread, TLAPS

(* Every variable keeps its type, whatever is called and times out.        *)
THEOREM TypeCorrect == Spec => []TypeOK
<1>1. Init => TypeOK
  BY DEF Init, TypeOK
<1>2. TypeOK /\ [Next]_vars => TypeOK'
  <2> SUFFICES ASSUME TypeOK, [Next]_vars PROVE TypeOK'
    OBVIOUS
  <2> USE ThreadAssumption DEF TypeOK, Goto, Return, Enter, Methods, Live
  <2>n. ASSUME NEW on, NotifyOne(on) PROVE waiting' \subseteq Callers \cup {Worker}
    BY <2>n DEF NotifyOne
  <2>1. ASSUME NEW c \in Callers, Start(c) PROVE TypeOK'
    BY <2>1 DEF Start
  <2>2. ASSUME NEW c \in Callers, Stop(c) PROVE TypeOK'
    BY <2>2 DEF Stop
  <2>3. ASSUME NEW c \in Callers, WaitUntil(c) PROVE TypeOK'
    BY <2>3 DEF WaitUntil
  <2>4. ASSUME NEW c \in Callers, StopNotify(c) PROVE TypeOK'
    BY <2>4, <2>n DEF StopNotify
  <2>5. ASSUME NEW c \in Callers, StopLock(c) PROVE TypeOK'
    BY <2>5 DEF StopLock, Await
  <2>6. ASSUME NEW c \in Callers, Retest(c) PROVE TypeOK'
    BY <2>6 DEF Retest, Await
  <2>7. ASSUME NEW c \in Callers, Expire(c) PROVE TypeOK'
    BY <2>7 DEF Expire
  <2>8. ASSUME NEW c \in Callers, Join(c) PROVE TypeOK'
    BY <2>8 DEF Join
  <2>9. CASE Begin
    BY <2>9, <2>n DEF Begin
  <2>10. CASE Exit
    BY <2>10, <2>n DEF Exit
  <2>11. CASE RunWait \/ RunUnlock \/ RunLock
    BY <2>11 DEF RunWait, RunUnlock, RunLock
  <2>12. ASSUME NEW w \in waiting, SpuriousWake(w) PROVE TypeOK'
    BY <2>12 DEF SpuriousWake
  <2>13. CASE UNCHANGED vars
    BY <2>13 DEF vars
  <2>14. QED
    BY <2>1, <2>2, <2>3, <2>4, <2>5, <2>6, <2>7, <2>8, <2>9, <2>10, <2>11,
       <2>12, <2>13 DEF Next, CallerStep, Call, WorkerStep
<1>3. QED
  BY <1>1, <1>2, PTL DEF Spec

(* How a step can change the worker and what is recorded about it.         *)
LEMMA WorkerSteps ==
  ASSUME [Next]_vars
  PROVE  \/ UNCHANGED <<keepRunning, hasThread, threadStarted, worker>>
         \/ \E c \in Callers : Start(c) \/ Stop(c) \/ Join(c)
         \/ WorkerStep
<1>1. ASSUME NEW c \in Callers, CallerStep(c), ~Start(c), ~Stop(c), ~Join(c)
      PROVE  UNCHANGED <<keepRunning, hasThread, threadStarted, worker>>
  BY <1>1 DEF CallerStep, Call, WaitUntil, StopNotify, StopLock, Retest, Expire
<1>2. ASSUME NEW w \in waiting, SpuriousWake(w)
      PROVE  UNCHANGED <<keepRunning, hasThread, threadStarted, worker>>
  BY <1>2 DEF SpuriousWake
<1>3. QED
  BY <1>1, <1>2 DEF Next, vars

(* What _thread, _threadStarted and keepRunning say of the worker is true, *)
(* however many callers start and stop it at once and whatever times out.  *)
THEOREM LifecycleHolds == Spec => []Lifecycle
<1>1. Init => Lifecycle
  BY DEF Init, Lifecycle, Live
<1>2. Lifecycle /\ [Next]_vars => Lifecycle'
  BY WorkerSteps
  DEF Lifecycle, Live, Start, Stop, Join, WorkerStep, Begin, RunWait, RunUnlock,
      RunLock, Exit
<1>3. QED
  BY <1>1, <1>2, PTL DEF Spec

-----------------------------------------------------------------------------
(* Joining.  Two things keep the worker that is joined from needing the    *)
(* mutex: a worker that has not begun has a start that waits for it, and   *)
(* Application's mutex keeps a stop out until that start is over.          *)

Inside == {"start", "notify", "stopping", "stop", "join"}

Exclusive == \A c \in Callers : op[c] \in Inside => appMutex = c

StartAttends == worker = "created" => \E c \in Callers : op[c] = "start"

StopFindsThread == \A c \in Callers : op[c] \in {"stop", "join"} => hasThread

OnlyWaitsExpire ==
  \A c \in expired : op[c] \in {"stop", "wait_until", "join", "crashed"}

JoinInv == /\ Exclusive
           /\ StartAttends
           /\ StopFindsThread
           /\ OnlyWaitsExpire
           /\ JoinSafe

LEMMA JoinInductive ==
  ASSUME Serialized, "start" \notin Timeouts,
         TypeOK, Lifecycle, JoinInv, [Next]_vars
  PROVE  JoinInv'
<1> USE ThreadAssumption
    DEF TypeOK, Methods, Live, Lifecycle, JoinInv, Exclusive, Inside,
        StartAttends, StopFindsThread, OnlyWaitsExpire, JoinSafe
<1> USE DEF Goto, Return, Enter
<1>1. ASSUME NEW c \in Callers, Start(c) PROVE JoinInv'
  BY <1>1 DEF Start
<1>2. ASSUME NEW c \in Callers, Stop(c) PROVE JoinInv'
  BY <1>2 DEF Stop
<1>3. ASSUME NEW c \in Callers, WaitUntil(c) PROVE JoinInv'
  BY <1>3 DEF WaitUntil
<1>4. ASSUME NEW c \in Callers, StopNotify(c) PROVE JoinInv'
  BY <1>4 DEF StopNotify
<1>5. ASSUME NEW c \in Callers, StopLock(c) PROVE JoinInv'
  BY <1>5 DEF StopLock, Await, Awaited
<1>6. ASSUME NEW c \in Callers, Retest(c) PROVE JoinInv'
  BY <1>6 DEF Retest, Await, Awaited
<1>7. ASSUME NEW c \in Callers, Expire(c) PROVE JoinInv'
  BY <1>7 DEF Expire
<1>8. ASSUME NEW c \in Callers, Join(c) PROVE JoinInv'
  BY <1>8 DEF Join
<1>10. CASE Begin
  BY <1>10 DEF Begin
<1>11. CASE Exit
  BY <1>11 DEF Exit
<1>12. CASE RunWait \/ RunUnlock \/ RunLock
  BY <1>12 DEF RunWait, RunUnlock, RunLock
<1>13. ASSUME NEW w \in waiting, SpuriousWake(w) PROVE JoinInv'
  BY <1>13 DEF SpuriousWake
<1>14. CASE UNCHANGED vars
  BY <1>14 DEF vars
<1>15. QED
  BY <1>1, <1>2, <1>3, <1>4, <1>5, <1>6, <1>7, <1>8, <1>10, <1>11, <1>12, <1>13,
     <1>14 DEF Next, CallerStep, Call, WorkerStep

(* Called as Application calls them, and with a start that does not time   *)
(* out, start and stop never join a worker that still needs the mutex.     *)
THEOREM JoinsAreSafe ==
  ASSUME Serialized, "start" \notin Timeouts
  PROVE  Spec => []JoinSafe
<1>1. Init => JoinInv
  BY DEF Init, JoinInv, Exclusive, Inside, StartAttends, StopFindsThread,
         OnlyWaitsExpire, JoinSafe
<1>2. TypeOK /\ Lifecycle /\ JoinInv /\ [Next]_vars => JoinInv'
  BY JoinInductive
<1>3. JoinInv => JoinSafe
  BY DEF JoinInv
<1>4. QED
  BY <1>1, <1>2, <1>3, TypeCorrect, LifecycleHolds, PTL DEF Spec
=============================================================================
