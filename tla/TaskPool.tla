------------------------------ MODULE TaskPool ------------------------------
(***************************************************************************)
(* What ControllerThread promises to the threads that use it, with no      *)
(* mutex, no condition variable, no heap and no program counters: a bag of *)
(* (time, task) entries, at most one of which is being executed            *)
(* ("guarantee that only a single command is being executed at any         *)
(* moment"), and a clock.                                                  *)
(***************************************************************************)
EXTENDS Integers, BagsExt

CONSTANTS Tasks, Times

VARIABLES pending,    \* the bag of entries submitted and not started
          running,    \* the entry being executed, as a set of at most one
          clock

vars == <<pending, running, clock>>

NoEntries == [e \in {} |-> 1]     \* the empty bag

Init == /\ pending = NoEntries
        /\ running = {}
        /\ clock = 0

Submit == /\ \E when \in Times, t \in Tasks :
               pending' = BagAdd(pending, [when |-> when, task |-> t])
          /\ UNCHANGED <<running, clock>>

(* An entry is started only when nothing runs, only when it is due, and    *)
(* leaves the pool by being started: it is neither lost nor run twice.     *)
Start == /\ running = {}
         /\ \E e \in DOMAIN pending : /\ e.when <= clock
                                      /\ pending' = BagRemove(pending, e)
                                      /\ running' = {e}
         /\ UNCHANGED clock

(* A task that returns is gone, or comes back once, at a time not past.    *)
Finish == /\ running # {}
          /\ running' = {}
          /\ \/ UNCHANGED pending
             \/ \E e \in running, when \in Times :
                  /\ when >= clock
                  /\ pending' = BagAdd(pending,
                                       [when |-> when, task |-> e.task])
          /\ UNCHANGED clock

Withdraw == /\ \E t \in Tasks :
                 LET others == {e \in DOMAIN pending : e.task # t}
                 IN  pending' = [e \in others |-> pending[e]]
            /\ UNCHANGED <<running, clock>>

Clear == /\ pending' = NoEntries
         /\ UNCHANGED <<running, clock>>

Tick == /\ clock' > clock
        /\ UNCHANGED <<pending, running>>

Next == Submit \/ Start \/ Finish \/ Withdraw \/ Clear \/ Tick

Spec == Init /\ [][Next]_vars
=============================================================================
