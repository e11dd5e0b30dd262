------------------------------ MODULE TaskHeap ------------------------------
(***************************************************************************)
(* The data structure behind LSST::cRIO::TaskQueue (TaskQueue.h/.cpp): a   *)
(* std::priority_queue over a vector, ordered by std::greater on the pair  *)
(* (time, task pointer).  A queue is the vector itself, a sequence of      *)
(* entries whose element i has its children at 2i and 2i+1.  push and pop  *)
(* are libstdc++'s heap algorithms; remove is the project's own and edits  *)
(* the vector directly.                                                    *)
(*                                                                         *)
(* The loops of the heap algorithms walk up or down one branch.  The       *)
(* positions such a loop visits are written as the least set that contains *)
(* the first one and is closed under the loop's step.                      *)
(***************************************************************************)
EXTENDS Integers, Sequences, FiniteSets

(* TaskEntry: the time the task is due and the task.  A task is a number,  *)
(* which stands for the address its shared_ptr holds.                      *)
Entry(times, tasks) == [when : times, task : tasks]

(* Mutant of Later: std::less, priority_queue's default comparison.        *)
LaterIfLess(a, b) == \/ a.when < b.when
                     \/ a.when = b.when /\ a.task < b.task

(* std::greater on two entries: lexicographic on (time, address).          *)
Later(a, b) == \/ a.when > b.when
               \/ a.when = b.when /\ a.task > b.task

Top(q) == q[1]

Least(n, Closed(_)) ==
  {i \in 1..n : \A V \in SUBSET (1..n) : Closed(V) => i \in V}

(* The places a pushed entry e visits: the new last one, then the parent   *)
(* for as long as the parent is later than e.                              *)
Rises(q, e, V) ==
  /\ Len(q) + 1 \in V
  /\ \A i \in V : i > 1 /\ Later(q[i \div 2], e) => i \div 2 \in V

RisePath(q, e) == LET closed(V) == Rises(q, e, V)
                  IN  Least(Len(q) + 1, closed)

(* push: every later ancestor moves one place down, e ends where it stops. *)
Push(q, e) ==
  LET up == RisePath(q, e)
  IN  [i \in 1..Len(q) + 1 |-> IF i \notin up THEN q[i]
                               ELSE IF i > 1 /\ i \div 2 \in up THEN q[i \div 2]
                               ELSE e]

(* pop: the hole the top leaves among the n entries that stay, the last of *)
(* the vector aside, sinks to a leaf along the earlier child (the right    *)
(* one on a tie) ...                                                       *)
EarlierChild(q, n, i) ==
  IF 2 * i + 1 <= n /\ ~Later(q[2 * i + 1], q[2 * i]) THEN 2 * i + 1 ELSE 2 * i

Sinks(q, n, V) == /\ 1 \in V
                  /\ \A i \in V : 2 * i <= n => EarlierChild(q, n, i) \in V

HolePath(q, n) == LET closed(V) == Sinks(q, n, V)
                  IN  Least(n, closed)

(* ... and rises again while the entry that moved up was later than the    *)
(* last of the vector,                                                     *)
Returns(q, n, V) ==
  /\ \A i \in HolePath(q, n) : 2 * i > n => i \in V
  /\ \A i \in V : i > 1 /\ Later(q[i], q[n + 1]) => i \div 2 \in V

ReturnPath(q, n) == LET closed(V) == Returns(q, n, V)
                    IN  Least(n, closed)

(* which is put where the hole stops.                                      *)
Pop(q) ==
  LET n    == Len(q) - 1
      down == HolePath(q, n)
      up   == ReturnPath(q, n)
  IN  [i \in 1..n |-> IF i \notin down THEN q[i]
                      ELSE IF i \notin up THEN q[EarlierChild(q, n, i)]
                      ELSE IF i > 1 /\ i \div 2 \in up THEN q[i]
                      ELSE q[n + 1]]

(* TaskQueue::remove: erases every copy of the task from the vector, the   *)
(* entries behind it moving up, and does nothing else.                     *)
Remove(q, t) ==
  LET kept    == {i \in 1..Len(q) : q[i].task # t}
      rank(i) == Cardinality({j \in kept : j <= i})
  IN  [k \in 1..Cardinality(kept) |-> q[CHOOSE i \in kept : rank(i) = k]]

(* What std::priority_queue requires of the vector it is built on.         *)
HeapOrdered(q) == \A i \in 2..Len(q) : ~Later(q[i \div 2], q[i])

(* The first entry is one of the earliest.                                 *)
TopEarliest(q) == \A i \in 1..Len(q) : Top(q).when <= q[i].when
=============================================================================
