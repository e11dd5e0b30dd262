----------------------- MODULE ControllerThread_proofs ----------------------
(***************************************************************************)
(* Theorems about ControllerThread, for any number of clients and tasks,   *)
(* after facts about the heap operators, for vectors of any length: they   *)
(* keep a heap one, and move entries but neither lose nor copy any.        *)
(***************************************************************************)
EXTENDS ControllerThread, FiniteSetTheorems, FunctionTheorems, WellFoundedInduction,
        TLAPS

(* Every set of naturals that is not empty has a least element.            *)
LEMMA LeastNatural ==
  ASSUME NEW V \in SUBSET Nat, V # {}
  PROVE  \E x \in V : \A y \in V : x <= y
<1>1. PICK x \in V : \A y \in V : ~(<<y, x>> \in OpToRel(<, Nat))
  BY NatLessThanWellFounded, WFMin
<1>2. ASSUME NEW y \in V, ~(x <= y) PROVE FALSE
  <2>1. <<y, x>> \in OpToRel(<, Nat)
    BY <1>2 DEF OpToRel
  <2>2. QED
    BY <2>1, <1>1
<1>3. QED
  BY <1>2

-----------------------------------------------------------------------------
(* push.                                                                   *)

(* The path of a push starts at the new place, goes on to every parent     *)
(* that is later than the pushed entry, and has no other member: below     *)
(* the new place all of them hold a later entry.                           *)
LEMMA RisePathFacts ==
  ASSUME NEW q, Len(q) \in Nat, NEW e
  PROVE  /\ RisePath(q, e) \subseteq 1..Len(q) + 1
         /\ Len(q) + 1 \in RisePath(q, e)
         /\ \A i \in RisePath(q, e) :
              i > 1 /\ Later(q[i \div 2], e) => i \div 2 \in RisePath(q, e)
         /\ \A i \in RisePath(q, e) : i # Len(q) + 1 => Later(q[i], e)
<1> DEFINE n == Len(q) + 1
           P == RisePath(q, e)
           Small == {i \in P : i # n => Later(q[i], e)}
<1>1. P \subseteq 1..n /\ n \in P
  BY DEF RisePath, Least, Rises
<1>2. ASSUME NEW i \in P, i > 1, Later(q[i \div 2], e) PROVE i \div 2 \in P
  <2>1. i \div 2 \in 1..n
    BY <1>1, <1>2
  <2>2. ASSUME NEW V \in SUBSET (1..n), Rises(q, e, V) PROVE i \div 2 \in V
    <3>1. i \in V
      BY <2>2 DEF RisePath, Least
    <3>2. QED
      BY <3>1, <1>2, <2>2 DEF Rises
  <2>3. QED
    BY <2>1, <2>2 DEF RisePath, Least
<1>3. Small \in SUBSET (1..n) /\ Rises(q, e, Small)
  BY <1>1, <1>2 DEF Rises
<1>4. P \subseteq Small
  BY <1>3 DEF RisePath, Least
<1>5. QED
  BY <1>1, <1>2, <1>4

(* push keeps a vector of entries a vector of entries, one longer.         *)
LEMMA PushType ==
  ASSUME NEW E, NEW q \in Seq(E), NEW e \in E
  PROVE  /\ Push(q, e) \in Seq(E)
         /\ Len(Push(q, e)) = Len(q) + 1
<1> DEFINE n == Len(q) + 1
<1>1. n \in RisePath(q, e)
  BY RisePathFacts
<1>2. ASSUME NEW i \in 1..n PROVE Push(q, e)[i] \in E
  <2>1. CASE i \notin RisePath(q, e)
    BY <1>1, <2>1 DEF Push
  <2>2. CASE i \in RisePath(q, e) /\ i > 1 /\ i \div 2 \in RisePath(q, e)
    <3>1. i \div 2 \in 1..Len(q)
      BY <2>2
    <3>2. QED
      BY <2>2, <3>1 DEF Push
  <2>3. CASE i \in RisePath(q, e) /\ ~(i > 1 /\ i \div 2 \in RisePath(q, e))
    BY <2>3 DEF Push
  <2>4. QED
    BY <2>1, <2>2, <2>3
<1>3. Push(q, e) = [i \in 1..n |-> Push(q, e)[i]]
  BY DEF Push
<1>4. QED
  BY <1>2, <1>3

(* push keeps heap order: whatever was pushed, every parent of the new     *)
(* vector is not later than its children.                                  *)
THEOREM PushKeepsHeap ==
  ASSUME NEW q \in Seq(Entry(Int, Int)), NEW e \in Entry(Int, Int),
         HeapOrdered(q)
  PROVE  HeapOrdered(Push(q, e))
<1> DEFINE n == Len(q) + 1
           P == RisePath(q, e)
           r == Push(q, e)
<1>1. Len(r) = n
  BY PushType
<1>2. /\ P \subseteq 1..n
      /\ n \in P
      /\ \A i \in P : i > 1 /\ Later(q[i \div 2], e) => i \div 2 \in P
      /\ \A i \in P : i # n => Later(q[i], e)
  BY RisePathFacts
<1>3. \A i \in 1..n : r[i] = IF i \notin P THEN q[i]
                             ELSE IF i > 1 /\ i \div 2 \in P THEN q[i \div 2]
                             ELSE e
  BY DEF Push
<1>4. \A i \in 1..Len(q) : q[i].when \in Int /\ q[i].task \in Int
  <2>1. \A i \in 1..Len(q) : q[i] \in Entry(Int, Int)
    OBVIOUS
  <2>2. QED
    BY <2>1 DEF Entry
<1>5. ASSUME NEW i \in 2..n PROVE ~Later(r[i \div 2], r[i])
  <2> DEFINE m == i \div 2
  <2>1. m \in 1..Len(q) /\ m < i /\ m # n
    OBVIOUS
  <2>2. m > 1 => m \div 2 \in 1..Len(q) /\ ~Later(q[m \div 2], q[m])
    BY <2>1 DEF HeapOrdered
  <2>3. i # n => i \in 1..Len(q) /\ ~Later(q[m], q[i])
    BY DEF HeapOrdered
  <2>4. CASE m \in P
    <3>1. Later(q[m], e)
      BY <1>2, <2>1, <2>4
    <3>2. r[i] = IF i \in P THEN q[m] ELSE q[i]
      BY <1>3, <2>4
    <3>3. i \notin P => i # n
      BY <1>2
    <3>4. r[m] = IF m > 1 /\ m \div 2 \in P THEN q[m \div 2] ELSE e
      BY <1>3, <2>1, <2>4
    <3>5. e.when \in Int /\ e.task \in Int
      BY DEF Entry
    <3>6. ~Later(r[m], q[m])
      BY <3>1, <3>4, <3>5, <2>1, <2>2, <1>4 DEF Later
    <3>7. r[m].when \in Int /\ r[m].task \in Int
      BY <3>4, <3>5, <2>2, <1>4
    <3>8. QED
      BY <3>2, <3>3, <3>6, <3>7, <2>1, <2>3, <1>4 DEF Later
  <2>5. CASE m \notin P
    <3>1. r[m] = q[m]
      BY <1>3, <2>1, <2>5
    <3>2. CASE i \in P
      <4>1. r[i] = e
        BY <1>3, <2>5, <3>2
      <4>2. ~Later(q[m], e)
        BY <1>2, <2>5, <3>2
      <4>3. QED
        BY <3>1, <4>1, <4>2
    <3>3. CASE i \notin P
      BY <1>2, <1>3, <2>3, <3>1, <3>3
    <3>4. QED
      BY <3>2, <3>3
  <2>6. QED
    BY <2>4, <2>5
<1>6. QED
  BY <1>1, <1>5 DEF HeapOrdered

-----------------------------------------------------------------------------
(* pop.                                                                    *)

(* The hole's path starts at the top, goes to the earlier child wherever   *)
(* there is a child, and is entered nowhere else.                          *)
LEMMA HolePathFacts ==
  ASSUME NEW q, NEW n \in Nat, n >= 1
  PROVE  /\ HolePath(q, n) \subseteq 1..n
         /\ 1 \in HolePath(q, n)
         /\ \A i \in HolePath(q, n) :
              2 * i <= n => EarlierChild(q, n, i) \in HolePath(q, n)
         /\ \A i \in HolePath(q, n) :
              i > 1 => /\ i \div 2 \in HolePath(q, n)
                       /\ i = EarlierChild(q, n, i \div 2)
<1> DEFINE P == HolePath(q, n)
           Above(i) == i \div 2 \in P /\ i = EarlierChild(q, n, i \div 2)
           Linked   == {i \in P : i > 1 => Above(i)}
<1>1. P \subseteq 1..n /\ 1 \in P
  BY DEF HolePath, Least, Sinks
<1>2. ASSUME NEW i \in P, 2 * i <= n
      PROVE  /\ EarlierChild(q, n, i) \in P
             /\ EarlierChild(q, n, i) \div 2 = i
  <2>1. EarlierChild(q, n, i) \in 1..n /\ EarlierChild(q, n, i) \div 2 = i
    BY <1>1, <1>2 DEF EarlierChild
  <2>2. ASSUME NEW V \in SUBSET (1..n), Sinks(q, n, V)
        PROVE  EarlierChild(q, n, i) \in V
    <3>1. i \in V
      BY <2>2 DEF HolePath, Least
    <3>2. QED
      BY <3>1, <1>2, <2>2 DEF Sinks
  <2>3. QED
    BY <2>1, <2>2 DEF HolePath, Least
<1>3. Linked \in SUBSET (1..n) /\ Sinks(q, n, Linked)
  BY <1>1, <1>2 DEF Sinks
<1>4. P \subseteq Linked
  BY <1>3 DEF HolePath, Least
<1>5. QED
  BY <1>1, <1>2, <1>4

(* The path back starts at the leaf, stays on the hole's path, goes on to  *)
(* the parent of every place whose entry is later than the vector's last,  *)
(* and below each of its places that is not the leaf there is one of those.*)
LEMMA ReturnPathFacts ==
  ASSUME NEW q, NEW n \in Nat, n >= 1
  PROVE  /\ ReturnPath(q, n) \subseteq HolePath(q, n)
         /\ \A i \in HolePath(q, n) : 2 * i > n => i \in ReturnPath(q, n)
         /\ \A i \in ReturnPath(q, n) :
              i > 1 /\ Later(q[i], q[n + 1]) => i \div 2 \in ReturnPath(q, n)
         /\ \A i \in ReturnPath(q, n) : 2 * i <= n =>
              /\ EarlierChild(q, n, i) \in ReturnPath(q, n)
              /\ Later(q[EarlierChild(q, n, i)], q[n + 1])
<1> DEFINE D == HolePath(q, n)
           P == ReturnPath(q, n)
           Below(i) == /\ EarlierChild(q, n, i) \in P
                       /\ Later(q[EarlierChild(q, n, i)], q[n + 1])
           Linked == {i \in P : i \in D /\ (2 * i <= n => Below(i))}
<1>1. /\ D \subseteq 1..n
      /\ \A i \in D : i > 1 => i \div 2 \in D /\ i = EarlierChild(q, n, i \div 2)
  BY HolePathFacts
<1>2. P \subseteq 1..n
  BY DEF ReturnPath, Least
<1>3. \A i \in D : 2 * i > n => i \in P
  BY <1>1 DEF ReturnPath, Least, Returns
<1>4. ASSUME NEW i \in P, i > 1, Later(q[i], q[n + 1]) PROVE i \div 2 \in P
  <2>1. i \div 2 \in 1..n
    BY <1>2, <1>4
  <2>2. ASSUME NEW V \in SUBSET (1..n), Returns(q, n, V) PROVE i \div 2 \in V
    <3>1. i \in V
      BY <2>2 DEF ReturnPath, Least
    <3>2. QED
      BY <3>1, <1>4, <2>2 DEF Returns
  <2>3. QED
    BY <2>1, <2>2 DEF ReturnPath, Least
<1>5. Linked \in SUBSET (1..n) /\ Returns(q, n, Linked)
  <2>1. \A i \in D : 2 * i > n => i \in Linked
    BY <1>3, <1>1
  <2>2. ASSUME NEW i \in Linked, i > 1, Later(q[i], q[n + 1])
        PROVE  i \div 2 \in Linked
    <3>1. i \in P /\ i \in D
      OBVIOUS
    <3>2. i \div 2 \in P
      BY <3>1, <2>2, <1>4
    <3>3. i \div 2 \in D /\ i = EarlierChild(q, n, i \div 2)
      BY <3>1, <2>2, <1>1
    <3>4. QED
      BY <3>1, <3>2, <3>3, <2>2
  <2>3. Linked \in SUBSET (1..n)
    BY <1>2
  <2>4. QED
    BY <2>1, <2>2, <2>3 DEF Returns
<1>6. P \subseteq Linked
  BY <1>5 DEF ReturnPath, Least
<1>7. QED
  BY <1>3, <1>4, <1>6

(* pop keeps a vector of entries a vector of entries; of a vector that is  *)
(* not empty it leaves one entry less.                                     *)
LEMMA PopType ==
  ASSUME NEW E, NEW q \in Seq(E)
  PROVE  /\ Pop(q) \in Seq(E)
         /\ q # <<>> => Len(Pop(q)) = Len(q) - 1
<1> DEFINE n == Len(q) - 1
<1>1. CASE n < 1
  <2>1. Pop(q) = [i \in 1..n |-> Pop(q)[i]]
    BY DEF Pop
  <2>2. 1..n = {}
    BY <1>1
  <2>3. Pop(q) = <<>>
    BY <2>1, <2>2
  <2>4. QED
    BY <1>1, <2>3
<1>2. CASE n >= 1
  <2>1. ASSUME NEW i \in 1..n PROVE Pop(q)[i] \in E
    <3>1. i \in HolePath(q, n) /\ i \notin ReturnPath(q, n)
          => EarlierChild(q, n, i) \in 1..n
      <4>1. HolePath(q, n) \subseteq 1..n
        BY <1>2, HolePathFacts
      <4>2. \A j \in HolePath(q, n) : 2 * j <= n => EarlierChild(q, n, j) \in HolePath(q, n)
        BY <1>2, HolePathFacts
      <4>3. \A j \in HolePath(q, n) : 2 * j > n => j \in ReturnPath(q, n)
        BY <1>2, ReturnPathFacts
      <4>4. QED
        BY <4>1, <4>2, <4>3
    <3>2. Pop(q)[i] = IF i \notin HolePath(q, n) THEN q[i]
                      ELSE IF i \notin ReturnPath(q, n) THEN q[EarlierChild(q, n, i)]
                      ELSE IF i > 1 /\ i \div 2 \in ReturnPath(q, n) THEN q[i]
                      ELSE q[n + 1]
      BY DEF Pop
    <3>3. \A j \in 1..n + 1 : q[j] \in E
      OBVIOUS
    <3>4. QED
      BY <3>1, <3>2, <3>3, <1>2
  <2>2. Pop(q) = [i \in 1..n |-> Pop(q)[i]]
    BY DEF Pop
  <2>3. QED
    BY <1>2, <2>1, <2>2
<1>3. QED
  BY <1>1, <1>2

(* The child that pop compares with is not later than its sibling.         *)
LEMMA EarlierChildFacts ==
  ASSUME NEW q \in Seq(Entry(Int, Int)), NEW n \in Nat, n <= Len(q),
         NEW m \in 1..n, NEW i \in 2..n, i \div 2 = m
  PROVE  /\ EarlierChild(q, n, m) \in 1..n
         /\ EarlierChild(q, n, m) \div 2 = m
         /\ ~Later(q[EarlierChild(q, n, m)], q[i])
<1>1. \A j \in 1..n : q[j].when \in Int /\ q[j].task \in Int
  <2>1. \A j \in 1..n : q[j] \in Entry(Int, Int)
    OBVIOUS
  <2>2. QED
    BY <2>1 DEF Entry
<1>2. i = 2 * m \/ i = 2 * m + 1
  OBVIOUS
<1>3. QED
  BY <1>1, <1>2 DEF EarlierChild, Later

(* pop keeps heap order.                                                   *)
THEOREM PopKeepsHeap ==
  ASSUME NEW q \in Seq(Entry(Int, Int)), HeapOrdered(q)
  PROVE  HeapOrdered(Pop(q))
<1> DEFINE n == Len(q) - 1
           D == HolePath(q, n)
           U == ReturnPath(q, n)
           r == Pop(q)
           last == q[n + 1]
<1>1. CASE n < 1
  <2>1. r = [i \in 1..n |-> r[i]]
    BY DEF Pop
  <2>2. 1..n = {}
    BY <1>1
  <2>3. r = <<>>
    BY <2>1, <2>2
  <2>4. QED
    BY <2>3 DEF HeapOrdered
<1>2. CASE n >= 1
  <2>1. Len(r) = n
    BY <1>2, PopType
  <2>2. /\ D \subseteq 1..n
        /\ \A j \in D : 2 * j <= n => EarlierChild(q, n, j) \in D
        /\ \A j \in D : j > 1 => j \div 2 \in D /\ j = EarlierChild(q, n, j \div 2)
    BY <1>2, HolePathFacts
  <2>3. /\ U \subseteq D
        /\ \A j \in D : 2 * j > n => j \in U
        /\ \A j \in U : j > 1 /\ Later(q[j], last) => j \div 2 \in U
        /\ \A j \in U : 2 * j <= n =>
             EarlierChild(q, n, j) \in U /\ Later(q[EarlierChild(q, n, j)], last)
    BY <1>2, ReturnPathFacts
  <2>4. \A j \in 1..n : r[j] = IF j \notin D THEN q[j]
                               ELSE IF j \notin U THEN q[EarlierChild(q, n, j)]
                               ELSE IF j > 1 /\ j \div 2 \in U THEN q[j]
                               ELSE last
    BY DEF Pop
  <2>5. \A j \in 1..n + 1 : q[j].when \in Int /\ q[j].task \in Int
    <3>1. \A j \in 1..n + 1 : q[j] \in Entry(Int, Int)
      OBVIOUS
    <3>2. QED
      BY <3>1 DEF Entry
  <2>6. ASSUME NEW i \in 2..n PROVE ~Later(r[i \div 2], r[i])
    <3> DEFINE m == i \div 2
               c == EarlierChild(q, n, m)
    <3>1. m \in 1..n /\ 2 * m <= n /\ m < i /\ ~Later(q[m], q[i])
      BY DEF HeapOrdered
    <3>2. c \in 2..n /\ c \div 2 = m /\ ~Later(q[c], q[i])
      <4>1. n \in Nat /\ n <= Len(q)
        BY <1>2
      <4>2. c \in 1..n /\ c \div 2 = m /\ ~Later(q[c], q[i])
        BY <4>1, <3>1, EarlierChildFacts
      <4>3. QED
        BY <4>2, <3>1
    <3>3. i # c => i \notin D
      BY <2>2, <3>1
    <3>4. CASE m \notin D
      <4>1. i \notin D
        <5>1. i > 1
          OBVIOUS
        <5> HIDE DEF D
        <5>2. QED
          BY <2>2, <3>4, <5>1
      <4>2. r[m] = q[m] /\ r[i] = q[i]
        BY <2>4, <3>1, <3>4, <4>1
      <4>3. QED
        BY <3>1, <4>2
    <3>5. CASE m \in D /\ m \notin U
      <4>1. r[m] = q[c] /\ c \in D
        BY <2>2, <2>4, <3>1, <3>5
      <4>2. CASE i # c
        BY <2>4, <3>2, <3>3, <4>1, <4>2
      <4>3. CASE i = c /\ i \notin U
        <5>1. 2 * i <= n /\ r[i] = q[EarlierChild(q, n, i)]
          BY <2>3, <2>4, <4>1, <4>3
        <5>2. EarlierChild(q, n, i) \in 2..n /\ EarlierChild(q, n, i) \div 2 = i
          BY <5>1, <3>2 DEF EarlierChild
        <5>3. ~Later(q[i], q[EarlierChild(q, n, i)])
          BY <5>2 DEF HeapOrdered
        <5>4. QED
          BY <4>1, <4>3, <5>1, <5>3
      <4>4. CASE i = c /\ i \in U
        <5>1. r[i] = last
          BY <2>4, <3>5, <4>1, <4>4
        <5>2. ~Later(q[i], last)
          BY <2>3, <3>5, <4>4
        <5>3. QED
          BY <4>1, <4>4, <5>1, <5>2
      <4>5. QED
        BY <4>2, <4>3, <4>4
    <3>6. CASE m \in D /\ m \in U
      <4>1. c \in U /\ Later(q[c], last)
        BY <2>3, <3>1, <3>6
      <4>2. r[i] = q[i]
        <5>1. CASE i = c
          BY <5>1, <4>1, <2>3, <2>4, <3>6
        <5>2. CASE i # c
          BY <5>2, <3>3, <2>4
        <5>3. QED
          BY <5>1, <5>2
      <4>3. r[m] = q[m] \/ r[m] = last
        BY <2>4, <3>1, <3>6
      <4>4. ~Later(last, q[i])
        <5>1. /\ last.when \in Int /\ last.task \in Int
              /\ q[i].when \in Int /\ q[i].task \in Int
              /\ q[c].when \in Int /\ q[c].task \in Int
          BY <2>5, <3>2, <1>2
        <5> HIDE DEF c, last
        <5>2. QED
          BY <4>1, <3>2, <5>1 DEF Later
      <4>5. QED
        BY <4>2, <4>3, <4>4, <3>1
    <3>7. QED
      BY <3>4, <3>5, <3>6
  <2>7. QED
    BY <2>1, <2>6 DEF HeapOrdered
<1>3. QED
  BY <1>1, <1>2

-----------------------------------------------------------------------------
(* The top.                                                                *)

LEMMA TopType ==
  ASSUME NEW E, NEW q \in Seq(E), q # <<>>
  PROVE  Top(q) \in E
BY DEF Top

(* The use of heap order: no entry of a heap is due before its top.        *)
THEOREM HeapTop ==
  ASSUME NEW q \in Seq(Entry(Int, Int)), HeapOrdered(q)
  PROVE  TopEarliest(q)
<1> DEFINE Before == {i \in 1..Len(q) : Later(q[1], q[i])}
<1>1. \A i \in 1..Len(q) : q[i].when \in Int /\ q[i].task \in Int
  <2>1. \A i \in 1..Len(q) : q[i] \in Entry(Int, Int)
    OBVIOUS
  <2>2. QED
    BY <2>1 DEF Entry
<1>2. Before = {}
  <2>1. SUFFICES ASSUME Before # {} PROVE FALSE
    OBVIOUS
  <2>2. PICK x \in Before : \A y \in Before : x <= y
    <3>1. Before \in SUBSET Nat
      OBVIOUS
    <3> HIDE DEF Before
    <3>2. QED
      BY <2>1, <3>1, LeastNatural
  <2>3. x > 1
    BY <1>1 DEF Later
  <2>4. x \div 2 \in 1..Len(q) /\ x \div 2 < x /\ ~Later(q[x \div 2], q[x])
    BY <2>3 DEF HeapOrdered
  <2>5. ~Later(q[1], q[x \div 2])
    BY <2>2, <2>4
  <2>6. QED
    BY <1>1, <2>3, <2>4, <2>5 DEF Later
<1>3. QED
  BY <1>1, <1>2 DEF TopEarliest, Top, Later

-----------------------------------------------------------------------------
(* remove.                                                                 *)

(* The members of a set of positions are numbered without gaps.            *)
UpTo(K, i) == {j \in K : j <= i}

LEMMA Ranks ==
  ASSUME NEW n \in Nat, NEW K \in SUBSET (1..n), NEW k \in 1..Cardinality(K)
  PROVE  \E i \in K : Cardinality(UpTo(K, i)) = k
<1> DEFINE V == {i \in 0..n : Cardinality(UpTo(K, i)) >= k}
<1>0. \A j \in K : j \in Int /\ 1 <= j /\ j <= n
  OBVIOUS
<1>1. IsFiniteSet(K) /\ Cardinality(K) \in Nat
  <2>1. IsFiniteSet(1..n)
    BY FS_Interval
  <2>2. IsFiniteSet(K)
    BY <2>1, FS_Subset
  <2>3. QED
    BY <2>2, FS_CardinalityType
<1>2. ASSUME NEW i \in Int
      PROVE  IsFiniteSet(UpTo(K, i)) /\ Cardinality(UpTo(K, i)) \in Nat
  <2>1. UpTo(K, i) \in SUBSET K
    BY DEF UpTo
  <2>2. IsFiniteSet(UpTo(K, i))
    BY <2>1, <1>1, FS_Subset
  <2>3. QED
    BY <2>2, FS_CardinalityType
<1>3. V # {} /\ V \in SUBSET Nat
  <2>1. UpTo(K, n) = K
    <3>1. \A j \in K : j <= n
      BY <1>0
    <3>2. QED
      BY <3>1 DEF UpTo
  <2>2. n \in V
    BY <2>1, <1>1
  <2>3. QED
    BY <2>2
<1>4. PICK i \in V : \A j \in V : i <= j
  <2> HIDE DEF V
  <2>1. QED
    BY <1>3, LeastNatural
<1>5. i # 0
  <2>1. UpTo(K, 0) = {}
    <3>1. \A j \in K : ~(j <= 0)
      BY <1>0
    <3>2. QED
      BY <3>1 DEF UpTo
  <2>2. Cardinality(UpTo(K, 0)) = 0
    BY <2>1, FS_EmptySet
  <2>3. QED
    BY <2>2
<1>6. i - 1 \in 0..n /\ Cardinality(UpTo(K, i - 1)) < k
  <2>1. i - 1 \in 0..n /\ i - 1 \notin V
    BY <1>4, <1>5
  <2>2. QED
    BY <2>1, <1>2
<1>7. i \in K
  <2>1. SUFFICES ASSUME i \notin K PROVE FALSE
    OBVIOUS
  <2>2. UpTo(K, i) = UpTo(K, i - 1)
    <3>1. \A j \in K : j <= i <=> j <= i - 1
      BY <1>0, <2>1
    <3>2. QED
      BY <3>1 DEF UpTo
  <2>3. QED
    BY <2>2, <1>6, <1>2
<1>8. UpTo(K, i) = UpTo(K, i - 1) \cup {i} /\ i \notin UpTo(K, i - 1)
  <2>1. \A j \in K : j <= i <=> (j <= i - 1 \/ j = i)
    BY <1>0
  <2>2. ~(i <= i - 1)
    OBVIOUS
  <2>3. QED
    BY <1>7, <2>1, <2>2 DEF UpTo
<1>9. Cardinality(UpTo(K, i)) = Cardinality(UpTo(K, i - 1)) + 1
  <2>1. IsFiniteSet(UpTo(K, i - 1))
    BY <1>6, <1>2
  <2>2. QED
    BY <1>8, <2>1, FS_AddElement
<1>10. Cardinality(UpTo(K, i)) >= k
  OBVIOUS
<1>11. Cardinality(UpTo(K, i)) = k
  BY <1>9, <1>10, <1>6, <1>2
<1>12. QED
  BY <1>11, <1>7

(* remove keeps a vector of entries a vector of entries, no longer than it *)
(* was, and leaves no copy of the removed task in it.                      *)
LEMMA RemoveType ==
  ASSUME NEW E, NEW q \in Seq(E), NEW t
  PROVE  /\ Remove(q, t) \in Seq(E)
         /\ Len(Remove(q, t)) <= Len(q)
         /\ \A k \in 1..Len(Remove(q, t)) : Remove(q, t)[k].task # t
<1> DEFINE K == {i \in 1..Len(q) : q[i].task # t}
           C == Cardinality(K)
           kth(k) == CHOOSE i \in K : Cardinality(UpTo(K, i)) = k
<1>1. C \in Nat /\ C <= Len(q)
  <2>1. IsFiniteSet(1..Len(q)) /\ Cardinality(1..Len(q)) = Len(q)
    <3>1. Len(q) \in Nat
      OBVIOUS
    <3> DEFINE n == Len(q)
    <3> HIDE DEF n
    <3>2. /\ IsFiniteSet(1..n)
          /\ Cardinality(1..n) = IF 1 > n THEN 0 ELSE n - 1 + 1
      BY <3>1, FS_Interval DEF n
    <3>3. n \in Nat
      BY <3>1 DEF n
    <3>4. Cardinality(1..n) = n
      BY <3>2, <3>3
    <3>5. QED
      BY <3>2, <3>4 DEF n
  <2>2. IsFiniteSet(K) /\ C <= Cardinality(1..Len(q))
    BY <2>1, FS_Subset
  <2>3. C \in Nat
    BY <2>2, FS_CardinalityType
  <2>4. QED
    BY <2>1, <2>2, <2>3
<1>2. ASSUME NEW k \in 1..C
      PROVE  kth(k) \in K
  <2>1. K \in SUBSET (1..Len(q)) /\ Len(q) \in Nat
    OBVIOUS
  <2> HIDE DEF K
  <2>2. \E i \in K : Cardinality(UpTo(K, i)) = k
    BY <2>1, Ranks
  <2>3. QED
    BY <2>2
<1>3. Remove(q, t) = [k \in 1..C |-> q[kth(k)]]
  BY Zenon DEF Remove, UpTo
<1> HIDE DEF kth
<1>4. \A k \in 1..C : q[kth(k)] \in E /\ q[kth(k)].task # t
  BY <1>2
<1> HIDE DEF C
<1>5. Remove(q, t) \in Seq(E) /\ Len(Remove(q, t)) = C
  BY <1>1, <1>3, <1>4
<1>6. QED
  BY <1>1, <1>3, <1>4, <1>5

-----------------------------------------------------------------------------
(* As a bag, a vector gains exactly the entry that is pushed, loses        *)
(* exactly the top that is popped, and exactly the copies of a task that   *)
(* is removed.                                                             *)

(* What a vector holds, and how often.                                     *)
Held(q)      == {q[i] : i \in DOMAIN q}
Places(q, x) == {i \in DOMAIN q : q[i] = x}
Count(q, x)  == Cardinality(Places(q, x))

(* The same of some of its places.                                         *)
HeldIn(q, B)     == {q[b] : b \in B}
CountIn(q, B, x) == Cardinality({b \in B : q[b] = x})

LEMMA PlacesFinite ==
  ASSUME NEW q, NEW n \in Nat, DOMAIN q = 1..n, NEW x
  PROVE  IsFiniteSet(Places(q, x)) /\ Count(q, x) \in Nat
<1>1. IsFiniteSet(1..n) /\ Places(q, x) \in SUBSET (1..n)
  BY FS_Interval DEF Places
<1>2. IsFiniteSet(Places(q, x))
  BY <1>1, FS_Subset
<1>3. QED
  BY <1>2, FS_CardinalityType DEF Count

(* Two vectors whose places can be matched one to one, with the same entry *)
(* at matched places, hold the same entries there, as often.               *)
Matches(g, r, A, s, B) ==
  /\ g \in [A -> B]
  /\ \A i, j \in A : g[i] = g[j] => i = j
  /\ \A b \in B : \E i \in A : g[i] = b
  /\ \A i \in A : r[i] = s[g[i]]

LEMMA Matched ==
  ASSUME NEW r, NEW A, NEW s, NEW B, NEW g, Matches(g, r, A, s, B),
         IsFiniteSet(A)
  PROVE  /\ HeldIn(r, A) = HeldIn(s, B)
         /\ \A x : CountIn(r, A, x) = CountIn(s, B, x)
<1> USE DEF Matches
<1>1. HeldIn(r, A) = HeldIn(s, B)
  BY DEF HeldIn
<1>2. ASSUME NEW x PROVE CountIn(r, A, x) = CountIn(s, B, x)
  <2> DEFINE R == {i \in A : r[i] = x}
             Q == {b \in B : s[b] = x}
             h == [i \in R |-> g[i]]
  <2>1. R \subseteq A /\ IsFiniteSet(R)
    BY FS_Subset
  <2>2. h \in [R -> Q]
    BY <2>1
  <2>3. \A i, j \in R : h[i] = h[j] => i = j
    BY <2>1
  <2>4. \A b \in Q : \E i \in R : h[i] = b
    <3>1. TAKE b \in Q
    <3>2. PICK i \in A : g[i] = b
      OBVIOUS
    <3>3. r[i] = x
      BY <3>2
    <3>4. i \in R
      BY <3>3
    <3>5. QED
      BY <3>2, <3>4
  <2> HIDE DEF R, Q, h
  <2>5. h \in Bijection(R, Q)
    BY <2>2, <2>3, <2>4, Fun_IsBij
  <2>6. ExistsBijection(R, Q)
    BY <2>5 DEF ExistsBijection
  <2>7. Cardinality(Q) = Cardinality(R)
    BY <2>1, <2>6, FS_Bijection
  <2>8. QED
    BY <2>7 DEF R, Q, CountIn
<1>3. QED
  BY <1>1, <1>2

(* Two vectors of one length are the same bag as soon as the matching is   *)
(* injective.                                                              *)
Permutes(g, r, s, n) ==
  /\ DOMAIN r = 1..n
  /\ DOMAIN s = 1..n
  /\ g \in [1..n -> 1..n]
  /\ \A i, j \in 1..n : g[i] = g[j] => i = j
  /\ \A i \in 1..n : r[i] = s[g[i]]

LEMMA Permuted ==
  ASSUME NEW r, NEW s, NEW n \in Nat, NEW g, Permutes(g, r, s, n)
  PROVE  /\ Held(r) = Held(s)
         /\ \A x : Count(r, x) = Count(s, x)
<1> USE DEF Permutes
<1> DEFINE N == 1..n
<1>1. IsFiniteSet(N)
  BY FS_Interval
<1> HIDE DEF N
<1>2. g \in Injection(N, N)
  BY Fun_IsInj DEF N
<1>3. g \in Surjection(N, N)
  BY <1>1, <1>2, FS_Injection
<1>4. \A b \in N : \E i \in N : g[i] = b
  BY <1>3, Fun_SurjectionProperties
<1>5. Matches(g, r, N, s, N)
  BY <1>4 DEF Matches, N
<1>6. /\ HeldIn(r, N) = HeldIn(s, N)
      /\ \A x : CountIn(r, N, x) = CountIn(s, N, x)
  BY <1>1, <1>5, Matched
<1>7. /\ HeldIn(r, N) = Held(r) /\ HeldIn(s, N) = Held(s)
      /\ \A x : CountIn(r, N, x) = Count(r, x) /\ CountIn(s, N, x) = Count(s, x)
  BY DEF Held, HeldIn, Count, CountIn, Places, N
<1>8. QED
  BY <1>6, <1>7

(* One more entry at the end.                                              *)
Extends(s, q, n, e) ==
  /\ DOMAIN q = 1..n
  /\ s = [i \in 1..n + 1 |-> IF i <= n THEN q[i] ELSE e]

LEMMA OneMore ==
  ASSUME NEW q, NEW n \in Nat, NEW e, NEW s, Extends(s, q, n, e)
  PROVE  /\ Held(s) = Held(q) \cup {e}
         /\ \A x : Count(s, x) = Count(q, x) + IF x = e THEN 1 ELSE 0
<1>0. DOMAIN s = 1..n + 1 /\ s[n + 1] = e /\ \A i \in 1..n : s[i] = q[i]
  BY DEF Extends
<1> USE DEF Extends
<1>1. Held(s) = Held(q) \cup {e}
  <2>1. \A i \in 1..n + 1 : i \in 1..n \/ i = n + 1
    OBVIOUS
  <2>2. n + 1 \in 1..n + 1 /\ \A i \in 1..n : i \in 1..n + 1
    OBVIOUS
  <2>3. QED
    BY <1>0, <2>1, <2>2 DEF Held
<1>2. ASSUME NEW x PROVE Count(s, x) = Count(q, x) + IF x = e THEN 1 ELSE 0
  <2>1. IsFiniteSet(Places(q, x)) /\ Count(q, x) \in Nat
    BY PlacesFinite
  <2>2. n + 1 \notin Places(q, x)
    BY DEF Places
  <2>3. CASE x = e
    <3>1. Places(s, x) = Places(q, x) \cup {n + 1}
      BY <1>0, <2>3 DEF Places
    <3>2. Count(s, x) = Count(q, x) + 1
      BY <2>1, <2>2, <3>1, FS_AddElement DEF Count
    <3>3. QED
      BY <2>3, <3>2
  <2>4. CASE x # e
    <3>1. Places(s, x) = Places(q, x)
      BY <1>0, <2>4 DEF Places
    <3>2. QED
      BY <2>1, <2>4, <3>1 DEF Count
  <2>5. QED
    BY <2>3, <2>4
<1>3. QED
  BY <1>1, <1>2

-----------------------------------------------------------------------------
(* push.                                                                   *)

(* The path is one branch of the tree, and it has one highest place.       *)
LEMMA RiseBranch ==
  ASSUME NEW q, Len(q) \in Nat, NEW e
  PROVE  /\ \A i, j \in RisePath(q, e) : j < i => j <= i \div 2
         /\ \A i, j \in RisePath(q, e) :
              /\ i > 1 => i \div 2 \notin RisePath(q, e)
              /\ j > 1 => j \div 2 \notin RisePath(q, e)
              => i = j
<1> DEFINE n == Len(q) + 1
           P == RisePath(q, e)
           Above(i) == \A j \in P : i < j => i <= j \div 2
           Branch == {i \in P : Above(i)}
<1>1. /\ P \subseteq 1..n
      /\ n \in P
      /\ \A i \in P : i > 1 /\ Later(q[i \div 2], e) => i \div 2 \in P
  BY RisePathFacts
<1>2. ASSUME NEW V \in SUBSET (1..n), Rises(q, e, V) PROVE P \subseteq V
  BY <1>2 DEF RisePath, Least
<1> HIDE DEF P, n
<1>3. n \in Nat /\ n >= 1
  BY DEF n
<1>4. ASSUME NEW V \in SUBSET P, n \in V,
             \A i \in V : i > 1 /\ i \div 2 \in P => i \div 2 \in V
      PROVE  P \subseteq V
  <2>1. V \in SUBSET (1..n)
    BY <1>1
  <2>2. Rises(q, e, V)
    BY <1>1, <1>4 DEF Rises, n
  <2>3. QED
    BY <1>2, <2>1, <2>2
<1>5. P \subseteq Branch
  <2>1. n \in Branch
    BY <1>1, <1>3
  <2>2. ASSUME NEW k \in Branch, k > 1, k \div 2 \in P
        PROVE  k \div 2 \in Branch
    <3> DEFINE m == k \div 2
               U == {i \in P : i >= k \/ i <= m}
    <3>1. P \subseteq U
      <4>1. n \in U
        BY <1>1, <1>3
      <4>2. ASSUME NEW i \in U, i > 1, i \div 2 \in P PROVE i \div 2 \in U
        <5>1. i \in 1..n /\ k \in 1..n /\ i \in P
          BY <1>1
        <5>2. CASE i = k
          BY <4>2, <5>1, <5>2
        <5>3. CASE i > k
          <6>1. k <= i \div 2
            BY <2>2, <5>1, <5>3
          <6>2. QED
            BY <4>2, <6>1
        <5>4. CASE i <= m
          BY <4>2, <5>1, <5>4
        <5>5. QED
          BY <5>1, <5>2, <5>3, <5>4
      <4> HIDE DEF U
      <4>3. QED
        <5>1. U \in SUBSET P
          BY DEF U
        <5>2. QED
          BY <1>4, <4>1, <4>2, <5>1
    <3>2. ASSUME NEW j \in P, m < j PROVE m <= j \div 2
      <4>1. j \in 1..n /\ k \in 1..n
        BY <1>1
      <4>2. j >= k
        BY <3>1, <3>2, <4>1
      <4>3. QED
        BY <4>1, <4>2
    <3>3. QED
      BY <2>2, <3>2
  <2>3. QED
    <3>1. Branch \in SUBSET P
      OBVIOUS
    <3> HIDE DEF Branch
    <3>2. QED
      BY <1>4, <2>1, <2>2, <3>1
<1>6. ASSUME NEW i \in P, NEW j \in P, j < i, i > 1 => i \div 2 \notin P
      PROVE  FALSE
  <2> DEFINE V == {k \in P : k >= i}
  <2>1. i \in 1..n /\ j \in 1..n
    BY <1>1
  <2>2. n \in V
    BY <1>1, <1>3, <2>1
  <2>3. ASSUME NEW k \in V, k > 1, k \div 2 \in P PROVE k \div 2 \in V
    <3>1. k \in 1..n /\ k \in P
      BY <1>1
    <3>2. k # i
      BY <1>6, <2>3
    <3>3. i <= k \div 2
      BY <1>5, <2>1, <3>1, <3>2
    <3>4. QED
      BY <2>3, <3>3
  <2>4. P \subseteq V
    <3>1. V \in SUBSET P
      OBVIOUS
    <3> HIDE DEF V
    <3>2. QED
      BY <1>4, <2>2, <2>3, <3>1
  <2>5. QED
    BY <1>6, <2>1, <2>4
<1>7. \A i, j \in P : j < i => j <= i \div 2
  BY <1>5
<1>8. ASSUME NEW i \in P, NEW j \in P,
             i > 1 => i \div 2 \notin P, j > 1 => j \div 2 \notin P
      PROVE  i = j
  <2>1. i \in 1..n /\ j \in 1..n
    BY <1>1
  <2>2. i < j \/ j < i \/ i = j
    BY <2>1
  <2>3. QED
    BY <1>6, <1>8, <2>2
<1>9. QED
  BY <1>7, <1>8 DEF P

(* push adds the pushed entry and nothing else (TaskQueue::push).          *)
THEOREM PushAdds ==
  ASSUME NEW E, NEW q \in Seq(E), NEW e \in E
  PROVE  /\ Held(Push(q, e)) = Held(q) \cup {e}
         /\ \A x : Count(Push(q, e), x) = Count(q, x) + IF x = e THEN 1 ELSE 0
<1> DEFINE l == Len(q)
           n == l + 1
           P == RisePath(q, e)
           r == Push(q, e)
           s == [i \in 1..l + 1 |-> IF i <= l THEN q[i] ELSE e]
           g == [i \in 1..n |-> IF i \notin P THEN i
                                ELSE IF i > 1 /\ i \div 2 \in P THEN i \div 2
                                ELSE n]
<1>0. l \in Nat /\ DOMAIN q = 1..l
  OBVIOUS
<1>1. P \subseteq 1..n /\ n \in P
  BY RisePathFacts
<1>2. /\ \A i, j \in P : j < i => j <= i \div 2
      /\ \A i, j \in P : /\ i > 1 => i \div 2 \notin P
                         /\ j > 1 => j \div 2 \notin P
                         => i = j
  <2>1. Len(q) \in Nat
    OBVIOUS
  <2>2. QED
    BY <2>1, RiseBranch
<1>3. DOMAIN r = 1..n
  BY DEF Push
<1>4. \A i \in 1..n : r[i] = IF i \notin P THEN q[i]
                             ELSE IF i > 1 /\ i \div 2 \in P THEN q[i \div 2]
                             ELSE e
  BY DEF Push
<1> HIDE DEF P, r, l
<1>5. g \in [1..n -> 1..n]
  BY <1>0, <1>1
<1>6. ASSUME NEW i \in 1..n PROVE r[i] = s[g[i]]
  <2>1. CASE i \notin P
    <3>1. i # n
      BY <1>1, <2>1
    <3>2. QED
      BY <1>0, <1>4, <2>1, <3>1
  <2>2. CASE i \in P /\ i > 1 /\ i \div 2 \in P
    BY <1>0, <1>4, <2>2
  <2>3. CASE i \in P /\ ~(i > 1 /\ i \div 2 \in P)
    BY <1>0, <1>4, <2>3
  <2>4. QED
    BY <2>1, <2>2, <2>3
<1>7. ASSUME NEW i \in 1..n, NEW j \in 1..n, g[i] = g[j] PROVE i = j
  <2> DEFINE moves(k) == k \in P /\ k > 1 /\ k \div 2 \in P
  <2>0. ASSUME NEW k \in 1..n
        PROVE  /\ k \notin P => g[k] = k
               /\ moves(k) => g[k] = k \div 2
               /\ k \in P /\ ~moves(k) => g[k] = n
    OBVIOUS
  <2> HIDE DEF g
  <2>1. ASSUME NEW a \in 1..n, NEW b \in 1..n, moves(a), moves(b),
               a \div 2 = b \div 2, a < b
        PROVE  FALSE
    <3>1. a <= b \div 2
      BY <1>2, <2>1
    <3>2. QED
      BY <2>1, <3>1
  <2>2. ASSUME NEW a \in 1..n, moves(a) PROVE a \div 2 # n
    BY <1>0
  <2>3. CASE moves(i) /\ moves(j)
    BY <1>7, <2>0, <2>1, <2>3
  <2>4. CASE i \in P /\ ~moves(i) /\ j \in P /\ ~moves(j)
    BY <1>2, <2>4
  <2>5. CASE i \in P /\ j \in P /\ (moves(i) <=> ~moves(j))
    BY <1>7, <2>0, <2>2, <2>5
  <2>6. CASE i \notin P \/ j \notin P
    BY <1>1, <1>7, <2>0, <2>6
  <2>7. QED
    BY <2>3, <2>4, <2>5, <2>6
<1>8. DOMAIN s = 1..n
  OBVIOUS
<1> HIDE DEF g, s
<1>9. Held(r) = Held(s) /\ \A x : Count(r, x) = Count(s, x)
  <2>1. Permutes(g, r, s, n)
    BY <1>3, <1>5, <1>6, <1>7, <1>8 DEF Permutes
  <2>2. n \in Nat
    BY <1>0
  <2> HIDE DEF n
  <2>3. QED
    BY <2>1, <2>2, Permuted
<1>10. /\ Held(s) = Held(q) \cup {e}
       /\ \A x : Count(s, x) = Count(q, x) + IF x = e THEN 1 ELSE 0
  <2>1. Extends(s, q, l, e)
    BY <1>0 DEF Extends, s
  <2>2. QED
    BY <1>0, <2>1, OneMore
<1>11. QED
  BY <1>9, <1>10 DEF r

-----------------------------------------------------------------------------
(* pop.                                                                    *)

(* The hole's path is one branch, with one leaf, and the path back has one *)
(* highest place.                                                          *)
LEMMA HoleBranch ==
  ASSUME NEW q, NEW n \in Nat, n >= 1
  PROVE  \A i, j \in HolePath(q, n) : j < i => EarlierChild(q, n, j) <= i
<1> DEFINE D == HolePath(q, n)
           child(i) == EarlierChild(q, n, i)
           Below(i) == \A j \in D : j < i => child(j) <= i
           Branch == {i \in D : Below(i)}
<1>1. /\ D \subseteq 1..n
      /\ 1 \in D
      /\ \A i \in D : 2 * i <= n => child(i) \in D
  BY HolePathFacts
<1>2. \A i \in 1..n : child(i) \in {2 * i, 2 * i + 1}
  BY DEF EarlierChild
<1>3. ASSUME NEW V \in SUBSET D, 1 \in V,
             \A i \in V : 2 * i <= n => child(i) \in V
      PROVE  D \subseteq V
  <2>1. V \in SUBSET (1..n) /\ Sinks(q, n, V)
    BY <1>1, <1>3 DEF Sinks
  <2>2. QED
    BY <2>1 DEF HolePath, Least
<1> HIDE DEF D, child
<1>4. D \subseteq Branch
  <2>1. 1 \in Branch
    BY <1>1
  <2>2. ASSUME NEW k \in Branch, 2 * k <= n PROVE child(k) \in Branch
    <3> DEFINE U == {j \in D : j <= k \/ j >= child(k)}
    <3>0. k \in 1..n /\ k \in D /\ child(k) \in {2 * k, 2 * k + 1}
      BY <1>1, <1>2
    <3>1. D \subseteq U
      <4>1. 1 \in U
        BY <1>1, <3>0
      <4>2. ASSUME NEW j \in U, 2 * j <= n PROVE child(j) \in U
        <5>1. j \in 1..n /\ j \in D /\ child(j) \in D
              /\ child(j) \in {2 * j, 2 * j + 1}
          BY <1>1, <1>2, <4>2
        <5>2. CASE j < k
          <6>1. child(j) <= k
            BY <5>1, <5>2
          <6>2. QED
            BY <5>1, <6>1
        <5>3. CASE j = k
          BY <3>0, <5>1, <5>3
        <5>4. CASE j >= child(k)
          BY <3>0, <5>1, <5>4
        <5>5. QED
          BY <3>0, <5>1, <5>2, <5>3, <5>4
      <4>3. U \in SUBSET D
        OBVIOUS
      <4> HIDE DEF U
      <4>4. QED
        BY <1>3, <4>1, <4>2, <4>3
    <3>2. ASSUME NEW j \in D, j < child(k) PROVE child(j) <= child(k)
      <4>1. j \in 1..n /\ child(j) \in {2 * j, 2 * j + 1}
        BY <1>1, <1>2
      <4>2. j <= k
        BY <3>0, <3>1, <3>2, <4>1
      <4>3. CASE j = k
        BY <3>0, <4>3
      <4>4. CASE j < k
        <5>1. child(j) <= k
          BY <4>4
        <5>2. QED
          BY <3>0, <4>1, <5>1
      <4>5. QED
        BY <3>0, <4>1, <4>2, <4>3, <4>4
    <3>3. QED
      BY <1>1, <2>2, <3>2
  <2>3. Branch \in SUBSET D
    OBVIOUS
  <2> HIDE DEF Branch
  <2>4. QED
    BY <1>3, <2>1, <2>2, <2>3
<1>5. QED
  BY <1>4 DEF D, child

LEMMA ReturnTop ==
  ASSUME NEW q, NEW n \in Nat, n >= 1
  PROVE  \A i, j \in ReturnPath(q, n) :
           /\ i > 1 => i \div 2 \notin ReturnPath(q, n)
           /\ j > 1 => j \div 2 \notin ReturnPath(q, n)
           => i = j
<1> DEFINE D == HolePath(q, n)
           U == ReturnPath(q, n)
<1>1. /\ D \subseteq 1..n
      /\ U \subseteq D
      /\ \A i \in U : i > 1 /\ Later(q[i], q[n + 1]) => i \div 2 \in U
  BY HolePathFacts, ReturnPathFacts
<1>2. \A i, j \in D : j < i => 2 * j <= i
  <2>1. ASSUME NEW i \in D, NEW j \in D, j < i PROVE 2 * j <= i
    <3>1. EarlierChild(q, n, j) <= i
      BY <2>1, HoleBranch
    <3>2. i \in 1..n /\ j \in 1..n
      BY <1>1
    <3>3. EarlierChild(q, n, j) \in {2 * j, 2 * j + 1}
      BY DEF EarlierChild
    <3>4. QED
      BY <3>1, <3>2, <3>3
  <2>2. QED
    BY <2>1
<1>3. ASSUME NEW V \in SUBSET (1..n), Returns(q, n, V) PROVE U \subseteq V
  BY <1>3 DEF ReturnPath, Least
<1>4. ASSUME NEW i \in U, NEW j \in U, j < i, i > 1 => i \div 2 \notin U
      PROVE  FALSE
  <2> DEFINE V == {k \in U : k >= i}
  <2>1. i \in 1..n /\ i \in D /\ j \in 1..n
    BY <1>1
  <2>2. ASSUME NEW k \in D, 2 * k > n PROVE k \in V
    <3>1. k \in 1..n /\ k \in U
      BY <1>1, <2>2, ReturnPathFacts
    <3>2. ~(k < i)
      BY <1>2, <2>1, <2>2, <3>1
    <3>3. QED
      BY <2>1, <3>1, <3>2
  <2>3. ASSUME NEW k \in V, k > 1, Later(q[k], q[n + 1])
        PROVE  k \div 2 \in V
    <3>1. k \in 1..n /\ k \in D /\ k \div 2 \in U
      BY <1>1, <2>3
    <3>2. k # i
      BY <1>4, <2>3, <3>1
    <3>3. 2 * i <= k
      BY <1>2, <2>1, <3>1, <3>2
    <3>4. QED
      BY <2>1, <3>1, <3>3
  <2>4. V \in SUBSET (1..n)
    BY <1>1
  <2>5. U \subseteq V
    <3>1. Returns(q, n, V)
      BY <2>2, <2>3 DEF Returns
    <3>2. QED
      BY <1>3, <2>4, <3>1
  <2>6. QED
    BY <1>4, <2>1, <2>5
<1>5. ASSUME NEW i \in U, NEW j \in U,
             i > 1 => i \div 2 \notin U, j > 1 => j \div 2 \notin U
      PROVE  i = j
  <2>1. i \in 1..n /\ j \in 1..n
    BY <1>1
  <2>2. i < j \/ j < i \/ i = j
    BY <2>1
  <2>3. QED
    BY <1>4, <1>5, <2>2
<1>6. QED
  BY <1>5

(* pop takes the top out and nothing else, heap or not.                    *)
THEOREM PopTakes ==
  ASSUME NEW E, NEW q \in Seq(E), q # <<>>
  PROVE  /\ Held(q) = Held(Pop(q)) \cup {Top(q)}
         /\ \A x : Count(q, x) = Count(Pop(q), x) + IF x = Top(q) THEN 1 ELSE 0
<1> DEFINE N == Len(q)
           n == N - 1
           D == HolePath(q, n)
           U == ReturnPath(q, n)
           child(i) == EarlierChild(q, n, i)
           r == Pop(q)
           s == [i \in 1..n + 1 |-> IF i <= n THEN r[i] ELSE q[1]]
           moves(i) == i \in U /\ i > 1 /\ i \div 2 \in U
           stops(i) == i \in U /\ ~moves(i)
           g == [i \in 1..n + 1 |-> IF i = n + 1 THEN 1
                                    ELSE IF i \notin D THEN i
                                    ELSE IF i \notin U THEN child(i)
                                    ELSE IF moves(i) THEN i
                                    ELSE n + 1]
<1>0. n \in Nat /\ DOMAIN q = 1..n + 1 /\ N = n + 1
  OBVIOUS
<1>1. n >= 1 => /\ D \subseteq 1..n /\ 1 \in D
                /\ U \subseteq D
                /\ \A i \in D : i \notin U => /\ 2 * i <= n
                                              /\ child(i) \in D
                /\ \A i, j \in U : stops(i) /\ stops(j) => i = j
  <2> SUFFICES ASSUME n >= 1
               PROVE  /\ D \subseteq 1..n /\ 1 \in D
                      /\ U \subseteq D
                      /\ \A i \in D : i \notin U => /\ 2 * i <= n
                                                    /\ child(i) \in D
                      /\ \A i, j \in U : stops(i) /\ stops(j) => i = j
    OBVIOUS
  <2>1. /\ D \subseteq 1..n /\ 1 \in D
        /\ \A i \in D : 2 * i <= n => child(i) \in D
    BY <1>0, HolePathFacts
  <2>2. U \subseteq D /\ \A i \in D : 2 * i > n => i \in U
    BY <1>0, ReturnPathFacts
  <2>3. \A i, j \in U : stops(i) /\ stops(j) => i = j
    BY <1>0, ReturnTop
  <2>4. ASSUME NEW i \in D, i \notin U PROVE 2 * i <= n /\ child(i) \in D
    <3>1. i \in 1..n /\ ~(2 * i > n)
      BY <2>1, <2>2, <2>4
    <3>2. QED
      BY <1>0, <2>1, <3>1
  <2>5. QED
    BY <2>1, <2>2, <2>3, <2>4
<1>2. \A i \in 1..n : child(i) \in {2 * i, 2 * i + 1}
  BY DEF EarlierChild
<1>3. /\ DOMAIN r = 1..n
      /\ \A i \in 1..n : r[i] = IF i \notin D THEN q[i]
                                ELSE IF i \notin U THEN q[child(i)]
                                ELSE IF i > 1 /\ i \div 2 \in U THEN q[i]
                                ELSE q[n + 1]
  BY DEF Pop
<1> HIDE DEF n, D, U, child, r
<1>4. n = 0 \/ n >= 1
  BY <1>0
<1>5. ASSUME NEW i \in 1..n + 1 PROVE i = n + 1 \/ (i \in 1..n /\ n >= 1)
  BY <1>0
<1>6. g \in [1..n + 1 -> 1..n + 1]
  <2>1. ASSUME NEW i \in 1..n + 1 PROVE g[i] \in 1..n + 1
    <3>1. CASE i = n + 1
      BY <1>0, <3>1
    <3>2. CASE i # n + 1
      <4>1. i \in 1..n /\ n >= 1
        BY <1>5, <3>2
      <4>2. i \in D /\ i \notin U => child(i) \in 1..n
        BY <1>1, <4>1
      <4>3. QED
        BY <1>0, <3>2, <4>1, <4>2
    <3>3. QED
      BY <3>1, <3>2
  <2> DEFINE place(i) == IF i = n + 1 THEN 1
                         ELSE IF i \notin D THEN i
                         ELSE IF i \notin U THEN child(i)
                         ELSE IF moves(i) THEN i
                         ELSE n + 1
  <2>2. g = [i \in 1..n + 1 |-> place(i)] /\ \A i \in 1..n + 1 : place(i) \in 1..n + 1
    BY <2>1
  <2> HIDE DEF g, place
  <2>3. QED
    BY <2>2
<1>7. ASSUME NEW i \in 1..n + 1 PROVE s[i] = q[g[i]]
  <2>1. CASE i = n + 1
    BY <1>0, <2>1
  <2>2. CASE i # n + 1
    <3>1. i \in 1..n /\ n >= 1 /\ s[i] = r[i]
      BY <1>0, <1>5, <2>2
    <3>2. QED
      BY <1>1, <1>3, <2>2, <3>1
  <2>3. QED
    BY <2>1, <2>2
<1>8. ASSUME NEW i \in 1..n PROVE /\ i \notin D => g[i] = i
                                  /\ i \in D /\ i \notin U => g[i] = child(i)
                                  /\ moves(i) => g[i] = i
                                  /\ stops(i) => g[i] = n + 1
  <2>1. i \in 1..n + 1 /\ i # n + 1 /\ n >= 1
    BY <1>0
  <2>2. i \in U => i \in D
    BY <1>1, <2>1
  <2>3. g[i] = IF i \notin D THEN i
               ELSE IF i \notin U THEN child(i)
               ELSE IF moves(i) THEN i
               ELSE n + 1
    BY <2>1
  <2> HIDE DEF g
  <2>4. QED
    BY <2>2, <2>3
<1>9. g[n + 1] = 1
  BY <1>0
<1> HIDE DEF g
<1>10. ASSUME NEW i \in 1..n PROVE g[i] # 1 /\ g[i] \in 2..n + 1
  <2>1. n >= 1
    BY <1>0
  <2>2. CASE i \notin D
    BY <1>0, <1>1, <1>8, <2>1, <2>2
  <2>3. CASE i \in D /\ i \notin U
    <3>1. child(i) \in 1..n /\ child(i) # 1
      BY <1>0, <1>1, <1>2, <2>1, <2>3
    <3>2. QED
      BY <1>0, <1>8, <2>3, <3>1
  <2>4. CASE moves(i)
    BY <1>0, <1>8, <2>4
  <2>5. CASE stops(i)
    BY <1>0, <1>8, <2>5
  <2>6. QED
    BY <2>2, <2>3, <2>4, <2>5
<1>11. ASSUME NEW i \in 1..n, NEW j \in 1..n, g[i] = g[j] PROVE i = j
  <2>0. /\ n >= 1
        /\ D \subseteq 1..n /\ U \subseteq D
        /\ \A k \in D : k \notin U => child(k) \in D /\ child(k) \div 2 = k
        /\ \A k, m \in U : stops(k) /\ stops(m) => k = m
    <3>1. n >= 1
      BY <1>0
    <3>2. ASSUME NEW k \in D, k \notin U PROVE child(k) \in D /\ child(k) \div 2 = k
      <4>1. k \in 1..n
        BY <1>1, <3>1
      <4>2. child(k) \in {2 * k, 2 * k + 1}
        BY <1>2, <4>1
      <4>3. QED
        BY <1>1, <3>1, <3>2, <4>1, <4>2
    <3>3. QED
      BY <1>1, <3>1, <3>2
  <2>1. ASSUME NEW a \in 1..n, NEW b \in 1..n, g[a] = g[b], a \in D, a \notin U
        PROVE  a = b
    <3>1. g[a] = child(a) /\ child(a) \in D /\ child(a) \div 2 = a
      BY <1>8, <2>0, <2>1
    <3>2. b \in D
      BY <1>8, <2>1, <3>1
    <3>3. CASE b \notin U
      <4>1. g[b] = child(b) /\ child(b) \div 2 = b
        BY <1>8, <2>0, <3>2, <3>3
      <4>2. QED
        BY <2>1, <3>1, <4>1
    <3>4. CASE moves(b)
      <4>1. g[b] = b
        BY <1>8, <3>4
      <4>2. QED
        BY <2>1, <3>1, <3>4, <4>1
    <3>5. CASE stops(b)
      <4>1. g[b] = n + 1 /\ child(a) \in 1..n
        BY <1>8, <2>0, <3>1, <3>5
      <4>2. n + 1 \notin 1..n
        BY <1>0
      <4>3. QED
        BY <2>1, <3>1, <4>1, <4>2
    <3>6. QED
      BY <3>3, <3>4, <3>5
  <2>2. CASE (i \in D /\ i \notin U) \/ (j \in D /\ j \notin U)
    BY <1>11, <2>1, <2>2
  <2>3. CASE (i \notin D \/ i \in U) /\ (j \notin D \/ j \in U)
    <3>1. ASSUME NEW k \in 1..n, k \notin D \/ k \in U, ~stops(k)
          PROVE  g[k] = k
      BY <1>8, <3>1
    <3>2. ASSUME NEW k \in 1..n, stops(k) PROVE g[k] = n + 1
      BY <1>8, <3>2
    <3>3. n + 1 \notin 1..n
      BY <1>0
    <3>4. CASE stops(i) /\ stops(j)
      BY <2>0, <3>4
    <3>5. CASE ~(stops(i) /\ stops(j))
      <4> HIDE DEF stops
      <4>1. QED
        BY <1>11, <2>3, <3>1, <3>2, <3>3, <3>5
    <3>6. QED
      BY <3>4, <3>5
  <2>4. QED
    BY <2>2, <2>3
<1>12. \A i, j \in 1..n + 1 : g[i] = g[j] => i = j
  BY <1>5, <1>9, <1>10, <1>11
<1>13. Permutes(g, s, q, n + 1) /\ n + 1 \in Nat
  BY <1>0, <1>6, <1>7, <1>12 DEF Permutes
<1>14. Extends(s, r, n, q[1])
  BY <1>3 DEF Extends
<1> HIDE DEF s
<1>15. /\ Held(s) = Held(q)
       /\ \A x : Count(s, x) = Count(q, x)
  <2> DEFINE m == n + 1
  <2> HIDE DEF m
  <2>1. Permutes(g, s, q, m) /\ m \in Nat
    BY <1>13 DEF m
  <2>2. QED
    BY <2>1, Permuted
<1>16. /\ Held(s) = Held(r) \cup {q[1]}
       /\ \A x : Count(s, x) = Count(r, x) + IF x = q[1] THEN 1 ELSE 0
  BY <1>0, <1>14, OneMore
<1>17. QED
  BY <1>15, <1>16 DEF r, Top

-----------------------------------------------------------------------------
(* remove.                                                                 *)

(* A member of a set of positions has one rank, and no other member has it.*)
LEMMA RankOne ==
  ASSUME NEW n \in Nat, NEW K \in SUBSET (1..n), NEW i \in K
  PROVE  /\ Cardinality(UpTo(K, i)) \in 1..Cardinality(K)
         /\ \A j \in K : i < j => Cardinality(UpTo(K, i)) < Cardinality(UpTo(K, j))
<1>1. IsFiniteSet(K)
  <2>1. IsFiniteSet(1..n)
    BY FS_Interval
  <2>2. QED
    BY <2>1, FS_Subset
<1>2. ASSUME NEW k \in K
      PROVE  /\ UpTo(K, k) \in SUBSET K /\ IsFiniteSet(UpTo(K, k))
             /\ Cardinality(UpTo(K, k)) \in Nat
             /\ Cardinality(UpTo(K, k)) <= Cardinality(K)
  <2>1. UpTo(K, k) \in SUBSET K
    BY DEF UpTo
  <2>2. IsFiniteSet(UpTo(K, k)) /\ Cardinality(UpTo(K, k)) <= Cardinality(K)
    BY <1>1, <2>1, FS_Subset
  <2>3. QED
    BY <2>1, <2>2, FS_CardinalityType
<1>3. Cardinality(UpTo(K, i)) # 0
  <2>1. i \in UpTo(K, i)
    BY DEF UpTo
  <2>2. QED
    BY <1>2, <2>1, FS_EmptySet
<1>4. ASSUME NEW j \in K, i < j
      PROVE  Cardinality(UpTo(K, i)) < Cardinality(UpTo(K, j))
  <2>1. i \in 1..n /\ j \in 1..n /\ \A k \in K : k \in 1..n
    OBVIOUS
  <2>2. UpTo(K, i) \in SUBSET UpTo(K, j) /\ j \in UpTo(K, j) /\ j \notin UpTo(K, i)
    <3>1. \A k \in K : k <= i => k <= j
      BY <1>4, <2>1
    <3>2. j <= j /\ ~(j <= i)
      BY <1>4, <2>1
    <3>3. QED
      BY <3>1, <3>2 DEF UpTo
  <2>3. UpTo(K, i) # UpTo(K, j)
    BY <2>2
  <2>4. /\ Cardinality(UpTo(K, i)) <= Cardinality(UpTo(K, j))
        /\ Cardinality(UpTo(K, i)) = Cardinality(UpTo(K, j)) => UpTo(K, i) = UpTo(K, j)
    BY <1>2, <2>2, FS_Subset
  <2>5. QED
    BY <1>2, <2>3, <2>4
<1>5. Cardinality(UpTo(K, i)) \in 1..Cardinality(K)
  <2>1. Cardinality(K) \in Nat
    BY <1>1, FS_CardinalityType
  <2>2. QED
    BY <1>2, <1>3, <2>1
<1>6. QED
  BY <1>4, <1>5

(* TaskQueue::remove takes every copy of the task out and nothing else.    *)
THEOREM RemoveTakes ==
  ASSUME NEW E, NEW q \in Seq(E), NEW t
  PROVE  /\ Held(Remove(q, t)) = {e \in Held(q) : e.task # t}
         /\ \A x : x.task # t => Count(Remove(q, t), x) = Count(q, x)
<1> DEFINE n == Len(q)
           K == {i \in 1..n : q[i].task # t}
           C == Cardinality(K)
           rank(i) == Cardinality(UpTo(K, i))
           g == [k \in 1..C |-> CHOOSE i \in K : rank(i) = k]
           r == Remove(q, t)
<1>1. n \in Nat /\ DOMAIN q = 1..n /\ K \in SUBSET (1..n)
  OBVIOUS
<1>2. C \in Nat /\ IsFiniteSet(1..C)
  <2>1. IsFiniteSet(1..n)
    BY <1>1, FS_Interval
  <2>2. IsFiniteSet(K)
    BY <1>1, <2>1, FS_Subset
  <2>3. C \in Nat
    BY <2>2, FS_CardinalityType
  <2> HIDE DEF C
  <2>4. QED
    BY <2>3, FS_Interval
<1>3. r = [k \in 1..C |-> q[CHOOSE i \in K : rank(i) = k]]
  BY Zenon DEF Remove, UpTo
<1>4. \A i \in K : q[i].task # t
  OBVIOUS
<1>5. \A i \in 1..n : q[i].task # t => i \in K
  OBVIOUS
<1> HIDE DEF r, n, K
<1>6. ASSUME NEW k \in 1..C PROVE g[k] \in K /\ rank(g[k]) = k
  <2>1. \E i \in K : rank(i) = k
    BY <1>1, Ranks
  <2>2. g[k] = CHOOSE i \in K : rank(i) = k
    OBVIOUS
  <2> HIDE DEF g, rank
  <2>3. QED
    BY <2>1, <2>2
<1>7. DOMAIN r = 1..C /\ \A k \in 1..C : r[k] = q[g[k]]
  BY <1>3
<1>8. ASSUME NEW i \in K
      PROVE  rank(i) \in 1..C /\ \A j \in K : rank(i) = rank(j) => i = j
  <2>1. rank(i) \in 1..C
    BY <1>1, RankOne
  <2>2. ASSUME NEW j \in K, rank(i) = rank(j), i # j PROVE FALSE
    <3>1. i < j \/ j < i
      BY <1>1, <2>2
    <3>2. rank(j) \in 1..C
      BY <1>1, RankOne
    <3>3. (i < j => rank(i) < rank(j)) /\ (j < i => rank(j) < rank(i))
      BY <1>1, RankOne
    <3> HIDE DEF rank
    <3>4. QED
      BY <1>2, <2>1, <2>2, <3>1, <3>2, <3>3
  <2>3. QED
    BY <2>1, <2>2
<1>9. Matches(g, r, 1..C, q, K)
  <2>1. g \in [1..C -> K]
    BY <1>6
  <2> HIDE DEF g
  <2>2. \A k, m \in 1..C : g[k] = g[m] => k = m
    BY <1>6
  <2>3. \A i \in K : \E k \in 1..C : g[k] = i
    BY <1>6, <1>8
  <2>4. QED
    BY <1>7, <2>1, <2>2, <2>3 DEF Matches
<1>10. /\ HeldIn(r, 1..C) = HeldIn(q, K)
       /\ \A x : CountIn(r, 1..C, x) = CountIn(q, K, x)
  <2> DEFINE A == 1..C
  <2> HIDE DEF A
  <2>1. Matches(g, r, A, q, K) /\ IsFiniteSet(A)
    BY <1>2, <1>9 DEF A
  <2> HIDE DEF g
  <2>2. HeldIn(r, A) = HeldIn(q, K) /\ \A x : CountIn(r, A, x) = CountIn(q, K, x)
    BY <2>1, Matched
  <2>3. QED
    BY <2>2 DEF A
<1>11. HeldIn(r, 1..C) = Held(r) /\ \A x : CountIn(r, 1..C, x) = Count(r, x)
  BY <1>7 DEF Held, HeldIn, Count, CountIn, Places
<1>12. HeldIn(q, K) = {e \in Held(q) : e.task # t}
  BY <1>1, <1>4, <1>5 DEF Held, HeldIn
<1>13. ASSUME NEW x, x.task # t PROVE CountIn(q, K, x) = Count(q, x)
  <2>1. {b \in K : q[b] = x} = Places(q, x)
    BY <1>1, <1>5, <1>13 DEF Places
  <2>2. QED
    BY <2>1 DEF Count, CountIn
<1>14. QED
  BY <1>10, <1>11, <1>12, <1>13 DEF r

----------------------------------------------------------------------------
(* ControllerThread.                                                       *)

InHand == {"pop", "run", "relock", "reschedule"}

(* TypeOK is not inductive: what Reschedule pushes is the task in hand, so *)
(* that one has to be a real task, not the placeholder between two tasks.  *)
TypeInv == /\ TypeOK
           /\ ctl \in InHand => task \in Entry(Nat, Valid)

(* Every variable keeps its type, whatever the tasks do: in particular the *)
(* queue holds only valid tasks, at times that are not negative.           *)
LEMMA TypeInvariant == Spec => []TypeInv
<1>1. Init => TypeInv
  <2>1. /\ 0 \in 0..MaxTime
        /\ << >> \in Seq(Entry(Nat, Valid))
        /\ NoEntry \in Entry(Nat, Valid \cup {0})
    BY ControllerAssumption DEF NoEntry, Entry
  <2>2. [c \in Clients |-> "idle"] \in [Clients -> Calls \cup {"idle", "notify"}]
    OBVIOUS
  <2>3. QED
    BY <2>1, <2>2 DEF Init, TypeInv, TypeOK, InHand
<1>2. TypeInv /\ [Next]_vars => TypeInv'
  <2> SUFFICES ASSUME TypeInv, [Next]_vars PROVE TypeInv'
    OBVIOUS
  <2> USE ControllerAssumption
  <2>t. /\ 0 \in 0..MaxTime
        /\ Valid \subseteq Valid \cup {0}
        /\ NoEntry \in Entry(Nat, Valid \cup {0})
        /\ Entry(Nat, Valid) \subseteq Entry(Nat, Valid \cup {0})
    BY DEF NoEntry, Entry
  <2>1. CASE Tick
    BY <2>1 DEF Tick, TypeInv, TypeOK, InHand, controller
  <2>2. ASSUME NEW c \in Clients, NEW m \in Calls, Acquire(c, m) PROVE TypeInv'
    BY <2>2 DEF Acquire, TypeInv, TypeOK, InHand, controller
  <2>3. ASSUME NEW c \in Clients, EnqueueAt(c) PROVE TypeInv'
    <3>1. PICK t \in Tasks, d \in Delays :
            /\ clock + d >= 0
            /\ queue' = IF t \in Invalid THEN queue
                        ELSE Push(queue, [when |-> clock + d, task |-> t])
      BY <2>3 DEF EnqueueAt
    <3>2. t \notin Invalid
            => [when |-> clock + d, task |-> t] \in Entry(Nat, Valid)
      BY <3>1 DEF TypeInv, TypeOK, Valid, Entry
    <3>3. queue' \in Seq(Entry(Nat, Valid))
      BY <3>1, <3>2, PushType DEF TypeInv, TypeOK, InHand
    <3>4. QED
      BY <2>3, <3>3 DEF EnqueueAt, Leave, TypeInv, TypeOK, InHand, controller
  <2>4. ASSUME NEW c \in Clients, RemoveTask(c) PROVE TypeInv'
    <3>1. queue' \in Seq(Entry(Nat, Valid))
      BY <2>4, RemoveType DEF RemoveTask, TypeInv, TypeOK, InHand
    <3>2. QED
      BY <2>4, <3>1 DEF RemoveTask, Leave, TypeInv, TypeOK, InHand, controller
  <2>5. ASSUME NEW c \in Clients, Clear(c) PROVE TypeInv'
    BY <2>5 DEF Clear, Leave, TypeInv, TypeOK, InHand, controller
  <2>6. ASSUME NEW c \in Clients, Stop(c) PROVE TypeInv'
    BY <2>6 DEF Stop, Leave, TypeInv, TypeOK, InHand, controller
  <2>7. ASSUME NEW c \in Clients, Start(c) PROVE TypeInv'
    BY <2>7 DEF Start, Leave, TypeInv, TypeOK, InHand
  <2>8. ASSUME NEW c \in Clients, Notify(c) PROVE TypeInv'
    BY <2>8 DEF Notify, TypeInv, TypeOK, InHand, controller
  <2>9. CASE Begin
    BY <2>9 DEF Begin, At, Goto, TypeInv, TypeOK, InHand, Guarded, others
  <2>10. CASE ProcessTasks
    <3>1. queue # <<>> => Top(queue) \in Entry(Nat, Valid)
      BY TopType DEF TypeInv, TypeOK, InHand, Entry
    <3>2. QED
      BY <2>10, <2>t, <3>1
      DEF ProcessTasks, At, Goto, TypeInv, TypeOK, InHand, Guarded, others
  <2>11. CASE PopTask
    <3>1. queue' \in Seq(Entry(Nat, Valid))
      BY <2>11, PopType DEF PopTask, TypeInv, TypeOK, InHand
    <3>2. QED
      BY <2>11, <3>1
      DEF PopTask, At, Goto, TypeInv, TypeOK, InHand, Guarded, others
  <2>12. CASE RunTask
    BY <2>12 DEF RunTask, At, Goto, TypeInv, TypeOK, InHand, Guarded, others
  <2>13. CASE ThrowTask
    BY <2>13 DEF ThrowTask, At, Goto, TypeInv, TypeOK, InHand, Guarded, others
  <2>14. CASE Relock
    BY <2>14 DEF Relock, At, Goto, TypeInv, TypeOK, InHand, Guarded, others
  <2>15. CASE Reschedule
    <3>1. ASSUME wait # DONT_RESCHEDULE
         
               PROVE  [when |-> clock + wait, task |-> task.task] \in Entry(Nat, Valid)
      BY <2>15, <3>1 DEF Reschedule, At, TypeInv, TypeOK, InHand, Entry
    <3>2. queue' \in Seq(Entry(Nat, Valid))
      BY <2>15, <3>1, PushType DEF Reschedule, TypeInv, TypeOK
    <3>3. QED
      BY <2>15, <3>2
      DEF Reschedule, At, Goto, TypeInv, TypeOK, InHand, Guarded, others
  <2>16. CASE NextTask
    <3>1. queue # <<>> => Top(queue) \in Entry(Nat, Valid)
      BY TopType DEF TypeInv, TypeOK, InHand, Entry
    <3>2. QED
      BY <2>16, <2>t, <3>1
      DEF NextTask, At, Goto, TypeInv, TypeOK, InHand, Guarded, others
  <2>17. CASE LoopTest
    <3>1. queue # <<>> => Top(queue).when \in Nat
      BY TopType DEF TypeInv, TypeOK, InHand, Entry
    <3>2. QED
      BY <2>17, <3>1
      DEF LoopTest, At, Goto, TypeInv, TypeOK, InHand, Guarded, others
  <2>18. CASE Sleep
    BY <2>18 DEF Sleep, At, Goto, TypeInv, TypeOK, InHand, Guarded, others
  <2>19. CASE Wake \/ SpuriousWake
    BY <2>19
    DEF Wake, SpuriousWake, Resume, At, Goto, TypeInv, TypeOK, InHand, Guarded, others
  <2>20. CASE Exit
    BY <2>20 DEF Exit, At, Goto, TypeInv, TypeOK, InHand, Guarded, others
  <2>21. CASE UNCHANGED vars
    BY <2>21 DEF vars, TypeInv, TypeOK, InHand
  <2>22. QED
    BY <2>1, <2>2, <2>3, <2>4, <2>5, <2>6, <2>7, <2>8, <2>9, <2>10, <2>11,
       <2>12, <2>13, <2>14, <2>15, <2>16, <2>17, <2>18, <2>19, <2>20, <2>21
    DEF Next, ControllerStep, ClientStep, Body
<1>3. QED
  BY <1>1, <1>2, PTL DEF Spec

(* TypeOK is an invariant, for any clients, tasks and calls.               *)
THEOREM TypeCorrect == Spec => []TypeOK
BY TypeInvariant, PTL DEF TypeInv

-----------------------------------------------------------------------------
(* The controller reads one clock value per pass and compares entries with *)
(* that; the clock can only be later when the task starts.                 *)
TimeInv == /\ ctl \in InHand \cup {"next"} => now <= clock
           /\ ctl \in {"pop", "run"} => task.when <= now

LEMMA TimeKept == Spec => []TimeInv
<1>1. Init => TimeInv
  BY DEF Init, TimeInv, InHand
<1>2. TypeInv /\ TimeInv /\ [Next]_vars => TimeInv'
  <2> SUFFICES ASSUME TypeInv, TimeInv, [Next]_vars PROVE TimeInv'
    OBVIOUS
  <2>t. now \in Int /\ clock \in Int /\ clock' \in Int
    <3>1. clock' = clock \/ clock' = clock + 1
      BY DEF Next, vars, Tick, ControllerStep, ClientStep, Body, Acquire,
             EnqueueAt, RemoveTask, Clear, Stop, Start, Notify, Begin,
             ProcessTasks, PopTask, RunTask, ThrowTask, Relock, Reschedule,
             NextTask, LoopTest, Sleep, Wake, SpuriousWake, Resume, Exit,
             others
    <3>2. QED
      BY <3>1, ControllerAssumption DEF TypeInv, TypeOK
  <2>p. queue # <<>> => Top(queue).when \in Int
    <3>1. queue # <<>> => Top(queue) \in Entry(Nat, Valid)
      BY TopType DEF TypeInv, TypeOK
    <3>2. QED
      BY <3>1 DEF Entry
  <2>d. ctl \in {"pop", "run"} => task.when \in Int
    BY DEF TypeInv, TypeOK, Entry
  <2> USE DEF TimeInv, InHand, At, Goto
  <2>1. CASE Tick
    BY <2>1, <2>t, <2>d DEF Tick, controller
  <2>2. ASSUME NEW c \in Clients, ClientStep(c) PROVE TimeInv'
    <3>1. \/ UNCHANGED <<clock, ctl, now, task>>
          \/ UNCHANGED <<clock, now, task>> /\ ctl' = "begin"
      BY <2>2 DEF ClientStep, Body, Acquire, EnqueueAt, RemoveTask, Clear, Stop,
                  Start, Notify, controller
    <3>2. QED
      BY <3>1
  <2>3. CASE ProcessTasks
    BY <2>3, <2>t, <2>p DEF ProcessTasks, others
  <2>4. CASE NextTask
    BY <2>4, <2>t, <2>p DEF NextTask, others
  <2>5. CASE PopTask \/ RunTask \/ ThrowTask \/ Relock \/ Reschedule
    BY <2>5 DEF PopTask, RunTask, ThrowTask, Relock, Reschedule, others
  <2>6. CASE Begin \/ LoopTest \/ Sleep \/ Wake \/ SpuriousWake \/ Exit
    BY <2>6 DEF Begin, LoopTest, Sleep, Wake, SpuriousWake, Resume, Exit,
                others
  <2>7. CASE UNCHANGED vars
    BY <2>7 DEF vars
  <2>8. QED
    BY <2>1, <2>2, <2>3, <2>4, <2>5, <2>6, <2>7 DEF Next, ControllerStep
<1>3. QED
  BY <1>1, <1>2, TypeInvariant, PTL DEF Spec

(* No task is started before it is due, even when tasks throw and the      *)
(* queue is no longer guarded or ordered.                                  *)
THEOREM NoneEarly == Spec => []NeverEarly
<1>1. TypeInv /\ TimeInv => NeverEarly
  BY ControllerAssumption
  DEF TypeInv, TypeOK, TimeInv, NeverEarly, InHand, Entry
<1>2. QED
  BY <1>1, TypeInvariant, TimeKept, PTL

-----------------------------------------------------------------------------
(* As long as no task has thrown, the queue and keepRunning are only       *)
(* touched by the owner of runMutex, client or controller.                 *)
THEOREM Guarding == Spec => []QueueGuarded
<1>1. Init => QueueGuarded
  BY DEF Init, QueueGuarded, Methods, Guarded
<1>2. TypeInv /\ QueueGuarded /\ [Next]_vars => QueueGuarded'
  <2> SUFFICES ASSUME TypeInv, QueueGuarded, [Next]_vars PROVE QueueGuarded'
    OBVIOUS
  <2> USE ControllerAssumption DEF QueueGuarded, Methods, Guarded, At, Goto
  <2>t. pc \in [Clients -> Calls \cup {"idle", "notify"}]
    BY DEF TypeInv, TypeOK
  <2>1. CASE Tick
    BY <2>1 DEF Tick, controller
  <2>2. ASSUME NEW c \in Clients, NEW m \in Calls, Acquire(c, m)
       PROVE  QueueGuarded'
    BY <2>2, <2>t DEF Acquire, controller
  <2>3. ASSUME NEW c \in Clients, Body(c) PROVE QueueGuarded'
    BY <2>3, <2>t DEF Body, EnqueueAt, RemoveTask, Clear, Stop, Start, Leave,
                      controller
  <2>4. ASSUME NEW c \in Clients, Notify(c) PROVE QueueGuarded'
    BY <2>4, <2>t DEF Notify, controller
  <2>5. CASE Begin \/ Relock \/ Wake \/ SpuriousWake
    BY <2>5 DEF Begin, Relock, Wake, SpuriousWake, Resume, others
  <2>6. CASE ProcessTasks \/ Reschedule \/ NextTask \/ LoopTest
    BY <2>6 DEF ProcessTasks, Reschedule, NextTask, LoopTest, others
  <2>7. CASE PopTask \/ Sleep \/ Exit
    BY <2>7 DEF PopTask, Sleep, Exit, others
  <2>8. CASE RunTask
    BY <2>8 DEF RunTask, others
  <2>9. CASE ThrowTask
    BY <2>9 DEF ThrowTask
  <2>10. CASE UNCHANGED vars
    BY <2>10 DEF vars
  <2>11. QED
    BY <2>1, <2>2, <2>3, <2>4, <2>5, <2>6, <2>7, <2>8, <2>9, <2>10
    DEF Next, ControllerStep, ClientStep
<1>3. QED
  BY <1>1, <1>2, TypeInvariant, PTL DEF Spec

-----------------------------------------------------------------------------
(* From here on nobody calls remove, which breaks the heap.                *)

(* How a step can change the queue.                                        *)
LEMMA QueueSteps ==
  ASSUME TypeInv, [Next]_vars, "remove" \notin Calls
  PROVE  \/ queue' = queue
         \/ queue' = << >>
         \/ \E e \in Entry(Nat, Valid) : queue' = Push(queue, e)
         \/ queue' = Pop(queue)
<1> USE ControllerAssumption DEF At, Goto
<1>1. ASSUME NEW c \in Clients, ClientStep(c)
      PROVE  \/ queue' = queue \/ queue' = << >>
             \/ \E e \in Entry(Nat, Valid) : queue' = Push(queue, e)
  <2>1. CASE EnqueueAt(c)
    <3>1. PICK t \in Tasks, d \in Delays :
            /\ clock + d >= 0
            /\ queue' = IF t \in Invalid THEN queue
                        ELSE Push(queue, [when |-> clock + d, task |-> t])
      BY <2>1 DEF EnqueueAt
    <3>2. t \notin Invalid
            => [when |-> clock + d, task |-> t] \in Entry(Nat, Valid)
      BY <3>1 DEF TypeInv, TypeOK, Valid, Entry
    <3>3. QED
      BY <3>1, <3>2
  <2>2. CASE RemoveTask(c)
    <3>1. pc[c] = "remove" /\ pc[c] \in Calls \cup {"idle", "notify"}
      BY <2>2 DEF RemoveTask, Leave, TypeInv, TypeOK
    <3>2. QED
      BY <3>1
  <2>3. QED
    BY <1>1, <2>1, <2>2
    DEF ClientStep, Body, Acquire, Clear, Stop, Start, Notify
<1>2. CASE Reschedule
  <2>1. CASE wait = DONT_RESCHEDULE
    BY <1>2, <2>1 DEF Reschedule
  <2>2. CASE wait # DONT_RESCHEDULE
    <3>1. [when |-> clock + wait, task |-> task.task] \in Entry(Nat, Valid)
      BY <1>2, <2>2 DEF Reschedule, TypeInv, TypeOK, InHand, Entry
    <3>2. QED
      BY <1>2, <2>2, <3>1 DEF Reschedule
  <2>3. QED
    BY <2>1, <2>2
<1>3. CASE PopTask
  BY <1>3 DEF PopTask
<1>4. CASE Tick \/ Begin \/ ProcessTasks \/ RunTask \/ ThrowTask \/ Relock
           \/ NextTask \/ LoopTest \/ Sleep \/ Wake \/ SpuriousWake \/ Exit
  BY <1>4 DEF Tick, Begin, ProcessTasks, RunTask, ThrowTask, Relock, NextTask,
              LoopTest, Sleep, Wake, SpuriousWake, Resume, Exit
<1>5. CASE UNCHANGED vars
  BY <1>5 DEF vars
<1>6. QED
  BY <1>1, <1>2, <1>3, <1>4, <1>5 DEF Next, ControllerStep

LEMMA EntriesAreInts == Entry(Nat, Valid) \subseteq Entry(Int, Int)
<1>1. \A t \in Valid : t \in Int
  BY ControllerAssumption DEF Valid
<1>2. ASSUME NEW e \in [when : Nat, task : Valid]
      PROVE  e \in [when : Int, task : Int]
  <2>1. e.when \in Int /\ e.task \in Int
    <3>1. e.when \in Nat
      OBVIOUS
    <3>2. e.task \in Valid
      OBVIOUS
    <3>3. QED
      BY <1>1, <3>1, <3>2
  <2>2. e = [when |-> e.when, task |-> e.task]
    OBVIOUS
  <2>3. [when |-> e.when, task |-> e.task] \in [when : Int, task : Int]
    BY <2>1
  <2>4. QED
    BY <2>2, <2>3, Zenon
<1>3. QED
  BY <1>2 DEF Entry

(* The queue stays a heap, so its top is always one of the earliest.       *)
LEMMA HeapKept ==
  ASSUME "remove" \notin Calls
  PROVE  Spec => []HeapOrdered(queue)
<1>1. Init => HeapOrdered(queue)
  BY DEF Init, HeapOrdered
<1>2. TypeInv /\ HeapOrdered(queue) /\ [Next]_vars => HeapOrdered(queue)'
  <2> SUFFICES ASSUME TypeInv, HeapOrdered(queue), [Next]_vars
               PROVE  HeapOrdered(queue')
    OBVIOUS
  <2>1. /\ queue \in Seq(Entry(Int, Int))
        /\ Entry(Nat, Valid) \subseteq Entry(Int, Int)
    <3>1. Entry(Nat, Valid) \subseteq Entry(Int, Int)
      BY EntriesAreInts
    <3>2. QED
      BY <3>1 DEF TypeInv, TypeOK
  <2>2. CASE queue' = queue
    BY <2>2
  <2>3. CASE queue' = << >>
    BY <2>3 DEF HeapOrdered
  <2>4. CASE \E e \in Entry(Nat, Valid) : queue' = Push(queue, e)
    BY <2>1, <2>4, PushKeepsHeap
  <2>5. CASE queue' = Pop(queue)
    BY <2>1, <2>5, PopKeepsHeap
  <2>6. QED
    BY <2>2, <2>3, <2>4, <2>5, QueueSteps
<1>3. QED
  BY <1>1, <1>2, TypeInvariant, PTL DEF Spec

TakesTop ==
  ~thrown /\ ctl = "pop" => queue # << >> /\ task = Top(queue)

(* Nobody can change the queue between the reading of its top and the pop. *)
LEMMA TopTaken == Spec => []TakesTop
<1>1. Init => TakesTop
  BY DEF Init, TakesTop
<1>2. TypeInv /\ QueueGuarded /\ TakesTop /\ [Next]_vars => TakesTop'
  <2> SUFFICES ASSUME TypeInv, QueueGuarded, TakesTop, [Next]_vars
               PROVE  TakesTop'
    OBVIOUS
  <2> USE ControllerAssumption DEF TakesTop, At, Goto
  <2>1. ASSUME NEW c \in Clients, ClientStep(c) PROVE TakesTop'
    <3>1. CASE Body(c)
      <4>1. thrown \/ ctl # "pop"
        BY <3>1 DEF Body, EnqueueAt, RemoveTask, Clear, Stop, Start, Leave,
                    QueueGuarded, Guarded, Methods
      <4>2. thrown' = thrown /\ (ctl' = ctl \/ ctl' = "begin")
        BY <3>1 DEF Body, EnqueueAt, RemoveTask, Clear, Stop, Start, controller
      <4>3. QED
        BY <4>1, <4>2
    <3>2. QED
      BY <2>1, <3>1 DEF ClientStep, Acquire, Notify, controller
  <2>2. CASE ProcessTasks \/ NextTask
    BY <2>2 DEF ProcessTasks, NextTask
  <2>3. CASE Tick \/ Begin \/ PopTask \/ RunTask \/ ThrowTask \/ Relock
             \/ Reschedule \/ LoopTest \/ Sleep \/ Wake \/ SpuriousWake \/ Exit
    BY <2>3 DEF Tick, Begin, PopTask, RunTask, ThrowTask, Relock, Reschedule,
                LoopTest, Sleep, Wake, SpuriousWake, Resume, Exit,
                controller, others
  <2>4. CASE UNCHANGED vars
    BY <2>4 DEF vars
  <2>5. QED
    BY <2>1, <2>2, <2>3, <2>4 DEF Next, ControllerStep
<1>3. QED
  BY <1>1, <1>2, TypeInvariant, Guarding, PTL DEF Spec

(* The task about to be popped and run is at the top of the queue, and no  *)
(* entry of the queue is due before it: nobody can change the queue        *)
(* between the reading of its top and the pop, and the top is the earliest.*)
THEOREM RunsEarliest ==
  ASSUME "remove" \notin Calls
  PROVE  Spec => []EarliestFirst
<1>1. TypeInv /\ HeapOrdered(queue) /\ TakesTop => EarliestFirst
  <2> SUFFICES ASSUME TypeInv, HeapOrdered(queue), TakesTop PROVE EarliestFirst
    OBVIOUS
  <2>1. Entry(Nat, Valid) \subseteq Entry(Int, Int)
    BY EntriesAreInts
  <2>2. queue \in Seq(Entry(Int, Int))
    BY <2>1 DEF TypeInv, TypeOK
  <2>3. QED
    BY <2>2, HeapTop DEF TakesTop, EarliestFirst
<1>2. QED
  BY <1>1, TypeInvariant, TopTaken, HeapKept, PTL

-----------------------------------------------------------------------------
(* Before it waits, the controller holds the mutex from its test of        *)
(* keepRunning and its look at the top to the wait itself ...              *)
Awaits == /\ keepRunning
          /\ queue # << >> => deadline # Never /\ deadline <= Top(queue).when

SleepInv == ~thrown /\ ctl = "sleep" => Awaits

(* ... so that whatever changes what it waits for comes after, and is      *)
(* followed by a notification: no request to stop and no task is missed.   *)
THEOREM WakeupsKept ==
  ASSUME "remove" \notin Calls
  PROVE  Spec => []NoLostWakeup
<1> DEFINE I == SleepInv /\ NoLostWakeup
<1>1. Init => I
  BY DEF Init, SleepInv, NoLostWakeup
<1>2. TypeInv /\ QueueGuarded /\ I /\ [Next]_vars => I'
  <2> SUFFICES ASSUME TypeInv, QueueGuarded, I, [Next]_vars PROVE I'
    OBVIOUS
  <2> USE ControllerAssumption
      DEF SleepInv, NoLostWakeup, Announced, Awaits, At, Goto
  <2>t. pc \in [Clients -> Calls \cup {"idle", "notify"}]
    BY DEF TypeInv, TypeOK
  <2>1. CASE Tick
    BY <2>1 DEF Tick, controller
  <2>2. ASSUME NEW c \in Clients, NEW m \in Calls, Acquire(c, m) PROVE I'
    BY <2>2, <2>t DEF Acquire, controller
  <2>3. ASSUME NEW c \in Clients, Body(c) PROVE I'
    <3>1. thrown \/ ctl # "sleep"
      BY <2>3 DEF Body, EnqueueAt, RemoveTask, Clear, Stop, Start, Leave,
                  QueueGuarded, Guarded, Methods
    <3>2. CASE EnqueueAt(c) \/ Stop(c)
      BY <3>1, <3>2, <2>t DEF EnqueueAt, Stop, Leave, controller
    <3>3. CASE RemoveTask(c)
      BY <3>3, <2>t DEF RemoveTask, Leave
    <3>4. CASE Clear(c)
      BY <3>1, <3>4, <2>t DEF Clear, Leave, controller
    <3>5. CASE Start(c)
      BY <3>5 DEF Start
    <3>6. QED
      BY <2>3, <3>2, <3>3, <3>4, <3>5 DEF Body
  <2>4. ASSUME NEW c \in Clients, Notify(c) PROVE I'
    BY <2>4, <2>t DEF Notify, controller
  <2>5. CASE LoopTest
    <3>1. queue # << >> => Top(queue).when \in Nat
      <4>1. queue # << >> => Top(queue) \in Entry(Nat, Valid)
        BY TopType DEF TypeInv, TypeOK
      <4>2. QED
        BY <4>1 DEF Entry
    <3>2. QED
      BY <2>5, <3>1 DEF LoopTest, Never, others
  <2>6. CASE Sleep
    BY <2>6 DEF Sleep, others
  <2>7. CASE Begin \/ ProcessTasks \/ PopTask \/ RunTask \/ ThrowTask \/ Relock
             \/ Reschedule \/ NextTask \/ Wake \/ SpuriousWake \/ Exit
    BY <2>7 DEF Begin, ProcessTasks, PopTask, RunTask, ThrowTask, Relock,
                Reschedule, NextTask, Wake, SpuriousWake, Resume, Exit, others
  <2>8. CASE UNCHANGED vars
    BY <2>8 DEF vars
  <2>9. QED
    BY <2>1, <2>2, <2>3, <2>4, <2>5, <2>6, <2>7, <2>8
    DEF Next, ControllerStep, ClientStep
<1>3. I => NoLostWakeup
  OBVIOUS
<1>4. QED
  BY <1>1, <1>2, <1>3, TypeInvariant, Guarding, PTL DEF Spec

-----------------------------------------------------------------------------
(* The refinement. The pool's bag is the queue's vector without its order. *)

LEMMA BagOfQueue ==
  ASSUME NEW q
  PROVE  S!ToBag(q) = [x \in Held(q) |-> Count(q, x)]
<1>1. ASSUME NEW A PROVE S!Cardinality(A) = Cardinality(A)
  BY DEF S!Cardinality, Cardinality
<1>2. QED
  BY <1>1 DEF S!ToBag, S!Range, Held, Count, Places

LEMMA BagEmpty == S!ToBag(<< >>) = Pool!NoEntries
BY DEF S!ToBag, S!Range, Pool!NoEntries

(* An entry that is held is held once at least.                            *)
LEMMA HeldCounts ==
  ASSUME NEW E, NEW q \in Seq(E), NEW x
  PROVE  /\ Count(q, x) \in Nat
         /\ x \in Held(q) <=> Count(q, x) # 0
<1> DEFINE n == Len(q)
<1>1. n \in Nat /\ DOMAIN q = 1..n
  OBVIOUS
<1> HIDE DEF n
<1>2. IsFiniteSet(Places(q, x)) /\ Count(q, x) \in Nat
  BY <1>1, PlacesFinite
<1>3. Count(q, x) = 0 <=> Places(q, x) = {}
  BY <1>2, FS_EmptySet DEF Count
<1>4. x \in Held(q) <=> Places(q, x) # {}
  BY DEF Held, Places
<1>5. QED
  BY <1>2, <1>3, <1>4

LEMMA BagPush ==
  ASSUME NEW E, NEW q \in Seq(E), NEW e \in E
  PROVE  S!ToBag(Push(q, e)) = Pool!BagAdd(S!ToBag(q), e)
<1> DEFINE r == Push(q, e)
           b == [x \in Held(q) |-> Count(q, x)]
<1>1. /\ Held(r) = Held(q) \cup {e}
      /\ \A x : Count(r, x) = Count(q, x) + IF x = e THEN 1 ELSE 0
  BY PushAdds
<1>2. \A x : Count(q, x) \in Nat /\ (x \in Held(q) <=> Count(q, x) # 0)
  BY HeldCounts
<1>3. Pool!BagAdd(b, e) = [x \in Held(r) |-> Count(r, x)]
  <2>1. CASE e \in Held(q)
    <3>1. Held(r) = Held(q)
      BY <1>1, <2>1
    <3>2. Pool!BagAdd(b, e) = [x \in Held(q) |-> IF x = e THEN b[x] + 1 ELSE b[x]]
      BY <2>1 DEF Pool!BagAdd
    <3>3. \A x \in Held(q) : (IF x = e THEN b[x] + 1 ELSE b[x]) = Count(r, x)
      BY <1>1, <1>2
    <3>4. QED
      BY <3>1, <3>2, <3>3
  <2>2. CASE e \notin Held(q)
    <3>1. Pool!BagAdd(b, e) = [x \in Held(q) \cup {e} |-> IF x = e THEN 1 ELSE b[x]]
      BY <2>2 DEF Pool!BagAdd
    <3>2. \A x \in Held(q) \cup {e} : (IF x = e THEN 1 ELSE b[x]) = Count(r, x)
      BY <1>1, <1>2, <2>2
    <3>3. QED
      BY <1>1, <3>1, <3>2
  <2>3. QED
    BY <2>1, <2>2
<1>4. S!ToBag(q) = b /\ S!ToBag(r) = [x \in Held(r) |-> Count(r, x)]
  BY BagOfQueue
<1>5. QED
  BY <1>3, <1>4

LEMMA BagPop ==
  ASSUME NEW E, NEW q \in Seq(E), q # << >>
  PROVE  /\ Top(q) \in DOMAIN S!ToBag(q)
         /\ S!ToBag(Pop(q)) = Pool!BagRemove(S!ToBag(q), Top(q))
<1> DEFINE r == Pop(q)
           e == Top(q)
           b == [x \in Held(q) |-> Count(q, x)]
<1>1. /\ Held(q) = Held(r) \cup {e}
      /\ \A x : Count(q, x) = Count(r, x) + IF x = e THEN 1 ELSE 0
  BY PopTakes
<1>2. \A x : Count(q, x) \in Nat /\ (x \in Held(q) <=> Count(q, x) # 0)
  BY HeldCounts
<1>3. \A x : Count(r, x) \in Nat /\ (x \in Held(r) <=> Count(r, x) # 0)
  BY PopType, HeldCounts
<1> HIDE DEF r, e
<1>4. e \in Held(q) /\ b[e] = Count(r, e) + 1 /\ DOMAIN b = Held(q)
  BY <1>1
<1>5. Pool!BagRemove(b, e) = [x \in Held(r) |-> Count(r, x)]
  <2>1. CASE b[e] = 1
    <3>1. Count(r, e) = 0
      BY <1>3, <1>4, <2>1
    <3>2. Held(r) = Held(q) \ {e}
      BY <1>1, <1>3, <3>1
    <3>3. Pool!BagRemove(b, e) = [x \in Held(q) \ {e} |-> b[x]]
      BY <1>4, <2>1 DEF Pool!BagRemove
    <3>4. \A x \in Held(q) \ {e} : b[x] = Count(r, x)
      BY <1>1, <1>3
    <3>5. QED
      BY <3>2, <3>3, <3>4
  <2>2. CASE b[e] # 1
    <3>1. Count(r, e) # 0
      BY <1>3, <1>4, <2>2
    <3>2. Held(r) = Held(q)
      BY <1>1, <1>3, <3>1
    <3>3. Pool!BagRemove(b, e) = [x \in Held(q) |-> IF x = e THEN b[x] - 1 ELSE b[x]]
      BY <1>4, <2>2 DEF Pool!BagRemove
    <3>4. \A x \in Held(q) : (IF x = e THEN b[x] - 1 ELSE b[x]) = Count(r, x)
      BY <1>1, <1>3
    <3>5. QED
      BY <3>2, <3>3, <3>4
  <2>3. QED
    BY <2>1, <2>2
<1>6. S!ToBag(q) = b /\ S!ToBag(r) = [x \in Held(r) |-> Count(r, x)]
  BY BagOfQueue
<1>7. QED
  BY <1>4, <1>5, <1>6 DEF r, e

LEMMA BagRemoved ==
  ASSUME NEW E, NEW q \in Seq(E), NEW t
  PROVE  S!ToBag(Remove(q, t)) =
           [x \in {e \in DOMAIN S!ToBag(q) : e.task # t} |-> S!ToBag(q)[x]]
<1> DEFINE r == Remove(q, t)
           b == [x \in Held(q) |-> Count(q, x)]
<1>1. /\ Held(r) = {e \in Held(q) : e.task # t}
      /\ \A x : x.task # t => Count(r, x) = Count(q, x)
  BY RemoveTakes
<1> HIDE DEF r
<1>2. [x \in Held(r) |-> Count(r, x)]
        = [x \in {e \in DOMAIN b : e.task # t} |-> b[x]]
  BY <1>1
<1>3. S!ToBag(q) = b /\ S!ToBag(r) = [x \in Held(r) |-> Count(r, x)]
  BY BagOfQueue
<1>4. QED
  BY <1>2, <1>3 DEF r

(* start was let in when there was no thread, and there is none until it   *)
(* leaves.                                                                 *)
StartAlone ==
  ~thrown => \A c \in Clients : pc[c] = "start" => ctl = "stopped"

LEMMA StartsAlone == Spec => []StartAlone
<1>1. Init => StartAlone
  BY DEF Init, StartAlone
<1>2. TypeInv /\ QueueGuarded /\ StartAlone /\ [Next]_vars => StartAlone'
  <2> SUFFICES ASSUME TypeInv, QueueGuarded, StartAlone, [Next]_vars
               PROVE  StartAlone'
    OBVIOUS
  <2> USE ControllerAssumption DEF StartAlone, At, Goto
  <2>t. pc \in [Clients -> Calls \cup {"idle", "notify"}]
    BY DEF TypeInv, TypeOK
  <2>1. CASE Tick
    BY <2>1 DEF Tick, controller
  <2>2. ASSUME NEW c \in Clients, NEW m \in Calls, Acquire(c, m)
        PROVE  StartAlone'
    BY <2>2, <2>t DEF Acquire, controller
  <2>3. ASSUME NEW c \in Clients, Start(c) PROVE StartAlone'
    <3>1. ~thrown => mutex = c
      BY <2>3 DEF Start, Leave, QueueGuarded, Methods
    <3>2. ASSUME NEW d \in Clients, ~thrown, pc'[d] = "start" PROVE FALSE
      <4>1. d # c
        BY <2>3, <2>t, <3>2 DEF Start, Leave
      <4>2. pc[d] = "start"
        BY <2>3, <2>t, <3>2, <4>1 DEF Start, Leave
      <4>3. mutex = d
        BY <3>2, <4>2 DEF QueueGuarded, Methods
      <4>4. QED
        BY <3>1, <3>2, <4>1, <4>3
    <3>3. QED
      BY <2>3, <3>2 DEF Start
  <2>4. ASSUME NEW c \in Clients, Notify(c) PROVE StartAlone'
    BY <2>4, <2>t DEF Notify, controller
  <2>5. ASSUME NEW c \in Clients, EnqueueAt(c) \/ RemoveTask(c) \/ Clear(c) \/ Stop(c)
        PROVE  StartAlone'
    <3>1. \E p \in {"idle", "notify"} : pc' = [pc EXCEPT ![c] = p]
      BY <2>5 DEF EnqueueAt, RemoveTask, Clear, Stop, Leave
    <3>2. ctl' = ctl /\ thrown' = thrown
      BY <2>5 DEF EnqueueAt, RemoveTask, Clear, Stop, controller
    <3>3. QED
      BY <2>t, <3>1, <3>2
  <2>6. CASE ControllerStep \/ SpuriousWake
    <3>1. pc' = pc /\ (thrown => thrown') /\ ctl # "stopped"
      BY <2>6
      DEF ControllerStep, Begin, ProcessTasks, PopTask, RunTask, ThrowTask,
          Relock, Reschedule, NextTask, LoopTest, Sleep, Wake, SpuriousWake,
          Resume, Exit, others
    <3>2. QED
      BY <3>1
  <2>7. CASE UNCHANGED vars
    BY <2>7 DEF vars
  <2>8. QED
    BY <2>1, <2>2, <2>3, <2>4, <2>5, <2>6, <2>7 DEF Next, ClientStep, Body
<1>3. QED
  BY <1>1, <1>2, TypeInvariant, Guarding, PTL DEF Spec

(* As long as no task can throw, none has.                                 *)
LEMMA NoneThrows ==
  ASSUME Throwing = {}
  PROVE  Spec => []~thrown
<1>1. Init => ~thrown
  BY DEF Init
<1>2. ~thrown /\ [Next]_vars => ~thrown'
  <2> SUFFICES ASSUME ~thrown, [Next]_vars PROVE ~thrown'
    OBVIOUS
  <2>1. thrown' = thrown
    BY DEF Next, vars, Tick, ControllerStep, ClientStep, Body, Begin,
           ProcessTasks, PopTask, RunTask, ThrowTask, Relock, Reschedule,
           NextTask, LoopTest, Sleep, Wake, SpuriousWake, Resume, Exit, Acquire,
           EnqueueAt, RemoveTask, Clear, Stop, Start, Notify, controller, others
  <2>2. QED
    BY <2>1
<1>3. QED
  BY <1>1, <1>2, PTL DEF Spec

(* There is a longest delay, as there is of any finite set of them.        *)
LongestDelay ==
  LET delays == Delays \cup Waits \cup {0}
  IN  \E m \in delays : \A d \in delays : d <= m

LEMMA WithinHorizon ==
  ASSUME LongestDelay, NEW d \in Delays \cup Waits, clock \in 0..MaxTime,
         clock + d >= 0
  PROVE  clock + d \in 0..Horizon
<1> DEFINE delays == Delays \cup Waits \cup {0}
           m == F!Max(delays)
<1>1. delays \subseteq Int /\ MaxTime \in Nat
  BY ControllerAssumption
<1>2. PICK k \in delays : \A x \in delays : x <= k
  BY DEF LongestDelay
<1>3. m = CHOOSE x \in delays : \A y \in delays : x >= y
  BY DEF F!Max
<1>4. \E x \in delays : \A y \in delays : x >= y
  BY <1>1, <1>2
<1>5. m \in delays /\ \A y \in delays : m >= y
  <2> HIDE DEF m, delays
  <2>1. QED
    BY <1>3, <1>4
<1>6. d \in Int /\ m \in Int /\ m >= d
  BY <1>1, <1>5
<1>7. Horizon = MaxTime + m
  BY DEF Horizon
<1> HIDE DEF m
<1>8. QED
  BY <1>1, <1>6, <1>7

(* The entry being executed, to the pool.                                  *)
Running == IF ctl \in {"run", "relock", "reschedule"} THEN {task} ELSE {}

RefineInv == TypeInv /\ TimeInv /\ TakesTop /\ StartAlone /\ ~thrown

(* A step that keeps the queue, the clock and what runs is a stutter.      *)
LEMMA Stutters ==
  ASSUME queue' = queue, clock' = clock, Running' = Running
  PROVE  UNCHANGED Pool!vars
<1>1. S!ToBag(queue)' = S!ToBag(queue)
  OBVIOUS
<1>2. QED
  BY <1>1 DEF Pool!vars, Running

(* What the clients' methods are to the pool: entries are submitted,       *)
(* withdrawn and cleared, and the rest is invisible.                       *)
LEMMA ClientRefines ==
  ASSUME RefineInv, LongestDelay, NEW c \in Clients, ClientStep(c)
  PROVE  [Pool!Next]_Pool!vars
<1> USE ControllerAssumption DEF RefineInv
<1>t. /\ queue \in Seq(Entry(Nat, Valid)) /\ clock \in 0..MaxTime
      /\ Delays \subseteq Int
  BY DEF TypeInv, TypeOK
<1>1. CASE EnqueueAt(c)
  <2>0. clock' = clock /\ Running' = Running
    BY <1>1 DEF EnqueueAt, controller, Running
  <2>1. PICK t \in Tasks, d \in Delays :
          /\ clock + d >= 0
          /\ queue' = IF t \in Invalid THEN queue
                      ELSE Push(queue, [when |-> clock + d, task |-> t])
    BY <1>1 DEF EnqueueAt
  <2>2. CASE t \in Invalid
    BY <2>0, <2>1, <2>2, Stutters
  <2>3. CASE t \notin Invalid
    <3> DEFINE e == [when |-> clock + d, task |-> t]
    <3>1. clock + d \in 0..Horizon
      BY <1>t, <2>1, WithinHorizon
    <3>2. e \in Entry(Nat, Valid)
      BY <1>t, <2>1, <2>3 DEF Entry, Valid
    <3>3. queue' = Push(queue, e)
      BY <2>1, <2>3
    <3>4. S!ToBag(queue)' = Pool!BagAdd(S!ToBag(queue), e)
      BY <1>t, <3>2, <3>3, BagPush
    <3>5. Pool!Submit
      BY <2>0, <3>1, <3>4 DEF Pool!Submit, Running
    <3>6. QED
      BY <3>5 DEF Pool!Next
  <2>4. QED
    BY <2>2, <2>3
<1>2. CASE RemoveTask(c)
  <2>1. clock' = clock /\ Running' = Running
    BY <1>2 DEF RemoveTask, controller, Running
  <2>2. PICK t \in Tasks : queue' = Remove(queue, t)
    BY <1>2 DEF RemoveTask
  <2>3. S!ToBag(queue)' =
          [x \in {e \in DOMAIN S!ToBag(queue) : e.task # t} |-> S!ToBag(queue)[x]]
    BY <1>t, <2>2, BagRemoved
  <2>4. Pool!Withdraw
    BY <2>1, <2>3 DEF Pool!Withdraw, Running
  <2>5. QED
    BY <2>4 DEF Pool!Next
<1>3. CASE Clear(c)
  <2>1. clock' = clock /\ Running' = Running /\ queue' = << >>
    BY <1>3 DEF Clear, controller, Running
  <2>2. S!ToBag(queue)' = Pool!NoEntries
    BY <2>1, BagEmpty
  <2>3. Pool!Clear
    BY <2>1, <2>2 DEF Pool!Clear, Running
  <2>4. QED
    BY <2>3 DEF Pool!Next
<1>4. CASE Start(c)
  <2>1. ctl = "stopped" /\ ctl' = "begin"
    BY <1>4 DEF Start, Leave, StartAlone
  <2>2. queue' = queue /\ clock' = clock /\ Running' = Running
    BY <1>4, <2>1 DEF Start, Running
  <2>3. QED
    BY <2>2, Stutters
<1>5. CASE Stop(c) \/ Notify(c) \/ \E m \in Calls : Acquire(c, m)
  <2>1. queue' = queue /\ clock' = clock /\ Running' = Running
    BY <1>5 DEF Stop, Notify, Acquire, controller, Running
  <2>2. QED
    BY <2>1, Stutters
<1>6. QED
  BY <1>1, <1>2, <1>3, <1>4, <1>5 DEF ClientStep, Body

(* What the controller thread is: it starts due entries, one at a time,    *)
(* and finishes them, with or without putting them back.                   *)
LEMMA ControllerRefines ==
  ASSUME RefineInv, LongestDelay, Throwing = {}, ControllerStep
  PROVE  [Pool!Next]_Pool!vars
<1> USE ControllerAssumption DEF RefineInv, At, Goto
<1>t. /\ queue \in Seq(Entry(Nat, Valid)) /\ clock \in 0..MaxTime
      /\ wait \in Waits \cup {DONT_RESCHEDULE} /\ Waits \subseteq Nat
  BY DEF TypeInv, TypeOK
<1>1. CASE PopTask
  <2>1. queue # << >> /\ task = Top(queue)
    BY <1>1 DEF PopTask, TakesTop
  <2>2. task.when <= clock
    <3>1. now <= clock /\ task.when <= now /\ now \in Int /\ clock \in Int
      BY <1>1 DEF PopTask, TimeInv, InHand, TypeInv, TypeOK
    <3>2. task.when \in Int
      BY <1>1 DEF PopTask, InHand, TypeInv, Entry
    <3>3. QED
      BY <3>1, <3>2
  <2>3. queue' = Pop(queue) /\ task' = task /\ clock' = clock
        /\ Running = {} /\ Running' = {task}
    BY <1>1 DEF PopTask, others, Running
  <2>4. /\ task \in DOMAIN S!ToBag(queue)
        /\ S!ToBag(queue)' = Pool!BagRemove(S!ToBag(queue), task)
    BY <1>t, <2>1, <2>3, BagPop
  <2>5. Pool!Start
    BY <2>2, <2>3, <2>4 DEF Pool!Start, Running
  <2>6. QED
    BY <2>5 DEF Pool!Next
<1>2. CASE Reschedule
  <2>1. clock' = clock /\ Running = {task} /\ Running' = {}
    BY <1>2 DEF Reschedule, others, Running
  <2>2. CASE wait = DONT_RESCHEDULE
    <3>1. S!ToBag(queue)' = S!ToBag(queue)
      BY <1>2, <2>2 DEF Reschedule
    <3>2. Pool!Finish
      BY <2>1, <3>1 DEF Pool!Finish, Running
    <3>3. QED
      BY <3>2 DEF Pool!Next
  <2>3. CASE wait # DONT_RESCHEDULE
    <3> DEFINE e == [when |-> clock + wait, task |-> task.task]
    <3>1. wait \in Waits /\ wait \in Nat
      BY <1>t, <2>3
    <3>2. clock + wait \in 0..Horizon /\ clock + wait >= clock
      BY <1>t, <3>1, WithinHorizon
    <3>3. e \in Entry(Nat, Valid)
      BY <1>2, <1>t, <3>1 DEF Reschedule, InHand, TypeInv, Entry
    <3>4. queue' = Push(queue, e)
      BY <1>2, <2>3 DEF Reschedule
    <3>5. S!ToBag(queue)' = Pool!BagAdd(S!ToBag(queue), e)
      BY <1>t, <3>3, <3>4, BagPush
    <3>6. Pool!Finish
      BY <2>1, <3>2, <3>5 DEF Pool!Finish, Running
    <3>7. QED
      BY <3>6 DEF Pool!Next
  <2>4. QED
    BY <2>2, <2>3
<1>3. CASE ThrowTask
  BY <1>3 DEF ThrowTask
<1>4. CASE Begin \/ ProcessTasks \/ RunTask \/ Relock \/ NextTask \/ LoopTest
           \/ Sleep \/ Wake \/ Exit
  <2>1. queue' = queue /\ clock' = clock /\ Running' = Running
    BY <1>4 DEF Begin, ProcessTasks, RunTask, Relock, NextTask, LoopTest,
                Sleep, Wake, Resume, Exit, others, Running
  <2>2. QED
    BY <2>1, Stutters
<1>5. QED
  BY <1>1, <1>2, <1>3, <1>4 DEF ControllerStep

(* ControllerThread implements TaskPool, remove included, as long as no    *)
(* task throws: no entry is lost, run twice, run before it is due or while *)
(* another is, whatever the clients, tasks and delays.                     *)
THEOREM RefinesPool ==
  ASSUME Throwing = {}, LongestDelay
  PROVE  Spec => ImplementsPool
<1>1. Init => Pool!Init
  <2> SUFFICES ASSUME Init PROVE Pool!Init
    OBVIOUS
  <2>1. S!ToBag(queue) = Pool!NoEntries
    BY BagEmpty DEF Init
  <2>2. QED
    BY <2>1 DEF Init, Pool!Init
<1>2. RefineInv /\ [Next]_vars => [Pool!Next]_Pool!vars
  <2> SUFFICES ASSUME RefineInv, [Next]_vars PROVE [Pool!Next]_Pool!vars
    OBVIOUS
  <2>1. ASSUME NEW c \in Clients, ClientStep(c) PROVE [Pool!Next]_Pool!vars
    BY <2>1, ClientRefines
  <2>2. CASE ControllerStep
    BY <2>2, ControllerRefines
  <2>3. CASE Tick
    <3>1. queue' = queue /\ Running' = Running /\ clock' > clock
      BY <2>3 DEF Tick, controller, Running, RefineInv, TypeInv, TypeOK
    <3>2. S!ToBag(queue)' = S!ToBag(queue)
      BY <3>1
    <3>3. Pool!Tick
      BY <3>1, <3>2 DEF Pool!Tick, Running
    <3>4. QED
      BY <3>3 DEF Pool!Next
  <2>4. CASE SpuriousWake
    <3>1. queue' = queue /\ clock' = clock /\ Running' = Running
      BY <2>4 DEF SpuriousWake, Resume, At, Goto, others, Running
    <3>2. QED
      BY <3>1, Stutters
  <2>5. CASE UNCHANGED vars
    <3>1. queue' = queue /\ clock' = clock /\ Running' = Running
      BY <2>5 DEF vars, Running
    <3>2. QED
      BY <3>1, Stutters
  <2>6. QED
    BY <2>1, <2>2, <2>3, <2>4, <2>5 DEF Next
<1>3. Spec => []TimeInv
  BY TimeKept
<1>4. QED
  BY <1>1, <1>2, <1>3, TypeInvariant, TopTaken, StartsAlone, NoneThrows, PTL
  DEF Spec, ImplementsPool, Pool!Spec, RefineInv
=============================================================================
