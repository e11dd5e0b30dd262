--------------------------- MODULE FPGACli_proofs ---------------------------
(***************************************************************************)
(* What a session of the command line sends to the ILCs, and what it knows *)
(* of them, for any buses, units, command lines, files and silences.       *)
(*                                                                         *)
(* The invariant comes in layers, each with a lemma of its own that it is  *)
(* kept by a step: where the command in execution is (Control), what its   *)
(* lists hold (Listed, Course), what is known of the mode of the ILC that  *)
(* is programmed (Known), whether it was verified (Assured), and what is   *)
(* in its flash already (Burnt). What a file is made into, from its lines  *)
(* to the pages, is the subject of lemmas about the operators.             *)
(***************************************************************************)
EXTENDS FPGACli, FiniteSetTheorems, SequenceTheorems, WellFoundedInduction, TLAPS

(* What holds of 0, and of n + 1 when it holds of n, holds of all naturals. *)
LEMMA SetInduction ==
  ASSUME NEW S, 0 \in S, \A n \in Nat : n \in S => n + 1 \in S
  PROVE  Nat \subseteq S
<1>1. SUFFICES ASSUME Nat \ S # {} PROVE FALSE
  OBVIOUS
<1>2. PICK n \in Nat \ S : \A m \in Nat \ S : ~(<<m, n>> \in OpToRel(<, Nat))
  <2>1. Nat \ S \subseteq Nat
    OBVIOUS
  <2>2. QED
    BY <1>1, <2>1, NatLessThanWellFounded, WFMin
<1>3. \A m \in Nat \ S : ~(m < n)
  BY <1>2 DEF OpToRel
<1>4. n - 1 \in Nat /\ n - 1 \in S
  BY <1>3
<1>5. QED
  BY <1>4

(* f is what a step, a function of the place and of what there was before,  *)
(* makes of x in m iterations.                                              *)
Iterates(f, m, X, x, step) ==
  /\ f \in [0..m -> X]
  /\ f[0] = x
  /\ \A n \in 1..m : f[n] = step[n][f[n - 1]]

(* TLAPS expands a recursive function by a CHOOSE: this is what there is to *)
(* choose.                                                                  *)
LEMMA IterationExists ==
  ASSUME NEW X, NEW x \in X, NEW N \in Nat,
         NEW step, \A n \in Nat, q \in X : step[n][q] \in X
  PROVE  \E f : Iterates(f, N, X, x, step)
<1> DEFINE S == {m \in Nat : \E f : Iterates(f, m, X, x, step)}
<1>1. 0 \in S
  <2>1. Iterates([n \in 0..0 |-> x], 0, X, x, step)
    BY DEF Iterates
  <2>2. QED
    BY <2>1
<1>2. ASSUME NEW m \in Nat, m \in S PROVE m + 1 \in S
  <2>1. PICK f : Iterates(f, m, X, x, step)
    BY <1>2
  <2> SUFFICES \E g : Iterates(g, m + 1, X, x, step)
    OBVIOUS
  <2> HIDE DEF S
  <2> DEFINE g == [n \in 0..m + 1 |-> IF n = m + 1 THEN step[n][f[m]] ELSE f[n]]
  <2>2. g \in [0..m + 1 -> X]
    <3>1. m \in 0..m /\ \A n \in 0..m + 1 : n = m + 1 \/ n \in 0..m
      OBVIOUS
    <3>2. \A n \in 0..m : f[n] \in X
      BY <2>1 DEF Iterates
    <3>3. step[m + 1][f[m]] \in X
      BY <3>1, <3>2
    <3>4. QED
      BY <3>1, <3>2, <3>3
  <2>3. g[0] = x
    <3>1. 0 # m + 1 /\ 0 \in 0..m + 1
      OBVIOUS
    <3>2. f[0] = x
      BY <2>1 DEF Iterates
    <3>3. QED
      BY <3>1, <3>2
  <2>4. ASSUME NEW n \in 1..m + 1 PROVE g[n] = step[n][g[n - 1]]
    <3>1. CASE n = m + 1
      <4>1. n - 1 = m /\ m # m + 1 /\ m \in 0..m + 1 /\ n \in 0..m + 1
        BY <3>1
      <4>2. g[n] = step[n][f[m]] /\ g[m] = f[m]
        BY <3>1, <4>1
      <4>3. QED
        BY <4>1, <4>2
    <3>2. CASE n # m + 1
      <4>1. n \in 1..m /\ n - 1 # m + 1 /\ n - 1 \in 0..m + 1 /\ n \in 0..m + 1
        BY <3>2
      <4>2. g[n] = f[n] /\ g[n - 1] = f[n - 1]
        BY <3>2, <4>1
      <4> HIDE DEF g
      <4>3. QED
        BY <2>1, <4>1, <4>2 DEF Iterates
    <3>3. QED
      BY <3>1, <3>2
  <2> HIDE DEF g
  <2>5. Iterates(g, m + 1, X, x, step)
    BY <2>2, <2>3, <2>4 DEF Iterates
  <2>6. QED
    BY <2>5
<1> HIDE DEF S
<1>3. Nat \subseteq S
  BY <1>1, <1>2, SetInduction
<1>4. QED
  BY <1>3 DEF S

(* Among leaves out what is not in the set, and adds nothing.               *)
Keeps(kept, s, set) ==
  kept = [n \in 0..Len(s) |->
            IF n = 0 THEN << >>
            ELSE IF s[n] \in set THEN Append(kept[n - 1], s[n]) ELSE kept[n - 1]]

(* A loop that leaves some out keeps the others as they are.                *)
LEMMA AmongType ==
  ASSUME NEW T, NEW s \in Seq(T), NEW set
  PROVE  Among(s, set) \in Seq(T \cap set)
<1> DEFINE N == Len(s)
           X == Seq(T \cap set)
           step == [n \in Nat |-> [q \in X |->
                      IF n \in 1..N /\ s[n] \in set THEN Append(q, s[n]) ELSE q]]
<1>0. N \in Nat
  OBVIOUS
<1>1. \A n \in Nat, q \in X :
        step[n][q] = IF n \in 1..N /\ s[n] \in set THEN Append(q, s[n]) ELSE q
  OBVIOUS
<1>2. ASSUME NEW n \in Nat, NEW q \in X PROVE step[n][q] \in X
  <2>1. CASE n \in 1..N /\ s[n] \in set
    <3>1. s[n] \in T \cap set
      BY <2>1
    <3>2. Append(q, s[n]) \in X
      BY <3>1, AppendProperties
    <3>3. QED
      BY <1>1, <2>1, <3>2
  <2>2. QED
    BY <1>1, <2>1
<1>3. << >> \in X
  OBVIOUS
<1> HIDE DEF X, step, N
<1>4. PICK f : Iterates(f, N, X, << >>, step)
  BY <1>0, <1>2, <1>3, IterationExists
<1>5. Keeps(f, s, set)
  <2>1. f = [n \in 0..N |-> f[n]]
    BY <1>4 DEF Iterates
  <2>2. ASSUME NEW n \in 0..N
        PROVE  f[n] = IF n = 0 THEN << >>
                      ELSE IF s[n] \in set THEN Append(f[n - 1], s[n]) ELSE f[n - 1]
    <3>1. CASE n = 0
      BY <1>4, <3>1 DEF Iterates
    <3>2. CASE n # 0
      <4>1. n \in 1..N /\ n - 1 \in 0..N /\ n \in Nat
        BY <1>0, <3>2
      <4>2. f[n - 1] \in X /\ f[n] = step[n][f[n - 1]]
        BY <1>4, <4>1 DEF Iterates
      <4>3. QED
        BY <1>1, <3>2, <4>1, <4>2
    <3>3. QED
      BY <3>1, <3>2
  <2>3. QED
    BY <2>1, <2>2 DEF Keeps, N
<1>6. PICK kept : Keeps(kept, s, set) /\ Among(s, set) = kept[N]
  BY <1>5 DEF Among, Keeps, N
<1>7. /\ kept[0] = << >>
      /\ \A n \in 1..N : kept[n] = IF s[n] \in set THEN Append(kept[n - 1], s[n]) ELSE kept[n - 1]
  <2>1. 0 \in 0..N /\ \A n \in 1..N : n \in 0..N /\ n # 0
    BY <1>0
  <2>2. \A n \in 0..N :
          kept[n] = IF n = 0 THEN << >>
                    ELSE IF s[n] \in set THEN Append(kept[n - 1], s[n]) ELSE kept[n - 1]
    BY <1>6 DEF Keeps, N
  <2>3. QED
    BY <2>1, <2>2
<1> DEFINE S == {n \in Nat : n \in 0..N => kept[n] \in X}
<1>8. 0 \in S
  BY <1>3, <1>7
<1>9. ASSUME NEW n \in Nat, n \in S PROVE n + 1 \in S
  <2>1. CASE n + 1 \in 0..N
    <3>1. n \in 0..N /\ n + 1 \in 1..N /\ (n + 1) - 1 = n
      BY <1>0, <2>1
    <3>2. kept[n] \in X /\ s[n + 1] \in T
      BY <1>9, <3>1 DEF N
    <3>3. kept[n + 1] = IF s[n + 1] \in set THEN Append(kept[n], s[n + 1]) ELSE kept[n]
      BY <1>7, <3>1
    <3>4. CASE s[n + 1] \in set
      <4>1. s[n + 1] \in T \cap set
        BY <3>2, <3>4
      <4>2. Append(kept[n], s[n + 1]) \in X
        BY <3>2, <4>1, AppendProperties DEF X
      <4>3. kept[n + 1] \in X
        BY <3>3, <3>4, <4>2
      <4>4. QED
        BY <4>3
    <3>5. QED
      BY <3>2, <3>3, <3>4
  <2>2. QED
    BY <2>1
<1> HIDE DEF S
<1>10. Nat \subseteq S
  BY <1>8, <1>9, SetInduction
<1>11. N \in S
  BY <1>0, <1>10
<1>12. QED
  BY <1>0, <1>6, <1>11 DEF S, X

(* IsSuffix, place by place.                                                *)
LEMMA SuffixPlaces ==
  ASSUME NEW S, NEW s \in Seq(S), NEW t \in Seq(S)
  PROVE  IsSuffix(s, t) <=> /\ Len(s) <= Len(t)
                            /\ \A i \in 1..Len(s) : s[i] = t[Len(t) - Len(s) + i]
<1> DEFINE rs == Reverse(s)
           rt == Reverse(t)
           n == Len(s)
           m == Len(t)
<1>0. n \in Nat /\ m \in Nat
  OBVIOUS
<1>1. rs \in Seq(S) /\ Len(rs) = n /\ \A i \in 1..n : rs[i] = s[n - i + 1]
  BY DEF Reverse
<1>2. rt \in Seq(S) /\ Len(rt) = m /\ \A i \in 1..m : rt[i] = t[m - i + 1]
  BY DEF Reverse
<1>3. IsSuffix(s, t) <=> Len(rs) <= Len(rt) /\ SubSeq(rs, 1, Len(rs)) = SubSeq(rt, 1, Len(rs))
  BY DEF IsSuffix, IsPrefix
<1> HIDE DEF rs, rt, n, m
<1>4. CASE n <= m
  <2>1. SubSeq(rs, 1, n) = rs
    BY <1>1, SubSeqFull
  <2>2. /\ SubSeq(rt, 1, n) \in Seq(S) /\ Len(SubSeq(rt, 1, n)) = n
        /\ \A i \in 1..n : SubSeq(rt, 1, n)[i] = rt[i]
    BY <1>0, <1>1, <1>2, <1>4
  <2>3. rs = SubSeq(rt, 1, n) <=> \A i \in 1..n : rs[i] = rt[i]
    BY <1>1, <2>2, SeqEqual
  <2>4. ASSUME \A i \in 1..n : rs[i] = rt[i], NEW i \in 1..n
        PROVE  s[i] = t[m - n + i]
    <3> DEFINE k == n - i + 1
    <3>1. k \in 1..n /\ k \in 1..m /\ n - k + 1 = i /\ m - k + 1 = m - n + i
      BY <1>0, <1>4
    <3> HIDE DEF k
    <3>2. rs[k] = s[i] /\ rt[k] = t[m - n + i] /\ rs[k] = rt[k]
      BY <1>1, <1>2, <2>4, <3>1
    <3>3. QED
      BY <3>2
  <2>5. ASSUME \A i \in 1..n : s[i] = t[m - n + i], NEW i \in 1..n
        PROVE  rs[i] = rt[i]
    <3> DEFINE k == n - i + 1
    <3>1. k \in 1..n /\ i \in 1..m /\ m - n + k = m - i + 1
      BY <1>0, <1>4
    <3>2. rs[i] = s[k] /\ rt[i] = t[m - i + 1]
      BY <1>1, <1>2, <3>1
    <3> HIDE DEF k
    <3>3. s[k] = t[m - n + k]
      BY <2>5, <3>1
    <3>4. QED
      BY <3>1, <3>2, <3>3
  <2>7. QED
    BY <1>1, <1>2, <1>3, <1>4, <2>1, <2>3, <2>4, <2>5 DEF n, m
<1>5. QED
  BY <1>1, <1>2, <1>3, <1>4 DEF n, m

(* The tail of a rest is a rest.                                            *)
LEMMA SuffixTail ==
  ASSUME NEW S, NEW s \in Seq(S), NEW t \in Seq(S), s # << >>, IsSuffix(s, t)
  PROVE  Tail(s) \in Seq(S) /\ IsSuffix(Tail(s), t)
<1>1. /\ Tail(s) \in Seq(S) /\ Len(Tail(s)) = Len(s) - 1
      /\ \A i \in 1..Len(Tail(s)) : Tail(s)[i] = s[i + 1]
  BY HeadTailProperties
<1>2. Len(s) <= Len(t) /\ \A i \in 1..Len(s) : s[i] = t[Len(t) - Len(s) + i]
  BY SuffixPlaces
<1>3. ASSUME NEW i \in 1..Len(Tail(s))
      PROVE  Tail(s)[i] = t[Len(t) - Len(Tail(s)) + i]
  <2>1. i + 1 \in 1..Len(s)
        /\ Len(t) - Len(s) + (i + 1) = Len(t) - Len(Tail(s)) + i
    BY <1>1
  <2>2. QED
    BY <1>1, <1>2, <2>1
<1>4. Len(Tail(s)) <= Len(t)
  BY <1>1, <1>2
<1>5. QED
  BY <1>1, <1>3, <1>4, SuffixPlaces

(* All of a sequence is a rest of it.                                       *)
LEMMA SuffixSame ==
  ASSUME NEW S, NEW s \in Seq(S)
  PROVE  IsSuffix(s, s)
<1>1. Len(s) \in Nat
  OBVIOUS
<1>2. \A i \in 1..Len(s) : Len(s) - Len(s) + i = i
  BY <1>1
<1>3. QED
  BY <1>1, <1>2, SuffixPlaces

-----------------------------------------------------------------------------
(* What an application is made of: a file, its records in the order of their *)
(* addresses, the bytes getData makes of them, and their pages.             *)

(* An address that does not overflow is not cut.                            *)
LEMMA ModSmall ==
  ASSUME NEW e \in Nat, NEW w \in Nat \ {0}, e < w
  PROVE  e % w = e
  OBVIOUS

(* SMT knows the rest of a division by a constant only; Quotient is what is *)
(* cited.                                                                   *)
LEMMA Division ==
  ASSUME NEW x \in Nat, NEW p \in Nat, p > 0,
         NEW q \in Nat, q = x \div p, NEW r \in Nat, r = x % p
  PROVE  x = q * p + r
  OBVIOUS

(* A number is its quotient times the divisor and a rest.                   *)
LEMMA Quotient ==
  ASSUME NEW x \in Nat, NEW p \in Nat \ {0}
  PROVE  \E q, r \in Nat : q = x \div p /\ r = x % p /\ r < p /\ x = q * p + r
<1>1. PICK q : q = x \div p
  OBVIOUS
<1>2. PICK r : r = x % p
  OBVIOUS
<1>3. q \in Nat
  BY <1>1
<1>4. r \in Nat /\ r < p
  BY <1>2
<1>5. p \in Nat /\ p > 0
  OBVIOUS
<1>6. x = q * p + r
  BY <1>1, <1>2, <1>3, <1>4, <1>5, Division
<1>7. QED
  BY <1>1, <1>2, <1>3, <1>4, <1>6, Zenon

(* Different multiples are apart by the factor at least.                    *)
LEMMA Multiples ==
  ASSUME NEW m \in Nat, NEW n \in Nat, NEW p \in Nat, m < n
  PROVE  m * p + p <= n * p
  OBVIOUS

(* A multiple divides without a rest.                                       *)
LEMMA QuotientOfMultiple ==
  ASSUME NEW m \in Nat, NEW p \in Nat \ {0}
  PROVE  (m * p) \div p = m
  OBVIOUS

(* A set of naturals that is not empty has a least one.                     *)
LEMMA LeastOf ==
  ASSUME NEW V \in SUBSET Nat, V # {}
  PROVE  \E x \in V : \A y \in V : x <= y
<1>1. PICK x \in V : \A y \in V : ~(<<y, x>> \in OpToRel(<, Nat))
  BY NatLessThanWellFounded, WFMin
<1>2. ASSUME NEW y \in V, ~(x <= y) PROVE FALSE
  <2>1. <<y, x>> \in OpToRel(<, Nat)
    BY <1>2 DEF OpToRel
  <2>2. QED
    BY <1>1, <2>1
<1>3. QED
  BY <1>2

(* The first n places are in order, and not after what follows.             *)
InOrder(f, n, N, key) ==
  /\ f \in [1..N -> 1..N]
  /\ \A i, j \in 1..N : f[i] = f[j] => i = j
  /\ \A t \in 1..N : \E i \in 1..N : f[i] = t
  /\ \A i, j \in 1..N : i < j /\ i <= n => key[f[i]] <= key[f[j]]

(* One more place is put in order: the least of what follows is swapped there. *)
LEMMA OneMoreInOrder ==
  ASSUME NEW N \in Nat, NEW key \in [1..N -> Nat], NEW n \in Nat, n < N,
         NEW f, InOrder(f, n, N, key)
  PROVE  \E g : InOrder(g, n + 1, N, key)
<1>1. /\ f \in [1..N -> 1..N]
      /\ \A i, j \in 1..N : f[i] = f[j] => i = j
      /\ \A t \in 1..N : \E i \in 1..N : f[i] = t
      /\ \A i, j \in 1..N : i < j /\ i <= n => key[f[i]] <= key[f[j]]
  BY DEF InOrder
<1>2. PICK m : m = n + 1
  OBVIOUS
<1>3. m \in 1..N
  BY <1>2
<1>4. PICK k \in m..N : \A j \in m..N : key[f[k]] <= key[f[j]]
  <2> DEFINE V == {key[f[j]] : j \in m..N}
  <2>1. V \in SUBSET Nat /\ V # {}
    <3>1. m \in m..N /\ \A j \in m..N : j \in 1..N
      BY <1>3
    <3>2. \A j \in m..N : key[f[j]] \in Nat
      BY <1>1, <3>1
    <3>3. key[f[m]] \in V
      BY <3>1
    <3>4. QED
      BY <3>2, <3>3
  <2>2. PICK x \in V : \A y \in V : x <= y
    <3> HIDE DEF V
    <3>1. QED
      BY <2>1, LeastOf
  <2>3. QED
    BY <2>2
<1>5. k \in 1..N
  BY <1>3
<1>6. PICK g : g = [f EXCEPT ![m] = f[k], ![k] = f[m]]
  OBVIOUS
<1>7. /\ g \in [1..N -> 1..N]
      /\ g[k] = f[m]
      /\ g[m] = f[k]
      /\ \A i \in 1..N : i # m /\ i # k => g[i] = f[i]
  BY <1>1, <1>3, <1>5, <1>6
<1>8. ASSUME NEW i \in 1..N, NEW j \in 1..N, g[i] = g[j] PROVE i = j
  <2>1. PICK a : a = IF i = m THEN k ELSE IF i = k THEN m ELSE i
    OBVIOUS
  <2>2. PICK b : b = IF j = m THEN k ELSE IF j = k THEN m ELSE j
    OBVIOUS
  <2>3. a \in 1..N /\ b \in 1..N /\ g[i] = f[a] /\ g[j] = f[b]
    BY <1>3, <1>5, <1>7, <2>1, <2>2
  <2>4. f[a] = f[b]
    BY <1>8, <2>3
  <2>5. a = b
    BY <1>1, <2>3, <2>4
  <2>6. QED
    BY <2>1, <2>2, <2>5
<1>9. ASSUME NEW t \in 1..N PROVE \E i \in 1..N : g[i] = t
  <2>1. PICK i \in 1..N : f[i] = t
    BY <1>1
  <2>2. CASE i = m
    BY <1>5, <1>7, <2>1, <2>2
  <2>3. CASE i = k
    BY <1>3, <1>7, <2>1, <2>3
  <2>4. QED
    BY <1>7, <2>1, <2>2, <2>3
<1>10. ASSUME NEW i \in 1..N, NEW j \in 1..N, i < j, i <= m
       PROVE  key[g[i]] <= key[g[j]]
  <2>1. CASE i = m
    <3>1. j \in m..N
      BY <1>10, <2>1, <1>3
    <3>2. PICK l \in m..N : g[j] = f[l]
      <4>1. m \in m..N /\ j # m
        BY <1>3, <1>10, <2>1
      <4>2. CASE j = k
        BY <1>7, <4>1, <4>2
      <4>3. CASE j # k
        BY <1>7, <3>1, <4>1, <4>3
      <4>4. QED
        BY <4>2, <4>3
    <3>3. QED
      BY <1>4, <1>7, <2>1, <3>2
  <2>2. CASE i # m
    <3>1. i < m /\ i <= n /\ i # k
      BY <1>2, <1>10, <2>2
    <3>2. g[i] = f[i]
      BY <1>7, <2>2, <3>1
    <3>3. PICK l \in 1..N : g[j] = f[l] /\ i < l
      <4>1. i < k /\ k \in 1..N /\ i < m
        BY <1>3, <1>5, <3>1
      <4>2. CASE j = m
        BY <1>7, <4>1, <4>2
      <4>3. CASE j = k
        BY <1>3, <1>7, <4>1, <4>3
      <4>4. CASE j # m /\ j # k
        BY <1>7, <1>10, <4>4
      <4>5. QED
        BY <4>2, <4>3, <4>4
    <3>4. QED
      BY <1>1, <3>1, <3>2, <3>3
  <2>3. QED
    BY <2>1, <2>2
<1>11. InOrder(g, m, N, key)
  BY <1>7, <1>8, <1>9, <1>10 DEF InOrder
<1>12. QED
  BY <1>2, <1>11

(* Any records can be put in the order of their addresses.                  *)
LEMMA OrderExists ==
  ASSUME NEW N \in Nat, NEW key \in [1..N -> Nat]
  PROVE  \E f : InOrder(f, N, N, key)
<1> DEFINE S == {n \in Nat : n <= N => \E f : InOrder(f, n, N, key)}
<1>1. 0 \in S
  <2>1. InOrder([i \in 1..N |-> i], 0, N, key)
    BY DEF InOrder
  <2>2. QED
    BY <2>1
<1>2. ASSUME NEW n \in Nat, n \in S PROVE n + 1 \in S
  <2>1. CASE n + 1 <= N
    <3>1. n < N /\ n <= N
      BY <2>1
    <3>2. PICK f : InOrder(f, n, N, key)
      BY <1>2, <3>1
    <3>3. \E g : InOrder(g, n + 1, N, key)
      BY <3>1, <3>2, OneMoreInOrder
    <3>4. QED
      BY <3>3
  <2>2. QED
    BY <2>1
<1> HIDE DEF S
<1>3. N \in S
  BY <1>1, <1>2, SetInduction
<1>4. QED
  BY <1>3 DEF S

(* What _sortByAddress does: the lines are the same ones, each once.        *)
SortedTo(hex, s, order) ==
  /\ s \in Seq(IntelHexLine)
  /\ Len(s) = Len(hex)
  /\ order \in [1..Len(hex) -> 1..Len(hex)]
  /\ \A i \in 1..Len(hex) : s[i] = hex[order[i]]
  /\ \A i, j \in 1..Len(hex) : order[i] = order[j] => i = j
  /\ \A t \in 1..Len(hex) : \E i \in 1..Len(hex) : order[i] = t
  /\ \A i, j \in 1..Len(hex) : i < j => s[i].address <= s[j].address

(* _sortByAddress has an order to choose, and gives the records in it.      *)
LEMMA Sorting ==
  ASSUME NEW hex \in Seq(IntelHexLine)
  PROVE  \E order : SortedTo(hex, _sortByAddress(hex), order)
<1>1. PICK N : N = Len(hex)
  OBVIOUS
<1>2. N \in Nat /\ DOMAIN hex = 1..N /\ \A i \in 1..N : hex[i] \in IntelHexLine
  BY <1>1
<1>3. \A l \in IntelHexLine : l.address \in Nat
  BY AddressAssumption DEF IntelHexLine
<1>4. PICK key : key = [i \in 1..N |-> hex[i].address]
  OBVIOUS
<1>5. key \in [1..N -> Nat] /\ \A i \in 1..N : key[i] = hex[i].address
  BY <1>2, <1>3, <1>4
<1>6. PICK f : InOrder(f, N, N, key)
  BY <1>2, <1>5, OrderExists
<1> DEFINE Right(order) == order \in Bijection(1..N, 1..N) /\
             \A i, j \in 1..N : i < j => hex[order[i]].address <= hex[order[j]].address
<1>7. f \in Bijection(1..N, 1..N)
  BY <1>6 DEF InOrder, Bijection, Injection, Surjection, IsInjective
<1>8. \A i, j \in 1..N : i < j => hex[f[i]].address <= hex[f[j]].address
  <2>1. ASSUME NEW i \in 1..N, NEW j \in 1..N, i < j
        PROVE  hex[f[i]].address <= hex[f[j]].address
    <3>1. f[i] \in 1..N /\ f[j] \in 1..N /\ key[f[i]] <= key[f[j]]
      BY <1>2, <1>6, <2>1 DEF InOrder
    <3>2. QED
      BY <1>5, <3>1
  <2>2. QED
    BY <2>1
<1>9. PICK order : order = CHOOSE o \in Bijection(1..N, 1..N) :
             \A i, j \in 1..N : i < j => hex[o[i]].address <= hex[o[j]].address
  OBVIOUS
<1>10. Right(order)
  BY <1>7, <1>8, <1>9
<1>11. PICK s : s = [i \in 1..N |-> hex[order[i]]]
  OBVIOUS
<1>12. _sortByAddress(hex) = s
  BY <1>2, <1>9, <1>11 DEF _sortByAddress
<1>13. /\ order \in [1..N -> 1..N]
       /\ \A i, j \in 1..N : order[i] = order[j] => i = j
       /\ \A t \in 1..N : \E i \in 1..N : order[i] = t
  BY <1>10 DEF Bijection, Injection, Surjection, IsInjective
<1>14. \A i \in 1..N : s[i] = hex[order[i]] /\ s[i] \in IntelHexLine
  BY <1>2, <1>11, <1>13
<1>15. s \in Seq(IntelHexLine) /\ Len(s) = N
  BY <1>2, <1>11, <1>14
<1>16. \A i, j \in 1..N : i < j => s[i].address <= s[j].address
  BY <1>10, <1>14
<1>17. SortedTo(hex, s, order)
  BY <1>1, <1>13, <1>14, <1>15, <1>16 DEF SortedTo
<1>18. QED
  BY <1>12, <1>17

(* getData's loop over the records in order.                                *)
Copying(copied, s) ==
  /\ copied[0] = [bytes |-> << >>, last |-> s[1].address]
  /\ \A n \in 1..Len(s) : copied[n] = Add(copied[n - 1], s[n])
  /\ \A n \in 0..Len(s) : copied[n] \in [bytes : Seq(Byte), last : Nat]

(* A record put behind the bytes there are makes bytes.                     *)
LEMMA AddType ==
  ASSUME NEW q \in [bytes : Seq(Byte), last : Nat], NEW line \in IntelHexLine
  PROVE  /\ Add(q, line) \in [bytes : Seq(Byte), last : Nat]
         /\ Gap(q.last, line.address) \in Seq(Byte)
         /\ Len(Gap(q.last, line.address)) =
              IF q.last < line.address THEN line.address - q.last ELSE 0
<1>1. q.bytes \in Seq(Byte) /\ q.last \in Nat /\ line.address \in Nat /\ line.data \in Seq(Byte)
  BY AddressAssumption DEF IntelHexLine, Byte
<1>2. PICK m : m = IF q.last < line.address THEN line.address - q.last ELSE 0
  OBVIOUS
<1>3. m \in Nat
  BY <1>1, <1>2
<1>4. Gap(q.last, line.address) = [i \in 1..m |-> Filler(q.last + i - 1)]
  BY <1>2 DEF Gap
<1>5. \A a : Filler(a) \in Byte
  BY DEF Filler, Byte
<1>6. Gap(q.last, line.address) \in Seq(Byte) /\ Len(Gap(q.last, line.address)) = m
  BY <1>3, <1>4, <1>5
<1>7. q.bytes \o Gap(q.last, line.address) \in Seq(Byte)
  BY <1>1, <1>6
<1>8. q.bytes \o Gap(q.last, line.address) \o line.data \in Seq(Byte)
  BY <1>1, <1>7
<1>9. (line.address + Len(line.data)) % AddressSpace \in Nat
  BY <1>1, AddressAssumption
<1>10. QED
  BY <1>2, <1>6, <1>8, <1>9 DEF Add

(* getData copies one record after the other, from the first address on.    *)
LEMMA DataCopied ==
  ASSUME NEW hex, NEW s \in Seq(IntelHexLine), s # << >>, _sortByAddress(hex) = s
  PROVE  /\ StartAddress(hex) = s[1].address
         /\ \E copied : Copying(copied, s) /\ getData(hex) = copied[Len(s)].bytes
<1>1. PICK X : X = [bytes : Seq(Byte), last : Nat]
  OBVIOUS
<1>2. PICK N : N = Len(s)
  OBVIOUS
<1>3. N \in Nat /\ 1 \in 1..N /\ \A n \in 1..N : s[n] \in IntelHexLine
  BY <1>2
<1>4. PICK x : x = [bytes |-> << >>, last |-> s[1].address]
  OBVIOUS
<1>5. x \in X
  BY <1>1, <1>3, <1>4, AddressAssumption DEF IntelHexLine
<1>6. StartAddress(hex) = s[1].address
  BY DEF StartAddress
<1>7. PICK step : step = [n \in Nat |-> [q \in X |-> IF n \in 1..N THEN Add(q, s[n]) ELSE q]]
  OBVIOUS
<1>8. \A n \in Nat, q \in X : step[n][q] = IF n \in 1..N THEN Add(q, s[n]) ELSE q
  BY <1>7
<1>9. ASSUME NEW n \in Nat, NEW q \in X PROVE step[n][q] \in X
  <2>1. CASE n \in 1..N
    <3>1. s[n] \in IntelHexLine /\ q \in [bytes : Seq(Byte), last : Nat]
      BY <1>1, <1>3, <2>1
    <3>2. Add(q, s[n]) \in X
      BY <1>1, <3>1, AddType
    <3>3. QED
      BY <1>8, <2>1, <3>2
  <2>2. CASE n \notin 1..N
    BY <1>8, <2>2
  <2>3. QED
    BY <2>1, <2>2
<1>10. PICK f : Iterates(f, N, X, x, step)
  BY <1>3, <1>5, <1>9, IterationExists
<1>11. f = [n \in 0..N |-> IF n = 0 THEN x ELSE Add(f[n - 1], s[n])]
  <2>1. f = [n \in 0..N |-> f[n]]
    BY <1>10 DEF Iterates
  <2>2. ASSUME NEW n \in 0..N PROVE f[n] = IF n = 0 THEN x ELSE Add(f[n - 1], s[n])
    <3>1. CASE n = 0
      BY <1>10, <3>1 DEF Iterates
    <3>2. CASE n # 0
      <4>1. n \in 1..N /\ n - 1 \in 0..N /\ n \in Nat
        BY <1>3, <3>2
      <4>2. f[n - 1] \in X /\ f[n] = step[n][f[n - 1]]
        BY <1>10, <4>1 DEF Iterates
      <4>3. QED
        BY <1>8, <3>2, <4>1, <4>2
    <3>3. QED
      BY <3>1, <3>2
  <2>3. QED
    BY <2>1, <2>2
<1>12. PICK copied : /\ copied = [n \in 0..N |-> IF n = 0 THEN x ELSE Add(copied[n - 1], s[n])]
                     /\ getData(hex) = copied[N].bytes
  BY <1>2, <1>4, <1>6, <1>11 DEF getData
<1>13. copied[0] = x /\ \A n \in 1..N : copied[n] = Add(copied[n - 1], s[n])
  <2>1. 0 \in 0..N /\ \A n \in 1..N : n \in 0..N /\ n # 0
    BY <1>3
  <2>2. \A n \in 0..N : copied[n] = IF n = 0 THEN x ELSE Add(copied[n - 1], s[n])
    BY <1>12
  <2>3. QED
    BY <2>1, <2>2
<1> DEFINE S == {n \in Nat : n \in 0..N => copied[n] \in X}
<1>14. 0 \in S
  BY <1>5, <1>13
<1>15. ASSUME NEW n \in Nat, n \in S PROVE n + 1 \in S
  <2>1. CASE n + 1 \in 0..N
    <3>1. n \in 0..N /\ n + 1 \in 1..N /\ (n + 1) - 1 = n
      BY <1>3, <2>1
    <3>2. copied[n] \in X /\ s[n + 1] \in IntelHexLine /\ copied[n + 1] = Add(copied[n], s[n + 1])
      BY <1>3, <1>13, <1>15, <3>1
    <3>3. copied[n + 1] \in X
      BY <1>1, <3>2, AddType
    <3>4. QED
      BY <3>3
  <2>2. QED
    BY <2>1
<1> HIDE DEF S
<1>16. Nat \subseteq S
  BY <1>14, <1>15, SetInduction
<1>17. \A n \in 0..N : copied[n] \in X
  BY <1>16 DEF S
<1>18. Copying(copied, s)
  BY <1>1, <1>2, <1>4, <1>13, <1>17 DEF Copying
<1>19. QED
  BY <1>2, <1>6, <1>12, <1>18

(* The records of a sane file in order: one ends before the next begins, and *)
(* they have what the file says of their addresses.                         *)
End(line) == line.address + Len(line.data)

Apart(s) ==
  /\ s \in Seq(IntelHexLine) /\ s # << >>
  /\ \A i \in 1..Len(s) : s[i].data # << >> /\ End(s[i]) < AddressSpace
  /\ \A i, j \in 1..Len(s) : i < j => End(s[i]) <= s[j].address
  /\ \A i \in 1..Len(s), a \in Nat :
       Covers(s[i], a) => a \in Covered /\ Meant(a) = s[i].data[a - s[i].address + 1]
  /\ \A a \in Nat : (\A i \in 1..Len(s) : ~Covers(s[i], a)) => a \notin Covered /\ Meant(a) = Filler(a)

(* What a line of a file consists of.                                       *)
LEMMA LineType ==
  ASSUME NEW line \in IntelHexLine
  PROVE  /\ line.address \in Nat /\ line.address < AddressSpace
         /\ line.data \in Seq(Byte) /\ Len(line.data) \in Nat /\ End(line) \in Nat
         /\ \A i \in 1..Len(line.data) : line.data[i] \in Byte
         /\ line.data # << >> => 0 < Len(line.data)
<1>1. line.address \in 0..AddressSpace - 1 /\ line.data \in Seq(Byte)
  BY DEF IntelHexLine, Byte
<1>2. QED
  BY <1>1, AddressAssumption DEF End

(* The sorted records of a file that makes sense lie one behind the other.  *)
LEMMA SaneApart ==
  ASSUME records \in Seq(IntelHexLine), Sane,
         NEW s, NEW order, SortedTo(records, s, order)
  PROVE  Apart(s)
<1>1. PICK N : N = Len(records)
  OBVIOUS
<1>2. /\ N \in Nat /\ DOMAIN records = 1..N /\ Len(s) = N /\ s \in Seq(IntelHexLine)
      /\ order \in [1..N -> 1..N]
      /\ \A i \in 1..N : records[i] \in IntelHexLine
      /\ \A i \in 1..N : s[i] = records[order[i]]
      /\ \A i, j \in 1..N : order[i] = order[j] => i = j
      /\ \A t \in 1..N : \E i \in 1..N : order[i] = t
      /\ \A i, j \in 1..N : i < j => s[i].address <= s[j].address
  <2>1. N \in Nat /\ DOMAIN records = 1..N /\ \A i \in 1..N : records[i] \in IntelHexLine
    BY <1>1
  <2>2. /\ Len(s) = N /\ s \in Seq(IntelHexLine) /\ order \in [1..N -> 1..N]
        /\ \A i \in 1..N : s[i] = records[order[i]]
        /\ \A i, j \in 1..N : order[i] = order[j] => i = j
        /\ \A t \in 1..N : \E i \in 1..N : order[i] = t
        /\ \A i, j \in 1..N : i < j => s[i].address <= s[j].address
    BY <1>1, Zenon DEF SortedTo
  <2>3. QED
    BY <2>1, <2>2, Zenon
<1>3. \A i \in 1..N : records[i].data # << >>
  BY <1>2 DEF Sane
<1>4. \A i \in 1..N : s[i].data # << >> /\ s[i] \in IntelHexLine /\ order[i] \in 1..N
  <2>1. \A i \in 1..N : order[i] \in 1..N
    BY <1>2
  <2>2. \A i \in 1..N : s[i] \in IntelHexLine
    BY <1>2
  <2>3. ASSUME NEW i \in 1..N PROVE s[i].data # << >>
    <3>1. s[i] = records[order[i]] /\ order[i] \in 1..N
      BY <1>2, <2>1
    <3>2. QED
      BY <1>3, <3>1
  <2>4. QED
    BY <2>1, <2>2, <2>3
<1>5. ASSUME NEW i \in 1..N, NEW a \in Nat
      PROVE  Covers(records[i], a) <=> a \in records[i].address .. (records[i].address + Len(records[i].data) - 1)
  <2>1. PICK l : l = records[i]
    OBVIOUS
  <2>2. l.address \in Nat /\ Len(l.data) \in Nat
    BY <1>2, <2>1, LineType
  <2>3. PICK b, d \in Nat : b = l.address /\ d = Len(l.data)
    BY <2>2
  <2>4. b <= a /\ a < b + d <=> a \in b .. (b + d - 1)
    OBVIOUS
  <2>5. Covers(l, a) <=> b <= a /\ a < b + d
    BY <2>3 DEF Covers
  <2>6. QED
    BY <2>1, <2>3, <2>4, <2>5
<1>6. ASSUME NEW a \in Nat PROVE a \in Covered <=> \E i \in 1..N : Covers(records[i], a)
  <2>1. a \in Covered <=> \E i \in DOMAIN records :
                            a \in records[i].address .. (records[i].address + Len(records[i].data) - 1)
    BY Zenon DEF Covered
  <2>2. QED
    BY <1>2, <1>5, <2>1
<1>7. ASSUME NEW i \in 1..N, NEW j \in 1..N, NEW a \in Nat, Covers(records[i], a), Covers(records[j], a)
      PROVE  i = j
  <2>1. a \in Covered
    BY <1>6, <1>7
  <2>2. QED
    BY <1>2, <1>7, <2>1 DEF Sane
<1>8. ASSUME NEW i \in 1..N, NEW a \in Nat, Covers(s[i], a)
      PROVE  a \in Covered /\ Meant(a) = s[i].data[a - s[i].address + 1]
  <2>1. Covers(records[order[i]], a) /\ order[i] \in 1..N
    BY <1>2, <1>8
  <2>2. PICK j : j = CHOOSE k \in DOMAIN records : Covers(records[k], a)
    OBVIOUS
  <2>3. j \in 1..N /\ Covers(records[j], a)
    BY <1>2, <2>1, <2>2
  <2>4. j = order[i]
    BY <1>7, <2>1, <2>3
  <2>5. Meant(a) = records[j].data[a - records[j].address + 1]
    BY <1>2, <2>1, <2>2 DEF Meant
  <2>6. QED
    BY <1>2, <1>6, <2>1, <2>4, <2>5
<1>9. ASSUME NEW a \in Nat, \A i \in 1..N : ~Covers(s[i], a)
      PROVE  a \notin Covered /\ Meant(a) = Filler(a)
  <2>1. \A t \in 1..N : ~Covers(records[t], a)
    BY <1>2, <1>9
  <2>2. QED
    BY <1>2, <1>6, <2>1 DEF Meant
<1>10. ASSUME NEW i \in 1..N PROVE End(s[i]) < AddressSpace
  <2>1. PICK l : l = s[i]
    OBVIOUS
  <2>2. /\ l.address \in Nat /\ Len(l.data) \in Nat \ {0} /\ End(l) = l.address + Len(l.data)
    BY <1>4, <2>1, LineType DEF End
  <2>3. PICK a : a = End(l) - 1
    OBVIOUS
  <2>4. a \in Nat /\ Covers(l, a)
    BY <2>2, <2>3 DEF Covers
  <2>5. a \in 0..AddressSpace - 2
    BY <1>8, <2>1, <2>4 DEF Sane
  <2>6. PICK e \in Nat : e = End(l)
    BY <2>2
  <2>7. AddressSpace \in Nat /\ e - 1 \in 0..AddressSpace - 2
    BY <2>3, <2>5, <2>6, AddressAssumption
  <2>8. e < AddressSpace
    BY <2>7
  <2>9. QED
    BY <2>1, <2>6, <2>8
<1>11. ASSUME NEW i \in 1..N, NEW j \in 1..N, i < j PROVE End(s[i]) <= s[j].address
  <2>1. PICK l : l = s[i]
    OBVIOUS
  <2>2. PICK k : k = s[j]
    OBVIOUS
  <2>3. /\ l.address \in Nat /\ Len(l.data) \in Nat \ {0} /\ End(l) = l.address + Len(l.data)
        /\ k.address \in Nat /\ Len(k.data) \in Nat \ {0} /\ l.address <= k.address
    <3>1. l \in IntelHexLine /\ l.data # << >> /\ k \in IntelHexLine /\ k.data # << >>
      BY <1>4, <2>1, <2>2
    <3>2. l.address <= k.address
      BY <1>2, <1>11, <2>1, <2>2
    <3>3. l.address \in Nat /\ Len(l.data) \in Nat \ {0} /\ End(l) = l.address + Len(l.data)
      BY <3>1, LineType DEF End
    <3>4. k.address \in Nat /\ Len(k.data) \in Nat \ {0}
      BY <3>1, LineType
    <3>5. QED
      BY <3>2, <3>3, <3>4
  <2>4. SUFFICES ASSUME k.address < End(l) PROVE FALSE
    BY <2>1, <2>2, <2>3
  <2>5. Covers(l, k.address) /\ Covers(k, k.address)
    BY <2>3, <2>4 DEF Covers
  <2>6. order[i] = order[j]
    <3>1. l = records[order[i]] /\ k = records[order[j]] /\ order[i] \in 1..N /\ order[j] \in 1..N
      BY <1>2, <2>1, <2>2
    <3>2. Covers(records[order[i]], k.address) /\ Covers(records[order[j]], k.address)
      BY <2>5, <3>1
    <3>3. QED
      BY <1>7, <2>3, <3>1, <3>2
  <2>7. QED
    BY <1>2, <1>11, <2>6
<1>12. N # 0
  <2>1. Covered # {}
    BY DEF Sane
  <2>2. QED
    BY <1>2, <2>1 DEF Covered
<1>13. s # << >>
  BY <1>2, <1>12
<1>14. QED
  BY <1>2, <1>4, <1>8, <1>9, <1>10, <1>11, <1>13 DEF Apart

(* The bytes copied so far are what the file says of the addresses from      *)
(* first on, and last is the address that follows.                          *)
Faithful(q, first, last) ==
  /\ q.bytes \in Seq(Byte)
  /\ q.last = last
  /\ Len(q.bytes) = last - first
  /\ \A i \in 1..Len(q.bytes) : q.bytes[i] = Meant(first + i - 1)

(* No record of them begins before the first.                               *)
LEMMA ApartOrder ==
  ASSUME NEW s, Apart(s), NEW n \in 1..Len(s)
  PROVE  /\ s[n] \in IntelHexLine /\ s[1] \in IntelHexLine
         /\ s[1].address <= s[n].address
         /\ s[n].address < End(s[n])
         /\ \A i \in 1..Len(s) : i <= n => End(s[i]) <= End(s[n])
         /\ \A i \in 1..Len(s) : n <= i => s[n].address <= s[i].address
<1>1. Len(s) \in Nat /\ 1 \in 1..Len(s) /\ \A i \in 1..Len(s) : s[i] \in IntelHexLine
  BY DEF Apart
<1>2. \A i \in 1..Len(s) : s[i].address \in Nat /\ End(s[i]) \in Nat
  BY <1>1, LineType
<1>3. ASSUME NEW i \in 1..Len(s) PROVE s[i].address < End(s[i])
  <2>1. s[i] \in IntelHexLine /\ s[i].data # << >>
    BY <1>1 DEF Apart
  <2>2. s[i].address \in Nat /\ Len(s[i].data) \in Nat /\ 0 < Len(s[i].data)
    BY <2>1, LineType
  <2>3. QED
    BY <2>2 DEF End
<1>4. \A i, j \in 1..Len(s) : i < j => End(s[i]) <= s[j].address
  BY DEF Apart
<1>5. ASSUME NEW i \in 1..Len(s), NEW j \in 1..Len(s), i <= j
      PROVE  End(s[i]) <= End(s[j]) /\ s[i].address <= s[j].address
  <2>1. CASE i = j
    BY <1>2, <2>1
  <2>2. CASE i < j
    <3>1. End(s[i]) <= s[j].address
      BY <1>4, <2>2
    <3>2. QED
      BY <1>2, <1>3, <3>1
  <2>3. QED
    BY <1>5, <2>1, <2>2
<1>6. QED
  BY <1>1, <1>3, <1>5

(* When all up to a record is as the file has it, all to its end is after   *)
(* it.                                                                      *)
LEMMA AddFaithful ==
  ASSUME NEW s, Apart(s), NEW n \in 1..Len(s), NEW q \in [bytes : Seq(Byte), last : Nat],
         Faithful(q, s[1].address, IF n = 1 THEN s[1].address ELSE End(s[n - 1]))
  PROVE  Faithful(Add(q, s[n]), s[1].address, End(s[n]))
<1>1. PICK line : line = s[n]
  OBVIOUS
<1>2. PICK f : f = s[1].address
  OBVIOUS
<1>3. PICK last : last = IF n = 1 THEN f ELSE End(s[n - 1])
  OBVIOUS
<1>4. PICK gap : gap = Gap(last, line.address)
  OBVIOUS
<1>5. PICK to : to = line.address
  OBVIOUS
<1>6. /\ line \in IntelHexLine /\ f \in Nat /\ to \in Nat /\ f <= to
      /\ line.data \in Seq(Byte) /\ Len(line.data) \in Nat /\ End(line) = to + Len(line.data)
      /\ End(line) < AddressSpace
  <2>1. line \in IntelHexLine /\ s[1] \in IntelHexLine /\ f <= to
    BY <1>1, <1>2, <1>5, ApartOrder
  <2>2. f \in Nat /\ to \in Nat /\ line.data \in Seq(Byte) /\ Len(line.data) \in Nat
    BY <2>1, <1>2, <1>5, LineType
  <2>3. End(line) < AddressSpace
    BY <1>1 DEF Apart
  <2>4. QED
    BY <1>5, <2>1, <2>2, <2>3 DEF End
<1>7. last \in Nat /\ last <= to /\ \A i \in 1..Len(s) : i < n => End(s[i]) <= last
  <2>1. CASE n = 1
    BY <1>2, <1>3, <1>6, <2>1, <1>1, <1>5
  <2>2. CASE n # 1
    <3>1. n - 1 \in 1..Len(s) /\ n - 1 < n
      BY <2>2
    <3>2. End(s[n - 1]) <= to
      BY <1>1, <1>5, <3>1 DEF Apart
    <3>3. s[n - 1] \in IntelHexLine /\ \A i \in 1..Len(s) : i <= n - 1 => End(s[i]) <= End(s[n - 1])
      BY <3>1, ApartOrder
    <3>4. End(s[n - 1]) \in Nat
      BY <3>3, LineType
    <3>5. \A i \in 1..Len(s) : i < n => i <= n - 1
      OBVIOUS
    <3>6. QED
      BY <1>3, <2>2, <3>2, <3>3, <3>4, <3>5
  <2>3. QED
    BY <2>1, <2>2
<1>8. /\ q.bytes \in Seq(Byte) /\ q.last = last /\ Len(q.bytes) = last - f
      /\ \A i \in 1..Len(q.bytes) : q.bytes[i] = Meant(f + i - 1)
  BY <1>2, <1>3 DEF Faithful
<1>9. gap \in Seq(Byte) /\ Len(gap) = to - last
  <2>1. Len(gap) = IF last < to THEN to - last ELSE 0
    BY <1>4, <1>5, <1>6, <1>8, AddType
  <2>2. gap \in Seq(Byte)
    BY <1>4, <1>6, <1>8, AddType
  <2>3. QED
    BY <1>6, <1>7, <2>1, <2>2
<1>10. ASSUME NEW i \in 1..to - last PROVE gap[i] = Meant(last + i - 1)
  <2>1. gap[i] = Filler(last + i - 1)
    <3>1. last < to
      BY <1>6, <1>7
    <3>2. gap = [k \in 1..to - last |-> Filler(last + k - 1)]
      BY <1>4, <1>5, <3>1 DEF Gap
    <3>3. QED
      BY <3>2
  <2>2. PICK a : a = last + i - 1
    OBVIOUS
  <2>3. a \in Nat /\ last <= a /\ a < to
    BY <1>6, <1>7, <2>2
  <2>4. ASSUME NEW j \in 1..Len(s) PROVE ~Covers(s[j], a)
    <3>1. s[j] \in IntelHexLine
      BY ApartOrder
    <3>2. s[j].address \in Nat /\ End(s[j]) \in Nat
      BY <3>1, LineType
    <3>3. CASE j < n
      <4>1. End(s[j]) <= last
        BY <1>7, <3>3
      <4>2. QED
        BY <1>7, <2>3, <3>2, <4>1 DEF Covers, End
    <3>4. CASE n <= j
      <4>1. to <= s[j].address
        BY <1>1, <1>5, <3>4, ApartOrder
      <4>2. QED
        BY <1>6, <2>3, <3>2, <4>1 DEF Covers
    <3>5. QED
      BY <3>3, <3>4
  <2>5. Meant(a) = Filler(a)
    BY <2>3, <2>4 DEF Apart
  <2>6. QED
    BY <2>1, <2>2, <2>5
<1>11. ASSUME NEW i \in 1..Len(line.data) PROVE line.data[i] = Meant(to + i - 1)
  <2>1. PICK a : a = to + i - 1
    OBVIOUS
  <2>2. a \in Nat /\ Covers(line, a) /\ a - to + 1 = i
    BY <1>5, <1>6, <2>1 DEF Covers
  <2>3. Meant(a) = line.data[a - to + 1]
    BY <1>1, <1>5, <2>2 DEF Apart
  <2>4. QED
    BY <2>1, <2>2, <2>3
<1>12. PICK b : b = q.bytes \o gap
  OBVIOUS
<1>13. /\ b \in Seq(Byte) /\ Len(b) = to - f
       /\ \A i \in 1..Len(b) : b[i] = Meant(f + i - 1)
  <2>1. b \in Seq(Byte) /\ Len(b) = Len(q.bytes) + Len(gap)
    BY <1>8, <1>9, <1>12, ConcatProperties
  <2>2. Len(b) = to - f
    BY <1>6, <1>7, <1>8, <1>9, <2>1
  <2>3. ASSUME NEW i \in 1..Len(b) PROVE b[i] = Meant(f + i - 1)
    <3>1. CASE i <= Len(q.bytes)
      <4>1. b[i] = q.bytes[i] /\ i \in 1..Len(q.bytes)
        BY <1>8, <1>9, <1>12, <2>1, <3>1, ConcatProperties
      <4>2. QED
        BY <1>8, <4>1
    <3>2. CASE ~(i <= Len(q.bytes))
      <4>1. PICK k : k = i - Len(q.bytes)
        OBVIOUS
      <4>2. k \in 1..to - last /\ last + k - 1 = f + i - 1
        BY <1>6, <1>7, <1>8, <2>2, <3>2, <4>1
      <4>3. b[i] = gap[k]
        BY <1>8, <1>9, <1>12, <2>1, <3>2, <4>1, ConcatProperties
      <4>4. QED
        BY <1>10, <4>2, <4>3
    <3>3. QED
      BY <3>1, <3>2
  <2>4. QED
    BY <2>1, <2>2, <2>3
<1>14. PICK c : c = b \o line.data
  OBVIOUS
<1>15. /\ c \in Seq(Byte) /\ Len(c) = End(line) - f
       /\ \A i \in 1..Len(c) : c[i] = Meant(f + i - 1)
  <2>1. c \in Seq(Byte) /\ Len(c) = Len(b) + Len(line.data)
    BY <1>6, <1>13, <1>14, ConcatProperties
  <2>2. Len(c) = End(line) - f
    BY <1>6, <1>13, <2>1
  <2>3. ASSUME NEW i \in 1..Len(c) PROVE c[i] = Meant(f + i - 1)
    <3>1. CASE i <= Len(b)
      <4>1. c[i] = b[i] /\ i \in 1..Len(b)
        BY <1>6, <1>13, <1>14, <2>1, <3>1, ConcatProperties
      <4>2. QED
        BY <1>13, <4>1
    <3>2. CASE ~(i <= Len(b))
      <4>1. PICK k : k = i - Len(b)
        OBVIOUS
      <4>2. k \in 1..Len(line.data) /\ to + k - 1 = f + i - 1
        BY <1>6, <1>13, <2>1, <3>2, <4>1
      <4>3. c[i] = line.data[k]
        BY <1>6, <1>13, <1>14, <2>1, <3>2, <4>1, ConcatProperties
      <4>4. QED
        BY <1>11, <4>2, <4>3
    <3>3. QED
      BY <3>1, <3>2
  <2>4. QED
    BY <2>1, <2>2, <2>3
<1>16. Add(q, line).bytes = c /\ Add(q, line).last = End(line) % AddressSpace
  <2>1. q.bytes \o Gap(q.last, line.address) \o line.data = c
    BY <1>4, <1>8, <1>12, <1>14
  <2>2. QED
    BY <2>1 DEF Add, End
<1>17. End(line) % AddressSpace = End(line)
  <2>1. End(line) \in Nat /\ AddressSpace \in Nat \ {0}
    BY <1>6, AddressAssumption
  <2>2. QED
    BY <1>6, <2>1, ModSmall
<1>18. QED
  BY <1>1, <1>2, <1>15, <1>16, <1>17 DEF Faithful

(* So what getData has copied in the end is what the file says.             *)
LEMMA CopiedFaithful ==
  ASSUME NEW s, Apart(s), NEW copied, Copying(copied, s)
  PROVE  Faithful(copied[Len(s)], s[1].address, End(s[Len(s)]))
<1>1. PICK N : N = Len(s)
  OBVIOUS
<1>2. N \in Nat /\ N # 0
  BY <1>1 DEF Apart
<1> DEFINE S == {n \in Nat : n + 1 \in 1..N =>
                   Faithful(copied[n], s[1].address, IF n + 1 = 1 THEN s[1].address ELSE End(s[(n + 1) - 1]))}
<1>3. 0 \in S
  <2>1. copied[0] = [bytes |-> << >>, last |-> s[1].address]
    BY DEF Copying
  <2>2. s[1].address \in Nat
    BY <1>1, <1>2, ApartOrder, LineType
  <2>3. Faithful(copied[0], s[1].address, s[1].address)
    BY <2>1, <2>2 DEF Faithful
  <2>4. QED
    BY <2>3
<1>4. ASSUME NEW n \in Nat, n + 1 \in 1..N,
             Faithful(copied[n], s[1].address, IF n + 1 = 1 THEN s[1].address ELSE End(s[(n + 1) - 1]))
      PROVE  Faithful(copied[n + 1], s[1].address, End(s[n + 1]))
  <2>1. PICK m : m = n + 1
    OBVIOUS
  <2>2. m \in 1..Len(s) /\ m - 1 = n /\ n \in 0..Len(s)
    BY <1>1, <1>2, <1>4, <2>1
  <2>3. copied[m] = Add(copied[n], s[m]) /\ copied[n] \in [bytes : Seq(Byte), last : Nat]
    BY <2>2 DEF Copying
  <2>4. Faithful(copied[n], s[1].address, IF m = 1 THEN s[1].address ELSE End(s[m - 1]))
    BY <1>4, <2>1
  <2>5. Faithful(Add(copied[n], s[m]), s[1].address, End(s[m]))
    BY <2>2, <2>3, <2>4, AddFaithful
  <2>6. QED
    BY <2>1, <2>3, <2>5
<1>5. ASSUME NEW n \in Nat, n \in S PROVE n + 1 \in S
  <2>1. PICK m : m = n + 1
    OBVIOUS
  <2>2. CASE m + 1 \in 1..N
    <3>1. m \in Nat /\ n + 1 \in 1..N /\ m + 1 # 1 /\ (m + 1) - 1 = m
      BY <1>2, <2>1, <2>2
    <3>2. Faithful(copied[m], s[1].address, End(s[m]))
      BY <1>4, <1>5, <2>1, <3>1
    <3>3. QED
      BY <2>1, <3>1, <3>2
  <2>3. CASE m + 1 \notin 1..N
    BY <2>1, <2>3
  <2>4. QED
    BY <2>2, <2>3
<1> HIDE DEF S
<1>6. Nat \subseteq S
  BY <1>3, <1>5, SetInduction
<1>7. PICK n : n = N - 1
  OBVIOUS
<1>8. n \in Nat /\ n + 1 \in 1..N /\ n + 1 = N
  BY <1>2, <1>7
<1>9. Faithful(copied[n + 1], s[1].address, End(s[n + 1]))
  BY <1>4, <1>6, <1>8 DEF S
<1>10. QED
  BY <1>1, <1>8, <1>9

(* A sane file, and the application it stands for.                          *)
Described ==
  /\ First \in Nat /\ First % 4 = 0
  /\ Final \in Nat /\ First <= Final /\ Final < AddressSpace - 1
  /\ StartAddress(records) = First
  /\ getData(records) \in Seq(Byte)
  /\ getData(records) = [i \in 1..Final - First + 1 |-> Meant(First + i - 1)]
  /\ \A a \in Nat : a % 4 = 3 => Meant(a) = 0

(* The data of a file that makes sense are what it says from First to       *)
(* Final.                                                                   *)
LEMMA SaneDescribed ==
  ASSUME records \in Seq(IntelHexLine), Sane
  PROVE  Described
<1>1. PICK order : SortedTo(records, _sortByAddress(records), order)
  BY Sorting
<1>2. PICK s : s = _sortByAddress(records)
  OBVIOUS
<1>3. Apart(s)
  BY <1>1, <1>2, SaneApart
<1>4. s \in Seq(IntelHexLine) /\ s # << >>
  BY <1>3 DEF Apart
<1>5. StartAddress(records) = s[1].address
  BY <1>2, <1>4, DataCopied
<1>6. PICK copied : Copying(copied, s) /\ getData(records) = copied[Len(s)].bytes
  BY <1>2, <1>4, DataCopied
<1>7. PICK f, e : f = s[1].address /\ e = End(s[Len(s)])
  OBVIOUS
<1>8. PICK data : data = getData(records)
  OBVIOUS
<1>9. data \in Seq(Byte) /\ Len(data) = e - f /\ \A i \in 1..Len(data) : data[i] = Meant(f + i - 1)
  BY <1>3, <1>6, <1>7, <1>8, CopiedFaithful DEF Faithful
<1>10. PICK N : N = Len(s)
  OBVIOUS
<1>11. N \in Nat /\ 1 \in 1..N /\ N \in 1..N
  BY <1>4, <1>10
<1>12. \A i \in 1..N : /\ f <= s[i].address /\ s[i].address < End(s[i]) /\ End(s[i]) <= e
                      /\ s[i].address \in Nat /\ End(s[i]) \in Nat
  <2>1. ASSUME NEW i \in 1..N
        PROVE  /\ f <= s[i].address /\ s[i].address < End(s[i]) /\ End(s[i]) <= e
               /\ s[i].address \in Nat /\ End(s[i]) \in Nat
    <3>1. f <= s[i].address /\ s[i].address < End(s[i]) /\ s[i] \in IntelHexLine
      BY <1>3, <1>7, <1>10, ApartOrder
    <3>2. s[i].address \in Nat /\ End(s[i]) \in Nat
      BY <3>1, LineType
    <3>3. i <= N
      BY <1>11
    <3>4. End(s[i]) <= e
      BY <1>3, <1>7, <1>10, <1>11, <3>3, ApartOrder
    <3>5. QED
      BY <3>1, <3>2, <3>4
  <2>2. QED
    BY <2>1
<1>13. f \in Nat /\ e \in Nat /\ f < e /\ e < AddressSpace
  <2>1. f \in Nat /\ e \in Nat
    BY <1>7, <1>10, <1>11, <1>12
  <2>2. s[1].address < End(s[1]) /\ End(s[1]) <= e /\ End(s[1]) \in Nat
    BY <1>11, <1>12
  <2>3. e < AddressSpace
    BY <1>3, <1>7, <1>10, <1>11 DEF Apart
  <2>4. QED
    BY <1>7, <2>1, <2>2, <2>3
<1>14. ASSUME NEW a \in Covered PROVE a \in Nat /\ f <= a /\ a <= e - 1
  <2>1. a \in Nat
    BY AddressAssumption DEF Sane
  <2>2. PICK i \in 1..N : Covers(s[i], a)
    BY <1>3, <1>10, <2>1 DEF Apart
  <2>3. s[i].address <= a /\ a < End(s[i])
    BY <2>2 DEF Covers, End
  <2>4. f <= s[i].address /\ End(s[i]) <= e /\ s[i].address \in Nat /\ End(s[i]) \in Nat
    BY <1>12
  <2>5. QED
    BY <1>13, <2>1, <2>3, <2>4
<1>15. f \in Covered
  <2>1. Covers(s[1], f)
    <3>1. s[1].address < End(s[1]) /\ s[1].address \in Nat
      BY <1>11, <1>12
    <3>2. QED
      BY <1>7, <3>1 DEF Covers, End
  <2>2. QED
    BY <1>3, <1>10, <1>11, <1>13, <2>1 DEF Apart
<1>16. e - 1 \in Covered
  <2>1. s[N].address < End(s[N]) /\ s[N].address \in Nat /\ e = End(s[N])
    BY <1>7, <1>10, <1>11, <1>12
  <2>2. Covers(s[N], e - 1) /\ e - 1 \in Nat
    BY <1>13, <2>1 DEF Covers, End
  <2>3. QED
    BY <1>3, <1>10, <1>11, <2>2 DEF Apart
<1>17. First = f
  <2>1. First \in Covered /\ \A b \in Covered : First <= b
    BY <1>14, <1>15 DEF First
  <2>2. First <= f /\ f <= First /\ First \in Nat
    BY <1>14, <1>15, <2>1
  <2>3. QED
    BY <1>13, <2>2
<1>18. Final = e - 1
  <2>1. Final \in Covered /\ \A b \in Covered : b <= Final
    BY <1>14, <1>16 DEF Final
  <2>2. Final <= e - 1 /\ e - 1 <= Final /\ Final \in Nat
    BY <1>14, <1>16, <2>1
  <2>3. QED
    BY <1>13, <2>2
<1>19. data = [i \in 1..Final - First + 1 |-> Meant(First + i - 1)]
  <2>1. Final - First + 1 = e - f /\ e - f \in Nat
    BY <1>13, <1>17, <1>18
  <2>2. data = [i \in 1..e - f |-> data[i]]
    BY <1>9
  <2>3. \A i \in 1..e - f : data[i] = Meant(f + i - 1)
    BY <1>9
  <2>4. data = [i \in 1..e - f |-> Meant(f + i - 1)]
    BY <2>2, <2>3
  <2>5. QED
    BY <1>17, <2>1, <2>4
<1>20. ASSUME NEW a \in Nat, a % 4 = 3 PROVE Meant(a) = 0
  <2>1. CASE a \in Covered
    BY <1>20, <2>1 DEF Sane
  <2>2. CASE a \notin Covered
    <3>1. \A i \in 1..N : ~Covers(s[i], a)
      BY <1>3, <1>10, <2>2 DEF Apart
    <3>2. Meant(a) = Filler(a)
      BY <1>3, <1>10, <3>1 DEF Apart
    <3>3. QED
      BY <1>20, <3>2 DEF Filler
  <2>3. QED
    BY <2>1, <2>2
<1>21. First % 4 = 0
  BY DEF Sane
<1>22. /\ First \in Nat /\ First % 4 = 0
       /\ Final \in Nat /\ First <= Final /\ Final < AddressSpace - 1
  BY <1>13, <1>17, <1>18, <1>21, AddressAssumption
<1>23. StartAddress(records) = First
  BY <1>5, <1>7, <1>17
<1>24. /\ getData(records) \in Seq(Byte)
       /\ getData(records) = [i \in 1..Final - First + 1 |-> Meant(First + i - 1)]
  BY <1>8, <1>9, <1>19
<1>25. QED
  BY <1>20, <1>22, <1>23, <1>24 DEF Described

(* The padding fills the last page, and is shorter than one.                *)
LEMMA PaddingFills ==
  ASSUME NEW size \in Nat \ {0}
  PROVE  \E m \in Nat : /\ m * PageSize < size /\ size <= m * PageSize + PageSize
                        /\ Padding(size) \in Seq(Byte)
                        /\ Len(Padding(size)) = m * PageSize + PageSize - size
<1>1. PageSize \in Nat \ {0}
  BY ProgramAssumption
<1>2. PICK q \in Nat, r \in Nat : /\ q = size \div PageSize /\ r = size % PageSize /\ r < PageSize
                                  /\ size = q * PageSize + r
  BY <1>1, Quotient
<1>3. PICK mod : mod = IF r = 0 THEN PageSize ELSE r
  OBVIOUS
<1>4. mod \in 1..PageSize
  BY <1>1, <1>2, <1>3
<1>5. Padding(size) = [i \in 1..PageSize - mod |-> Filler(mod + i - 1)]
  BY <1>2, <1>3 DEF Padding
<1>6. \A a : Filler(a) \in Byte
  BY DEF Filler, Byte
<1>7. PageSize - mod \in Nat
  BY <1>1, <1>4
<1>8. Padding(size) \in Seq(Byte) /\ Len(Padding(size)) = PageSize - mod
  BY <1>5, <1>6, <1>7
<1>9. PICK g \in Nat : g = q * PageSize
  BY <1>1
<1>10. CASE r = 0
  <2>1. size = g /\ q # 0
    <3>1. size = g
      BY <1>1, <1>2, <1>9, <1>10
    <3>2. ASSUME q = 0 PROVE FALSE
      <4>1. 0 * PageSize = 0
        BY <1>1
      <4>2. QED
        BY <1>9, <3>1, <3>2, <4>1
    <3>3. QED
      BY <3>1, <3>2
  <2>2. PICK m \in Nat : m + 1 = q
    BY <2>1
  <2>3. PICK h \in Nat : h = m * PageSize
    BY <1>1
  <2>4. g = h + PageSize
    BY <1>1, <1>9, <2>2, <2>3
  <2>5. h < size /\ size <= h + PageSize /\ PageSize - mod = h + PageSize - size
    BY <1>1, <1>3, <1>10, <2>1, <2>4
  <2>6. QED
    BY <1>8, <2>3, <2>5
<1>11. CASE r # 0
  <2>1. g < size /\ size <= g + PageSize /\ PageSize - mod = g + PageSize - size
    BY <1>1, <1>2, <1>3, <1>9, <1>11
  <2>2. QED
    BY <1>8, <1>9, <2>1
<1>12. QED
  BY <1>10, <1>11

(* Where in a page a byte goes that is not the fourth of its instruction.   *)
LEMMA PagePlace ==
  ASSUME NEW o \in Nat, o < PageSize, o % 4 # 3, NEW i, i = 3 * (o \div 4) + (o % 4) + 1
  PROVE  /\ i \in 1..APPLICATION_PAGE_LENGTH
         /\ 4 * ((i - 1) \div 3) + ((i - 1) % 3) = o
<1>1. PICK w : w = PageSize \div 4
  OBVIOUS
<1>2. w \in Nat /\ PageSize = 4 * w /\ APPLICATION_PAGE_LENGTH = 3 * w
  BY <1>1, ProgramAssumption DEF APPLICATION_PAGE_LENGTH
<1>3. PICK q, r : q = o \div 4 /\ r = o % 4
  OBVIOUS
<1>4. q \in Nat /\ r \in 0..2 /\ o = 4 * q + r
  BY <1>3
<1>5. q < w
  BY <1>2, <1>4
<1>6. i \in 1..3 * w /\ i - 1 = 3 * q + r
  BY <1>2, <1>3, <1>4, <1>5
<1>7. (i - 1) \div 3 = q /\ (i - 1) % 3 = r
  BY <1>4, <1>6
<1>8. QED
  BY <1>2, <1>4, <1>6, <1>7

(* What _writeHex makes of the data: pages one behind the other, up to the  *)
(* end.                                                                     *)
CutIn(image, data, M) ==
  /\ M \in Nat /\ image \in Seq(PageData) /\ Len(image) = M
  /\ \A k \in Nat : k * PageSize < Len(data) => k < M
  /\ \A n \in 1..M : image[n].address = First + (n - 1) * PageSize
  /\ \A n \in 1..M, i \in 1..APPLICATION_PAGE_LENGTH :
       \A k \in 1..Len(data) :
         k = (n - 1) * PageSize + 4 * ((i - 1) \div 3) + ((i - 1) % 3) + 1
           => image[n].bytes[i] = data[k]

(* _writeHex cuts the padded data into pages that do not leave anything     *)
(* out.                                                                     *)
LEMMA PagesCut ==
  ASSUME Described
  PROVE  \E M : CutIn(Pages(records), getData(records), M)
<1>1. PICK data : data = getData(records)
  OBVIOUS
<1>2. PICK L : L = Final - First + 1
  OBVIOUS
<1>3. /\ First \in Nat /\ L \in Nat \ {0} /\ First + L < AddressSpace /\ Len(data) = L
      /\ data \in Seq(Byte) /\ StartAddress(records) = First
  <2>1. /\ First \in Nat /\ Final \in Nat /\ First <= Final /\ Final < AddressSpace - 1
        /\ data \in Seq(Byte) /\ StartAddress(records) = First
        /\ data = [i \in 1..L |-> Meant(First + i - 1)]
    BY <1>1, <1>2 DEF Described
  <2>2. L \in Nat \ {0} /\ First + L < AddressSpace
    BY <1>2, <2>1, AddressAssumption
  <2>3. DOMAIN data = 1..L
    BY <2>1
  <2>4. Len(data) = L
    BY <2>1, <2>2, <2>3
  <2>5. QED
    BY <2>1, <2>2, <2>4
<1>4. PICK P : P = PageSize
  OBVIOUS
<1>5. P \in Nat \ {0} /\ P % 4 = 0
  BY <1>4, ProgramAssumption
<1>6. PICK m \in Nat : /\ m * P < L /\ L <= m * P + P
                       /\ Padding(L) \in Seq(Byte) /\ Len(Padding(L)) = m * P + P - L
  BY <1>3, <1>4, PaddingFills
<1>7. PICK M : M = m + 1
  OBVIOUS
<1>8. M \in Nat /\ M * P = m * P + P /\ m * P \in Nat
  BY <1>5, <1>7
<1>9. PICK padded : padded = data \o Padding(L)
  OBVIOUS
<1>10. /\ padded \in Seq(Byte) /\ Len(padded) = M * P
       /\ \A k \in 1..L : padded[k] = data[k]
  <2>1. padded \in Seq(Byte) /\ Len(padded) = Len(data) + Len(Padding(L))
    BY <1>3, <1>6, <1>9, ConcatProperties
  <2>2. Len(padded) = M * P
    BY <1>3, <1>5, <1>6, <1>8, <2>1
  <2>3. ASSUME NEW k \in 1..L PROVE padded[k] = data[k]
    BY <1>3, <1>6, <1>9, <2>1, ConcatProperties
  <2>4. QED
    BY <2>1, <2>2, <2>3
<1>11. Len(padded) \div P = M
  BY <1>5, <1>8, <1>10, QuotientOfMultiple
<1>12. PICK image : image = Pages(records)
  OBVIOUS
<1>13. image = [n \in 1..M |-> [address |-> (First + (n - 1) * P) % AddressSpace,
                                 bytes |-> Page(padded, n - 1)]]
  BY <1>1, <1>3, <1>4, <1>9, <1>11, <1>12 DEF Pages
<1>14. ASSUME NEW n \in 1..M
       PROVE  /\ n - 1 \in Nat /\ (n - 1) * P \in Nat /\ (n - 1) * P < L /\ (n - 1) * P + P <= M * P
  <2>1. PICK j : j = n - 1
    OBVIOUS
  <2>2. j \in Nat /\ j <= m
    BY <1>7, <2>1
  <2>3. j * P \in Nat
    BY <1>5, <2>2
  <2>4. CASE j = m
    <3>1. PICK g : g = m * P
      OBVIOUS
    <3>2. g \in Nat /\ g < L /\ g + P <= M * P
      BY <1>5, <1>6, <1>8, <3>1
    <3>3. QED
      BY <2>1, <2>2, <2>4, <3>1, <3>2
  <2>5. CASE j < m
    <3>1. j * P + P <= m * P
      BY <1>5, <2>2, <2>5, Multiples
    <3>2. QED
      BY <1>3, <1>5, <1>6, <1>8, <2>1, <2>2, <2>3, <3>1
  <2>6. QED
    BY <2>2, <2>4, <2>5
<1>15. ASSUME NEW n \in 1..M PROVE image[n].address = First + (n - 1) * P
  <2>1. PICK g : g = (n - 1) * P
    OBVIOUS
  <2>2. g \in Nat /\ g < L
    BY <1>14, <2>1
  <2>3. First + g \in Nat /\ First + g < AddressSpace /\ AddressSpace \in Nat \ {0}
    BY <1>3, <2>2, AddressAssumption
  <2>4. (First + g) % AddressSpace = First + g
    BY <2>3, ModSmall
  <2>5. image[n].address = (First + g) % AddressSpace
    BY <1>13, <2>1
  <2>6. QED
    BY <2>1, <2>4, <2>5
<1>16. ASSUME NEW n \in 1..M, NEW i \in 1..APPLICATION_PAGE_LENGTH
       PROVE  /\ (n - 1) * P + 4 * ((i - 1) \div 3) + ((i - 1) % 3) + 1 \in 1..M * P
              /\ image[n].bytes[i] = padded[(n - 1) * P + 4 * ((i - 1) \div 3) + ((i - 1) % 3) + 1]
  <2>1. PICK g : g = (n - 1) * P
    OBVIOUS
  <2>2. g \in Nat /\ g + P <= M * P /\ M * P \in Nat
    BY <1>8, <1>14, <2>1, <1>5
  <2>3. PICK w : w = P \div 4
    OBVIOUS
  <2>4. w \in Nat /\ P = 4 * w /\ APPLICATION_PAGE_LENGTH = 3 * w
    BY <1>4, <1>5, <2>3 DEF APPLICATION_PAGE_LENGTH
  <2>5. PICK q, r : q = (i - 1) \div 3 /\ r = (i - 1) % 3
    OBVIOUS
  <2>6. q \in Nat /\ r \in 0..2 /\ i - 1 = 3 * q + r
    BY <2>4, <2>5
  <2>7. 4 * q + r < P
    BY <2>4, <2>6
  <2>8. g + 4 * q + r + 1 \in 1..M * P
    BY <2>2, <2>6, <2>7, <1>5
  <2>9. image[n].bytes = Page(padded, n - 1)
    BY <1>13
  <2>10. Page(padded, n - 1)[i] = padded[(n - 1) * P + 4 * ((i - 1) \div 3) + ((i - 1) % 3) + 1]
    BY <1>4 DEF Page
  <2>11. QED
    BY <2>1, <2>5, <2>8, <2>9, <2>10
<1>17. image \in Seq(PageData) /\ Len(image) = M
  <2>1. ASSUME NEW n \in 1..M PROVE image[n] \in PageData
    <3>1. PICK p : p = image[n]
      OBVIOUS
    <3>2. p = [address |-> p.address, bytes |-> p.bytes] /\ p.bytes = [i \in 1..APPLICATION_PAGE_LENGTH |-> p.bytes[i]]
      BY <1>13, <3>1 DEF Page
    <3>3. p.address \in Nat
      <4>1. (n - 1) * P \in Nat
        BY <1>14
      <4>2. QED
        BY <1>3, <1>15, <3>1, <4>1
    <3>4. \A i \in 1..APPLICATION_PAGE_LENGTH : p.bytes[i] \in Byte
      BY <1>10, <1>16, <3>1
    <3>5. p.bytes \in [1..APPLICATION_PAGE_LENGTH -> Byte]
      BY <3>2, <3>4
    <3>6. QED
      BY <3>1, <3>2, <3>3, <3>5 DEF PageData
  <2>2. DOMAIN image = 1..M /\ image = [n \in 1..M |-> image[n]]
    BY <1>13
  <2>3. QED
    BY <1>8, <2>1, <2>2
<1>18. ASSUME NEW k \in Nat, k * P < L PROVE k < M
  <2>1. SUFFICES ASSUME m < k PROVE FALSE
    BY <1>7
  <2>2. m * P + P <= k * P
    BY <1>5, <2>1, Multiples
  <2>3. k * P \in Nat
    BY <1>5
  <2>4. QED
    BY <1>3, <1>5, <1>6, <1>8, <1>18, <2>2, <2>3
<1>19. CutIn(image, data, M)
  <2>1. ASSUME NEW n \in 1..M, NEW i \in 1..APPLICATION_PAGE_LENGTH, NEW k \in 1..Len(data),
               k = (n - 1) * PageSize + 4 * ((i - 1) \div 3) + ((i - 1) % 3) + 1
        PROVE  image[n].bytes[i] = data[k]
    <3>1. PICK j : j = (n - 1) * P + 4 * ((i - 1) \div 3) + ((i - 1) % 3) + 1
      OBVIOUS
    <3>2. image[n].bytes[i] = padded[j]
      BY <1>16, <3>1
    <3>3. k = j /\ k \in 1..L
      BY ONLY <1>3, <1>4, <2>1, <3>1
    <3>4. QED
      BY ONLY <1>10, <3>2, <3>3
  <2>2. ASSUME NEW k \in Nat, k * PageSize < Len(data) PROVE k < M
    BY <1>3, <1>4, <1>18, <2>2
  <2>3. ASSUME NEW n \in 1..M PROVE image[n].address = First + (n - 1) * PageSize
    BY <1>4, <1>15
  <2>4. QED
    BY <1>8, <1>17, <2>1, <2>2, <2>3, Zenon DEF CutIn
<1>20. QED
  BY <1>1, <1>12, <1>19

(* No two pages overlap: no one is written over another.                    *)
LEMMA PagesApart ==
  ASSUME NEW image, NEW data, NEW M, CutIn(image, data, M), Described,
         NEW i \in 1..M, NEW j \in 1..M, i # j
  PROVE  /\ image[i].address \in Nat /\ image[j].address \in Nat
         /\ \/ image[i].address + PageSize <= image[j].address
            \/ image[j].address + PageSize <= image[i].address
<1>1. PageSize \in Nat \ {0} /\ First \in Nat /\ M \in Nat
  BY ProgramAssumption DEF Described, CutIn
<1>2. PICK m, n : m = i - 1 /\ n = j - 1
  OBVIOUS
<1>3. m \in Nat /\ n \in Nat /\ m # n
  BY <1>1, <1>2
<1>4. PICK g, h : g = m * PageSize /\ h = n * PageSize
  OBVIOUS
<1>5. g \in Nat /\ h \in Nat
  BY <1>1, <1>3, <1>4
<1>6. image[i].address = First + g /\ image[j].address = First + h
  BY <1>2, <1>4 DEF CutIn
<1>7. m < n => g + PageSize <= h
  BY <1>1, <1>3, <1>4, Multiples
<1>8. n < m => h + PageSize <= g
  BY <1>1, <1>3, <1>4, Multiples
<1>9. QED
  BY <1>1, <1>3, <1>5, <1>6, <1>7, <1>8

(* The flash of the ILC has the first k pages, and nothing else.            *)
Holds(k) ==
  /\ DOMAIN flash[unit] = {Pages(records)[i].address : i \in 1..k}
  /\ \A i \in 1..k : flash[unit][Pages(records)[i].address] = Pages(records)[i].bytes

(* When all pages are in flash, it has every byte of the file.              *)
LEMMA PageOf ==
  ASSUME Described, NEW M, CutIn(Pages(records), getData(records), M), Holds(M),
         NEW a \in First..Final
  PROVE  InFlash(unit, a) /\ FlashByte(unit, a) = Meant(a)
<1>1. PICK image : image = Pages(records)
  OBVIOUS
<1>2. PICK data : data = getData(records)
  OBVIOUS
<1>3. PICK P : P = PageSize
  OBVIOUS
<1>4. PICK L : L = Final - First + 1
  OBVIOUS
<1>5. /\ P \in Nat \ {0} /\ P % 4 = 0
      /\ First \in Nat /\ Final \in Nat /\ First % 4 = 0 /\ L \in Nat
      /\ data = [i \in 1..L |-> Meant(First + i - 1)]
      /\ M \in Nat
  BY <1>2, <1>3, <1>4, ProgramAssumption DEF Described, CutIn
<1>6. PICK x \in Nat : x = a - First
  BY <1>5
<1>7. a \in Nat /\ a = First + x /\ x < L
  BY <1>4, <1>5, <1>6
<1>8. PICK m \in Nat, o \in Nat : m = x \div P /\ o = x % P /\ o < P /\ x = m * P + o
  BY <1>5, Quotient
<1>9. PICK g \in Nat : g = m * P
  BY <1>5
<1>10. PICK n : n = m + 1
  OBVIOUS
<1>11. Len(data) = L
  BY <1>5
<1>12. g < L
  BY <1>5, <1>7, <1>8, <1>9
<1>13. n \in 1..M /\ n - 1 = m
  <2>1. m < M
    BY <1>3, <1>9, <1>11, <1>12, <1>2 DEF CutIn
  <2>2. QED
    BY <1>5, <1>10, <2>1
<1>14. PICK p : p = image[n].address
  OBVIOUS
<1>15. p = First + g /\ p <= a /\ a < p + P /\ a - p = o
  <2>1. p = First + (n - 1) * P
    BY <1>1, <1>3, <1>13, <1>14 DEF CutIn
  <2>2. p = First + g
    BY <1>9, <1>13, <2>1
  <2>3. x = g + o
    BY <1>8, <1>9
  <2>4. QED
    BY <1>5, <1>7, <1>8, <2>2, <2>3
<1>16. p \in DOMAIN flash[unit] /\ flash[unit][p] = image[n].bytes
  BY <1>1, <1>13, <1>14 DEF Holds
<1>17. InFlash(unit, a)
  BY <1>3, <1>15, <1>16 DEF InFlash
<1>18. ASSUME NEW b \in DOMAIN flash[unit], b <= a, a < b + P PROVE b = p
  <2>1. PICK j \in 1..M : b = image[j].address
    BY <1>1 DEF Holds
  <2>2. SUFFICES ASSUME j # n PROVE FALSE
    BY <1>14, <2>1
  <2>3. /\ b \in Nat /\ p \in Nat
        /\ b + P <= p \/ p + P <= b
    BY <1>1, <1>3, <1>13, <1>14, <2>1, <2>2, PagesApart
  <2>4. QED
    BY <1>5, <1>7, <1>15, <1>18, <2>3
<1>19. (CHOOSE b \in DOMAIN flash[unit] : b <= a /\ a < b + PageSize) = p
  BY <1>3, <1>15, <1>16, <1>18
<1>20. FlashByte(unit, a) = IF o % 4 = 3 THEN 0
                            ELSE flash[unit][p][3 * (o \div 4) + (o % 4) + 1]
  <2> DEFINE page == CHOOSE b \in DOMAIN flash[unit] : b <= a /\ a < b + PageSize
  <2>1. FlashByte(unit, a) = IF (a - page) % 4 = 3 THEN 0
                             ELSE flash[unit][page][3 * ((a - page) \div 4) + ((a - page) % 4) + 1]
    BY Zenon DEF FlashByte
  <2>2. page = p
    BY <1>19
  <2> HIDE DEF page
  <2>3. FlashByte(unit, a) = IF (a - p) % 4 = 3 THEN 0
                             ELSE flash[unit][p][3 * ((a - p) \div 4) + ((a - p) % 4) + 1]
    BY <2>1, <2>2
  <2>4. QED
    BY <1>15, <2>3
<1>21. CASE o % 4 = 3
  <2>1. a % 4 = 3
    <3>1. PICK w \in Nat : P = 4 * w
      <4>1. P = 4 * (P \div 4) /\ P \div 4 \in Nat
        BY <1>5
      <4>2. QED
        BY <4>1
    <3>2. PICK v \in Nat : v = m * w
      OBVIOUS
    <3>3. g = 4 * v
      BY <1>9, <3>1, <3>2
    <3>4. a = First + 4 * v + o
      BY <1>5, <1>7, <1>8, <1>9, <3>3
    <3>5. QED
      BY <1>5, <1>21, <3>4
  <2>2. Meant(a) = 0
    BY <1>7, <2>1 DEF Described
  <2>3. QED
    BY <1>17, <1>20, <1>21, <2>2
<1>22. CASE o % 4 # 3
  <2>1. PICK i : i = 3 * (o \div 4) + (o % 4) + 1
    OBVIOUS
  <2>2. /\ i \in 1..APPLICATION_PAGE_LENGTH
        /\ 4 * ((i - 1) \div 3) + ((i - 1) % 3) = o
    BY <1>3, <1>8, <1>22, <2>1, PagePlace
  <2>3. PICK q, r : q = (i - 1) \div 3 /\ r = (i - 1) % 3
    OBVIOUS
  <2>4. APPLICATION_PAGE_LENGTH \in Nat
    BY ProgramAssumption DEF APPLICATION_PAGE_LENGTH
  <2>5. q \in Nat /\ r \in Nat /\ 4 * q + r = o
    BY <2>2, <2>3, <2>4
  <2>6. PICK k : k = x + 1
    OBVIOUS
  <2>7. k \in 1..L
    BY <1>7, <2>6, <1>5
  <2>8. k = g + 4 * q + r + 1
    <3>1. x = g + o
      BY <1>8, <1>9
    <3>2. QED
      BY <2>5, <2>6, <3>1
  <2>9. k = (n - 1) * PageSize + 4 * ((i - 1) \div 3) + ((i - 1) % 3) + 1
    BY <1>3, <1>9, <1>13, <2>3, <2>8
  <2>10. image[n].bytes[i] = data[k]
    BY <1>1, <1>2, <1>11, <1>13, <2>2, <2>7, <2>9 DEF CutIn
  <2>11. data[k] = Meant(First + k - 1) /\ First + k - 1 = a
    BY <1>5, <1>7, <2>6, <2>7
  <2>12. FlashByte(unit, a) = image[n].bytes[i]
    BY <1>16, <1>20, <1>22, <2>1
  <2>13. QED
    BY <1>17, <2>10, <2>11, <2>12
<1>23. QED
  BY <1>21, <1>22

(* The statistics sent to the ILC are those of the file's bytes.            *)
LEMMA StatisticsAre ==
  ASSUME Described
  PROVE  Statistics(records) = [crc |-> [i \in 1..Final - First + 1 |-> Meant(First + i - 1)],
                                start |-> First, length |-> Final - First + 1]
<1>1. PICK L : L = Final - First + 1
  OBVIOUS
<1>2. PICK data : data = getData(records)
  OBVIOUS
<1>3. /\ First \in Nat /\ Final \in Nat /\ First <= Final /\ Final < AddressSpace - 1
      /\ data \in Seq(Byte) /\ StartAddress(records) = First
      /\ data = [i \in 1..L |-> Meant(First + i - 1)]
  BY <1>1, <1>2 DEF Described
<1>4. L \in Nat /\ L < AddressSpace /\ AddressSpace \in Nat \ {0}
  BY <1>1, <1>3, AddressAssumption
<1>5. DOMAIN data = 1..L
  BY <1>3
<1>6. Len(data) = L
  BY <1>3, <1>4, <1>5
<1>7. L % AddressSpace = L
  BY <1>4, ModSmall
<1>8. Statistics(records) = [crc |-> data, start |-> First, length |-> L]
  BY <1>2, <1>3, <1>6, <1>7 DEF Statistics
<1>9. QED
  BY <1>1, <1>3, <1>8

(* An ILC that has all pages and the statistics has what the file says.     *)
LEMMA CopiedWhenHeld ==
  ASSUME records \in Seq(IntelHexLine),
         Sane /\ "written" \notin misled =>
            Holds(Len(Pages(records))) /\ written[unit] = Statistics(records)
  PROVE  Copied
<1>1. SUFFICES ASSUME Sane, "written" \notin misled
               PROVE  /\ \A a \in First .. Final :
                            InFlash(unit, a) /\ FlashByte(unit, a) = Meant(a)
                      /\ written[unit] = [crc |-> [i \in 1 .. Final - First + 1 |->
                                                     Meant(First + i - 1)],
                                          start |-> First, length |-> Final - First + 1]
  BY DEF Copied
<1>2. Described
  BY <1>1, SaneDescribed
<1>3. PICK M : CutIn(Pages(records), getData(records), M)
  BY <1>2, PagesCut
<1>4. Holds(M)
  BY <1>1, <1>3 DEF CutIn
<1>5. \A a \in First .. Final : InFlash(unit, a) /\ FlashByte(unit, a) = Meant(a)
  BY <1>2, <1>3, <1>4, PageOf
<1>6. QED
  BY <1>1, <1>2, <1>5, StatisticsAre

-----------------------------------------------------------------------------
(* What is asked of ILCs outside program-ilc.                               *)
Asks == [unit : Units, what : {"SERVER_STATUS", "CHANGE_MODE"},
         arg : {<< >>, "Standby", "Enabled"}, long : BOOLEAN]

(* What comes back.                                                         *)
Replies == [unit : Units, what : {"SERVER_STATUS", "CHANGE_MODE"} \cup Firmware,
            kind : Kinds \ {"silent"}, arg : Args \cup {<< >>}]

Typed ==
  /\ mode \in [Units -> Mode]
  /\ DOMAIN lastMode = Units
  /\ DOMAIN list = Buses
  /\ unit \in Units
  /\ intended \in [Buses -> Seq(Asks)]
  /\ replies \in Seq(Replies)
  /\ running \in {"none", "ilc", "program"}
  /\ exchange \in {"none", "sending", "parsing"}
  /\ stage \in Stages \cup {"idle", "done", "failed", "crashed"}

(* program-ilc is in programILC, or about to begin with the next ILC, or to *)
(* end; an exchange belongs to a command.                                   *)
Control ==
  /\ running = "program" <=> stage # "idle"
  /\ exchange # "none" => running = "ilc" \/ AtExchange
  /\ exchange # "sending" => wire = << >>
  /\ exchange = "none" => replies = << >>
  /\ running = "program" => todo \in Seq(Units)

(* runILCCommands sends what the command has put in the lists.              *)
Listed ==
  running = "ilc" =>
    /\ list = intended
    /\ todo \in Seq(Buses)
    /\ \A b \in Buses : \A i \in DOMAIN intended[b] : intended[b][i].unit \notin disabled
    /\ exchange # "none" => todo # << >>
    /\ exchange = "sending" =>
         /\ wire \in Seq(Asks)
         /\ IsSuffix(wire, intended[Head(todo)])

(* What a stage of programILC sends.                                        *)
Doing ==
  CASE stage \in {"status", "recover", "recover_status"} -> "SERVER_STATUS"
    [] stage = "erase" -> "ERASE_APPLICATION"
    [] stage = "pages" -> "WRITE_APPLICATION_PAGE"
    [] stage = "stats" -> "WRITE_APPLICATION_STATS"
    [] stage = "verify" -> "WRITE_VERIFY_APPLICATION"
    [] OTHER -> "CHANGE_MODE"

(* programILC sends the commands of its stage, of which only the way out of *)
(* Enabled mode has two, and what came back are answers to them.            *)
Single ==
  /\ wire # << >> => wire = Wanted /\ replies = << >>
  /\ Len(replies) <= 1

Twofold == lastMode[unit] = "Enabled" /\ wire \in {Wanted, Tail(Wanted)}

Course ==
  Programming =>
    /\ exchange = "none" => list[BusOf[unit]] = << >>
    /\ stage # "leave" /\ exchange # "none" => Single
    /\ stage = "leave" /\ exchange = "sending" => Single \/ wire = << >> \/ Twofold
    /\ \A i \in DOMAIN replies : replies[i].unit = unit /\ replies[i].what = Doing

Application == {"Enabled", "Disabled", "Standby"}

(* What is known of the mode the ILC is in when a stage begins, if it does  *)
(* not change by itself: at first it is the one it reported last. A change  *)
(* of mode that seems to be refused leaves an older mode, but none that is  *)
(* taken for the bootloader.                                                *)
Agree == lastMode[unit] = mode[unit]
Near  == lastMode[unit] = "Bootloader" => mode[unit] = "Bootloader"

Basis(s) ==
  /\ s = "leave" => Agree
  /\ s \in {"enter", "recover_clear", "recover_check", "clear", "check"} => Near
  /\ s \in {"erase", "prepare", "pages", "stats", "verify", "standby"} =>
       Agree /\ mode[unit] = "Bootloader"
  /\ s = "done" => unit \in refusals \/ mode[unit] = "Disabled"

(* A reply that is not parsed yet tells the mode, if it tells one; another, *)
(* unless it ends the exchange, leaves what the next stage begins with.     *)
Result(reply) ==
  CASE TellsMode(reply) -> /\ reply.arg = mode[unit]
                           /\ stage = "disable" => mode[unit] = "Disabled"
    [] Throws(reply) -> TRUE
    [] OTHER -> Basis(Following)

(* On the way out of Enabled or Disabled mode the ILC stays in the          *)
(* application.                                                             *)
Leaving ==
  /\ stage = "leave"
  /\ {lastMode[unit], mode[unit]} \subseteq Application
  /\ \A i \in DOMAIN replies : TellsMode(replies[i]) => replies[i].arg \in Application

Underway ==
  \/ Leaving
  \/ wire # << >> /\ wire = Wanted /\ replies = << >> /\ Basis(stage)
  \/ wire = << >> /\ Len(replies) = 1 /\ Result(replies[1])
  \/ exchange = "sending" /\ wire = << >> /\ replies = << >>
  \/ exchange = "parsing" /\ replies = << >> /\ Basis(Following)

Known ==
  unit \notin upset =>
    /\ (Programming /\ exchange = "none") \/ stage = "done" => Basis(stage)
    /\ Programming /\ exchange # "none" => Underway

(* The way back to the application is taken only after a verification that  *)
(* found the application valid, or failed and seemed to.                    *)
Vouched == unit \in verified \/ "verified" \in misled

Assured ==
  /\ stage \in {"standby", "unfault", "disable", "done"} => Vouched
  /\ stage = "verify" =>
       /\ \A i \in DOMAIN replies : ~Throws(replies[i]) => Vouched
       /\ exchange = "parsing" /\ replies = << >> => Vouched

(* What programILC has done to the ILC so far, for a file that makes sense: *)
(* what it asked for is done when the answer is no error, and after the     *)
(* exchange it is done, unless a failure was taken for a success. Pages are *)
(* written one behind the other.                                            *)
Outcome(done) ==
  /\ \A i \in DOMAIN replies : ~Throws(replies[i]) => done
  /\ exchange = "parsing" /\ replies = << >> => done

Writing(k) ==
  /\ pages = SubSeq(Pages(records), k + 1, Len(Pages(records)))
  /\ exchange = "none" \/ wire # << >> => Holds(k)
  /\ exchange # "none" => k + 1 <= Len(Pages(records)) /\ Outcome(Holds(k + 1))

Ending == {"verify", "standby", "unfault", "disable", "done"}

Proper == Sane /\ "written" \notin misled

Burnt ==
  Proper =>
    /\ stage = "erase" => Outcome(Holds(0))
    /\ stage = "prepare" => Holds(0)
    /\ stage = "pages" => \E k \in 0..Len(Pages(records)) : Writing(k)
    /\ stage \in {"pages", "stats"} => stats = Statistics(records)
    /\ stage = "stats" => Outcome(written[unit] = Statistics(records))
    /\ stage \in Ending \cup {"stats"} => Holds(Len(Pages(records)))
    /\ stage \in Ending => written[unit] = Statistics(records)

Shaped ==
  /\ records \in Seq(IntelHexLine)
  /\ DOMAIN flash = Units /\ DOMAIN written = Units

-----------------------------------------------------------------------------
(* What an operation does of all that the invariant looks at. Whether the   *)
(* FPGA is opened and a line refused do not matter.                         *)

(* A command that changes nothing, or the process begins.                   *)
Idles == UNCHANGED << vars, disabled, running, todo, intended >>

(* program-ilc begins with the first of its ILCs.                           *)
Loads(units, hex) ==
  /\ units # << >>
  /\ running' = "program"
  /\ todo' = Tail(units)
  /\ Start(Head(units), hex)
  /\ UNCHANGED << disabled, intended >>

FillActs == {"status", "standby", "enable"}

(* getILCs gives ILCs.                                                      *)
LEMMA ChosenType ==
  ASSUME NEW args
  PROVE  Chosen(args) \in Seq(Units)
<1> DEFINE S == UNION {Named[args[i]] : i \in DOMAIN args}
<1>1. Order \in Seq(Units)
  BY CliAssumption
<1>2. Chosen(args) = IF args = << >> THEN Order ELSE Among(Order, S)
  BY DEF Chosen
<1> HIDE DEF S
<1>3. Among(Order, S) \in Seq(Units \cap S)
  BY <1>1, AmongType
<1>4. Among(Order, S) \in Seq(Units)
  BY <1>3
<1>5. QED
  BY <1>1, <1>2, <1>4

(* The lines of a file are loaded as records.                               *)
LEMMA LoadType ==
  ASSUME NEW lines \in Seq(IntelHexLine)
  PROVE  load(lines).records \in Seq(IntelHexLine)
<1>1. PICK X : X = [records : Seq(IntelHexLine), extension : BOOLEAN, over : BOOLEAN, failed : BOOLEAN]
  OBVIOUS
<1>2. PICK N : N = Len(lines)
  OBVIOUS
<1>3. N \in Nat /\ \A n \in 1..N : lines[n] \in IntelHexLine
  BY <1>2
<1>4. PICK x : x = [records |-> << >>, extension |-> FALSE, over |-> FALSE, failed |-> FALSE]
  OBVIOUS
<1>5. x \in X
  BY <1>1, <1>4
<1>6. ASSUME NEW q \in X, NEW line \in IntelHexLine PROVE NextLine(q, line) \in X
  <2>1. /\ q.records \in Seq(IntelHexLine) /\ q.extension \in BOOLEAN /\ q.over \in BOOLEAN
        /\ q.failed \in BOOLEAN
        /\ q = [records |-> q.records, extension |-> q.extension, over |-> q.over, failed |-> q.failed]
    BY <1>1
  <2>2. Append(q.records, line) \in Seq(IntelHexLine)
    BY <2>1, AppendProperties
  <2>3. /\ [q EXCEPT !.over = TRUE, !.failed = TRUE] \in X
        /\ [q EXCEPT !.over = TRUE] \in X
        /\ [q EXCEPT !.extension = (line.data # << 0, 0 >>)] \in X
        /\ [q EXCEPT !.records = Append(q.records, line)] \in X
    BY <1>1, <2>1, <2>2
  <2>4. QED
    BY <2>3 DEF NextLine
<1>7. PICK step : step = [n \in Nat |-> [q \in X |-> IF n \in 1..N THEN NextLine(q, lines[n]) ELSE q]]
  OBVIOUS
<1>8. \A n \in Nat, q \in X : step[n][q] = IF n \in 1..N THEN NextLine(q, lines[n]) ELSE q
  BY <1>7
<1>9. ASSUME NEW n \in Nat, NEW q \in X PROVE step[n][q] \in X
  <2>1. CASE n \in 1..N
    <3>1. NextLine(q, lines[n]) \in X
      BY <1>3, <1>6, <2>1
    <3>2. QED
      BY <1>8, <2>1, <3>1
  <2>2. CASE n \notin 1..N
    BY <1>8, <2>2
  <2>3. QED
    BY <2>1, <2>2
<1>10. PICK f : Iterates(f, N, X, x, step)
  BY <1>3, <1>5, <1>9, IterationExists
<1>11. f = [n \in 0..N |-> IF n = 0 THEN x ELSE NextLine(f[n - 1], lines[n])]
  <2>1. f = [n \in 0..N |-> f[n]]
    BY <1>10 DEF Iterates
  <2>2. ASSUME NEW n \in 0..N PROVE f[n] = IF n = 0 THEN x ELSE NextLine(f[n - 1], lines[n])
    <3>1. CASE n = 0
      BY <1>10, <3>1 DEF Iterates
    <3>2. CASE n # 0
      <4>1. n \in 1..N /\ n - 1 \in 0..N /\ n \in Nat
        BY <1>3, <3>2
      <4>2. f[n - 1] \in X /\ f[n] = step[n][f[n - 1]]
        BY <1>10, <4>1 DEF Iterates
      <4>3. QED
        BY <1>8, <3>2, <4>1, <4>2
    <3>3. QED
      BY <3>1, <3>2
  <2>3. QED
    BY <2>1, <2>2
<1>12. PICK read : /\ read = [n \in 0..N |-> IF n = 0 THEN x ELSE NextLine(read[n - 1], lines[n])]
                   /\ load(lines) = read[N]
  BY <1>2, <1>4, <1>11 DEF load
<1>13. read[0] = x /\ \A n \in 1..N : read[n] = NextLine(read[n - 1], lines[n])
  <2>1. 0 \in 0..N /\ \A n \in 1..N : n \in 0..N /\ n # 0
    BY <1>3
  <2>2. \A n \in 0..N : read[n] = IF n = 0 THEN x ELSE NextLine(read[n - 1], lines[n])
    BY <1>12
  <2>3. QED
    BY <2>1, <2>2
<1> DEFINE S == {n \in Nat : n \in 0..N => read[n] \in X}
<1>14. 0 \in S
  BY <1>5, <1>13
<1>15. ASSUME NEW n \in Nat, n \in S PROVE n + 1 \in S
  <2>1. CASE n + 1 \in 0..N
    <3>1. n \in 0..N /\ n + 1 \in 1..N /\ (n + 1) - 1 = n
      BY <1>3, <2>1
    <3>2. read[n] \in X /\ lines[n + 1] \in IntelHexLine /\ read[n + 1] = NextLine(read[n], lines[n + 1])
      BY <1>3, <1>13, <1>15, <3>1
    <3>3. read[n + 1] \in X
      BY <1>6, <3>2
    <3>4. QED
      BY <3>3
  <2>2. QED
    BY <2>1
<1> HIDE DEF S
<1>16. N \in S
  BY <1>3, <1>14, <1>15, SetInduction
<1>17. load(lines) \in X
  BY <1>3, <1>12, <1>16 DEF S
<1>18. QED
  BY <1>1, <1>17

(* The first argument of program-ilc is a file.                             *)
LEMMA FileGiven ==
  ASSUME NEW T, NEW args \in Seq(T), NEW pass, NEW map, map = << "F", "S", "?" >>,
         verifyArguments([i \in DOMAIN args |-> pass[args[i]]], map)
  PROVE  args # << >> /\ "F" \in pass[args[1]]
<1>1. PICK given : given = [i \in DOMAIN args |-> pass[args[i]]]
  OBVIOUS
<1>2. DOMAIN given = 1..Len(args) /\ Len(args) \in Nat
  BY <1>1
<1>3. Len(given) = Len(args)
  BY <1>2
<1>4. DOMAIN map = 1..3 /\ Len(map) = 3 /\ map[1] = "F" /\ map[2] = "S" /\ map[3] = "?"
  OBVIOUS
<1>5. "?" \in Range(map)
  BY <1>4 DEF Range
<1>6. PICK i : i = CHOOSE k \in DOMAIN map : map[k] = "?" /\ \A j \in 1 .. k - 1 : map[j] # "?"
  OBVIOUS
<1>7. i = 3
  <2>1. 3 \in DOMAIN map /\ map[3] = "?" /\ \A j \in 1..3 - 1 : map[j] # "?"
    BY <1>4
  <2>2. i \in DOMAIN map /\ map[i] = "?"
    BY <1>6, <2>1
  <2>3. QED
    BY <1>4, <2>2
<1>8. PICK n : n = 2
  OBVIOUS
<1>9. /\ \A k \in 1..n : k <= Len(given) => map[k] \in given[k]
      /\ Len(given) < n => map[Len(given) + 1] \in Optional
  <2>1. n = IF "?" \in Range(map)
            THEN (CHOOSE i_1 \in DOMAIN map : map[i_1] = "?" /\ \A j \in 1 .. i_1 - 1 : map[j] # "?") - 1
            ELSE Len(map)
    BY <1>5, <1>6, <1>7, <1>8
  <2>2. QED
    BY <1>1, <2>1, Zenon DEF verifyArguments
<1>10. Len(args) # 0
  BY <1>3, <1>4, <1>8, <1>9 DEF Optional
<1>11. map[1] \in given[1]
  BY <1>2, <1>3, <1>8, <1>9, <1>10
<1>12. QED
  BY <1>1, <1>2, <1>4, <1>10, <1>11

(* What a typed line comes to.                                              *)
LEMMA TypeMoves ==
  ASSUME NEW line \in Lines, Type(line)
  PROVE  /\ running = "none"
         /\ \/ Idles
            \/ \E act \in Acts, units \in Seq(Units) : Exempt(act, units)
            \/ \E act \in FillActs, units \in Seq(Units) : Fill(act, units)
            \/ \E units \in Seq(Units) : \E hex \in Seq(IntelHexLine) : Loads(units, hex)
<1> DEFINE tokens == tokenize(line)
           name == findCommand(Names, tokens[1])
           args == Tail(tokens)
           accepted == verifyArguments([i \in DOMAIN args |-> Passes[args[i]]], Map[name])
<1>1. running = "none" /\ tokens # << >>
  BY DEF Type, AtPrompt
<1>2. Idles \/ (Found(Names, tokens[1]) /\ accepted /\ Do(Act[name], args))
  BY DEF Type, Refuse, Returns, Idles
<1>3. ASSUME Found(Names, tokens[1]) PROVE name \in Names /\ Act[name] \in Acts
  <2>1. Matching(Names, tokens[1]) # {}
    BY <1>3, FS_EmptySet DEF Found
  <2>2. name \in Matching(Names, tokens[1])
    BY <2>1 DEF findCommand
  <2>3. name \in Names
    BY <2>2 DEF Matching
  <2>4. QED
    BY <2>3, CliAssumption
<1> DEFINE act == Act[name]
<1>4. ASSUME Found(Names, tokens[1]), accepted, act = "program"
      PROVE  File[args[1]] \in Seq(IntelHexLine)
  <2>1. args \in Seq(DOMAIN Passes)
    BY <1>1, CliAssumption
  <2>2. Map[name] = << "F", "S", "?" >>
    BY <1>3, <1>4, CliAssumption
  <2> HIDE DEF args, name
  <2>3. args # << >> /\ "F" \in Passes[args[1]]
    BY <1>4, <2>1, <2>2, FileGiven
  <2>4. args[1] \in DOMAIN Passes
    BY <2>1, <2>3
  <2>5. QED
    BY <2>3, <2>4, CliAssumption
<1> HIDE DEF act, args, name, accepted
<1>5. ASSUME act \in Acts, Do(act, args), act = "program" => File[args[1]] \in Seq(IntelHexLine) PROVE
            \/ Idles
            \/ \E a \in Acts, units \in Seq(Units) : Exempt(a, units)
            \/ \E a \in FillActs, units \in Seq(Units) : Fill(a, units)
            \/ \E units \in Seq(Units) : \E hex \in Seq(IntelHexLine) : Loads(units, hex)
  <2>1. CASE act = "open" \/ act = "close"
    <3>1. Open \/ Close
      BY <1>5, <2>1 DEF Do
    <3>2. QED
      BY <3>1 DEF Open, Close, Returns, Idles
  <2>2. CASE act = "program"
    <3>1. LoadAndProgram(args)
      BY <1>5, <2>2 DEF Do
    <3> DEFINE units == Chosen(Tail(args))
               hex == load(File[args[1]]).records
    <3>2. Refuse \/ Loads(units, hex)
      BY <3>1 DEF LoadAndProgram, Loads
    <3>3. units \in Seq(Units)
      BY ChosenType
    <3>4. hex \in Seq(IntelHexLine)
      BY <1>5, <2>2, LoadType
    <3> HIDE DEF units, hex
    <3>5. QED
      BY <3>2, <3>3, <3>4 DEF Refuse, Returns, Idles
  <2>3. CASE act \notin {"open", "close", "program"}
    <3>1. Chosen(args) \in Seq(Units)
      BY ChosenType
    <3>2. CASE Chosen(args) = << >>
      <4>1. Refuse
        BY <1>5, <2>3, <3>2 DEF Do
      <4>2. QED
        BY <4>1 DEF Refuse, Returns, Idles
    <3>3. CASE Chosen(args) # << >> /\ act \in {"exempt", "include"}
      <4>1. Exempt(act, Chosen(args))
        BY <1>5, <2>3, <3>3 DEF Do
      <4>2. QED
        BY <1>5, <3>1, <4>1
    <3>4. CASE Chosen(args) # << >> /\ act \notin {"exempt", "include"}
      <4>1. Fill(act, Chosen(args)) /\ act \in FillActs
        BY <1>5, <2>3, <3>4 DEF Do, Acts, FillActs
      <4>2. QED
        BY <3>1, <4>1
    <3>5. QED
      BY <3>2, <3>3, <3>4
  <2>4. QED
    BY <2>1, <2>2, <2>3
<1>6. QED
  BY <1>1, <1>2, <1>3, <1>4, <1>5 DEF act

(* The steps there are.                                                     *)
LEMMA Moves ==
  ASSUME [CliNext]_allVars
  PROVE  \/ Idles
         \/ running = "none" /\ \E act \in Acts, units \in Seq(Units) : Exempt(act, units)
         \/ running = "none" /\ \E act \in FillActs, units \in Seq(Units) : Fill(act, units)
         \/ running = "none" /\ \E units \in Seq(Units) : \E hex \in Seq(IntelHexLine) : Loads(units, hex)
         \/ Forget
         \/ Send \/ SendFails \/ Sent \/ Done \/ ProgramNext \/ ProgramEnds
         \/ UNCHANGED session /\ (ProgramStep \/ ExchangeStep \/ ILCStep)
         \/ UNCHANGED session /\ \E u \in Units : Upset(u)
<1>1. CASE UNCHANGED allVars
  BY <1>1 DEF allVars, session, Idles
<1>2. CASE \E line \in Lines : Type(line)
  BY <1>2, TypeMoves
<1>3. CASE \E auto \in BOOLEAN : Launch(auto)
  BY <1>3 DEF Launch, Idles
<1>4. CASE Quit \/ Die
  BY <1>4 DEF Quit, Die
<1>5. QED
  BY <1>1, <1>2, <1>3, <1>4 DEF CliNext, CliStep

-----------------------------------------------------------------------------
(* The commands of a list.                                                  *)

Inv == Typed /\ Control /\ Listed /\ Course /\ Known /\ Assured

(* An ILC command asks ILCs that are not exempted.                          *)
LEMMA FilledType ==
  ASSUME NEW act \in FillActs, NEW units \in Seq(Units), NEW b
  PROVE  /\ Filled(act, units, b) \in Seq(Asks)
         /\ \A i \in DOMAIN Filled(act, units, b) :
              Filled(act, units, b)[i].unit \notin disabled
<1> DEFINE S == {u \in Units : BusOf[u] = b /\ u \notin disabled}
           mine == Among(units, S)
<1>1. mine \in Seq(Units \cap S)
  BY AmongType
<1>2. ASSUME NEW u \in Units PROVE Asked(act, u) \in Asks /\ Asked(act, u).unit = u
  BY DEF FillActs, Asked, Asks, reportServerStatus, changeILCMode, Command, Long
<1>3. \A u \in Units \cap S : u \in Units /\ u \notin disabled
  OBVIOUS
<1>4. Filled(act, units, b) = [i \in DOMAIN mine |-> Asked(act, mine[i])]
  BY DEF Filled
<1> HIDE DEF mine, S
<1>5. DOMAIN mine = 1..Len(mine) /\ Len(mine) \in Nat /\ \A i \in 1..Len(mine) : mine[i] \in Units \cap S
  BY <1>1
<1> HIDE DEF Asked
<1>6. ASSUME NEW i \in 1..Len(mine)
      PROVE  Asked(act, mine[i]) \in Asks /\ Asked(act, mine[i]).unit \notin disabled
  BY <1>2, <1>3, <1>5
<1>7. QED
  BY <1>4, <1>5, <1>6

(* Heads and tails of what a stage has at most: two commands.               *)
LEMMA Tuples ==
  /\ \A c : Head(<< c >>) = c /\ Tail(<< c >>) = << >> /\ << c >> # << >>
  /\ \A c, d : /\ Head(<< c, d >>) = c /\ Tail(<< c, d >>) = << d >> /\ << c, d >> # << >>
<1>1. ASSUME NEW c PROVE Tail(<< c >>) = << >> /\ Head(<< c >>) = c /\ << c >> # << >>
  <2>1. << c >> \in Seq({c}) /\ Len(<< c >>) = 1 /\ << c >> # << >>
    OBVIOUS
  <2>2. Tail(<< c >>) \in Seq({c}) /\ Len(Tail(<< c >>)) = 0
    BY <2>1, HeadTailProperties
  <2>3. QED
    BY <2>1, <2>2
<1>2. ASSUME NEW c, NEW d
      PROVE  Tail(<< c, d >>) = << d >> /\ Head(<< c, d >>) = c /\ << c, d >> # << >>
  <2>1. /\ << c, d >> \in Seq({c, d}) /\ Len(<< c, d >>) = 2 /\ << c, d >> # << >>
        /\ << c, d >>[2] = d /\ Head(<< c, d >>) = c
    OBVIOUS
  <2>2. /\ Tail(<< c, d >>) \in Seq({c, d}) /\ Len(Tail(<< c, d >>)) = 1
        /\ Tail(<< c, d >>)[1] = d
    BY <2>1, HeadTailProperties
  <2>3. QED
    BY <2>1, <2>2
<1>3. QED
  BY <1>1, <1>2

(* What is asked of the ILC at a stage: one thing, or two on the way out of *)
(* Enabled mode.                                                            *)
LEMMA WantedOne ==
  ASSUME AtExchange, Wanted # << >>, stage # "leave" \/ lastMode[unit] # "Enabled"
  PROVE  \E c : Wanted = << c >> /\ c.unit = unit /\ c.what = Doing
<1> USE DEF Wanted, Doing, AtExchange, Programming, Stages, reportServerStatus, changeILCMode,
            Command
<1>1. CASE stage = "leave"
  BY <1>1 DEF Leave
<1>2. CASE stage \in {"recover_clear", "clear", "unfault"}
  BY <1>2 DEF ClearIfFault
<1>3. CASE stage \in {"status", "recover", "recover_status"}
  BY <1>3
<1>4. CASE stage \in {"erase", "pages", "stats", "verify"}
  BY <1>4 DEF eraseILCApplication, writeApplicationPage, writeApplicationStats,
              writeVerifyApplication
<1>5. CASE stage \in {"enter", "standby", "disable"}
  BY <1>5
<1>6. QED
  BY <1>1, <1>2, <1>3, <1>4, <1>5

(* Only an Enabled ILC is told two things in an exchange.                   *)
LEMMA WantedTwo ==
  ASSUME stage = "leave", lastMode[unit] = "Enabled"
  PROVE  /\ Wanted = << changeILCMode(unit, "Disabled"), changeILCMode(unit, "Standby") >>
         /\ Tail(Wanted) = << changeILCMode(unit, "Standby") >>
<1>1. Wanted = << changeILCMode(unit, "Disabled"), changeILCMode(unit, "Standby") >>
  BY DEF Wanted, Leave
<1>2. QED
  BY <1>1, Tuples

(* A change of mode between application modes stays among them.             *)
LEMMA ReachedMode ==
  ASSUME NEW m, NEW asked
  PROVE  /\ Reached(m, asked) \subseteq Mode
         /\ m \in Application /\ asked \in {"Disabled", "Standby"} =>
              Reached(m, asked) \subseteq Application
         /\ asked = "Disabled" => Reached(m, asked) \subseteq {"Disabled"}
  BY DEF Reached, Mode, Application

(* The command that is on the bus while programILC waits.                   *)
LEMMA OnBusIs ==
  ASSUME Inv, Programming, exchange = "sending", wire # << >>
  PROVE  /\ OnBus.unit = unit
         /\ OnBus.what = Doing
         /\ \/ wire = Wanted /\ Tail(wire) = << >> /\ replies = << >>
               /\ \E c : Wanted = << c >> /\ OnBus = c
            \/ /\ stage = "leave" /\ lastMode[unit] = "Enabled"
               /\ OnBus \in {changeILCMode(unit, "Disabled"), changeILCMode(unit, "Standby")}
               /\ Tail(wire) \in {Tail(Wanted), << >>}
<1>1. AtExchange /\ (Single \/ (stage = "leave" /\ Twofold))
  BY DEF Inv, Control, Course, Typed, Programming, Stages
<1>2. CASE stage = "leave" /\ lastMode[unit] = "Enabled" /\ wire \in {Wanted, Tail(Wanted)}
  <2>1. \A m : changeILCMode(unit, m).unit = unit /\ changeILCMode(unit, m).what = "CHANGE_MODE"
    BY DEF changeILCMode, Command
  <2>2. Doing = "CHANGE_MODE"
    BY <1>2 DEF Doing
  <2>3. /\ OnBus \in {changeILCMode(unit, "Disabled"), changeILCMode(unit, "Standby")}
        /\ Tail(wire) \in {Tail(Wanted), << >>}
    BY <1>2, WantedTwo, Tuples DEF OnBus
  <2>4. QED
    BY <1>2, <2>1, <2>2, <2>3
<1>3. CASE Single /\ (stage # "leave" \/ lastMode[unit] # "Enabled")
  <2>1. PICK c : Wanted = << c >> /\ c.unit = unit /\ c.what = Doing
    BY <1>1, <1>3, WantedOne DEF Single
  <2>2. wire = << c >> /\ replies = << >>
    BY <1>3, <2>1 DEF Single
  <2>3. QED
    BY <2>1, <2>2, Tuples DEF OnBus
<1>4. QED
  BY <1>1, <1>2, <1>3 DEF Single, Twofold

(* What an ILC gets is a command, and it is one of the ILCs.                *)
LEMMA OnBusTyped ==
  ASSUME Inv, exchange = "sending", wire # << >>
  PROVE  OnBus.unit \in Units /\ OnBus.what \in {"SERVER_STATUS", "CHANGE_MODE"} \cup Firmware
<1>1. CASE Programming
  BY <1>1, OnBusIs DEF Inv, Typed, Doing, Firmware
<1>2. CASE ~Programming
  <2>1. running = "ilc"
    BY <1>2 DEF Inv, Control, AtExchange
  <2>2. wire \in Seq(Asks)
    BY <2>1 DEF Inv, Listed
  <2>3. OnBus \in Asks
    BY <2>2, HeadTailProperties DEF OnBus
  <2>4. QED
    BY <2>3 DEF Asks
<1>3. QED
  BY <1>1, <1>2

-----------------------------------------------------------------------------
(* The initial states, and what each step keeps.                            *)

(* Nothing is executed in the beginning.                                    *)
LEMMA InvInit == CliInit => Inv
<1> SUFFICES ASSUME CliInit PROVE Inv
  OBVIOUS
<1> USE DEF CliInit, Init
<1>1. Typed
  <2>1. [u \in Units |-> "Enabled"] \in [Units -> Mode]
    BY DEF Mode
  <2>2. NoLists \in [Buses -> Seq(Asks)]
    BY DEF NoLists
  <2>3. << >> \in Seq(Replies)
    OBVIOUS
  <2>4. QED
    BY <2>1, <2>2, <2>3 DEF Typed
<1>2. Control /\ Listed
  BY DEF Control, Listed
<1>3. Course /\ Known /\ Assured
  BY DEF Course, Known, Assured, Programming, Stages
<1>4. QED
  BY <1>1, <1>2, <1>3 DEF Inv

(* Every step keeps the types.                                              *)
LEMMA TypedStep ==
  ASSUME Inv, [CliNext]_allVars
  PROVE  Typed'
<1> USE DEF Typed, vars, session, fpga, program, ilcs
<1>0. Typed
  BY DEF Inv
<1>1. CASE Idles
  BY <1>0, <1>1 DEF Idles
<1>2. CASE running = "none" /\ \E act \in Acts, units \in Seq(Units) : Exempt(act, units)
  <2>1. NoLists \in [Buses -> Seq(Asks)] /\ DOMAIN NoLists = Buses
    BY DEF NoLists
  <2>2. QED
    BY <1>0, <1>2, <2>1 DEF Exempt, Clear, Returns
<1>3. CASE running = "none" /\ \E act \in FillActs, units \in Seq(Units) : Fill(act, units)
  <2>1. PICK act \in FillActs, units \in Seq(Units) : Fill(act, units)
    BY <1>3
  <2>2. intended' = [b \in Buses |-> Filled(act, units, b)]
    BY <2>1 DEF Fill
  <2>3. intended' \in [Buses -> Seq(Asks)]
    BY <2>2, FilledType
  <2>4. DOMAIN list' = Buses
    BY <2>1 DEF Fill
  <2>5. QED
    BY <1>0, <2>1, <2>3, <2>4 DEF Fill
<1>4. CASE running = "none" /\ \E units \in Seq(Units) : \E hex \in Seq(IntelHexLine) : Loads(units, hex)
  <2>1. PICK units \in Seq(Units) : \E hex \in Seq(IntelHexLine) : Loads(units, hex)
    BY <1>4
  <2>2. Head(units) \in Units
    BY <2>1, HeadTailProperties DEF Loads
  <2>3. QED
    BY <1>0, <2>1, <2>2 DEF Loads, Start, Stages
<1>5. CASE Forget
  <2>1. NoLists \in [Buses -> Seq(Asks)] /\ DOMAIN NoLists = Buses
    BY DEF NoLists
  <2>2. << >> \in Seq(Replies)
    OBVIOUS
  <2>3. QED
    BY <1>0, <1>5, <2>1, <2>2 DEF Forget
<1>6. CASE Send
  <2>1. << >> \in Seq(Replies)
    OBVIOUS
  <2>2. QED
    BY <1>0, <1>6, <2>1 DEF Send
<1>7. CASE SendFails
  <2>1. << >> \in Seq(Replies)
    OBVIOUS
  <2>2. /\ intended' = NoLists /\ NoLists \in [Buses -> Seq(Asks)]
        /\ running' = "none" /\ exchange' = "none" /\ replies' = << >>
        /\ UNCHANGED << mode, lastMode, list, unit, stage >>
    BY <1>7 DEF SendFails, EndFailed, NoLists
  <2>3. QED
    BY <1>0, <2>1, <2>2
<1>8. CASE Sent
  BY <1>0, <1>8 DEF Sent, EndParsed
<1>9. CASE Done
  <2>1. /\ intended' = NoLists /\ NoLists \in [Buses -> Seq(Asks)]
        /\ running' = "none"
        /\ UNCHANGED << mode, lastMode, list, unit, stage, exchange, replies >>
    BY <1>9 DEF Done, NoLists
  <2>2. QED
    BY <1>0, <2>1
<1>10. CASE ProgramNext
  <2>1. CASE todo = << >>
    BY <1>0, <1>10, <2>1 DEF ProgramNext, Leaves
  <2>2. CASE todo # << >>
    <3>1. todo \in Seq(Units)
      BY <1>10 DEF Inv, Control, ProgramNext
    <3>2. Head(todo) \in Units
      BY <2>2, <3>1, HeadTailProperties
    <3>3. QED
      BY <1>0, <1>10, <2>2, <3>2 DEF ProgramNext, Start, Stages
  <2>3. QED
    BY <2>1, <2>2
<1>11. CASE ProgramEnds
  BY <1>0, <1>11 DEF ProgramEnds, Leaves
<1>12. CASE UNCHANGED session /\ Request
  <2>1. AtExchange /\ Skipped \in Stages \cup {"done"}
    BY <1>12 DEF Request, AtExchange, Programming, Stages, Skipped, Following
  <2>2. << >> \in Seq(Replies)
    OBVIOUS
  <2>3. CASE Wanted = << >>
    BY <1>0, <1>12, <2>1, <2>3 DEF Request
  <2>4. CASE Wanted # << >>
    <3>1. /\ UNCHANGED << lastMode, unit, stage, mode, intended, running >>
          /\ replies' = << >> /\ exchange' = "sending"
          /\ list' = [list EXCEPT ![BusOf[unit]] = @ \o Wanted]
      BY <1>12, <2>4 DEF Request
    <3>2. QED
      BY <1>0, <2>2, <3>1
  <2>5. QED
    BY <2>3, <2>4
<1>13. CASE UNCHANGED session /\ Check
  BY <1>0, <1>13 DEF Check, Stages
<1>14. CASE UNCHANGED session /\ Prepare
  <2>1. /\ UNCHANGED << lastMode, unit, list, replies, exchange, mode, intended, running >>
        /\ stage' \in {"crashed", "pages"}
    BY <1>14 DEF Prepare
  <2>2. QED
    BY <1>0, <2>1 DEF Stages
<1>15. CASE UNCHANGED session /\ ProgramFails
  <2>1. << >> \in Seq(Replies)
    OBVIOUS
  <2>2. QED
    BY <1>0, <1>15, <2>1 DEF ProgramFails, EndFailed, Failed, Stages
<1>16. CASE UNCHANGED session /\ ProgramGoesOn
  <2>1. AtExchange
    BY <1>16 DEF Inv, Control, ProgramGoesOn, EndParsed, Programming, Stages
  <2>2. Following \in Stages \cup {"done"}
    BY <2>1 DEF AtExchange, Programming, Stages, Following
  <2>3. QED
    BY <1>0, <1>16, <2>2 DEF ProgramGoesOn, EndParsed, Succeeded
<1>17. CASE UNCHANGED session /\ BeginParse
  BY <1>0, <1>17 DEF BeginParse
<1>18. CASE UNCHANGED session /\ Parse
  <2>1. Tail(replies) \in Seq(Replies)
    BY <1>0, <1>18, HeadTailProperties DEF Parse
  <2>2. DOMAIN lastMode' = Units
    BY <1>0, <1>18 DEF Parse
  <2>3. QED
    BY <1>0, <1>18, <2>1, <2>2 DEF Parse
<1>19. CASE UNCHANGED session /\ \E kind \in Kinds : \E arg \in Args : Answer(kind, arg)
  <2>1. PICK kind \in Kinds, arg \in Args : Answer(kind, arg)
    BY <1>19
  <2>2. OnBus.unit \in Units /\ OnBus.what \in {"SERVER_STATUS", "CHANGE_MODE"} \cup Firmware
    BY <2>1, OnBusTyped DEF Answer
  <2>3. mode' \in [Units -> Mode]
    <3>1. \A m, asked : Reached(m, asked) \subseteq Mode
      BY ReachedMode
    <3>2. CASE OnBus.what = "CHANGE_MODE"
      <4>1. Obeys(arg)
        BY <2>1 DEF Answer
      <4>2. arg \in Reached(mode[OnBus.unit], OnBus.arg) /\ mode' = [mode EXCEPT ![OnBus.unit] = arg]
        BY <3>2, <4>1 DEF Obeys
      <4>3. arg \in Mode
        BY <3>1, <4>2
      <4>4. QED
        BY <1>0, <4>2, <4>3
    <3>3. CASE OnBus.what # "CHANGE_MODE"
      BY <1>0, <2>1, <2>2, <3>3 DEF Answer, Obeys, Firmware
    <3>4. QED
      BY <3>2, <3>3
  <2>4. replies' \in Seq(Replies)
    <3>1. CASE kind = "silent"
      BY <1>0, <2>1, <3>1 DEF Answer, Back
    <3>2. CASE kind # "silent"
      <4>1. Reply(kind, arg) \in Replies
        BY <2>2, <3>2 DEF Reply, Replies
      <4>2. replies' = Append(replies, Reply(kind, arg))
        BY <2>1, <3>2 DEF Answer, Back
      <4>3. QED
        BY <1>0, <4>1, <4>2, AppendProperties
    <3>3. QED
      BY <3>1, <3>2
  <2>5. UNCHANGED << list, lastMode, exchange, stage, unit, intended, running >>
    BY <1>19, <2>1 DEF Answer
  <2>6. QED
    BY <1>0, <2>3, <2>4, <2>5
<1>20. CASE UNCHANGED session /\ \E kind \in Kinds : Decline(kind)
  <2>1. PICK kind \in Kinds : Decline(kind)
    BY <1>20
  <2>2. OnBus.unit \in Units /\ OnBus.what \in {"SERVER_STATUS", "CHANGE_MODE"} \cup Firmware
    BY <2>1, OnBusTyped DEF Decline
  <2>3. replies' \in Seq(Replies)
    <3>1. CASE kind = "silent"
      BY <1>0, <2>1, <3>1 DEF Decline, Back
    <3>2. CASE kind # "silent"
      <4>1. Reply(kind, << >>) \in Replies
        BY <2>2, <3>2 DEF Reply, Replies
      <4>2. replies' = Append(replies, Reply(kind, << >>))
        BY <2>1, <3>2 DEF Decline, Back
      <4>3. QED
        BY <1>0, <4>1, <4>2, AppendProperties
    <3>3. QED
      BY <3>1, <3>2
  <2>4. UNCHANGED << list, lastMode, exchange, stage, unit, intended, running, mode >>
    BY <1>20, <2>1 DEF Decline
  <2>5. QED
    BY <1>0, <2>3, <2>4
<1>21. CASE UNCHANGED session /\ \E u \in Units : Upset(u)
  BY <1>0, <1>21 DEF Upset, Mode
<1>22. QED
  BY <1>1, <1>2, <1>3, <1>4, <1>5, <1>6, <1>7, <1>8, <1>9, <1>10, <1>11, <1>12, <1>13,
     <1>14, <1>15, <1>16, <1>17, <1>18, <1>19, <1>20, <1>21, Moves
     DEF ProgramStep, ExchangeStep, ILCStep

(* What answers and refusals have in common.                                *)
Advance ==
  /\ exchange = "sending" /\ wire # << >>
  /\ wire' = Tail(wire)
  /\ \/ replies' = replies
     \/ \E r \in Replies : r.unit = OnBus.unit /\ r.what = OnBus.what
                           /\ replies' = Append(replies, r)
  /\ UNCHANGED << list, lastMode, exchange, program, upset >>

(* Whatever an ILC does, the next command follows, with at most one reply   *)
(* more.                                                                    *)
LEMMA Advances ==
  ASSUME Inv, ILCStep
  PROVE  Advance
<1>1. ASSUME NEW kind \in Kinds, NEW arg \in Args, Answer(kind, arg)
      PROVE  Advance
  <2>1. exchange = "sending" /\ wire # << >>
    BY <1>1 DEF Answer
  <2>2. kind = "silent" \/ Reply(kind, arg) \in Replies
    BY <2>1, OnBusTyped DEF Reply, Replies
  <2>3. QED
    BY <1>1, <2>2 DEF Answer, Back, Advance, Reply
<1>2. ASSUME NEW kind \in Kinds, Decline(kind)
      PROVE  Advance
  <2>1. exchange = "sending" /\ wire # << >>
    BY <1>2 DEF Decline
  <2>2. kind = "silent" \/ Reply(kind, << >>) \in Replies
    BY <2>1, OnBusTyped DEF Reply, Replies
  <2>3. QED
    BY <1>2, <2>2 DEF Decline, Back, Advance, Reply
<1>3. QED
  BY <1>1, <1>2 DEF ILCStep

(* Every step keeps that an exchange belongs to the command in execution.   *)
LEMMA ControlStep ==
  ASSUME Inv, [CliNext]_allVars
  PROVE  Control'
<1> USE DEF Control, AtExchange, Programming, vars, session, fpga, program, ilcs
<1>0. Control /\ stage \in Stages \cup {"idle", "done", "failed", "crashed"}
      /\ exchange \in {"none", "sending", "parsing"}
  BY DEF Inv, Typed
<1>1. CASE Idles
  BY <1>0, <1>1 DEF Idles
<1>2. CASE running = "none" /\ \E act \in Acts, units \in Seq(Units) : Exempt(act, units)
  BY <1>0, <1>2 DEF Exempt, Returns
<1>3. CASE running = "none" /\ \E act \in FillActs, units \in Seq(Units) : Fill(act, units)
  BY <1>0, <1>3 DEF Fill, Stages
<1>4. CASE running = "none" /\ \E units \in Seq(Units) : \E hex \in Seq(IntelHexLine) : Loads(units, hex)
  <2>1. PICK units \in Seq(Units) : \E hex \in Seq(IntelHexLine) : Loads(units, hex)
    BY <1>4
  <2>2. Tail(units) \in Seq(Units)
    BY <2>1, HeadTailProperties DEF Loads
  <2>3. QED
    BY <1>0, <2>1, <2>2 DEF Loads, Start, Stages
<1>5. CASE Forget
  BY <1>5 DEF Forget
<1>6. CASE Send
  BY <1>0, <1>6 DEF Send
<1>7. CASE SendFails
  BY <1>0, <1>7 DEF SendFails, EndFailed, Stages
<1>8. CASE Sent
  BY <1>0, <1>8 DEF Sent, EndParsed, Stages
<1>9. CASE Done
  BY <1>0, <1>9 DEF Done
<1>10. CASE ProgramNext
  <2>1. todo # << >> => Tail(todo) \in Seq(Units)
    BY <1>0, <1>10, HeadTailProperties DEF ProgramNext
  <2>2. QED
    BY <1>0, <1>10, <2>1 DEF ProgramNext, Leaves, Start, Stages
<1>11. CASE ProgramEnds
  BY <1>0, <1>11 DEF ProgramEnds, Leaves, Stages
<1>12. CASE UNCHANGED session /\ Request
  <2>1. Skipped # "idle"
    BY <1>12 DEF Request, Stages, Skipped, Following
  <2>2. QED
    BY <1>0, <1>12, <2>1 DEF Request, Stages
<1>13. CASE UNCHANGED session /\ Check
  BY <1>0, <1>13 DEF Check
<1>14. CASE UNCHANGED session /\ Prepare
  <2>1. /\ UNCHANGED << fpga, running, todo >>
        /\ stage = "prepare" /\ stage' \in {"crashed", "pages"}
    BY <1>14 DEF Prepare
  <2>2. QED
    BY <1>0, <2>1
<1>15. CASE UNCHANGED session /\ ProgramFails
  BY <1>0, <1>15 DEF ProgramFails, EndFailed, Failed, Stages
<1>16. CASE UNCHANGED session /\ ProgramGoesOn
  <2>1. Following # "idle"
    <3>1. AtExchange
      BY <1>0, <1>16 DEF ProgramGoesOn, EndParsed, Stages
    <3>2. QED
      BY <3>1 DEF Stages, Following
  <2>2. QED
    BY <1>0, <1>16, <2>1 DEF ProgramGoesOn, EndParsed, Succeeded, Stages
<1>17. CASE UNCHANGED session /\ BeginParse
  BY <1>0, <1>17 DEF BeginParse
<1>18. CASE UNCHANGED session /\ Parse
  BY <1>0, <1>18 DEF Parse
<1>19. CASE UNCHANGED session /\ ILCStep
  BY <1>0, <1>19, Advances DEF Advance
<1>20. CASE UNCHANGED session /\ \E u \in Units : Upset(u)
  BY <1>0, <1>20 DEF Upset
<1>21. QED
  BY <1>1, <1>2, <1>3, <1>4, <1>5, <1>6, <1>7, <1>8, <1>9, <1>10, <1>11, <1>12, <1>13,
     <1>14, <1>15, <1>16, <1>17, <1>18, <1>19, <1>20, Moves
     DEF ProgramStep, ExchangeStep

(* Every step keeps what runILCCommands sends a rest of what was put in the *)
(* lists.                                                                   *)
LEMMA ListedStep ==
  ASSUME Inv, [CliNext]_allVars
  PROVE  Listed'
<1> USE DEF Listed, vars, session, fpga, program, ilcs
<1>0. Listed /\ Typed /\ Control /\ exchange \in {"none", "sending", "parsing"}
  BY DEF Inv, Typed
<1>1. CASE Idles
  BY <1>0, <1>1 DEF Idles
<1>2. CASE running = "none" /\ \E act \in Acts, units \in Seq(Units) : Exempt(act, units)
  BY <1>2 DEF Exempt, Returns
<1>3. CASE running = "none" /\ \E act \in FillActs, units \in Seq(Units) : Fill(act, units)
  <2>1. PICK act \in FillActs, units \in Seq(Units) : Fill(act, units)
    BY <1>3
  <2>2. /\ intended' = [b \in Buses |-> Filled(act, units, b)]
        /\ list' = [b \in Buses |-> NoLists[b] \o Filled(act, units, b)]
        /\ todo' = Among(BusOrder, {b \in Buses : list'[b] # << >>})
        /\ UNCHANGED << disabled, exchange >>
    BY <2>1 DEF Fill, Clear
  <2>3. ASSUME NEW b \in Buses PROVE NoLists[b] \o Filled(act, units, b) = Filled(act, units, b)
    <3>1. Filled(act, units, b) \in Seq(Asks)
      BY FilledType
    <3>2. NoLists[b] = << >>
      BY DEF NoLists
    <3>3. QED
      BY <3>1, <3>2, ConcatEmptySeq
  <2>4. list' = intended'
    BY <2>2, <2>3
  <2>5. todo' \in Seq(Buses)
    <3> DEFINE S == {b \in Buses : list'[b] # << >>}
    <3>1. BusOrder \in Seq(Buses)
      BY CliAssumption
    <3>2. todo' = Among(BusOrder, S)
      BY <2>2
    <3> HIDE DEF S
    <3>3. todo' \in Seq(Buses \cap S)
      BY <3>1, <3>2, AmongType
    <3>4. QED
      BY <3>3
  <2>6. \A b \in Buses : \A i \in DOMAIN intended'[b] : intended'[b][i].unit \notin disabled'
    BY <2>2, FilledType
  <2>7. exchange' = "none"
    BY <1>0, <1>3, <2>2 DEF Control, AtExchange, Programming, Stages
  <2>8. QED
    BY <2>4, <2>5, <2>6, <2>7
<1>4. CASE running = "none" /\ \E units \in Seq(Units) : \E hex \in Seq(IntelHexLine) : Loads(units, hex)
  BY <1>4 DEF Loads
<1>5. CASE Forget
  BY <1>5 DEF Forget
<1>6. CASE Send
  <2>1. /\ list = intended /\ todo \in Seq(Buses) /\ todo # << >>
        /\ wire' = list[Head(todo)] /\ exchange' = "sending"
        /\ UNCHANGED << list, session >>
    BY <1>0, <1>6 DEF Send
  <2>2. Head(todo) \in Buses
    BY <2>1, HeadTailProperties
  <2>3. wire' \in Seq(Asks) /\ wire' = intended[Head(todo)]
    BY <1>0, <2>1, <2>2 DEF Typed
  <2>4. IsSuffix(wire', intended'[Head(todo')])
    BY <2>1, <2>3, SuffixSame
  <2>5. QED
    BY <1>0, <2>1, <2>3, <2>4
<1>7. CASE SendFails
  BY <1>7 DEF SendFails
<1>8. CASE Sent
  <2>1. /\ running = "ilc" /\ exchange = "parsing" /\ exchange' = "none"
        /\ todo' = Tail(todo)
        /\ UNCHANGED << list, intended, disabled >>
    BY <1>8 DEF Sent, EndParsed
  <2>2. todo \in Seq(Buses) /\ todo # << >>
    BY <1>0, <2>1
  <2>3. Tail(todo) \in Seq(Buses)
    BY <2>2, HeadTailProperties
  <2>4. QED
    BY <1>0, <2>1, <2>3
<1>9. CASE Done
  BY <1>9 DEF Done
<1>10. CASE ProgramNext
  BY <1>10 DEF ProgramNext
<1>11. CASE ProgramEnds
  BY <1>11 DEF ProgramEnds
<1>12. CASE UNCHANGED session /\ ProgramStep
  <2>1. stage # "idle"
    BY <1>12 DEF ProgramStep, Request, Check, Prepare, ProgramFails, ProgramGoesOn, AtExchange,
                 Programming, Stages
  <2>2. QED
    BY <1>0, <1>12, <2>1 DEF Control
<1>13. CASE UNCHANGED session /\ BeginParse
  BY <1>0, <1>13 DEF BeginParse
<1>14. CASE UNCHANGED session /\ Parse
  BY <1>0, <1>14 DEF Parse
<1>15. CASE UNCHANGED session /\ ILCStep
  <2>1. Advance
    BY <1>15, Advances
  <2>2. CASE running = "ilc"
    <3>1. /\ wire \in Seq(Asks) /\ wire # << >> /\ todo \in Seq(Buses) /\ todo # << >>
          /\ IsSuffix(wire, intended[Head(todo)])
          /\ wire' = Tail(wire)
          /\ UNCHANGED << session, list, exchange >>
      BY <1>0, <1>15, <2>1, <2>2 DEF Advance
    <3>2. intended[Head(todo)] \in Seq(Asks)
      BY <1>0, <3>1, HeadTailProperties DEF Typed
    <3>3. wire' \in Seq(Asks) /\ IsSuffix(wire', intended[Head(todo)])
      BY <3>1, <3>2, SuffixTail
    <3>4. QED
      BY <1>0, <2>2, <3>1, <3>3
  <2>3. QED
    BY <1>15, <2>2
<1>16. CASE UNCHANGED session /\ \E u \in Units : Upset(u)
  BY <1>0, <1>16 DEF Upset
<1>17. QED
  BY <1>1, <1>2, <1>3, <1>4, <1>5, <1>6, <1>7, <1>8, <1>9, <1>10, <1>11, <1>12, <1>13,
     <1>14, <1>15, <1>16, Moves DEF ExchangeStep

(* What is asked for at a stage does not change with the mode of the ILC.   *)
LEMMA WantedSame ==
  ASSUME UNCHANGED << lastMode, stage, unit, pages, stats >>
  PROVE  Wanted' = Wanted /\ Doing' = Doing
<1>1. \A m : changeILCMode(unit, m)' = changeILCMode(unit, m)
  BY DEF changeILCMode, Long, Command
<1>2. Leave' = Leave /\ ClearIfFault' = ClearIfFault
  BY <1>1 DEF Leave, ClearIfFault, changeILCMode, Long, Command
<1>3. Doing' = Doing
  BY DEF Doing
<1>4. Wanted' = Wanted
  BY <1>1, <1>2 DEF Wanted, reportServerStatus, eraseILCApplication, writeApplicationPage,
                    writeApplicationStats, writeVerifyApplication, Command
<1>5. QED
  BY <1>3, <1>4

(* An exchange of programILC is at a stage that has one.                    *)
LEMMA ProgramExchange ==
  ASSUME Inv, Programming
  PROVE  running = "program" /\ (exchange # "none" => AtExchange)
  BY DEF Inv, Control, Programming, Stages

(* The list was empty: what the FPGA gets is what the stage asks for.       *)
LEMMA RequestSends ==
  ASSUME Inv, Request, Wanted # << >>
  PROVE  /\ wire' = Wanted /\ Wanted' = Wanted
         /\ replies' = << >> /\ exchange' = "sending"
         /\ UNCHANGED << lastMode, program, ilcs >>
<1> USE DEF program, vars
<1>1. AtExchange /\ Programming /\ list[BusOf[unit]] = << >>
  BY DEF Inv, Course, Request, AtExchange
<1>2. /\ list' = [list EXCEPT ![BusOf[unit]] = @ \o Wanted]
      /\ wire' = list'[BusOf[unit]]
      /\ replies' = << >> /\ exchange' = "sending"
      /\ UNCHANGED << lastMode, program, ilcs >>
  BY DEF Request
<1>3. << >> \o Wanted = Wanted
  <2>1. CASE stage # "leave" \/ lastMode[unit] # "Enabled"
    <3>1. PICK c : Wanted = << c >>
      BY <1>1, <2>1, WantedOne
    <3>2. Wanted \in Seq({c})
      BY <3>1
    <3>3. QED
      BY <3>2, ConcatEmptySeq
  <2>2. CASE stage = "leave" /\ lastMode[unit] = "Enabled"
    <3> DEFINE c == changeILCMode(unit, "Disabled")
               d == changeILCMode(unit, "Standby")
    <3>1. Wanted = << c, d >>
      BY <2>2, WantedTwo
    <3> HIDE DEF c, d
    <3>2. Wanted \in Seq({c, d})
      BY <3>1
    <3>3. QED
      BY <3>2, ConcatEmptySeq
  <2>3. QED
    BY <2>1, <2>2
<1>4. BusOf[unit] \in DOMAIN list
  BY ProgramAssumption DEF Inv, Typed
<1>5. wire' = Wanted
  BY <1>1, <1>2, <1>3, <1>4
<1>6. Wanted' = Wanted
  BY <1>2, WantedSame
<1>7. QED
  BY <1>2, <1>5, <1>6

(* Every step keeps what programILC sends that of its stage.                *)
LEMMA CourseStep ==
  ASSUME Inv, [CliNext]_allVars
  PROVE  Course'
<1> USE DEF Course, vars, session, fpga, program, ilcs
<1>0. Course /\ Typed /\ Control
  BY DEF Inv
<1>1. ASSUME UNCHANGED << list, lastMode, wire, exchange, replies, program >>
      PROVE  Course'
  <2>1. Wanted' = Wanted /\ Doing' = Doing
    BY <1>1, WantedSame
  <2>2. QED
    BY <1>0, <1>1, <2>1 DEF Programming, Single, Twofold
<1>2. ASSUME exchange' = "none", replies' = << >>,
             Programming' => list'[BusOf[unit']] = << >>
      PROVE  Course'
  BY <1>2
<1>3. CASE running = "none" /\ ((\E act \in Acts, units \in Seq(Units) : Exempt(act, units))
                                \/ \E act \in FillActs, units \in Seq(Units) : Fill(act, units))
  <2>1. stage' = "idle"
    BY <1>0, <1>3 DEF Exempt, Fill, Control
  <2>2. QED
    BY <2>1 DEF Programming, Stages
<1>4. ASSUME NEW u \in Units, NEW hex, Start(u, hex)
      PROVE  Course'
  <2>1. /\ exchange' = "none" /\ replies' = << >> /\ unit' = u
        /\ list' = [list EXCEPT ![BusOf[u]] = << >>]
    BY <1>0, <1>4 DEF Start, Control
  <2>2. BusOf[u] \in DOMAIN list
    BY <1>0, ProgramAssumption DEF Typed
  <2>3. QED
    BY <1>2, <2>1, <2>2
<1>5. CASE running = "none" /\ \E units \in Seq(Units) : \E hex \in Seq(IntelHexLine) : Loads(units, hex)
  <2>0. PICK units \in Seq(Units) : \E hex \in Seq(IntelHexLine) : Loads(units, hex)
    BY <1>5
  <2>1. PICK hex : Loads(units, hex)
    BY <2>0
  <2>2. Head(units) \in Units /\ Start(Head(units), hex)
    BY <2>1, HeadTailProperties DEF Loads
  <2>3. QED
    BY <1>4, <2>2
<1>6. CASE Forget
  BY <1>6 DEF Forget, Programming, Stages
<1>7. CASE Send \/ SendFails \/ Sent
  <2>1. stage' = "idle"
    BY <1>0, <1>7 DEF Send, SendFails, Sent, Control
  <2>2. QED
    BY <2>1 DEF Programming, Stages
<1>8. CASE Idles \/ Done \/ (UNCHANGED session /\ \E u \in Units : Upset(u))
  BY <1>1, <1>8 DEF Idles, Done, Upset
<1>9. CASE ProgramNext
  <2>1. CASE todo = << >>
    BY <1>9, <2>1 DEF ProgramNext, Leaves, Programming, Stages
  <2>2. CASE todo # << >>
    <3>1. Head(todo) \in Units /\ Start(Head(todo), records)
      BY <1>0, <1>9, <2>2, HeadTailProperties DEF ProgramNext, Control
    <3>2. QED
      BY <1>4, <3>1
  <2>3. QED
    BY <2>1, <2>2
<1>10. CASE ProgramEnds
  BY <1>10 DEF ProgramEnds, Leaves, Programming, Stages
<1>11. CASE UNCHANGED session /\ Request
  <2>1. AtExchange /\ Programming /\ list[BusOf[unit]] = << >> /\ exchange = "none" /\ replies = << >>
    BY <1>0, <1>11 DEF Request, AtExchange, Control
  <2>2. CASE Wanted = << >>
    BY <1>2, <1>11, <2>1, <2>2 DEF Request
  <2>3. CASE Wanted # << >>
    <3>1. /\ wire' = Wanted' /\ replies' = << >> /\ exchange' = "sending"
      BY <1>11, <2>3, RequestSends
    <3>2. QED
      BY <3>1 DEF Single
  <2>4. QED
    BY <2>2, <2>3
<1>12. CASE UNCHANGED session /\ (Check \/ Prepare)
  <2>1. Programming /\ ~AtExchange
    BY <1>12 DEF Check, Prepare, Programming, AtExchange, Stages
  <2>2. exchange = "none" /\ replies = << >> /\ list[BusOf[unit]] = << >>
    BY <1>0, <2>1, ProgramExchange DEF Control
  <2>3. UNCHANGED << exchange, replies, list, unit >>
    BY <1>12 DEF Check, Prepare
  <2>4. QED
    BY <1>2, <2>2, <2>3
<1>13. CASE UNCHANGED session /\ ProgramFails
  <2>1. BusOf[unit] \in DOMAIN list
    BY <1>0, ProgramAssumption DEF Typed
  <2>2. exchange' = "none" /\ replies' = << >> /\ unit' = unit
    BY <1>13 DEF ProgramFails, EndFailed
  <2>3. stage' = "failed" \/ list' = [list EXCEPT ![BusOf[unit]] = << >>]
    BY <1>13 DEF ProgramFails, Failed
  <2>4. QED
    BY <1>2, <2>1, <2>2, <2>3 DEF Programming, Stages
<1>14. CASE UNCHANGED session /\ ProgramGoesOn
  <2>1. BusOf[unit] \in DOMAIN list
    BY <1>0, ProgramAssumption DEF Typed
  <2>2. /\ exchange' = "none" /\ replies' = << >> /\ unit' = unit
        /\ list' = [list EXCEPT ![BusOf[unit]] = << >>]
    BY <1>14 DEF ProgramGoesOn, EndParsed, Succeeded
  <2>3. QED
    BY <1>2, <2>1, <2>2
<1>15. CASE UNCHANGED session /\ BeginParse
  <2>1. /\ exchange = "sending" /\ exchange' = "parsing" /\ wire = << >> /\ wire' = << >>
        /\ UNCHANGED << list, lastMode, replies, program >>
    BY <1>15 DEF BeginParse
  <2>2. Wanted' = Wanted /\ Doing' = Doing
    BY <2>1, WantedSame
  <2>3. QED
    BY <1>0, <2>1, <2>2 DEF Programming, Single
<1>16. CASE UNCHANGED session /\ Parse
  <2>1. /\ exchange = "parsing" /\ exchange' = "parsing" /\ wire' = << >>
        /\ replies # << >> /\ replies' = Tail(replies)
        /\ UNCHANGED << list, program >>
    BY <1>0, <1>16 DEF Parse, Control
  <2>2. /\ Len(Tail(replies)) = Len(replies) - 1 /\ Len(replies) \in Nat
        /\ Tail(replies) \in Seq(Replies)
        /\ \A i \in 1..Len(Tail(replies)) : Tail(replies)[i] = replies[i + 1]
    BY <1>0, <2>1, HeadTailProperties DEF Typed
  <2>3. Doing' = Doing
    BY <2>1 DEF Doing
  <2>4. ASSUME Programming, NEW i \in DOMAIN replies'
        PROVE  replies'[i].unit = unit' /\ replies'[i].what = Doing'
    <3>1. i \in 1..Len(Tail(replies)) /\ i + 1 \in 1..Len(replies) /\ DOMAIN replies = 1..Len(replies)
      BY <1>0, <2>1, <2>2, <2>4 DEF Typed
    <3>2. QED
      BY <1>0, <2>1, <2>2, <2>3, <2>4, <3>1
  <2>5. Len(replies) <= 1 => Len(replies') <= 1
    BY <2>1, <2>2
  <2>6. QED
    BY <1>0, <2>1, <2>4, <2>5 DEF Programming, Single
<1>17. CASE UNCHANGED session /\ ILCStep
  <2>1. Advance
    BY <1>17, Advances
  <2>2. Wanted' = Wanted /\ Doing' = Doing
    BY <2>1, WantedSame DEF Advance
  <2>3. CASE Programming
    <3>1. /\ exchange = "sending" /\ wire # << >> /\ exchange' = "sending"
          /\ wire' = Tail(wire)
          /\ UNCHANGED << stage, unit, lastMode >>
      BY <2>1 DEF Advance
    <3>2. /\ OnBus.unit = unit
          /\ OnBus.what = Doing
          /\ \/ wire = Wanted /\ Tail(wire) = << >> /\ replies = << >>
             \/ /\ stage = "leave" /\ lastMode[unit] = "Enabled"
                /\ Tail(wire) \in {Tail(Wanted), << >>}
      BY <2>3, <3>1, OnBusIs
    <3>3. ASSUME NEW i \in DOMAIN replies'
          PROVE  replies'[i].unit = unit' /\ replies'[i].what = Doing'
      <4>1. CASE replies' = replies
        BY <1>0, <2>2, <2>3, <3>1, <3>3, <4>1
      <4>2. CASE \E r \in Replies : r.unit = OnBus.unit /\ r.what = OnBus.what
                                    /\ replies' = Append(replies, r)
        <5>1. PICK r \in Replies : r.unit = OnBus.unit /\ r.what = OnBus.what
                                   /\ replies' = Append(replies, r)
          BY <4>2
        <5>2. /\ Len(replies') = Len(replies) + 1 /\ replies' \in Seq(Replies)
              /\ \A k \in 1..Len(replies) : replies'[k] = replies[k]
              /\ replies'[Len(replies) + 1] = r
          BY <1>0, <5>1, AppendProperties DEF Typed
        <5>3. i \in 1..Len(replies) \/ i = Len(replies) + 1
          BY <1>0, <3>3, <5>2 DEF Typed
        <5>4. DOMAIN replies = 1..Len(replies)
          BY <1>0 DEF Typed
        <5>5. QED
          BY <1>0, <2>2, <2>3, <3>1, <3>2, <5>1, <5>2, <5>3, <5>4
      <4>3. QED
        BY <2>1, <4>1, <4>2 DEF Advance
    <3>4. stage # "leave" => Single'
      <4>1. SUFFICES ASSUME stage # "leave" PROVE Single'
        OBVIOUS
      <4>2. replies = << >> /\ wire' = << >>
        BY <3>1, <3>2, <4>1
      <4>3. Len(replies') <= 1
        <5>1. CASE replies' = replies
          BY <4>2, <5>1
        <5>2. ASSUME NEW r \in Replies, replies' = Append(replies, r)
              PROVE  Len(replies') <= 1
          BY <4>2, <5>2
        <5>3. QED
          BY <2>1, <5>1, <5>2 DEF Advance
      <4>4. QED
        BY <4>2, <4>3 DEF Single
    <3>5. stage = "leave" => wire' = << >> \/ Twofold'
      BY <2>2, <3>1, <3>2 DEF Twofold
    <3>6. QED
      BY <3>1, <3>3, <3>4, <3>5
  <2>4. QED
    BY <2>1, <2>3 DEF Advance, Programming
<1>18. QED
  BY <1>3, <1>5, <1>6, <1>7, <1>8, <1>9, <1>10, <1>11, <1>12, <1>13, <1>14, <1>15, <1>16,
     <1>17, Moves DEF ProgramStep, ExchangeStep

(* What is known of the ILC does not depend on the others.                  *)
LEMMA KnownSame ==
  ASSUME Inv, UNCHANGED << lastMode, wire, replies, exchange, program, refusals >>,
         mode'[unit] = mode[unit], unit \notin upset' => unit \notin upset
  PROVE  Known'
<1> USE DEF program
<1>1. Wanted' = Wanted
  BY WantedSame
<1>2. Following' = Following
  BY DEF Following
<1>3. Leaving => Leaving'
  BY DEF Leaving, TellsMode
<1>4. Basis(stage) => Basis(stage)'
  BY DEF Basis, Agree, Near
<1>5. Basis(Following) => Basis(Following)'
  BY <1>2 DEF Basis, Agree, Near
<1>6. Result(replies[1]) => Result(replies[1])'
  BY <1>5 DEF Result, TellsMode, Throws
<1>7. Underway => Underway'
  BY <1>1, <1>3, <1>4, <1>5, <1>6 DEF Underway
<1>8. QED
  BY <1>4, <1>7 DEF Inv, Known, Programming

(* A stage that has nothing to ask for leaves the next what it needs.       *)
LEMMA SkippedBasis ==
  ASSUME AtExchange, Wanted = << >>, Basis(stage)
  PROVE  Basis(Skipped)
<1> USE DEF AtExchange, Programming, Stages, Basis, Agree, Near, Application, Skipped, Following
<1>1. CASE stage \in {"leave", "recover_clear", "pages", "clear", "unfault"}
  BY <1>1
<1>2. CASE stage = "enter"
  BY <1>2
<1>3. ASSUME stage \notin {"leave", "recover_clear", "pages", "clear", "unfault", "enter"}
      PROVE  FALSE
  BY <1>3, Tuples DEF Wanted
<1>4. QED
  BY <1>1, <1>2, <1>3

(* A reply that is accepted leaves the next stage what it needs.            *)
LEMMA ParseBasis ==
  ASSUME Inv, Parse, Programming, Len(replies) = 1, Result(replies[1])
  PROVE  Basis(Following)'
<1> DEFINE reply == replies[1]
<1>1. /\ Head(replies) = reply /\ reply \in Replies
      /\ reply.unit = unit /\ reply.what = Doing
  <2>1. replies \in Seq(Replies)
    BY DEF Inv, Typed
  <2>2. 1 \in DOMAIN replies /\ Head(replies) = reply /\ reply \in Replies
    BY <2>1
  <2>3. QED
    BY <2>2 DEF Inv, Course
<1>2. /\ ~Throws(reply)
      /\ lastMode' = IF TellsMode(reply) THEN [lastMode EXCEPT ![unit] = reply.arg] ELSE lastMode
      /\ UNCHANGED << stage, unit, mode, refusals >>
  BY <1>1 DEF Parse, program, ilcs
<1>3. AtExchange /\ unit \in DOMAIN lastMode
  BY ProgramExchange DEF Inv, Typed, Parse
<1> HIDE DEF reply
<1>4. Following' = Following
  BY <1>2 DEF Following
<1>5. CASE TellsMode(reply)
  <2>0. reply.arg = mode[unit] /\ (stage = "disable" => mode[unit] = "Disabled")
    BY <1>5 DEF Result, TellsMode, Throws, reply
  <2>1. lastMode'[unit] = mode[unit]
    BY <1>2, <1>3, <1>5, <2>0
  <2>2. stage \notin {"erase", "pages", "stats", "verify"}
    BY <1>1, <1>5 DEF TellsMode, Doing
  <2>3. QED
    BY <1>2, <1>3, <2>0, <2>1, <2>2
       DEF AtExchange, Programming, Stages, Following, Basis, Agree, Near
<1>6. CASE ~TellsMode(reply)
  <2>1. Basis(Following) /\ lastMode' = lastMode
    BY <1>2, <1>6 DEF Result, reply
  <2>2. QED
    BY <1>2, <1>4, <2>1 DEF Basis, Agree, Near
<1>7. QED
  BY <1>5, <1>6

(* On the way out of the application's modes, what may be on the bus keeps  *)
(* the ILC in the application.                                              *)
LEMMA LeavingAsks ==
  ASSUME Inv, Programming, exchange = "sending", wire # << >>,
         stage = "leave", lastMode[unit] \in Application
  PROVE  OnBus.unit = unit /\ OnBus.what = "CHANGE_MODE" /\ OnBus.arg \in {"Disabled", "Standby"}
<1>1. /\ OnBus.unit = unit /\ OnBus.what = Doing
      /\ \/ \E c : Wanted = << c >> /\ OnBus = c
         \/ OnBus \in {changeILCMode(unit, "Disabled"), changeILCMode(unit, "Standby")}
  BY OnBusIs
<1>2. Doing = "CHANGE_MODE"
  BY DEF Doing
<1>3. \A m : changeILCMode(unit, m).arg = m
  BY DEF changeILCMode, Command
<1>4. CASE \E c : Wanted = << c >> /\ OnBus = c
  <2>1. CASE lastMode[unit] = "Enabled"
    BY <1>4, <2>1, WantedTwo
  <2>2. CASE lastMode[unit] # "Enabled"
    <3>1. Wanted = Leave
      BY DEF Wanted
    <3>2. Leave = IF lastMode[unit] = "Disabled" THEN << changeILCMode(unit, "Standby") >> ELSE << >>
      BY <2>2 DEF Leave, Application
    <3>3. OnBus = changeILCMode(unit, "Standby")
      BY <1>4, <3>1, <3>2
    <3>4. QED
      BY <1>1, <1>2, <1>3, <3>3
  <2>3. QED
    BY <2>1, <2>2
<1>5. QED
  BY <1>1, <1>2, <1>3, <1>4

(* While a command is on the bus the ILC is still on its way out of the     *)
(* application's modes, or this is the only command and nothing came back.  *)
LEMMA OnBusKnown ==
  ASSUME Inv, Programming, exchange = "sending", wire # << >>, unit \notin upset
  PROVE  \/ Leaving
         \/ Basis(stage) /\ replies = << >> /\ Tail(wire) = << >>
            /\ \E c : Wanted = << c >> /\ OnBus = c
<1>1. Leaving \/ (wire = Wanted /\ replies = << >> /\ Basis(stage))
  BY DEF Inv, Known, Underway
<1>2. CASE stage = "leave" /\ lastMode[unit] = "Enabled" /\ Basis(stage) /\ replies = << >>
  BY <1>2 DEF Leaving, Basis, Agree, Application
<1>3. QED
  BY <1>1, <1>2, OnBusIs

(* What is known of the mode when an ILC does what it is told to.           *)
LEMMA AnswerKnown ==
  ASSUME Inv, Programming, unit \notin upset,
         NEW kind \in Kinds, NEW arg \in Args, Answer(kind, arg)
  PROVE  Underway'
<1> USE DEF program, TellsMode
<1>1. /\ exchange = "sending" /\ wire # << >> /\ exchange' = "sending" /\ wire' = Tail(wire)
      /\ Obeys(arg)
      /\ replies' = IF kind = "silent" THEN replies ELSE Append(replies, Reply(kind, arg))
      /\ refusals' = IF kind = "refused" /\ OnBus.what = "CHANGE_MODE"
                     THEN refusals \cup {OnBus.unit} ELSE refusals
      /\ UNCHANGED << lastMode, program >>
  BY DEF Answer, Back, Programming, Stages
<1>2. OnBus.unit = unit /\ OnBus.what = Doing
  BY <1>1, OnBusIs
<1>3. unit \in DOMAIN mode /\ replies \in Seq(Replies)
  BY DEF Inv, Typed
<1>4. /\ OnBus.what = "CHANGE_MODE" => arg \in Reached(mode[unit], OnBus.arg) /\ mode'[unit] = arg
      /\ OnBus.what # "CHANGE_MODE" => mode'[unit] = mode[unit]
      /\ OnBus.what = "SERVER_STATUS" => arg = mode[unit]
  <2>1. CASE OnBus.what = "CHANGE_MODE"
    BY <1>1, <1>2, <1>3, <2>1 DEF Obeys
  <2>2. CASE OnBus.what # "CHANGE_MODE"
    <3>1. OnBus.what \in {"SERVER_STATUS"} \cup Firmware
      BY <1>1, <2>2, OnBusTyped
    <3>2. QED
      BY <1>1, <1>2, <2>2, <3>1 DEF Obeys, Firmware
  <2>3. QED
    BY <2>1, <2>2
<1>5. PICK r : r = Reply(kind, arg)
  OBVIOUS
<1>6. /\ r.kind = kind /\ (kind = "answer" => r.arg = arg) /\ r.what = Doing
      /\ kind # "silent" => r \in Replies
  BY <1>1, <1>2, <1>5, OnBusTyped DEF Reply, Replies
<1>7. CASE Leaving
  <2>1. OnBus.what = "CHANGE_MODE" /\ OnBus.arg \in {"Disabled", "Standby"}
    BY <1>1, <1>7, LeavingAsks DEF Leaving
  <2>2. arg \in Application /\ mode'[unit] = arg
    BY <1>4, <1>7, <2>1, ReachedMode DEF Leaving
  <2>3. ASSUME NEW i \in DOMAIN replies', TellsMode(replies'[i]) PROVE replies'[i].arg \in Application
    <3>1. CASE kind = "silent"
      BY <1>1, <1>7, <2>3, <3>1 DEF Leaving
    <3>2. CASE kind # "silent"
      <4>1. /\ Len(replies') = Len(replies) + 1 /\ replies' \in Seq(Replies)
            /\ \A k \in 1..Len(replies) : replies'[k] = replies[k]
            /\ replies'[Len(replies) + 1] = r
        BY <1>1, <1>3, <1>5, <1>6, <3>2, AppendProperties
      <4>2. i \in 1..Len(replies) \/ i = Len(replies) + 1
        BY <1>3, <2>3, <4>1
      <4>3. CASE i \in 1..Len(replies)
        <5>1. replies'[i] = replies[i] /\ i \in DOMAIN replies
          BY <1>3, <4>1, <4>3
        <5>2. QED
          BY <1>7, <2>3, <5>1 DEF Leaving
      <4>4. CASE i = Len(replies) + 1
        BY <1>6, <2>2, <2>3, <4>1, <4>4
      <4>5. QED
        BY <4>2, <4>3, <4>4
    <3>3. QED
      BY <3>1, <3>2
  <2>4. Leaving'
    BY <1>1, <1>7, <2>2, <2>3 DEF Leaving
  <2>5. QED
    BY <2>4 DEF Underway
<1>8. CASE Basis(stage) /\ replies = << >> /\ Tail(wire) = << >> /\ \E c : Wanted = << c >> /\ OnBus = c
  <2>1. CASE kind = "silent"
    BY <1>1, <1>8, <2>1 DEF Underway
  <2>2. CASE kind # "silent"
    <3>1. Len(replies') = 1 /\ replies'[1] = r
      <4>1. replies' = Append(<< >>, r) /\ r \in Replies
        BY <1>1, <1>5, <1>6, <1>8, <2>2
      <4>2. QED
        BY <4>1
    <3>2. Result(r)'
      <4>1. CASE Throws(r) /\ ~TellsMode(r)
        BY <4>1 DEF Result, Throws
      <4>2. CASE TellsMode(r)
        <5>1. r.arg = mode'[unit]
          BY <1>2, <1>4, <1>6, <4>2
        <5>2. stage = "disable" => mode'[unit] = "Disabled"
          <6>1. SUFFICES ASSUME stage = "disable" PROVE mode'[unit] = "Disabled"
            OBVIOUS
          <6>2. Wanted = << changeILCMode(unit, "Disabled") >> /\ Doing = "CHANGE_MODE"
            BY <6>1 DEF Wanted, Doing
          <6>3. OnBus.arg = "Disabled"
            <7>1. OnBus = changeILCMode(unit, "Disabled")
              BY <1>8, <6>2
            <7>2. QED
              BY <7>1 DEF changeILCMode, Command
          <6>4. QED
            BY <1>2, <1>4, <6>2, <6>3, ReachedMode
        <5>3. QED
          BY <1>1, <4>2, <5>1, <5>2 DEF Result
      <4>3. CASE ~TellsMode(r) /\ ~Throws(r) /\ Doing # "CHANGE_MODE"
        <5>1. mode'[unit] = mode[unit] /\ AtExchange
          BY <1>1, <1>2, <1>4, <4>3, ProgramExchange
        <5>2. Doing # "SERVER_STATUS"
          <6>1. SUFFICES ASSUME Doing = "SERVER_STATUS" PROVE FALSE
            OBVIOUS
          <6>2. OnBus.what \notin Firmware
            BY <1>2, <6>1 DEF Firmware
          <6>3. kind \in {"answer", "bad", "unfit"}
            BY <1>2, <2>2, <6>1, <6>2 DEF Answer, Spoilt
          <6>4. QED
            BY <1>6, <4>3, <6>1, <6>3 DEF Throws
        <5>3. stage \in {"erase", "pages", "stats", "verify"}
          BY <4>3, <5>1, <5>2 DEF Doing, AtExchange, Programming, Stages
        <5>4. Basis(Following)'
          BY <1>1, <1>8, <5>1, <5>3 DEF Basis, Agree, Near, Following
        <5>5. QED
          BY <4>3, <5>4 DEF Result, Throws
      <4>4. CASE ~TellsMode(r) /\ ~Throws(r) /\ Doing = "CHANGE_MODE"
        <5>1. kind = "refused"
          <6>1. OnBus.what \notin Firmware
            BY <1>2, <4>4 DEF Firmware
          <6>2. kind \in {"answer", "bad", "unfit", "refused"}
            BY <1>2, <2>2, <4>4, <6>1 DEF Answer, Spoilt
          <6>3. QED
            BY <1>6, <4>4, <6>2 DEF Throws
        <5>2. unit \in refusals'
          BY <1>1, <1>2, <4>4, <5>1
        <5>3. AtExchange /\ Wanted # << >>
          BY <1>1, <1>8, ProgramExchange, Tuples
        <5>4. stage \in {"leave", "enter", "recover_clear", "clear", "standby", "unfault", "disable"}
          BY <4>4, <5>3 DEF Doing, AtExchange, Programming, Stages
        <5>5. stage \in {"leave", "enter", "recover_clear", "clear"} => lastMode[unit] # "Bootloader"
          BY <5>3 DEF Wanted, Leave, ClearIfFault
        <5>6. Basis(Following)'
          BY <1>1, <5>2, <5>4, <5>5 DEF Basis, Agree, Near, Following
        <5>7. QED
          BY <4>4, <5>6 DEF Result, Throws
      <4>5. QED
        BY <4>1, <4>2, <4>3, <4>4
    <3>3. QED
      BY <1>1, <1>8, <3>1, <3>2 DEF Underway
  <2>3. QED
    BY <2>1, <2>2
<1>9. QED
  BY <1>1, <1>7, <1>8, OnBusKnown

(* What is known of the mode when it does not.                              *)
LEMMA DeclineKnown ==
  ASSUME Inv, Programming, unit \notin upset,
         NEW kind \in Kinds, Decline(kind)
  PROVE  Underway'
<1> USE DEF program, TellsMode
<1>1. /\ exchange = "sending" /\ wire # << >> /\ exchange' = "sending" /\ wire' = Tail(wire)
      /\ replies' = IF kind = "silent" THEN replies ELSE Append(replies, Reply(kind, << >>))
      /\ refusals' = IF kind = "refused" /\ OnBus.what = "CHANGE_MODE"
                     THEN refusals \cup {OnBus.unit} ELSE refusals
      /\ UNCHANGED << lastMode, program, mode >>
      /\ kind # "answer"
  BY DEF Decline, Back, Spoilt, Programming, Stages
<1>2. OnBus.unit = unit /\ OnBus.what = Doing
  BY <1>1, OnBusIs
<1>3. replies \in Seq(Replies)
  BY DEF Inv, Typed
<1>4. PICK r : r = Reply(kind, << >>)
  OBVIOUS
<1>5. /\ r.kind = kind /\ r.what = Doing
      /\ kind # "silent" => r \in Replies
  BY <1>1, <1>2, <1>4, OnBusTyped DEF Reply, Replies
<1>6. CASE Leaving
  <2>1. ASSUME NEW i \in DOMAIN replies', TellsMode(replies'[i]) PROVE replies'[i].arg \in Application
    <3>1. CASE kind = "silent"
      BY <1>1, <1>6, <2>1, <3>1 DEF Leaving
    <3>2. CASE kind # "silent"
      <4>1. /\ Len(replies') = Len(replies) + 1 /\ replies' \in Seq(Replies)
            /\ \A k \in 1..Len(replies) : replies'[k] = replies[k]
            /\ replies'[Len(replies) + 1] = r
        BY <1>1, <1>3, <1>4, <1>5, <3>2, AppendProperties
      <4>2. i \in 1..Len(replies)
        BY <1>1, <1>3, <1>5, <2>1, <3>2, <4>1
      <4>3. replies'[i] = replies[i] /\ i \in DOMAIN replies
        BY <1>3, <4>1, <4>2
      <4>4. QED
        BY <1>6, <2>1, <4>3 DEF Leaving
    <3>3. QED
      BY <3>1, <3>2
  <2>2. Leaving'
    BY <1>1, <1>6, <2>1 DEF Leaving
  <2>3. QED
    BY <2>2 DEF Underway
<1>7. CASE Basis(stage) /\ replies = << >> /\ Tail(wire) = << >>
  <2>1. CASE kind = "silent"
    BY <1>1, <1>7, <2>1 DEF Underway
  <2>2. CASE kind # "silent"
    <3>1. Len(replies') = 1 /\ replies'[1] = r
      <4>1. replies' = Append(<< >>, r) /\ r \in Replies
        BY <1>1, <1>4, <1>5, <1>7, <2>2
      <4>2. QED
        BY <4>1
    <3>2. ~TellsMode(r)
      BY <1>1, <1>5
    <3>3. ASSUME ~Throws(r) PROVE Basis(Following)'
      <4>1. kind \in {"refused", "mistaken"} /\ (kind = "refused" => Doing = "CHANGE_MODE")
        BY <1>1, <1>5, <2>2, <3>3 DEF Throws, Kinds
      <4>2. kind = "mistaken" => Doing \in Firmware
        BY <1>2 DEF Decline, Spoilt
      <4>3. stage \notin {"status", "recover", "recover_status"} /\ AtExchange
        BY <1>1, <4>1, <4>2, ProgramExchange DEF Doing, Firmware
      <4>4. stage = "disable" => unit \in refusals'
        BY <1>1, <1>2, <4>1, <4>2 DEF Doing, Firmware
      <4>5. Basis(stage)'
        BY <1>1, <1>7, <4>4 DEF Basis, Agree, Near
      <4>6. QED
        BY <1>1, <4>3, <4>4, <4>5
           DEF Basis, Agree, Near, Following, AtExchange, Programming, Stages
    <3>4. Result(r)'
      BY <3>2, <3>3 DEF Result, Throws
    <3>5. QED
      BY <1>1, <1>7, <3>1, <3>4 DEF Underway
  <2>3. QED
    BY <2>1, <2>2
<1>8. QED
  BY <1>1, <1>6, <1>7, OnBusKnown

(* Every step keeps what is known of the mode.                              *)
LEMMA KnownStep ==
  ASSUME Inv, [CliNext]_allVars
  PROVE  Known'
<1> USE DEF vars, session, fpga, program, ilcs
<1>0. Typed /\ Control /\ Known /\ Course
  BY DEF Inv
<1>1. ASSUME stage' \notin Stages, stage' # "done" PROVE Known'
  BY <1>1 DEF Known, Programming
<1>2. ASSUME exchange' = "none", unit' \notin upset' => Basis(stage)' PROVE Known'
  BY <1>2 DEF Known
<1>3. CASE running = "none" /\ ((\E act \in Acts, units \in Seq(Units) : Exempt(act, units))
                                \/ \E act \in FillActs, units \in Seq(Units) : Fill(act, units))
  BY <1>0, <1>1, <1>3 DEF Exempt, Fill, Control, Stages
<1>4. ASSUME NEW u, NEW hex, Start(u, hex) PROVE Known'
  BY <1>4 DEF Start, Known, Basis
<1>5. CASE running = "none" /\ \E units \in Seq(Units) : \E hex \in Seq(IntelHexLine) : Loads(units, hex)
  BY <1>4, <1>5 DEF Loads
<1>6. CASE Forget
  BY <1>1, <1>6 DEF Forget, Stages
<1>7. CASE Send \/ SendFails \/ Sent
  BY <1>0, <1>1, <1>7 DEF Send, SendFails, Sent, Control, Stages
<1>8. CASE Idles \/ Done
  BY <1>8, KnownSame DEF Idles, Done
<1>9. CASE UNCHANGED session /\ \E u \in Units : Upset(u)
  <2>1. PICK u \in Units : Upset(u)
    BY <1>9
  <2>2. CASE stage = "idle"
    BY <1>1, <2>1, <2>2 DEF Upset, Stages
  <2>3. CASE stage # "idle" /\ u = unit
    <3>1. unit \in upset' /\ unit' = unit
      BY <2>1, <2>3 DEF Upset
    <3>2. QED
      BY <3>1 DEF Known
  <2>4. CASE stage # "idle" /\ u # unit
    <3>1. mode'[unit] = mode[unit] /\ (unit \notin upset' => unit \notin upset)
      BY <1>0, <2>1, <2>4 DEF Upset, Typed
    <3>2. QED
      BY <2>1, <3>1, KnownSame DEF Upset
  <2>5. QED
    BY <2>2, <2>3, <2>4
<1>10. CASE ProgramNext
  BY <1>1, <1>4, <1>10 DEF ProgramNext, Leaves, Stages
<1>11. CASE ProgramEnds
  BY <1>1, <1>11 DEF ProgramEnds, Leaves, Stages
<1>12. CASE UNCHANGED session /\ Request
  <2>1. AtExchange /\ exchange = "none" /\ Programming
    BY <1>12 DEF Request, AtExchange
  <2>2. CASE Wanted = << >>
    <3>1. exchange' = "none" /\ stage' = Skipped /\ UNCHANGED << lastMode, unit, mode, upset, refusals >>
      BY <1>12, <2>1, <2>2 DEF Request
    <3>2. unit \notin upset => Basis(Skipped)
      BY <1>0, <2>1, <2>2, SkippedBasis DEF Known
    <3>3. unit' \notin upset' => Basis(stage)'
      BY <3>1, <3>2 DEF Basis, Agree, Near
    <3>4. QED
      BY <1>2, <3>1, <3>3
  <2>3. CASE Wanted # << >>
    <3>1. /\ wire' = Wanted' /\ wire' # << >> /\ replies' = << >> /\ exchange' = "sending"
          /\ UNCHANGED << lastMode, program, ilcs >>
      BY <1>12, <2>3, RequestSends
    <3>2. unit' \notin upset' => Basis(stage)'
      BY <1>0, <2>1, <3>1 DEF Known, Basis, Agree, Near
    <3>3. stage' # "done"
      BY <2>1, <3>1 DEF Programming, Stages
    <3>4. QED
      BY <3>1, <3>2, <3>3 DEF Known, Underway
  <2>4. QED
    BY <2>2, <2>3
<1>13. CASE UNCHANGED session /\ Check
  <2>1. Programming /\ exchange = "none"
    BY <1>13, ProgramExchange DEF Check, Programming, AtExchange, Stages
  <2>2. unit \notin upset => Basis(stage)
    BY <1>0, <2>1 DEF Known
  <2>3. exchange' = "none"
    BY <1>13, <2>1 DEF Check
  <2>4. unit' \notin upset' => Basis(stage)'
    BY <1>13, <2>2 DEF Check, Basis, Agree, Near, Application
  <2>5. QED
    BY <1>2, <2>3, <2>4
<1>14. CASE UNCHANGED session /\ Prepare
  <2>1. Programming /\ exchange = "none"
    BY <1>14, ProgramExchange DEF Prepare, Programming, AtExchange, Stages
  <2>2. unit \notin upset => Basis(stage)
    BY <1>0, <2>1 DEF Known
  <2>3. /\ exchange' = "none" /\ stage = "prepare" /\ stage' \in {"crashed", "pages"}
        /\ UNCHANGED << lastMode, unit, mode, upset, refusals >>
    BY <1>14, <2>1 DEF Prepare
  <2>4. unit' \notin upset' => Basis(stage)'
    BY <2>2, <2>3 DEF Basis, Agree, Near
  <2>5. QED
    BY <1>2, <2>3, <2>4
<1>15. CASE UNCHANGED session /\ ProgramFails
  <2>1. exchange' = "none" /\ stage' \in {"recover", "failed"}
    BY <1>15 DEF ProgramFails, EndFailed, Failed
  <2>2. Basis(stage)'
    BY <2>1 DEF Basis
  <2>3. QED
    BY <1>2, <2>1, <2>2
<1>16. CASE UNCHANGED session /\ ProgramGoesOn
  <2>1. /\ Programming /\ exchange = "parsing" /\ replies = << >> /\ exchange' = "none"
        /\ stage' = Following
        /\ UNCHANGED << lastMode, unit, mode, upset, refusals >>
    BY <1>16 DEF ProgramGoesOn, EndParsed, Succeeded
  <2>2. unit \notin upset => Leaving \/ Basis(Following)
    <3>1. wire = << >> /\ exchange # "none"
      BY <1>0, <2>1 DEF Control
    <3>2. Len(replies) = 0
      BY <2>1
    <3>3. unit \notin upset => Underway
      BY <1>0, <2>1, <3>1 DEF Known
    <3>4. QED
      BY <2>1, <3>1, <3>2, <3>3 DEF Underway
  <2>3. Leaving => Basis(Following)
    BY DEF Leaving, Following, Basis, Near, Application
  <2>4. unit' \notin upset' => Basis(stage)'
    BY <2>1, <2>2, <2>3 DEF Basis, Agree, Near
  <2>5. QED
    BY <1>2, <2>1, <2>4
<1>17. CASE UNCHANGED session /\ BeginParse
  <2>1. /\ exchange = "sending" /\ exchange' = "parsing" /\ wire = << >> /\ wire' = << >>
        /\ replies # << >>
        /\ UNCHANGED << lastMode, replies, program, ilcs >>
    BY <1>17 DEF BeginParse
  <2>2. CASE Programming /\ unit \notin upset
    <3>1. Leaving \/ (Len(replies) = 1 /\ Result(replies[1]))
      BY <1>0, <2>1, <2>2 DEF Known, Underway
    <3>2. Leaving => Leaving'
      BY <2>1 DEF Leaving, TellsMode
    <3>3. Result(replies[1]) => Result(replies[1])'
      BY <2>1 DEF Result, TellsMode, Throws, Following, Basis, Agree, Near
    <3>4. Underway'
      BY <2>1, <3>1, <3>2, <3>3 DEF Underway
    <3>5. stage' # "done"
      BY <2>1, <2>2 DEF Programming, Stages
    <3>6. QED
      BY <2>1, <3>4, <3>5 DEF Known
  <2>3. CASE unit \in upset
    BY <2>1, <2>3 DEF Known
  <2>4. CASE ~Programming
    <3>1. stage = "idle"
      BY <1>0, <2>1, <2>4 DEF Control, AtExchange, Typed, Programming
    <3>2. QED
      BY <1>1, <2>1, <3>1 DEF Stages
  <2>5. QED
    BY <2>2, <2>3, <2>4
<1>18. CASE UNCHANGED session /\ Parse
  <2>1. /\ exchange = "parsing" /\ exchange' = "parsing" /\ wire = << >> /\ wire' = << >>
        /\ replies # << >> /\ replies' = Tail(replies)
        /\ UNCHANGED << program, ilcs >>
    BY <1>0, <1>18 DEF Parse, Control
  <2>2. CASE Programming /\ unit \notin upset
    <3>1. Leaving \/ (Len(replies) = 1 /\ Result(replies[1]))
      BY <1>0, <2>1, <2>2 DEF Known, Underway
    <3>2. replies \in Seq(Replies) /\ unit \in DOMAIN lastMode
      BY <1>0 DEF Typed
    <3>3. CASE Leaving
      <4>1. /\ 1 \in DOMAIN replies /\ Head(replies) = replies[1]
            /\ DOMAIN Tail(replies) = 1..Len(replies) - 1 /\ DOMAIN replies = 1..Len(replies)
            /\ Len(replies) \in Nat
            /\ \A i \in 1..Len(replies) - 1 : Tail(replies)[i] = replies[i + 1]
        BY <2>1, <3>2, HeadTailProperties
      <4>2. lastMode' = IF TellsMode(replies[1])
                        THEN [lastMode EXCEPT ![unit] = replies[1].arg] ELSE lastMode
        <5>1. replies[1].unit = unit
          BY <1>0, <2>2, <4>1 DEF Course
        <5>2. QED
          BY <1>18, <4>1, <5>1 DEF Parse
      <4>3. lastMode'[unit] \in Application
        BY <3>2, <3>3, <4>1, <4>2 DEF Leaving
      <4>4. ASSUME NEW i \in DOMAIN replies', TellsMode(replies'[i])
            PROVE  replies'[i].arg \in Application
        <5>1. i + 1 \in DOMAIN replies /\ replies'[i] = replies[i + 1]
          BY <2>1, <4>1, <4>4
        <5>2. QED
          BY <3>3, <4>4, <5>1 DEF Leaving
      <4>5. Leaving'
        BY <2>1, <3>3, <4>3, <4>4 DEF Leaving, TellsMode
      <4>6. QED
        BY <2>1, <2>2, <4>5 DEF Known, Underway, Programming, Stages
    <3>4. CASE Len(replies) = 1 /\ Result(replies[1])
      <4>1. Basis(Following)'
        BY <1>18, <2>2, <3>4, ParseBasis
      <4>2. replies' = << >>
        BY <2>1, <3>2, <3>4, HeadTailProperties
      <4>3. QED
        BY <2>1, <2>2, <4>1, <4>2 DEF Known, Underway, Programming, Stages
    <3>5. QED
      BY <3>1, <3>3, <3>4
  <2>3. CASE unit \in upset
    BY <2>1, <2>3 DEF Known
  <2>4. CASE ~Programming
    <3>1. stage = "idle"
      BY <1>0, <2>1, <2>4 DEF Control, AtExchange, Typed, Programming
    <3>2. QED
      BY <1>1, <2>1, <3>1 DEF Stages
  <2>5. QED
    BY <2>2, <2>3, <2>4
<1>19. CASE UNCHANGED session /\ ILCStep
  <2>1. Advance
    BY <1>19, Advances
  <2>2. CASE Programming /\ unit \notin upset
    <3>1. Underway'
      BY <1>19, <2>2, AnswerKnown, DeclineKnown DEF ILCStep
    <3>2. QED
      BY <2>1, <2>2, <3>1 DEF Known, Advance, Programming, Stages
  <2>3. CASE unit \in upset
    BY <2>1, <2>3 DEF Known, Advance
  <2>4. CASE ~Programming
    <3>1. stage = "idle"
      BY <1>0, <2>1, <2>4 DEF Control, AtExchange, Typed, Programming, Advance
    <3>2. QED
      BY <1>1, <2>1, <3>1 DEF Stages, Advance
  <2>5. QED
    BY <2>2, <2>3, <2>4
<1>20. QED
  BY <1>3, <1>5, <1>6, <1>7, <1>8, <1>9, <1>10, <1>11, <1>12, <1>13, <1>14, <1>15, <1>16,
     <1>17, <1>18, <1>19, Moves DEF ProgramStep, ExchangeStep

(* Every step keeps that the application was verified where it has to be.   *)
LEMMA AssuredStep ==
  ASSUME Inv, [CliNext]_allVars
  PROVE  Assured'
<1> USE DEF vars, session, fpga, program, ilcs
<1>0. Typed /\ Control /\ Assured /\ Course
  BY DEF Inv
<1> DEFINE LastOf == {"standby", "unfault", "disable", "done"}
<1>1. ASSUME stage' \notin LastOf, stage' # "verify" PROVE Assured'
  BY <1>1 DEF Assured
<1>2. CASE running = "none" /\ ((\E act \in Acts, units \in Seq(Units) : Exempt(act, units))
                                \/ \E act \in FillActs, units \in Seq(Units) : Fill(act, units))
  BY <1>0, <1>1, <1>2 DEF Exempt, Fill, Control
<1>3. CASE running = "none" /\ \E units \in Seq(Units) : \E hex \in Seq(IntelHexLine) : Loads(units, hex)
  BY <1>1, <1>3 DEF Loads, Start
<1>4. CASE Forget
  BY <1>1, <1>4 DEF Forget
<1>5. CASE Send \/ SendFails \/ Sent
  BY <1>0, <1>1, <1>5 DEF Send, SendFails, Sent, Control
<1>6. ASSUME UNCHANGED << unit, stage, replies, exchange, verified, misled >> PROVE Assured'
  BY <1>0, <1>6 DEF Assured, Vouched, Throws
<1>7. CASE Idles \/ Done \/ (UNCHANGED session /\ \E u \in Units : Upset(u))
  BY <1>6, <1>7 DEF Idles, Done, Upset
<1>8. CASE ProgramNext
  BY <1>1, <1>8 DEF ProgramNext, Leaves, Start
<1>9. CASE ProgramEnds
  BY <1>1, <1>9 DEF ProgramEnds, Leaves
<1>10. CASE UNCHANGED session /\ Request
  <2>1. AtExchange /\ exchange = "none" /\ Programming
    BY <1>10 DEF Request, AtExchange
  <2>2. CASE Wanted = << >>
    <3>1. /\ exchange' = "none" /\ stage' = Skipped /\ replies' = << >>
          /\ UNCHANGED << unit, verified, misled >>
      BY <1>0, <1>10, <2>1, <2>2 DEF Request, Control
    <3>2. stage # "verify"
      BY <2>2, Tuples DEF Wanted
    <3>3. Skipped \in LastOf => stage \in LastOf
      BY <2>1, <3>2 DEF Skipped, Following, AtExchange, Programming, Stages
    <3>4. QED
      BY <1>0, <3>1, <3>3 DEF Assured, Vouched
  <2>3. CASE Wanted # << >>
    <3>1. replies' = << >> /\ exchange' = "sending" /\ UNCHANGED << unit, stage, verified, misled >>
      BY <1>10, <2>3, RequestSends
    <3>2. QED
      BY <1>0, <3>1 DEF Assured, Vouched
  <2>4. QED
    BY <2>2, <2>3
<1>11. CASE UNCHANGED session /\ Check
  BY <1>1, <1>11 DEF Check
<1>12. CASE UNCHANGED session /\ Prepare
  <2>1. stage' \in {"crashed", "pages"}
    BY <1>12 DEF Prepare
  <2>2. QED
    BY <1>1, <2>1
<1>13. CASE UNCHANGED session /\ ProgramFails
  BY <1>1, <1>13 DEF ProgramFails, Failed
<1>14. CASE UNCHANGED session /\ ProgramGoesOn
  <2>1. /\ Programming /\ exchange = "parsing" /\ replies = << >> /\ exchange' = "none"
        /\ replies' = << >> /\ stage' = Following /\ UNCHANGED << unit, verified, misled >>
    BY <1>14 DEF ProgramGoesOn, EndParsed, Succeeded
  <2>2. AtExchange
    BY <2>1, ProgramExchange
  <2>3. Following \in LastOf => stage \in LastOf \cup {"verify"}
    BY <2>2 DEF AtExchange, Programming, Stages, Following
  <2>4. QED
    BY <1>0, <2>1, <2>3 DEF Assured, Vouched
<1>15. CASE UNCHANGED session /\ BeginParse
  <2>1. replies # << >> /\ UNCHANGED << unit, stage, replies, verified, misled >>
    BY <1>15 DEF BeginParse
  <2>2. QED
    BY <1>0, <2>1 DEF Assured, Vouched, Throws
<1>16. CASE UNCHANGED session /\ Parse
  <2>1. /\ replies # << >> /\ replies' = Tail(replies) /\ ~Throws(Head(replies))
        /\ exchange = "parsing"
        /\ UNCHANGED << unit, stage, verified, misled >>
    BY <1>16 DEF Parse
  <2>2. CASE stage = "verify"
    <3>1. replies \in Seq(Replies) /\ Len(replies) <= 1
      BY <1>0, <2>1, <2>2 DEF Typed, Course, Single, Programming, Stages
    <3>2. 1 \in DOMAIN replies /\ Head(replies) = replies[1]
      BY <2>1, <3>1
    <3>3. Vouched
      BY <1>0, <2>1, <2>2, <3>2 DEF Assured
    <3>4. QED
      BY <2>1, <2>2, <3>3 DEF Assured, Vouched
  <2>3. CASE stage # "verify"
    BY <1>0, <2>1, <2>3 DEF Assured, Vouched
  <2>4. QED
    BY <2>2, <2>3
<1>17. CASE UNCHANGED session /\ ILCStep
  <2>1. Advance
    BY <1>17, Advances
  <2>2. CASE stage \in LastOf
    <3>1. AtExchange /\ Programming
      BY <1>0, <2>1, <2>2 DEF Advance, Control, AtExchange
    <3>2. OnBus.what = "CHANGE_MODE"
      BY <2>1, <2>2, <3>1, OnBusIs DEF Doing, Advance
    <3>3. verified' = verified /\ misled \subseteq misled'
      BY <1>17, <3>2 DEF ILCStep, Answer, Obeys, Decline, Back
    <3>4. QED
      BY <1>0, <2>1, <2>2, <3>3 DEF Assured, Vouched, Advance
  <2>3. CASE stage = "verify"
    <3>1. Programming
      BY <2>3 DEF Programming, Stages
    <3>2. OnBus.unit = unit /\ OnBus.what = "WRITE_VERIFY_APPLICATION" /\ replies = << >>
      BY <2>1, <2>3, <3>1, OnBusIs DEF Doing, Advance
    <3>3. ASSUME NEW kind \in Kinds, NEW arg \in Args, Answer(kind, arg)
          PROVE  Assured'
      <4>1. PICK r : r = Reply(kind, arg)
        OBVIOUS
      <4>2. /\ r.kind = kind /\ (kind = "answer" => r.arg = arg)
            /\ r.what = "WRITE_VERIFY_APPLICATION"
            /\ kind # "silent" => r \in Replies
        BY <2>1, <3>2, <4>1, OnBusTyped DEF Reply, Replies, Advance
      <4>3. /\ verified' = IF arg = "done" THEN verified \cup {unit} ELSE verified
            /\ arg \in {"done", "invalid"}
        BY <3>2, <3>3 DEF Answer, Obeys
      <4>4. misled' = IF kind = "mistaken" /\ arg = "invalid" THEN misled \cup {"verified"} ELSE misled
        BY <3>2, <3>3, <4>3 DEF Answer, Back, Amiss
      <4>5. kind # "silent" /\ ~Throws(r) => Vouched'
        BY <2>1, <3>3, <4>2, <4>3, <4>4 DEF Throws, Kinds, Vouched, Advance
      <4>6. replies' = IF kind = "silent" THEN << >> ELSE Append(<< >>, r)
        BY <3>2, <3>3, <4>1 DEF Answer, Back
      <4>7. \A i \in DOMAIN replies' : replies'[i] = r /\ kind # "silent"
        BY <4>2, <4>6
      <4>8. stage' = "verify" /\ exchange' = "sending" /\ unit' = unit
        BY <2>1, <2>3 DEF Advance
      <4>9. QED
        BY <4>5, <4>7, <4>8 DEF Assured, Throws
    <3>4. ASSUME NEW kind \in Kinds, Decline(kind)
          PROVE  Assured'
      <4>1. PICK r : r = Reply(kind, << >>)
        OBVIOUS
      <4>2. /\ r.kind = kind /\ r.what = "WRITE_VERIFY_APPLICATION"
            /\ kind # "silent" => r \in Replies
        BY <2>1, <3>2, <4>1, OnBusTyped DEF Reply, Replies, Advance
      <4>3. /\ kind # "answer"
            /\ kind = "mistaken" => "verified" \in misled'
        BY <3>2, <3>4 DEF Decline, Spoilt, Back, Amiss
      <4>4. kind # "silent" /\ ~Throws(r) => Vouched'
        BY <3>4, <4>2, <4>3 DEF Throws, Kinds, Vouched
      <4>5. replies' = IF kind = "silent" THEN << >> ELSE Append(<< >>, r)
        BY <3>2, <3>4, <4>1 DEF Decline, Back
      <4>6. \A i \in DOMAIN replies' : replies'[i] = r /\ kind # "silent"
        BY <4>2, <4>5
      <4>7. stage' = "verify" /\ exchange' = "sending" /\ unit' = unit
        BY <2>1, <2>3 DEF Advance
      <4>8. QED
        BY <4>4, <4>6, <4>7 DEF Assured, Throws
    <3>5. QED
      BY <1>17, <3>3, <3>4 DEF ILCStep
  <2>4. CASE stage \notin LastOf \cup {"verify"}
    BY <1>1, <2>1, <2>4 DEF Advance
  <2>5. QED
    BY <2>2, <2>3, <2>4
<1>18. QED
  BY <1>2, <1>3, <1>4, <1>5, <1>7, <1>8, <1>9, <1>10, <1>11, <1>12, <1>13, <1>14, <1>15,
     <1>16, <1>17, Moves DEF ProgramStep, ExchangeStep

-----------------------------------------------------------------------------
(* The flash of the ILC that is programmed.                                 *)

(* Whether a file makes sense depends on its records only.                  *)
LEMMA SaneSame ==
  ASSUME records' = records
  PROVE  Sane' <=> Sane
  BY DEF Sane, Covered, Covers, Meant, First

(* As does what is in flash, on the flash of the ILC.                       *)
LEMMA HoldsSame ==
  ASSUME UNCHANGED << unit, records >>, flash'[unit] = flash[unit], NEW k
  PROVE  Holds(k)' <=> Holds(k)
  BY DEF Holds

(* A step that touches nothing of it keeps Burnt.                           *)
LEMMA BurntSame ==
  ASSUME Burnt,
         UNCHANGED << unit, records, flash, written, stats, stage, pages, exchange, replies, wire, misled >>
  PROVE  Burnt'
<1>1. Proper' <=> Proper
  BY SaneSame DEF Proper
<1>2. Pages(records)' = Pages(records) /\ Statistics(records)' = Statistics(records)
  OBVIOUS
<1>3. ASSUME NEW k PROVE Holds(k)' <=> Holds(k)
  BY HoldsSame
<1>4. (written[unit] = Statistics(records))' <=> written[unit] = Statistics(records)
  OBVIOUS
<1>5. ASSUME NEW i PROVE Throws(replies[i])' <=> Throws(replies[i])
  BY DEF Throws
<1>6. QED
  BY <1>1, <1>2, <1>3, <1>4, <1>5 DEF Burnt, Outcome, Writing

(* Every step keeps the types that Burnt needs.                             *)
LEMMA ShapedStep ==
  ASSUME Inv, Shaped, [CliNext]_allVars
  PROVE  Shaped'
<1> USE DEF Shaped, vars, session, fpga, program, ilcs
<1>0. Shaped /\ << >> \in Seq(IntelHexLine)
  OBVIOUS
<1>1. CASE Idles
  BY <1>0, <1>1 DEF Idles
<1>2. CASE running = "none" /\ ((\E act \in Acts, units \in Seq(Units) : Exempt(act, units))
                                \/ \E act \in FillActs, units \in Seq(Units) : Fill(act, units))
  BY <1>0, <1>2 DEF Exempt, Fill
<1>3. CASE running = "none" /\ \E units \in Seq(Units) : \E hex \in Seq(IntelHexLine) : Loads(units, hex)
  BY <1>0, <1>3 DEF Loads, Start
<1>4. CASE Forget
  BY <1>0, <1>4 DEF Forget
<1>5. CASE Send \/ SendFails \/ Sent \/ Done
  BY <1>0, <1>5 DEF Send, SendFails, Sent, Done
<1>6. CASE ProgramNext
  BY <1>0, <1>6 DEF ProgramNext, Leaves, Start
<1>7. CASE ProgramEnds
  BY <1>0, <1>7 DEF ProgramEnds, Leaves
<1>8. CASE UNCHANGED session /\ (Request \/ Check)
  BY <1>0, <1>8 DEF Request, Check
<1>9. CASE UNCHANGED session /\ Prepare
  <2>1. UNCHANGED << records, flash, written >>
    BY <1>9 DEF Prepare
  <2>2. QED
    BY <1>0, <2>1
<1>10. CASE UNCHANGED session /\ (ProgramFails \/ ProgramGoesOn)
  BY <1>0, <1>10 DEF ProgramFails, ProgramGoesOn
<1>11. CASE UNCHANGED session /\ ExchangeStep
  BY <1>0, <1>11 DEF ExchangeStep, BeginParse, Parse
<1>12. CASE UNCHANGED session /\ ILCStep
  <2>1. Advance /\ OnBus.what \in {"SERVER_STATUS", "CHANGE_MODE"} \cup Firmware
    BY <1>12, Advances, OnBusTyped DEF Advance
  <2>2. UNCHANGED << records, stats >>
    BY <2>1 DEF Advance
  <2>3. ASSUME NEW kind, NEW arg, Answer(kind, arg)
        PROVE  DOMAIN flash' = DOMAIN flash /\ DOMAIN written' = DOMAIN written
    <3>1. Obeys(arg)
      BY <2>3 DEF Answer
    <3>2. QED
      BY <2>1, <3>1 DEF Obeys, Firmware
  <2>4. ASSUME NEW kind, Decline(kind)
        PROVE  UNCHANGED << flash, written >>
    BY <2>4 DEF Decline
  <2>5. QED
    BY <1>0, <1>12, <2>2, <2>3, <2>4 DEF ILCStep
<1>13. CASE UNCHANGED session /\ \E u \in Units : Upset(u)
  BY <1>0, <1>13 DEF Upset
<1>14. QED
  BY <1>1, <1>2, <1>3, <1>4, <1>5, <1>6, <1>7, <1>8, <1>9, <1>10, <1>11, <1>12, <1>13, Moves
     DEF ProgramStep

(* What is known of the pages of a file that makes sense.                   *)
LEMMA SanePages ==
  ASSUME Shaped, Sane
  PROVE  /\ Pages(records) \in Seq(PageData) /\ Len(Pages(records)) \in Nat
         /\ \A i, j \in 1..Len(Pages(records)) :
              Pages(records)[i].address = Pages(records)[j].address => i = j
<1>1. Described
  BY SaneDescribed DEF Shaped
<1>2. PICK M : CutIn(Pages(records), getData(records), M)
  BY <1>1, PagesCut
<1>3. M \in Nat /\ Pages(records) \in Seq(PageData) /\ Len(Pages(records)) = M
  BY <1>2 DEF CutIn
<1>4. PICK image : image = Pages(records)
  OBVIOUS
<1>5. ASSUME NEW i \in 1..M, NEW j \in 1..M, image[i].address = image[j].address PROVE i = j
  <2>1. SUFFICES ASSUME i # j PROVE FALSE
    OBVIOUS
  <2>2. PageSize \in Nat \ {0}
    BY ProgramAssumption
  <2>3. /\ image[i].address \in Nat /\ image[j].address \in Nat
        /\ \/ image[i].address + PageSize <= image[j].address
           \/ image[j].address + PageSize <= image[i].address
    BY <1>1, <1>2, <1>4, <2>1, PagesApart
  <2>4. QED
    BY <1>5, <2>2, <2>3
<1>6. QED
  BY <1>3, <1>4, <1>5

(* One more page is written.                                                *)
LEMMA HoldsMore ==
  ASSUME Shaped, Sane, NEW k \in Nat, k + 1 <= Len(Pages(records)), Holds(k),
         UNCHANGED << unit, records >>,
         NEW page, page = Pages(records)[k + 1],
         flash'[unit] = Overwritten(flash[unit], page)
  PROVE  Holds(k + 1)'
<1>1. PICK image : image = Pages(records)
  OBVIOUS
<1>2. PICK m : m = k + 1
  OBVIOUS
<1>3. /\ m \in 1..Len(image) /\ Len(image) \in Nat
      /\ \A i, j \in 1..Len(image) : image[i].address = image[j].address => i = j
  BY <1>1, <1>2, SanePages
<1>4. PICK old, new : old = flash[unit] /\ new = flash'[unit]
  OBVIOUS
<1>5. /\ DOMAIN old = {image[i].address : i \in 1..k}
      /\ \A i \in 1..k : old[image[i].address] = image[i].bytes
  BY <1>1, <1>4 DEF Holds
<1>6. new = [a \in DOMAIN old \cup {page.address} |->
               IF a = page.address THEN page.bytes ELSE old[a]]
  BY <1>4 DEF Overwritten
<1>7. page = image[m]
  BY <1>1, <1>2
<1>8. DOMAIN new = {image[i].address : i \in 1..m}
  <2>1. 1..m = 1..k \cup {m}
    BY <1>2
  <2>2. QED
    BY <1>5, <1>6, <1>7, <2>1
<1>9. ASSUME NEW i \in 1..m PROVE new[image[i].address] = image[i].bytes
  <2>1. CASE i = m
    BY <1>6, <1>7, <2>1
  <2>2. CASE i # m
    <3>1. i \in 1..k /\ i \in 1..Len(image)
      BY <1>2, <1>3, <2>2
    <3>2. image[i].address # page.address
      BY <1>3, <1>7, <2>2, <3>1
    <3>3. QED
      BY <1>5, <1>6, <3>1, <3>2
  <2>3. QED
    BY <2>1, <2>2
<1>10. QED
  BY <1>1, <1>2, <1>4, <1>8, <1>9 DEF Holds

Burning == {"erase", "prepare", "pages", "stats"} \cup Ending

(* An operation that does not touch the ILC, nor what is programmed.        *)
Aside == UNCHANGED << unit, records, flash, written >>

(* Such an operation changes nothing of what Burnt speaks of.               *)
LEMMA AsideSame ==
  ASSUME Aside
  PROVE  /\ Sane' <=> Sane
         /\ Pages(records)' = Pages(records) /\ Statistics(records)' = Statistics(records)
         /\ \A k : Holds(k)' <=> Holds(k)
         /\ written'[unit'] = written[unit]
<1>1. Sane' <=> Sane
  BY SaneSame DEF Aside
<1>2. Pages(records)' = Pages(records) /\ Statistics(records)' = Statistics(records)
  BY DEF Aside
<1>3. ASSUME NEW k PROVE Holds(k)' <=> Holds(k)
  BY HoldsSame DEF Aside
<1>4. QED
  BY <1>1, <1>2, <1>3 DEF Aside

(* An exchange begins, or there is none: all pages are written.             *)
LEMMA RequestBurnt ==
  ASSUME Inv, Shaped, Burnt, Request
  PROVE  Burnt'
<1>1. /\ Aside /\ UNCHANGED << pages, stats, misled >>
      /\ AtExchange /\ exchange = "none" /\ replies = << >>
  BY DEF Request, Aside, program, ilcs, Inv, Control
<1>2. SUFFICES ASSUME Proper PROVE Burnt'
  BY <1>1, AsideSame DEF Burnt, Proper
<1>3. CASE Wanted = << >>
  <2>1. stage' = Skipped /\ UNCHANGED << exchange, replies, wire >>
    BY <1>3 DEF Request, fpga
  <2>2. CASE stage = "pages"
    <3>1. pages = << >> /\ stage' = "stats"
      BY <1>3, <2>1, <2>2 DEF Wanted, Skipped
    <3>2. PICK k \in 0..Len(Pages(records)) : Writing(k)
      BY <1>2, <2>2 DEF Burnt
    <3>3. Pages(records) \in Seq(PageData) /\ Len(Pages(records)) \in Nat
      BY <1>2, SanePages DEF Proper
    <3>4. Len(SubSeq(Pages(records), k + 1, Len(Pages(records)))) = Len(Pages(records)) - k
      BY <3>3, SubSeqProperties
    <3>5. k = Len(Pages(records))
      <4>1. SubSeq(Pages(records), k + 1, Len(Pages(records))) = << >>
        BY <3>1, <3>2 DEF Writing
      <4>2. PICK L : L = Len(Pages(records))
        OBVIOUS
      <4>3. Len(<< >>) = L - k
        BY <3>4, <4>1, <4>2
      <4>4. Len(<< >>) = 0
        OBVIOUS
      <4>5. L \in Nat /\ k \in 0..L
        BY <3>3, <4>2
      <4>6. QED
        BY <4>2, <4>3, <4>4, <4>5
    <3>6. Holds(Len(Pages(records)))
      BY <1>1, <3>2, <3>5 DEF Writing
    <3>7. stats = Statistics(records)
      BY <1>2, <2>2 DEF Burnt
    <3>8. QED
      BY <1>1, <2>1, <3>1, <3>6, <3>7, AsideSame DEF Burnt, Ending, Outcome, Aside
  <2>3. CASE stage \in Ending
    <3>1. stage' \in Ending
      BY <1>1, <1>3, <2>1, <2>3, Tuples DEF AtExchange, Programming, Stages, Skipped, Following, Ending
    <3>2. Holds(Len(Pages(records))) /\ written[unit] = Statistics(records)
      BY <1>2, <2>3 DEF Burnt
    <3>3. QED
      BY <1>1, <3>1, <3>2, AsideSame DEF Burnt, Ending
  <2>4. CASE stage \notin Ending \cup {"pages"}
    <3>1. stage \notin {"erase", "stats"}
      BY <1>3, Tuples DEF Wanted
    <3>2. stage' \notin Burning
      BY <1>1, <2>1, <2>4, <3>1 DEF AtExchange, Programming, Stages, Skipped, Following, Burning, Ending
    <3>3. QED
      BY <3>2 DEF Burnt, Burning
  <2>5. QED
    BY <2>2, <2>3, <2>4
<1>4. CASE Wanted # << >>
  <2>1. replies' = << >> /\ exchange' = "sending" /\ wire' # << >> /\ stage' = stage
    BY <1>4, RequestSends DEF program
  <2>2. \A i \in DOMAIN replies' : FALSE
    BY <2>1
  <2>3. CASE stage = "pages"
    <3>1. PICK k \in 0..Len(Pages(records)) : Writing(k)
      BY <1>2, <2>3 DEF Burnt
    <3>2. pages # << >>
      BY <1>4, <2>3 DEF Wanted
    <3>3. Pages(records) \in Seq(PageData) /\ Len(Pages(records)) \in Nat
      BY <1>2, SanePages DEF Proper
    <3>4. k # Len(Pages(records))
      <4>1. SUFFICES ASSUME k = Len(Pages(records)) PROVE FALSE
        OBVIOUS
      <4>2. SubSeq(Pages(records), k + 1, Len(Pages(records))) = << >>
        BY <3>3, <4>1, SubSeqEmpty
      <4>3. QED
        BY <3>1, <3>2, <4>2 DEF Writing
    <3>5. Writing(k)'
      <4>1. pages' = SubSeq(Pages(records), k + 1, Len(Pages(records))) /\ Holds(k)
        BY <1>1, <3>1 DEF Writing
      <4>2. PICK L : L = Len(Pages(records))
        OBVIOUS
      <4>3. L \in Nat /\ k \in 0..L /\ k # L
        BY <3>3, <3>4, <4>2
      <4>4. k + 1 <= L
        BY <4>3
      <4>5. Outcome(Holds(k + 1))'
        BY <2>1, <2>2 DEF Outcome
      <4>6. QED
        BY <2>1, <4>1, <4>2, <4>4, <4>5, AsideSame, <1>1 DEF Writing
    <3>6. stats' = Statistics(records)
      BY <1>1, <1>2, <2>3 DEF Burnt, Aside
    <3>7. QED
      BY <1>1, <2>1, <2>3, <3>5, <3>6, AsideSame DEF Burnt, Ending
  <2>4. CASE stage # "pages"
    BY <1>1, <1>2, <2>1, <2>4, AsideSame DEF Burnt, Ending, Outcome, Aside, AtExchange
  <2>5. QED
    BY <2>3, <2>4
<1>5. QED
  BY <1>3, <1>4

(* The pages are cut from the file.                                         *)
LEMMA PrepareBurnt ==
  ASSUME Inv, Shaped, Burnt, Prepare
  PROVE  Burnt'
<1>1. /\ Aside /\ stage = "prepare" /\ exchange = "none"
      /\ UNCHANGED << exchange, replies, wire, misled >>
  BY DEF Prepare, Aside, ilcs, fpga, Inv, Control, AtExchange, Programming, Stages
<1>2. SUFFICES ASSUME Proper PROVE Burnt'
  BY <1>1, AsideSame DEF Burnt, Proper
<1>3. CASE records = << >>
  <2>1. stage' = "crashed"
    BY <1>3 DEF Prepare
  <2>2. QED
    BY <2>1 DEF Burnt, Ending
<1>4. CASE records # << >>
  <2>1. /\ stage' = "pages" /\ stats' = Statistics(records)
        /\ pages' = Pages(records)
    BY <1>4 DEF Prepare
  <2>3. stats' = Statistics(records)
    BY <2>1
  <2>4. Pages(records) \in Seq(PageData) /\ Len(Pages(records)) \in Nat
    BY <1>2, SanePages DEF Proper
  <2>5. SubSeq(Pages(records), 0 + 1, Len(Pages(records))) = Pages(records)
    BY <2>4, SubSeqFull
  <2>6. Holds(0)
    BY <1>1, <1>2 DEF Burnt
  <2>7. Writing(0)'
    BY <1>1, <2>1, <2>5, <2>6, AsideSame DEF Writing
  <2>8. 0 \in 0..Len(Pages(records))
    BY <2>4
  <2>9. QED
    BY <1>1, <2>1, <2>3, <2>7, <2>8, AsideSame DEF Burnt, Ending
<1>5. QED
  BY <1>3, <1>4

(* An exchange ends without an error: what it asked for was done.           *)
LEMMA GoesOnBurnt ==
  ASSUME Inv, Shaped, Burnt, ProgramGoesOn
  PROVE  Burnt'
<1>1. /\ Aside /\ UNCHANGED << stats, misled >> /\ Programming /\ AtExchange
      /\ exchange = "parsing" /\ replies = << >> /\ exchange' = "none" /\ replies' = << >>
      /\ stage' = Following /\ pages' = IF stage = "pages" THEN Tail(pages) ELSE pages
  BY ProgramExchange DEF ProgramGoesOn, EndParsed, Succeeded, Aside, ilcs
<1>2. SUFFICES ASSUME Proper PROVE Burnt'
  BY <1>1, AsideSame DEF Burnt, Proper
<1>3. CASE stage = "erase"
  <2>1. stage' = "prepare"
    BY <1>1, <1>3 DEF Following
  <2>2. Holds(0)
    BY <1>1, <1>2, <1>3 DEF Burnt, Outcome
  <2>3. QED
    BY <1>1, <2>1, <2>2, AsideSame DEF Burnt, Ending
<1>4. CASE stage = "pages"
  <2>1. stage' = "pages" /\ pages' = Tail(pages)
    BY <1>1, <1>4 DEF Following
  <2>2. PICK k \in 0..Len(Pages(records)) : Writing(k)
    BY <1>2, <1>4 DEF Burnt
  <2>3. Pages(records) \in Seq(PageData) /\ Len(Pages(records)) \in Nat
    BY <1>2, SanePages DEF Proper
  <2>4. k + 1 <= Len(Pages(records)) /\ Holds(k + 1)
    BY <1>1, <2>2 DEF Writing, Outcome
  <2>5. Tail(SubSeq(Pages(records), k + 1, Len(Pages(records))))
          = SubSeq(Pages(records), k + 1 + 1, Len(Pages(records)))
    BY <2>2, <2>3, <2>4, HeadTailOfSubSeq
  <2>6. pages' = SubSeq(Pages(records), k + 1 + 1, Len(Pages(records)))
    BY <2>1, <2>2, <2>5 DEF Writing
  <2>7. PICK m : m = k + 1
    OBVIOUS
  <2>8. Writing(m)'
    BY <1>1, <2>4, <2>6, <2>7, AsideSame DEF Writing
  <2>9. m \in 0..Len(Pages(records))
    BY <2>2, <2>3, <2>4, <2>7
  <2>10. stats' = Statistics(records)
    BY <1>1, <1>2, <1>4 DEF Burnt, Aside
  <2>11. QED
    BY <1>1, <2>1, <2>8, <2>9, <2>10, AsideSame DEF Burnt, Ending
<1>5. CASE stage = "stats"
  <2>1. stage' = "verify"
    BY <1>1, <1>5 DEF Following
  <2>2. Holds(Len(Pages(records))) /\ written[unit] = Statistics(records)
    BY <1>1, <1>2, <1>5 DEF Burnt, Outcome
  <2>3. QED
    BY <1>1, <2>1, <2>2, AsideSame DEF Burnt, Ending
<1>6. CASE stage \in Ending
  <2>1. stage' \in Ending
    BY <1>1, <1>6 DEF AtExchange, Programming, Stages, Following, Ending
  <2>2. Holds(Len(Pages(records))) /\ written[unit] = Statistics(records)
    BY <1>2, <1>6 DEF Burnt
  <2>3. QED
    BY <1>1, <2>1, <2>2, AsideSame DEF Burnt, Ending
<1>7. CASE stage \notin Burning
  <2>1. stage' \notin Burning
    BY <1>1, <1>7 DEF AtExchange, Programming, Stages, Following, Burning, Ending
  <2>2. QED
    BY <2>1 DEF Burnt, Burning
<1>8. QED
  BY <1>1, <1>3, <1>4, <1>5, <1>6, <1>7 DEF Burning, AtExchange

(* A reply that is parsed and does not throw is an answer.                  *)
LEMMA ParsingBurnt ==
  ASSUME Inv, Shaped, Burnt, BeginParse \/ Parse
  PROVE  Burnt'
<1>1. /\ Aside /\ UNCHANGED << stats, stage, pages, misled >>
      /\ exchange' = "parsing" /\ exchange # "none" /\ replies # << >> /\ wire' = << >>
  BY DEF BeginParse, Parse, Aside, program, ilcs, fpga, Inv, Control
<1>2. SUFFICES ASSUME Proper, stage \in Burning PROVE Burnt'
  BY <1>1, AsideSame DEF Burnt, Burning, Proper
<1>3. Programming /\ stage # "leave" /\ AtExchange
  BY <1>1, <1>2 DEF Inv, Control, Burning, Ending, AtExchange, Programming, Stages
<1>4. replies \in Seq(Replies) /\ Len(replies) = 1
  <2>1. replies \in Seq(Replies)
    BY DEF Inv, Typed
  <2>2. Len(replies) <= 1
    BY <1>1, <1>3 DEF Inv, Course, Single
  <2>3. PICK n \in Nat : n = Len(replies)
    BY <2>1
  <2>4. n # 0
    BY <1>1, <2>1, <2>3, EmptySeq
  <2>5. QED
    BY <2>1, <2>2, <2>3, <2>4
<1>5. ASSUME NEW done, Outcome(done), NEW done_, done_ <=> done
      PROVE  /\ \A i \in DOMAIN replies' : ~Throws(replies'[i]) => done_
             /\ exchange' = "parsing" /\ replies' = << >> => done_
  <2>1. CASE BeginParse
    BY <1>1, <1>5, <2>1 DEF BeginParse, Outcome
  <2>2. CASE Parse
    <3>1. replies' = Tail(replies) /\ ~Throws(Head(replies))
      BY <2>2 DEF Parse
    <3>2. Tail(replies) = << >> /\ Head(replies) = replies[1] /\ 1 \in DOMAIN replies
      BY <1>4, HeadTailProperties
    <3>3. done
      BY <1>5, <3>1, <3>2 DEF Outcome
    <3>4. QED
      BY <1>5, <3>1, <3>2, <3>3
  <2>3. QED
    BY <2>1, <2>2
<1>6. CASE stage = "pages"
  <2>1. PICK k \in 0..Len(Pages(records)) : Writing(k)
    BY <1>2, <1>6 DEF Burnt
  <2>2. k + 1 <= Len(Pages(records)) /\ Outcome(Holds(k + 1))
    BY <1>1, <2>1 DEF Writing
  <2>3. Holds(k + 1)' <=> Holds(k + 1)
    BY <1>1, AsideSame
  <2>4. Outcome(Holds(k + 1))'
    BY <1>5, <2>2, <2>3 DEF Outcome, Throws
  <2>5. Writing(k)'
    BY <1>1, <2>1, <2>2, <2>4, AsideSame DEF Writing
  <2>6. stats' = Statistics(records)
    BY <1>1, <1>2, <1>6 DEF Burnt, Aside
  <2>7. QED
    BY <1>1, <1>6, <2>1, <2>5, <2>6, AsideSame DEF Burnt, Ending
<1>7. CASE stage = "erase"
  <2>1. Outcome(Holds(0))
    BY <1>2, <1>7 DEF Burnt
  <2>2. Holds(0)' <=> Holds(0)
    BY <1>1, AsideSame
  <2>3. Outcome(Holds(0))'
    BY <1>5, <2>1, <2>2 DEF Outcome, Throws
  <2>4. QED
    BY <1>1, <1>7, <2>3 DEF Burnt, Ending
<1>8. CASE stage = "stats"
  <2>1. Outcome(written[unit] = Statistics(records)) /\ Holds(Len(Pages(records)))
        /\ stats = Statistics(records)
    BY <1>2, <1>8 DEF Burnt
  <2>2. (written[unit] = Statistics(records))' <=> written[unit] = Statistics(records)
    BY <1>1, AsideSame
  <2>3. Outcome(written[unit] = Statistics(records))'
    BY <1>5, <2>1, <2>2 DEF Outcome, Throws
  <2>4. QED
    BY <1>1, <1>8, <2>1, <2>3, AsideSame DEF Burnt, Ending, Aside
<1>9. CASE stage \in Ending
  BY <1>1, <1>2, <1>9, AsideSame DEF Burnt, Ending
<1>10. QED
  BY <1>2, <1>3, <1>6, <1>7, <1>8, <1>9 DEF Burning, AtExchange

(* An ILC gets a command of programILC: it does what it is told to, and its *)
(* answer may be lost, or it does nothing, and gives an error or none.      *)
LEMMA ObeysBurnt ==
  ASSUME Inv, Shaped, Burnt, Proper, stage \in Burning,
         NEW kind \in Kinds, NEW arg \in Args, Answer(kind, arg)
  PROVE  Burnt'
<1>1. Advance
  <2>1. ILCStep
    BY DEF ILCStep
  <2>2. QED
    BY <2>1, Advances
<1>2. /\ UNCHANGED << unit, records, stats, stage, pages, exchange >>
      /\ exchange = "sending" /\ wire # << >> /\ wire' = Tail(wire) /\ Obeys(arg)
  BY DEF Answer, Back, program
<1>3. Programming /\ AtExchange /\ stage # "leave"
  BY <1>2 DEF Inv, Control, AtExchange, Programming, Stages, Burning, Ending
<1>4. /\ OnBus.unit = unit /\ OnBus.what = Doing /\ wire' = << >>
      /\ \E c : Wanted = << c >> /\ OnBus = c
  BY <1>2, <1>3, OnBusIs
<1>5. unit \in DOMAIN flash /\ unit \in DOMAIN written
  BY DEF Shaped, Inv, Typed
<1>6. /\ Sane' <=> Sane
      /\ Pages(records)' = Pages(records) /\ Statistics(records)' = Statistics(records)
  BY <1>2, SaneSame
<1>7. CASE stage = "erase"
  <2>1. flash'[unit] = << >>
    BY <1>2, <1>4, <1>5, <1>7 DEF Obeys, Doing
  <2>2. Holds(0)'
    <3>1. PICK f : f = flash'[unit]
      OBVIOUS
    <3>2. PICK none : none = {Pages(records)[i].address : i \in 1..0}
      OBVIOUS
    <3>3. \A i \in 1..0 : FALSE
      OBVIOUS
    <3>4. none = {} /\ DOMAIN f = {}
      BY <2>1, <3>1, <3>2, <3>3
    <3>5. QED
      BY <1>2, <3>1, <3>2, <3>3, <3>4 DEF Holds
  <2>3. QED
    BY <1>2, <1>7, <2>2 DEF Burnt, Outcome, Ending
<1>8. CASE stage = "pages"
  <2>1. PICK k \in 0..Len(Pages(records)) : Writing(k)
    BY <1>8 DEF Burnt
  <2>2. /\ pages = SubSeq(Pages(records), k + 1, Len(Pages(records)))
        /\ Holds(k) /\ k + 1 <= Len(Pages(records))
    BY <1>2, <2>1 DEF Writing
  <2>3. Pages(records) \in Seq(PageData) /\ Len(Pages(records)) \in Nat
    BY SanePages DEF Proper
  <2>4. Head(pages) = Pages(records)[k + 1]
    BY <2>1, <2>2, <2>3, HeadTailOfSubSeq
  <2>5. OnBus.arg = Head(pages)
    <3>1. Wanted # << >>
      BY <1>4
    <3>2. Wanted = << writeApplicationPage(unit, Head(pages)) >>
      BY <1>8, <3>1 DEF Wanted
    <3>3. OnBus = writeApplicationPage(unit, Head(pages))
      BY <1>4, <3>2
    <3>4. QED
      BY <3>3 DEF writeApplicationPage, Command
  <2>6. flash' = [flash EXCEPT ![unit] = Overwritten(flash[unit], OnBus.arg)]
    BY <1>2, <1>4, <1>8 DEF Obeys, Doing
  <2>7. flash'[unit] = Overwritten(flash[unit], OnBus.arg)
    BY <1>5, <2>6
  <2>8. Holds(k + 1)'
    <3>1. PICK page : page = OnBus.arg
      OBVIOUS
    <3>2. page = Pages(records)[k + 1] /\ flash'[unit] = Overwritten(flash[unit], page)
      BY <2>4, <2>5, <2>7, <3>1
    <3>3. k \in Nat
      BY <2>1
    <3>4. UNCHANGED << unit, records >>
      BY <1>2
    <3>5. QED
      BY <2>2, <3>2, <3>3, <3>4, HoldsMore DEF Proper
  <2>9. Writing(k)'
    BY <1>2, <1>4, <1>6, <2>2, <2>8 DEF Writing, Outcome
  <2>10. stats' = Statistics(records)
    BY <1>2, <1>8 DEF Burnt
  <2>11. QED
    BY <1>2, <1>6, <1>8, <2>1, <2>9, <2>10 DEF Burnt, Ending
<1>9. CASE stage = "stats"
  <2>1. OnBus.arg = stats
    <3>1. Wanted = << writeApplicationStats(unit, stats) >>
      BY <1>9 DEF Wanted
    <3>2. OnBus = writeApplicationStats(unit, stats)
      BY <1>4, <3>1
    <3>3. QED
      BY <3>2 DEF writeApplicationStats, Command
  <2>2. written' = [written EXCEPT ![unit] = OnBus.arg] /\ UNCHANGED flash
    BY <1>2, <1>4, <1>9 DEF Obeys, Doing
  <2>3. /\ stats = Statistics(records)
        /\ Holds(Len(Pages(records)))
    BY <1>9 DEF Burnt, Ending
  <2>4. written'[unit] = Statistics(records)
    BY <1>5, <2>1, <2>2, <2>3
  <2>5. Holds(Len(Pages(records)))'
    BY <1>2, <2>2, <2>3, HoldsSame
  <2>6. QED
    BY <1>2, <1>6, <1>9, <2>3, <2>4, <2>5 DEF Burnt, Ending, Outcome
<1>10. CASE stage \in Ending
  <2>1. UNCHANGED << flash, written >>
    <3>1. OnBus.what \in {"CHANGE_MODE", "WRITE_VERIFY_APPLICATION"}
      BY <1>3, <1>4, <1>10 DEF Doing, Ending, Programming, Stages
    <3>2. QED
      BY <1>2, <3>1 DEF Obeys
  <2>2. Holds(Len(Pages(records))) /\ written[unit] = Statistics(records)
    BY <1>10 DEF Burnt
  <2>3. Holds(Len(Pages(records)))'
    BY <1>2, <2>1, <2>2, HoldsSame
  <2>4. QED
    BY <1>2, <1>6, <1>10, <2>1, <2>2, <2>3 DEF Burnt, Ending
<1>11. QED
  BY <1>3, <1>7, <1>8, <1>9, <1>10 DEF Burning, AtExchange

(* An ILC does nothing, and says so or is silent: that is no answer, unless *)
(* it is spoilt and mistaken for one.                                       *)
LEMMA DeclinesBurnt ==
  ASSUME Inv, Shaped, Burnt, Proper, Proper', stage \in Burning,
         NEW kind \in Kinds, Decline(kind)
  PROVE  Burnt'
<1>1. /\ Aside /\ UNCHANGED << stats, stage, pages, exchange >>
      /\ exchange = "sending" /\ wire # << >> /\ wire' = Tail(wire)
  BY DEF Decline, Back, program, Aside
<1>2. Programming /\ AtExchange /\ stage # "leave"
  BY <1>1 DEF Inv, Control, AtExchange, Programming, Stages, Burning, Ending
<1>3. /\ OnBus.unit = unit /\ OnBus.what = Doing /\ wire' = << >> /\ replies = << >>
  BY <1>1, <1>2, OnBusIs
<1>4. ASSUME stage \in {"erase", "pages", "stats"}
      PROVE  \A i \in DOMAIN replies' : Throws(replies'[i])
  <2>1. PICK r : r = Reply(kind, << >>)
    OBVIOUS
  <2>2. r.kind = kind /\ r.what = Doing
    BY <1>3, <2>1 DEF Reply
  <2>3. Doing \notin {"CHANGE_MODE", "WRITE_VERIFY_APPLICATION"}
    BY <1>4 DEF Doing
  <2>4. kind # "silent" => Throws(r)
    <3>1. kind = "mistaken" => "written" \in misled'
      BY <1>3, <2>3 DEF Decline, Back, Amiss
    <3>2. kind \notin {"answer", "mistaken"}
      BY <3>1 DEF Decline, Spoilt, Proper
    <3>3. QED
      BY <2>2, <2>3, <3>2 DEF Throws, Kinds
  <2>5. replies' = IF kind = "silent" THEN << >> ELSE Append(<< >>, r)
    BY <1>3, <2>1 DEF Decline, Back
  <2>6. \A i \in DOMAIN replies' : replies'[i] = r /\ kind # "silent"
    BY <2>5
  <2>7. QED
    BY <2>4, <2>6
<1>5. CASE stage = "pages"
  <2>1. PICK k \in 0..Len(Pages(records)) : Writing(k)
    BY <1>5 DEF Burnt
  <2>3. Outcome(Holds(k + 1))'
    BY <1>1, <1>4, <1>5 DEF Outcome, Throws
  <2>4. Writing(k)'
    BY <1>1, <2>1, <2>3, AsideSame DEF Writing
  <2>5. stats' = Statistics(records)
    BY <1>1, <1>5 DEF Burnt, Aside
  <2>6. QED
    BY <1>1, <1>5, <2>1, <2>4, <2>5, AsideSame DEF Burnt, Ending
<1>6. CASE stage = "erase"
  <2>1. Outcome(Holds(0))'
    BY <1>1, <1>4, <1>6 DEF Outcome, Throws
  <2>2. QED
    BY <1>1, <1>6, <2>1 DEF Burnt, Ending
<1>7. CASE stage = "stats"
  <2>1. Outcome(written[unit] = Statistics(records))'
    BY <1>1, <1>4, <1>7 DEF Outcome, Throws
  <2>2. Holds(Len(Pages(records))) /\ stats = Statistics(records)
    BY <1>7 DEF Burnt
  <2>3. QED
    BY <1>1, <1>7, <2>1, <2>2, AsideSame DEF Burnt, Ending, Aside
<1>8. CASE stage \in Ending
  BY <1>1, <1>8, AsideSame DEF Burnt, Ending
<1>9. QED
  BY <1>2, <1>5, <1>6, <1>7, <1>8 DEF Burning, AtExchange

(* Whatever an ILC does.                                                    *)
LEMMA ILCBurnt ==
  ASSUME Inv, Shaped, Burnt, ILCStep
  PROVE  Burnt'
<1>1. UNCHANGED << unit, records, stage >>
  BY Advances DEF Advance, program
<1>2. misled \subseteq misled'
  BY DEF ILCStep, Answer, Decline, Back
<1>3. SUFFICES ASSUME Proper, Proper', stage \in Burning PROVE Burnt'
  BY <1>1, <1>2, SaneSame DEF Burnt, Burning, Proper
<1>4. QED
  BY <1>3, ObeysBurnt, DeclinesBurnt DEF ILCStep

(* No file is programmed in the beginning.                                  *)
LEMMA BurntInit == CliInit => Burnt /\ Shaped
<1> SUFFICES ASSUME CliInit PROVE Burnt /\ Shaped
  OBVIOUS
<1>1. Burnt
  BY DEF CliInit, Init, Burnt, Ending
<1>2. Shaped
  <2>1. << >> \in Seq(IntelHexLine)
    OBVIOUS
  <2>2. QED
    BY <2>1 DEF CliInit, Init, Shaped
<1>3. QED
  BY <1>1, <1>2

(* Every step keeps what programILC has done to the ILC so far.             *)
LEMMA BurntStep ==
  ASSUME Inv, Shaped, Burnt, [CliNext]_allVars
  PROVE  Burnt'
<1> USE DEF vars, session, fpga, program, ilcs
<1>0. ASSUME stage' \notin Burning PROVE Burnt'
  BY <1>0 DEF Burnt, Burning
<1>1. CASE Idles
  BY <1>1, BurntSame DEF Idles
<1>2. CASE running = "none" /\ ((\E act \in Acts, units \in Seq(Units) : Exempt(act, units))
                                \/ \E act \in FillActs, units \in Seq(Units) : Fill(act, units))
  <2>1. stage' = "idle"
    BY <1>2 DEF Exempt, Fill, Inv, Control, Typed
  <2>2. QED
    BY <1>0, <2>1 DEF Burning, Ending
<1>3. CASE running = "none" /\ \E units \in Seq(Units) : \E hex \in Seq(IntelHexLine) : Loads(units, hex)
  BY <1>0, <1>3 DEF Loads, Start, Burning, Ending
<1>4. CASE Forget
  BY <1>0, <1>4 DEF Forget, Burning, Ending
<1>5. CASE Send \/ SendFails \/ Sent
  <2>1. stage' = "idle"
    BY <1>5 DEF Send, SendFails, Sent, Inv, Control, Typed
  <2>2. QED
    BY <1>0, <2>1 DEF Burning, Ending
<1>6. CASE Done
  BY <1>6, BurntSame DEF Done
<1>7. CASE ProgramNext
  BY <1>0, <1>7 DEF ProgramNext, Leaves, Start, Burning, Ending
<1>8. CASE ProgramEnds
  BY <1>0, <1>8 DEF ProgramEnds, Leaves, Burning, Ending
<1>9. CASE UNCHANGED session /\ Request
  BY <1>9, RequestBurnt
<1>10. CASE UNCHANGED session /\ Check
  <2>1. exchange' = "none" /\ replies' = << >>
    BY <1>10 DEF Check, Inv, Control, AtExchange, Programming, Stages
  <2>2. stage' \in {"failed", "clear", "erase"}
    BY <1>10 DEF Check
  <2>3. QED
    BY <2>1, <2>2 DEF Burnt, Ending, Outcome
<1>11. CASE UNCHANGED session /\ Prepare
  BY <1>11, PrepareBurnt
<1>12. CASE UNCHANGED session /\ ProgramFails
  BY <1>0, <1>12 DEF ProgramFails, Failed, Burning, Ending
<1>13. CASE UNCHANGED session /\ ProgramGoesOn
  BY <1>13, GoesOnBurnt
<1>14. CASE UNCHANGED session /\ ExchangeStep
  BY <1>14, ParsingBurnt DEF ExchangeStep
<1>15. CASE UNCHANGED session /\ ILCStep
  BY <1>15, ILCBurnt
<1>16. CASE UNCHANGED session /\ \E u \in Units : Upset(u)
  BY <1>16, BurntSame DEF Upset
<1>17. QED
  BY <1>1, <1>2, <1>3, <1>4, <1>5, <1>6, <1>7, <1>8, <1>9, <1>10, <1>11, <1>12, <1>13,
     <1>14, <1>15, <1>16, Moves DEF ProgramStep

-----------------------------------------------------------------------------
(* The theorems.                                                            *)

(* The layers depend on each other, and are kept together.                  *)
LEMMA InvInductive == Inv /\ [CliNext]_allVars => Inv'
  BY TypedStep, ControlStep, ListedStep, CourseStep, KnownStep, AssuredStep DEF Inv

(* They hold in every session.                                              *)
LEMMA Invariance == CliSpec => []Inv
  BY InvInit, InvInductive, PTL DEF CliSpec

(* Burnt needs the others, and they do not need it.                         *)
LEMMA BurntInductive == Inv /\ Shaped /\ Burnt /\ [CliNext]_allVars => (Inv /\ Shaped /\ Burnt)'
  BY InvInductive, ShapedStep, BurntStep

(* It holds in every session too.                                           *)
LEMMA BurntInvariance == CliSpec => [](Inv /\ Shaped /\ Burnt)
  BY InvInit, BurntInit, BurntInductive, PTL DEF CliSpec

(* Single commands of a stage, or rests of a list, are what was asked for.  *)
LEMMA InvAsked == Inv => OnlyWhatWasAsked
<1> SUFFICES ASSUME Inv, exchange = "sending"
             PROVE  /\ IsSuffix(wire, IF Programming THEN Wanted ELSE intended[Head(todo)])
                    /\ \A i \in DOMAIN wire : wire[i].unit \in disabled => Programming
  BY DEF OnlyWhatWasAsked
<1>1. CASE ~Programming
  <2>1. /\ wire \in Seq(Asks) /\ IsSuffix(wire, intended[Head(todo)])
        /\ todo \in Seq(Buses) /\ todo # << >>
        /\ \A b \in Buses : \A i \in DOMAIN intended[b] : intended[b][i].unit \notin disabled
    BY <1>1 DEF Inv, Control, AtExchange, Listed
  <2>2. Head(todo) \in Buses /\ intended[Head(todo)] \in Seq(Asks)
    BY <2>1, HeadTailProperties DEF Inv, Typed
  <2> DEFINE t == intended[Head(todo)]
  <2>3. \A i \in DOMAIN t : t[i].unit \notin disabled
    BY <2>1, <2>2
  <2> HIDE DEF t
  <2>4. Len(wire) <= Len(t) /\ \A i \in 1..Len(wire) : wire[i] = t[Len(t) - Len(wire) + i]
    BY <2>1, <2>2, SuffixPlaces DEF t
  <2>5. ASSUME NEW i \in DOMAIN wire PROVE wire[i].unit \notin disabled
    <3>1. Len(wire) \in Nat /\ Len(t) \in Nat /\ DOMAIN t = 1..Len(t) /\ i \in 1..Len(wire)
      BY <2>1, <2>2 DEF t
    <3>2. Len(t) - Len(wire) + i \in DOMAIN t
      BY <2>4, <3>1
    <3>3. QED
      BY <2>3, <2>4, <3>1, <3>2
  <2>6. QED
    BY <1>1, <2>1, <2>5
<1>2. CASE Programming
  <2>1. AtExchange /\ (wire = << >> \/ wire = Wanted \/ (stage = "leave" /\ Twofold))
    BY <1>2, ProgramExchange DEF Inv, Course, Single
  <2>2. ASSUME NEW S, Wanted \in Seq(S) PROVE IsSuffix(<< >>, Wanted) /\ IsSuffix(Wanted, Wanted)
    <3> DEFINE e == << >>
    <3>1. e \in Seq(S) /\ Len(e) = 0 /\ Len(Wanted) \in Nat
      BY <2>2
    <3> HIDE DEF e
    <3>2. Len(e) <= Len(Wanted) /\ \A i \in 1..Len(e) : e[i] = Wanted[Len(Wanted) - Len(e) + i]
      BY <3>1
    <3>3. IsSuffix(e, Wanted)
      BY <2>2, <3>1, <3>2, SuffixPlaces
    <3>4. QED
      BY <2>2, <3>3, SuffixSame DEF e
  <2>3. CASE stage = "leave" /\ lastMode[unit] = "Enabled"
    <3> DEFINE c == changeILCMode(unit, "Disabled")
               d == changeILCMode(unit, "Standby")
    <3>1. Wanted = << c, d >> /\ Tail(Wanted) = << d >>
      BY <2>3, WantedTwo
    <3> HIDE DEF c, d
    <3>2. Wanted \in Seq({c, d}) /\ Wanted # << >>
      BY <3>1
    <3>3. IsSuffix(Wanted, Wanted) /\ IsSuffix(<< >>, Wanted)
      BY <2>2, <3>2
    <3>4. IsSuffix(Tail(Wanted), Wanted)
      BY <3>2, <3>3, SuffixTail
    <3>5. QED
      BY <1>2, <2>1, <3>3, <3>4 DEF Twofold
  <2>4. CASE stage # "leave" \/ lastMode[unit] # "Enabled"
    <3>1. CASE Wanted = << >>
      <4>1. Wanted \in Seq({}) /\ wire = << >>
        BY <2>1, <2>4, <3>1 DEF Twofold
      <4>2. QED
        BY <1>2, <2>2, <4>1
    <3>2. CASE Wanted # << >>
      <4>1. PICK c : Wanted = << c >>
        BY <2>1, <2>4, <3>2, WantedOne
      <4>2. Wanted \in Seq({c})
        BY <4>1
      <4>3. wire \in {<< >>, Wanted}
        BY <2>1, <2>4 DEF Twofold
      <4>4. QED
        BY <1>2, <2>2, <4>2, <4>3
    <3>3. QED
      BY <3>1, <3>2
  <2>5. QED
    BY <2>3, <2>4
<1>3. QED
  BY <1>1, <1>2

(* What programILC has an ILC do by mode, when it can be sure of it.        *)
LEMMA InvModes ==
  ASSUME Inv, Sends, unit \notin upset
  PROVE  /\ OnBus.what \in Firmware => mode[unit] = "Bootloader"
         /\ OnBus.what = "CHANGE_MODE" /\ OnBus.arg \notin {"Bootloader", "ClearFaults"}
            /\ mode[unit] = "Bootloader" => Vouched
         /\ OnBus.what = "CHANGE_MODE"
            /\ (OnBus.arg = "Bootloader" \/ (OnBus.arg = "Standby" /\ mode[unit] = "Bootloader"))
              => OnBus.long
<1>1. Programming /\ exchange = "sending" /\ wire # << >> /\ AtExchange
  BY ProgramExchange DEF Sends
<1>2. OnBus.what = Doing
  BY <1>1, OnBusIs
<1>3. CASE Leaving
  <2>1. OnBus.what = "CHANGE_MODE" /\ OnBus.arg \in {"Disabled", "Standby"}
    BY <1>1, <1>3, LeavingAsks DEF Leaving
  <2>2. mode[unit] # "Bootloader"
    BY <1>3 DEF Leaving, Application
  <2>3. QED
    BY <2>1, <2>2 DEF Firmware
<1>4. ASSUME Basis(stage), NEW c, Wanted = << c >>, OnBus = c
      PROVE  /\ OnBus.what \in Firmware => mode[unit] = "Bootloader"
             /\ OnBus.what = "CHANGE_MODE" /\ OnBus.arg \notin {"Bootloader", "ClearFaults"}
                /\ mode[unit] = "Bootloader" => Vouched
             /\ OnBus.what = "CHANGE_MODE"
                /\ (OnBus.arg = "Bootloader" \/ (OnBus.arg = "Standby" /\ mode[unit] = "Bootloader"))
                  => OnBus.long
  <2> USE <1>1, <1>2, <1>4 DEF Basis, Agree, Near, Application, Wanted, Doing, Firmware,
          AtExchange, Programming, Stages, changeILCMode, Command, Long
  <2>1. CASE stage \in {"status", "recover", "recover_status"}
    BY <2>1
  <2>2. CASE stage \in {"erase", "pages", "stats", "verify"}
    BY <2>2
  <2>3. CASE stage = "leave"
    BY <2>3, Tuples DEF Leave
  <2>4. CASE stage \in {"recover_clear", "clear", "unfault"}
    BY <2>4, Tuples DEF ClearIfFault
  <2>5. CASE stage = "enter"
    BY <2>5, Tuples
  <2>6. CASE stage \in {"standby", "disable"}
    <3>1. Vouched
      BY <2>6 DEF Inv, Assured
    <3>2. QED
      BY <2>6, <3>1
  <2>7. QED
    BY <2>1, <2>2, <2>3, <2>4, <2>5, <2>6
<1>5. QED
  BY <1>1, <1>3, <1>4, OnBusKnown

(* The end of programILC is behind the verification and the way to          *)
(* Disabled.                                                                *)
LEMMA InvUpdated == Inv => (stage = "done" => Updated)
  BY DEF Inv, Known, Assured, Vouched, Basis, Updated

(* What runILCCommands and programILC send is a rest of what the command in *)
(* execution has put in the lists, never what another has left there, and   *)
(* an ILC that disableILC took out is sent to by program-ilc only.          *)
THEOREM OnlyAskedSent == CliSpec => []OnlyWhatWasAsked
  BY Invariance, InvAsked, PTL

(* programILC tells an ILC to erase or to write its application only when   *)
(* the ILC is in Bootloader mode, unless it left that mode by itself.       *)
THEOREM FirmwareInBootloader == CliSpec => []OnlyInBootloader
<1>1. Inv => OnlyInBootloader
  BY InvModes DEF OnlyInBootloader
<1>2. QED
  BY <1>1, Invariance, PTL

(* programILC tells an ILC in the bootloader to leave it only when the      *)
(* application was verified since it was last erased or written, or when a  *)
(* verification that failed came back, spoilt, as one that succeeded: no    *)
(* other loss, refusal or spoilt reply leads there.                         *)
THEOREM VerifiedBeforeLeaving == CliSpec => []NeverRunsUnverified
<1>1. Inv => NeverRunsUnverified
  BY InvModes DEF NeverRunsUnverified, Sends, Vouched
<1>2. QED
  BY <1>1, Invariance, PTL

(* changeILCMode gives the long time to every change between bootloader and *)
(* application that programILC asks for, though it goes by the last mode    *)
(* the ILC has reported.                                                    *)
THEOREM TimeForChanges == CliSpec => []TimeEnough
<1>1. Inv => TimeEnough
  BY InvModes DEF TimeEnough
<1>2. QED
  BY <1>1, Invariance, PTL

(* When programILC returns normally, the ILC was verified, and it is in     *)
(* Disabled mode unless it refused, or seemed to refuse, to get there or    *)
(* went elsewhere by itself. Its flash has every byte the file has, and     *)
(* zeros or the filler where the file says nothing, in pages of which no    *)
(* one was skipped or written at another address; and the checksum it has   *)
(* is the one of these bytes. The first fails only when the verification    *)
(* itself failed and came back, spoilt, as a success, the last only when    *)
(* erasing or writing did.                                                  *)
THEOREM ProgrammedTrue == CliSpec => []Programmed
<1>1. Inv /\ Shaped /\ Burnt => Programmed
  <2>1. SUFFICES ASSUME Inv, Shaped, Burnt, stage = "done"
                 PROVE  Updated /\ Copied
    BY DEF Programmed
  <2>2. records \in Seq(IntelHexLine)
    BY <2>1 DEF Shaped
  <2>3. Sane /\ "written" \notin misled =>
          Holds(Len(Pages(records))) /\ written[unit] = Statistics(records)
    BY <2>1 DEF Burnt, Proper, Ending
  <2>4. Copied
    BY <2>2, <2>3, CopiedWhenHeld
  <2>5. QED
    BY <2>1, <2>4, InvUpdated
<1>2. QED
  BY <1>1, BurntInvariance, PTL

=============================================================================
