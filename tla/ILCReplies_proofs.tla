--------------------------- MODULE ILCReplies_proofs ---------------------------
(* What the answers of ILCs are taken for, for any lists of commands, names and *)
(* numbers of sensors, and whatever the line makes of one frame and of the gaps *)
(* between the frames.                                                          *)
EXTENDS ILCReplies, SequenceTheorems, WellFoundedInduction, TLAPS

-----------------------------------------------------------------------------
(* Recursion.                                                                *)

(* What holds of 0, and of n + 1 when it holds of n, holds of all naturals. *)
LEMMA SetInduction ==
  ASSUME NEW S, 0 \in S, \A n \in Nat : n \in S => n + 1 \in S
  PROVE  Nat \subseteq S
<1>1. SUFFICES ASSUME Nat \ S # {} PROVE FALSE
  OBVIOUS
<1>2. PICK n \in Nat \ S : \A m \in Nat \ S : ~(<<m, n>> \in OpToRel(<, Nat))
  <2>1. Nat \ S \subseteq Nat
    OBVIOUS
  <2>2. QED
    BY <1>1, <2>1, NatLessThanWellFounded, WFMin
<1>3. \A m \in Nat \ S : ~(m < n)
  BY <1>2 DEF OpToRel
<1>4. n - 1 \in Nat /\ n - 1 \in S
  BY <1>3
<1>5. QED
  BY <1>4

(* f is what a turn, a function of the place and of what there was before,  *)
(* makes of x in m iterations.                                              *)
Iterates(f, m, X, x, turn) ==
  /\ f \in [0..m -> X]
  /\ f[0] = x
  /\ \A n \in 1..m : f[n] = turn[n][f[n - 1]]

(* TLAPS expands a recursive function by a CHOOSE: this is what there is to *)
(* choose.                                                                  *)
LEMMA IterationExists ==
  ASSUME NEW X, NEW x \in X, NEW N \in Nat,
         NEW turn, \A n \in Nat, q \in X : turn[n][q] \in X
  PROVE  \E f : Iterates(f, N, X, x, turn)
<1> DEFINE S == {m \in Nat : \E f : Iterates(f, m, X, x, turn)}
<1>1. 0 \in S
  <2>1. Iterates([n \in 0..0 |-> x], 0, X, x, turn)
    BY DEF Iterates
  <2>2. QED
    BY <2>1
<1>2. ASSUME NEW m \in Nat, m \in S PROVE m + 1 \in S
  <2>1. PICK f : Iterates(f, m, X, x, turn)
    BY <1>2
  <2> SUFFICES \E g : Iterates(g, m + 1, X, x, turn)
    OBVIOUS
  <2> HIDE DEF S
  <2> DEFINE g == [n \in 0..m + 1 |-> IF n = m + 1 THEN turn[n][f[m]] ELSE f[n]]
  <2>2. g \in [0..m + 1 -> X]
    <3>1. m \in 0..m /\ \A n \in 0..m + 1 : n = m + 1 \/ n \in 0..m
      OBVIOUS
    <3>2. \A n \in 0..m : f[n] \in X
      BY <2>1 DEF Iterates
    <3>3. turn[m + 1][f[m]] \in X
      BY <3>1, <3>2
    <3>4. QED
      BY <3>1, <3>2, <3>3
  <2>3. g[0] = x
    <3>1. 0 # m + 1 /\ 0 \in 0..m + 1
      OBVIOUS
    <3>2. f[0] = x
      BY <2>1 DEF Iterates
    <3>3. QED
      BY <3>1, <3>2
  <2>4. ASSUME NEW n \in 1..m + 1 PROVE g[n] = turn[n][g[n - 1]]
    <3>1. CASE n = m + 1
      <4>1. n - 1 = m /\ m # m + 1 /\ m \in 0..m + 1 /\ n \in 0..m + 1
        BY <3>1
      <4>2. g[n] = turn[n][f[m]] /\ g[m] = f[m]
        BY <3>1, <4>1
      <4>3. QED
        BY <4>1, <4>2
    <3>2. CASE n # m + 1
      <4>1. n \in 1..m /\ n - 1 # m + 1 /\ n - 1 \in 0..m + 1 /\ n \in 0..m + 1
        BY <3>2
      <4>2. g[n] = f[n] /\ g[n - 1] = f[n - 1]
        BY <3>2, <4>1
      <4> HIDE DEF g
      <4>3. QED
        BY <2>1, <4>1, <4>2 DEF Iterates
    <3>3. QED
      BY <3>1, <3>2
  <2> HIDE DEF g
  <2>5. Iterates(g, m + 1, X, x, turn)
    BY <2>2, <2>3, <2>4 DEF Iterates
  <2>6. QED
    BY <2>5
<1> HIDE DEF S
<1>3. Nat \subseteq S
  BY <1>1, <1>2, SetInduction
<1>4. QED
  BY <1>3 DEF S

----------------------------------------------------------------------------
(* Frames.                                                                   *)

PlainByte == [v : Nat, k : Nat, of : Nat]
CRCByte == [crc : Seq(PlainByte), k : 1 .. 2]
Byte == PlainByte \cup CRCByte \cup { Spoilt }

FieldType == Nat \X Nat

(* The three kinds of bytes are told apart by their fields.                  *)
LEMMA Kinds ==
  /\ \A b \in PlainByte : /\ "v" \in DOMAIN b /\ "crc" \notin DOMAIN b
                          /\ b.v \in Nat /\ b.k \in Nat
  /\ \A b \in CRCByte : /\ "crc" \in DOMAIN b /\ "v" \notin DOMAIN b
                        /\ b.crc \in Seq(PlainByte) /\ b.k \in 1 .. 2
  /\ "v" \notin DOMAIN Spoilt /\ "crc" \notin DOMAIN Spoilt
<1>1. \A b \in PlainByte : DOMAIN b = {"v", "k", "of"} /\ b.v \in Nat /\ b.k \in Nat
  BY DEF PlainByte
<1>2. \A b \in CRCByte : DOMAIN b = {"crc", "k"} /\ b.crc \in Seq(PlainByte) /\ b.k \in 1 .. 2
  BY DEF CRCByte
<1>3. DOMAIN Spoilt = {"spoilt"}
  BY DEF Spoilt
<1>4. QED
  BY <1>1, <1>2, <1>3

(* The bytes of a number.                                                    *)
LEMMA FieldIs ==
  ASSUME NEW v \in Nat, NEW n \in Nat
  PROVE  /\ Field(v, n) \in Seq(PlainByte) /\ Len(Field(v, n)) = n
         /\ \A k \in 1 .. n : Field(v, n)[k] = [v |-> v, k |-> k, of |-> n]
<1>1. \A k \in 1 .. n : [v |-> v, k |-> k, of |-> n] \in PlainByte
  BY DEF PlainByte
<1>2. QED
  BY <1>1 DEF Field

(* What is written in turn, field by field behind address and function.      *)
Writes(w, a, f, fields) ==
    /\ w[0] = Field(a, 1) \o Field(f, 1)
    /\ \A i \in 1 .. Len(fields) : w[i] = w[i - 1] \o Field(fields[i][1], fields[i][2])

Recurs(w, a, f, fields) ==
    w = [i \in 0 .. Len(fields) |->
            IF i = 0 THEN Field(a, 1) \o Field(f, 1)
            ELSE w[i - 1] \o Field(fields[i][1], fields[i][2])]

(* Payload is such a loop.                                                   *)
LEMMA PayloadIs ==
  ASSUME NEW a \in Nat, NEW f \in Nat, NEW fields \in Seq(FieldType)
  PROVE  \E w : Writes(w, a, f, fields) /\ Payload(a, f, fields) = w[Len(fields)]
<1>1. PICK N \in Nat : N = Len(fields)
  OBVIOUS
<1>2. PICK X : X = Seq(PlainByte)
  OBVIOUS
<1>3. PICK part : part = [n \in 1 .. N |-> Field(fields[n][1], fields[n][2])]
  OBVIOUS
<1>4. \A n \in 1 .. N : part[n] \in X
  <2>1. \A n \in 1 .. N : fields[n][1] \in Nat /\ fields[n][2] \in Nat
    BY <1>1 DEF FieldType
  <2>2. QED
    BY <1>2, <1>3, <2>1, FieldIs
<1>5. PICK begin : begin = Field(a, 1) \o Field(f, 1)
  OBVIOUS
<1>6. begin \in X
  <2>1. 1 \in Nat
    OBVIOUS
  <2>2. Field(a, 1) \in Seq(PlainByte) /\ Field(f, 1) \in Seq(PlainByte)
    BY <2>1, FieldIs
  <2>3. QED
    BY <1>2, <1>5, <2>2
<1>7. PICK turn : turn = [n \in Nat |-> [q \in X |-> IF n \in 1 .. N THEN q \o part[n] ELSE q]]
  OBVIOUS
<1>8. ASSUME NEW n \in Nat, NEW q \in X PROVE turn[n][q] \in X
  BY <1>2, <1>4, <1>7, <1>8
<1>9. PICK g : Iterates(g, N, X, begin, turn)
  BY <1>6, <1>8, IterationExists
<1>10. Recurs(g, a, f, fields)
  <2>1. g \in [0 .. N -> X] /\ g[0] = begin
    BY <1>9 DEF Iterates
  <2>2. ASSUME NEW i \in 0 .. N
        PROVE  g[i] = IF i = 0 THEN begin ELSE g[i - 1] \o Field(fields[i][1], fields[i][2])
    <3>1. CASE i = 0
      BY <2>1, <3>1
    <3>2. CASE i # 0
      <4>1. i \in 1 .. N /\ i \in Nat /\ i - 1 \in 0 .. N
        BY <3>2
      <4>2. g[i - 1] \in X /\ g[i] = turn[i][g[i - 1]]
        BY <1>9, <2>1, <4>1 DEF Iterates
      <4>3. turn[i][g[i - 1]] = g[i - 1] \o part[i]
        BY <1>7, <4>1, <4>2
      <4>4. QED
        BY <1>3, <3>2, <4>1, <4>2, <4>3
    <3>3. QED
      BY <3>1, <3>2
  <2>3. g = [i \in 0 .. N |-> IF i = 0 THEN begin
                              ELSE g[i - 1] \o Field(fields[i][1], fields[i][2])]
    BY <2>1, <2>2
  <2>4. QED
    BY <1>1, <1>5, <2>3 DEF Recurs
<1>11. PICK w : Recurs(w, a, f, fields) /\ Payload(a, f, fields) = w[Len(fields)]
  BY <1>10 DEF Recurs, Payload
<1>12. \A i \in 0 .. Len(fields) :
          w[i] = IF i = 0 THEN Field(a, 1) \o Field(f, 1)
                 ELSE w[i - 1] \o Field(fields[i][1], fields[i][2])
  BY <1>11 DEF Recurs
<1>13. 0 \in 0 .. Len(fields) /\ \A i \in 1 .. Len(fields) : i \in 0 .. Len(fields) /\ i # 0
  BY <1>1
<1>14. Writes(w, a, f, fields)
  <2>1. w[0] = Field(a, 1) \o Field(f, 1)
    BY <1>12, <1>13
  <2>2. \A i \in 1 .. Len(fields) : w[i] = w[i - 1] \o Field(fields[i][1], fields[i][2])
    BY <1>12, <1>13
  <2>3. QED
    BY <2>1, <2>2 DEF Writes
<1>15. QED
  BY <1>11, <1>14

(* The place behind the i-th field.                                          *)
Reaches(r, sizes) ==
    /\ r \in [0 .. Len(sizes) -> Nat]
    /\ r[0] = 2
    /\ \A i \in 1 .. Len(sizes) : r[i] = r[i - 1] + sizes[i]

Adds(r, sizes) ==
    r = [i \in 0 .. Len(sizes) |-> IF i = 0 THEN 2 ELSE r[i - 1] + sizes[i]]

LEMMA ReachedIs ==
  ASSUME NEW sizes \in Seq(Nat)
  PROVE  Reaches(Reached(sizes), sizes)
<1>1. PICK N \in Nat : N = Len(sizes)
  OBVIOUS
<1>2. \A n \in 1 .. N : sizes[n] \in Nat
  BY <1>1
<1>3. PICK turn : turn = [n \in Nat |-> [q \in Nat |-> IF n \in 1 .. N THEN q + sizes[n] ELSE q]]
  OBVIOUS
<1>4. ASSUME NEW n \in Nat, NEW q \in Nat PROVE turn[n][q] \in Nat
  <2>1. turn[n][q] = IF n \in 1 .. N THEN q + sizes[n] ELSE q
    BY <1>3
  <2>2. QED
    BY <1>2, <2>1
<1>5. 2 \in Nat
  OBVIOUS
<1>6. PICK g : Iterates(g, N, Nat, 2, turn)
  BY <1>4, <1>5, IterationExists
<1>7. Adds(g, sizes)
  <2>1. g \in [0 .. N -> Nat] /\ g[0] = 2
    BY <1>6 DEF Iterates
  <2>2. ASSUME NEW i \in 0 .. N
        PROVE  g[i] = IF i = 0 THEN 2 ELSE g[i - 1] + sizes[i]
    <3>1. CASE i = 0
      BY <2>1, <3>1
    <3>2. CASE i # 0
      <4>1. i \in 1 .. N /\ i \in Nat /\ i - 1 \in 0 .. N
        BY <3>2
      <4>2. g[i - 1] \in Nat /\ g[i] = turn[i][g[i - 1]]
        BY <1>6, <2>1, <4>1 DEF Iterates
      <4>3. QED
        BY <1>3, <3>2, <4>1, <4>2
    <3>3. QED
      BY <3>1, <3>2
  <2>3. g = [i \in 0 .. N |-> IF i = 0 THEN 2 ELSE g[i - 1] + sizes[i]]
    BY <2>1, <2>2
  <2>4. QED
    BY <1>1, <2>3 DEF Adds
<1>8. PICK r : Adds(r, sizes) /\ Reached(sizes) = r
  BY <1>7 DEF Adds, Reached
<1>9. \A i \in 0 .. N : r[i] = IF i = 0 THEN 2 ELSE r[i - 1] + sizes[i]
  BY <1>1, <1>8 DEF Adds
<1>10. r[0] = 2
  BY <1>9
<1>11. \A i \in 1 .. N : r[i] = r[i - 1] + sizes[i]
  BY <1>9
<1>12. PICK S : S = {n \in Nat : n \in 0 .. N => r[n] \in Nat}
  OBVIOUS
<1>13. 0 \in S
  BY <1>10, <1>12
<1>14. ASSUME NEW n \in Nat, n \in S PROVE n + 1 \in S
  <2>1. CASE n + 1 \in 0 .. N
    <3>1. n \in 0 .. N /\ n + 1 \in 1 .. N /\ (n + 1) - 1 = n
      BY <2>1
    <3>2. r[n] \in Nat /\ r[n + 1] = r[n] + sizes[n + 1]
      BY <1>11, <1>12, <1>14, <3>1
    <3>3. QED
      BY <1>2, <1>12, <3>1, <3>2
  <2>2. QED
    BY <1>12, <2>1
<1>15. \A n \in 0 .. N : r[n] \in Nat
  <2>1. Nat \subseteq S
    BY <1>13, <1>14, SetInduction
  <2>2. QED
    BY <1>12, <2>1
<1>16. r \in [0 .. N -> Nat]
  <2>1. r = [i \in 0 .. N |-> IF i = 0 THEN 2 ELSE r[i - 1] + sizes[i]]
    BY <1>1, <1>8 DEF Adds
  <2>2. r = [i \in 0 .. N |-> r[i]]
    BY <2>1
  <2>3. QED
    BY <1>15, <2>2
<1>17. QED
  BY <1>1, <1>8, <1>10, <1>11, <1>16 DEF Reaches

(* Values and sizes of fields.                                               *)
Values(fields) == [i \in 1 .. Len(fields) |-> fields[i][1]]
Sizes(fields) == [i \in 1 .. Len(fields) |-> fields[i][2]]

LEMMA ColumnsAre ==
  ASSUME NEW fields \in Seq(FieldType)
  PROVE  /\ Values(fields) \in Seq(Nat) /\ Len(Values(fields)) = Len(fields)
         /\ Sizes(fields) \in Seq(Nat) /\ Len(Sizes(fields)) = Len(fields)
         /\ \A i \in 1 .. Len(fields) : /\ Values(fields)[i] = fields[i][1]
                                        /\ Sizes(fields)[i] = fields[i][2]
<1>1. \A i \in 1 .. Len(fields) : fields[i][1] \in Nat /\ fields[i][2] \in Nat
  BY DEF FieldType
<1>2. PICK N \in Nat : N = Len(fields)
  OBVIOUS
<1>3. QED
  BY <1>1, <1>2 DEF Values, Sizes

(* p has address and function and then each of m fields at its place.        *)
Placed(p, a, f, fields, r, m) ==
    /\ p \in Seq(PlainByte) /\ Len(p) = r[m] /\ Len(p) >= 2
    /\ p[1] = [v |-> a, k |-> 1, of |-> 1] /\ p[2] = [v |-> f, k |-> 1, of |-> 1]
    /\ \A i \in 1 .. m : \A y \in 1 .. fields[i][2] :
          /\ r[i - 1] + y \in 1 .. Len(p)
          /\ p[r[i - 1] + y] = [v |-> fields[i][1], k |-> y, of |-> fields[i][2]]

(* t is s with one more field.                                               *)
Extended(t, s, v, n) ==
    /\ t \in Seq(PlainByte) /\ Len(t) = Len(s) + n
    /\ \A x \in 1 .. Len(s) : t[x] = s[x]
    /\ \A y \in 1 .. n : t[Len(s) + y] = [v |-> v, k |-> y, of |-> n]

LEMMA PlacedStep ==
  ASSUME NEW s \in Seq(PlainByte), NEW v \in Nat, NEW n \in Nat
  PROVE  Extended(s \o Field(v, n), s, v, n)
<1>1. PICK q : q = Field(v, n)
  OBVIOUS
<1>2. q \in Seq(PlainByte) /\ Len(q) = n /\ \A k \in 1 .. n : q[k] = [v |-> v, k |-> k, of |-> n]
  BY <1>1, FieldIs
<1>3. PICK m \in Nat : m = Len(s)
  OBVIOUS
<1>4. PICK t : t = s \o q
  OBVIOUS
<1>5. t \in Seq(PlainByte) /\ Len(t) = m + Len(q)
      /\ (\A x \in 1 .. m : t[x] = s[x]) /\ (\A y \in 1 .. Len(q) : t[m + y] = q[y])
  <2>1. /\ t \in Seq(PlainByte) /\ Len(t) = Len(s) + Len(q)
        /\ \A i \in 1 .. Len(s) + Len(q) : t[i] = IF i <= Len(s) THEN s[i] ELSE q[i - Len(s)]
    BY <1>2, <1>4, ConcatProperties
  <2>2. PICK k \in Nat : k = Len(q)
    BY <1>2
  <2>3. \A i \in 1 .. m + k : t[i] = IF i <= m THEN s[i] ELSE q[i - m]
    BY <1>3, <2>1, <2>2
  <2>4. \A x \in 1 .. m : t[x] = s[x]
    BY <2>3
  <2>5. ASSUME NEW y \in 1 .. k PROVE t[m + y] = q[y]
    <3>1. m + y \in 1 .. m + k /\ ~(m + y <= m) /\ (m + y) - m = y
      OBVIOUS
    <3>2. QED
      BY <2>3, <3>1
  <2>6. QED
    BY <1>3, <2>1, <2>2, <2>4, <2>5
<1>6. Extended(t, s, v, n)
  BY <1>2, <1>3, <1>5 DEF Extended
<1>7. QED
  BY <1>1, <1>4, <1>6

LEMMA PayloadPlaced ==
  ASSUME NEW a \in Nat, NEW f \in Nat, NEW fields \in Seq(FieldType)
  PROVE  Placed(Payload(a, f, fields), a, f, fields, Reached(Sizes(fields)), Len(fields))
<1>1. PICK N \in Nat : N = Len(fields)
  OBVIOUS
<1>2. \A i \in 1 .. N : fields[i][1] \in Nat /\ fields[i][2] \in Nat
  BY <1>1 DEF FieldType
<1>3. PICK w : Writes(w, a, f, fields) /\ Payload(a, f, fields) = w[Len(fields)]
  BY PayloadIs
<1>4. PICK r : r = Reached(Sizes(fields))
  OBVIOUS
<1>5. /\ r \in [0 .. N -> Nat] /\ r[0] = 2
      /\ \A i \in 1 .. N : r[i] = r[i - 1] + fields[i][2]
  <2>1. Reaches(r, Sizes(fields))
    BY <1>4, ColumnsAre, ReachedIs
  <2>2. Len(Sizes(fields)) = N /\ \A i \in 1 .. N : Sizes(fields)[i] = fields[i][2]
    BY <1>1, ColumnsAre
  <2>3. QED
    BY <2>1, <2>2 DEF Reaches
<1>6. PICK S : S = {n \in Nat : n \in 0 .. N => Placed(w[n], a, f, fields, r, n)}
  OBVIOUS
<1>7. 0 \in S
  <2>1. PICK t : t = w[0]
    OBVIOUS
  <2>2. t = Field(a, 1) \o Field(f, 1)
    BY <1>3, <2>1 DEF Writes
  <2>3. Field(a, 1) \in Seq(PlainByte) /\ Len(Field(a, 1)) = 1 /\ Field(a, 1)[1] = [v |-> a, k |-> 1, of |-> 1]
    <3>1. 1 \in Nat /\ 1 \in 1 .. 1
      OBVIOUS
    <3>2. QED
      BY <3>1, FieldIs
  <2>4. /\ t \in Seq(PlainByte) /\ Len(t) = 2
        /\ t[1] = [v |-> a, k |-> 1, of |-> 1] /\ t[2] = [v |-> f, k |-> 1, of |-> 1]
    <3>1. 1 \in Nat /\ 1 \in 1 .. 1
      OBVIOUS
    <3>2. PICK s : s = Field(a, 1)
      OBVIOUS
    <3>3. s \in Seq(PlainByte) /\ Len(s) = 1 /\ s[1] = [v |-> a, k |-> 1, of |-> 1] /\ t = s \o Field(f, 1)
      BY <2>2, <2>3, <3>2
    <3>4. /\ t \in Seq(PlainByte) /\ Len(t) = Len(s) + 1
          /\ \A x \in 1 .. Len(s) : t[x] = s[x]
          /\ \A y \in 1 .. 1 : t[Len(s) + y] = [v |-> f, k |-> y, of |-> 1]
      <4>1. Extended(t, s, f, 1)
        BY <3>1, <3>3, PlacedStep
      <4>2. QED
        BY <4>1 DEF Extended
    <3>5. t[1 + 1] = [v |-> f, k |-> 1, of |-> 1]
      BY <3>1, <3>3, <3>4
    <3>6. QED
      BY <3>1, <3>3, <3>4, <3>5
  <2>5. Placed(t, a, f, fields, r, 0)
    BY <1>5, <2>4 DEF Placed
  <2>6. QED
    BY <1>6, <2>1, <2>5
<1>8. ASSUME NEW n \in Nat, n \in S PROVE n + 1 \in S
  <2>1. CASE n + 1 \in 0 .. N
    <3>1. n \in 0 .. N /\ n + 1 \in 1 .. N
      BY <2>1
    <3>2. PICK s, t, l, v, size : /\ s = w[n] /\ t = w[n + 1] /\ l = n + 1
                                  /\ v = fields[l][1] /\ size = fields[l][2]
      OBVIOUS
    <3>3. t = s \o Field(v, size)
      <4>1. l \in 1 .. Len(fields) /\ l - 1 = n
        BY <1>1, <3>1, <3>2
      <4>2. w[l] = w[l - 1] \o Field(fields[l][1], fields[l][2])
        BY <1>3, <4>1 DEF Writes
      <4>3. QED
        BY <3>2, <4>1, <4>2
    <3>4. Placed(s, a, f, fields, r, n)
      BY <1>6, <1>8, <3>1, <3>2
    <3>5. v \in Nat /\ size \in Nat
      BY <1>2, <3>1, <3>2
    <3>6. s \in Seq(PlainByte) /\ Len(s) = r[n] /\ Len(s) >= 2
      BY <3>4 DEF Placed
    <3>7. /\ t \in Seq(PlainByte) /\ Len(t) = Len(s) + size
          /\ \A x \in 1 .. Len(s) : t[x] = s[x]
          /\ \A y \in 1 .. size : t[Len(s) + y] = [v |-> v, k |-> y, of |-> size]
      <4>1. Extended(t, s, v, size)
        BY <3>3, <3>5, <3>6, PlacedStep
      <4>2. QED
        BY <4>1 DEF Extended
    <3>8. PICK m \in Nat : m = Len(s)
      BY <3>6
    <3>9. Len(t) = r[l] /\ Len(t) >= 2 /\ l - 1 = n
      <4>1. l \in 1 .. N /\ l - 1 = n
        BY <3>1, <3>2
      <4>2. r[l] = r[n] + size
        BY <1>5, <3>2, <4>1
      <4>3. QED
        BY <3>5, <3>6, <3>7, <4>1, <4>2
    <3>10. t[1] = [v |-> a, k |-> 1, of |-> 1] /\ t[2] = [v |-> f, k |-> 1, of |-> 1]
      <4>1. 1 \in 1 .. Len(s) /\ 2 \in 1 .. Len(s)
        BY <3>6
      <4>2. QED
        BY <3>4, <3>7, <4>1 DEF Placed
    <3>11. ASSUME NEW i \in 1 .. l, NEW y \in 1 .. fields[i][2]
           PROVE  /\ r[i - 1] + y \in 1 .. Len(t)
                  /\ t[r[i - 1] + y] = [v |-> fields[i][1], k |-> y, of |-> fields[i][2]]
      <4>1. CASE i \in 1 .. n
        <5>1. r[i - 1] + y \in 1 .. Len(s) /\ s[r[i - 1] + y] = [v |-> fields[i][1], k |-> y, of |-> fields[i][2]]
          BY <3>4, <4>1 DEF Placed
        <5>2. Len(s) <= Len(t) /\ Len(t) \in Nat
          BY <3>5, <3>6, <3>7
        <5>3. QED
          BY <3>7, <3>8, <5>1, <5>2
      <4>2. CASE i = l
        <5>1. r[i - 1] = m
          BY <3>6, <3>8, <3>9, <4>2
        <5>2. y \in 1 .. size
          BY <3>2, <4>2
        <5>3. t[m + y] = [v |-> v, k |-> y, of |-> size] /\ m + y \in 1 .. Len(t)
          BY <3>5, <3>7, <3>8, <5>2
        <5>4. QED
          BY <3>2, <4>2, <5>1, <5>3
      <4>3. QED
        BY <3>2, <4>1, <4>2
    <3>12. Placed(t, a, f, fields, r, l)
      BY <3>7, <3>9, <3>10, <3>11 DEF Placed
    <3>13. QED
      BY <1>6, <3>2, <3>12
  <2>2. QED
    BY <1>6, <2>1
<1>9. N \in S
  <2>1. Nat \subseteq S
    BY <1>7, <1>8, SetInduction
  <2>2. QED
    BY <2>1
<1>10. QED
  BY <1>1, <1>3, <1>4, <1>6, <1>9

(* The first n bytes of what was sealed, and the checksum.                   *)
LEMMA SealedIs ==
  ASSUME NEW T, NEW p \in Seq(T)
  PROVE  /\ Len(Sealed(p)) = Len(p) + 2
         /\ \A x \in 1 .. Len(p) : Sealed(p)[x] = p[x]
         /\ Sealed(p)[Len(p) + 1] = [crc |-> p, k |-> 1]
         /\ Sealed(p)[Len(p) + 2] = [crc |-> p, k |-> 2]
         /\ Sealed(p) \in Seq(T \cup {[crc |-> p, k |-> 1], [crc |-> p, k |-> 2]})
<1>1. PICK c : c = << [crc |-> p, k |-> 1], [crc |-> p, k |-> 2] >>
  OBVIOUS
<1>2. PICK U : U = T \cup {[crc |-> p, k |-> 1], [crc |-> p, k |-> 2]}
  OBVIOUS
<1>3. c \in Seq(U) /\ Len(c) = 2 /\ c[1] = [crc |-> p, k |-> 1] /\ c[2] = [crc |-> p, k |-> 2]
  BY <1>1, <1>2
<1>4. p \in Seq(U)
  BY <1>2
<1>5. PICK n \in Nat : n = Len(p)
  OBVIOUS
<1>6. PICK b : b = p \o c
  OBVIOUS
<1>7. b \in Seq(U) /\ Len(b) = n + 2 /\ (\A x \in 1 .. n : b[x] = p[x])
      /\ b[n + 1] = c[1] /\ b[n + 2] = c[2]
  <2>0. /\ b \in Seq(U) /\ Len(b) = Len(p) + Len(c)
        /\ \A i \in 1 .. Len(p) + Len(c) : b[i] = IF i <= Len(p) THEN p[i] ELSE c[i - Len(p)]
    BY <1>3, <1>4, <1>6, ConcatProperties
  <2>1. b \in Seq(U)
    BY <2>0
  <2>2. Len(b) = n + 2
    BY <1>3, <1>5, <2>0
  <2>3. \A x \in 1 .. n + 2 : b[x] = IF x <= n THEN p[x] ELSE c[x - n]
    BY <1>3, <1>5, <2>0
  <2>4. \A x \in 1 .. n : b[x] = p[x]
    BY <2>3
  <2>5. b[n + 1] = c[1] /\ b[n + 2] = c[2]
    BY <2>3
  <2>6. QED
    BY <2>1, <2>2, <2>4, <2>5
<1>8. b = Sealed(p)
  BY <1>1, <1>6 DEF Sealed
<1>9. QED
  BY <1>2, <1>3, <1>5, <1>7, <1>8

(* A number is read where it was written.                                    *)
LEMMA ReadIs ==
  ASSUME NEW T, NEW b \in Seq(T), NEW i \in Nat, NEW n \in Nat, NEW v \in Nat, i + n <= Len(b),
         \A y \in 1 .. n : b[i + y] = [v |-> v, k |-> y, of |-> n], n = 0 => v = 0
  PROVE  Read(b, i, n) = v
<1>1. CASE n = 0
  BY <1>1 DEF Read
<1>2. CASE n # 0
  <2>1. 1 \in 1 .. n /\ b[i + 1] = [v |-> v, k |-> 1, of |-> n]
    BY <1>2
  <2>2. "v" \in DOMAIN b[i + 1] /\ b[i + 1].v = v
    BY <2>1
  <2>3. PICK t : t = SubSeq(b, i + 1, i + n)
    OBVIOUS
  <2>4. t \in Seq(T) /\ Len(t) = n /\ \A y \in 1 .. n : t[y] = b[i + y]
    <3>1. i + 1 \in 1 .. Len(b) + 1 /\ i + n \in i .. Len(b)
      BY <1>2
    <3>2. PICK m, o : m = i + 1 /\ o = i + n
      OBVIOUS
    <3>3. m \in Nat /\ o \in Nat /\ m >= 1 /\ m <= o /\ o <= Len(b) /\ o - m + 1 = n
      BY <1>2, <3>2
    <3>4. t = SubSeq(b, m, o)
      BY <2>3, <3>2
    <3>5. t \in Seq(T) /\ Len(t) = o - m + 1 /\ \A y \in 1 .. o - m + 1 : t[y] = b[m + y - 1]
      BY <3>3, <3>4, SubSeqProperties
    <3>6. \A y \in 1 .. n : m + y - 1 = i + y
      BY <3>2
    <3>7. QED
      BY <3>3, <3>5, <3>6
  <2>5. t = Field(v, n)
    <3>1. t = [y \in 1 .. n |-> t[y]]
      BY <2>4
    <3>2. \A y \in 1 .. n : t[y] = [v |-> v, k |-> y, of |-> n]
      BY <2>4
    <3>3. t = [y \in 1 .. n |-> [v |-> v, k |-> y, of |-> n]]
      BY <3>1, <3>2
    <3>4. QED
      BY <3>3 DEF Field
  <2>6. QED
    BY <1>2, <2>2, <2>3, <2>5 DEF Read
<1>3. QED
  BY <1>1, <1>2

(* Nothing but zero fits into no bytes.                                      *)
Writable(fields) ==
    /\ fields \in Seq(FieldType)
    /\ \A i \in 1 .. Len(fields) : fields[i][2] = 0 => fields[i][1] = 0

(* Address and function, byte by byte.                                       *)
From(bytes, a, f) == Octet(bytes[1]) = {a} /\ Octet(bytes[2]) = {f}

(* What was sealed reads as it was written.                                  *)
LEMMA ReadsBack ==
  ASSUME NEW a \in Nat, NEW f \in Nat, NEW fields, Writable(fields),
         NEW bytes, bytes = Sealed(Payload(a, f, fields))
  PROVE  /\ From(bytes, a, f)
         /\ Fields(bytes, Sizes(fields)) = Values(fields)
         /\ Len(bytes) = Reached(Sizes(fields))[Len(fields)] + 2
<1>1. fields \in Seq(FieldType)
  BY DEF Writable
<1>2. PICK N \in Nat : N = Len(fields)
  BY <1>1
<1>3. PICK p : p = Payload(a, f, fields)
  OBVIOUS
<1>4. PICK r : r = Reached(Sizes(fields))
  OBVIOUS
<1>5. Placed(p, a, f, fields, r, N)
  BY <1>1, <1>2, <1>3, <1>4, PayloadPlaced
<1>6. p \in Seq(PlainByte) /\ Len(p) = r[N] /\ Len(p) >= 2
  BY <1>5 DEF Placed
<1>7. PICK T : T = PlainByte \cup {[crc |-> p, k |-> 1], [crc |-> p, k |-> 2]}
  OBVIOUS
<1>8. bytes \in Seq(T) /\ Len(bytes) = Len(p) + 2 /\ \A x \in 1 .. Len(p) : bytes[x] = p[x]
  BY <1>3, <1>6, <1>7, SealedIs
<1>9. PICK n \in Nat : n = Len(p)
  BY <1>6
<1>10. From(bytes, a, f)
  <2>1. 1 \in 1 .. n /\ 2 \in 1 .. n
    BY <1>6, <1>9
  <2>2. bytes[1] = [v |-> a, k |-> 1, of |-> 1] /\ bytes[2] = [v |-> f, k |-> 1, of |-> 1]
    BY <1>5, <1>8, <1>9, <2>1 DEF Placed
  <2>3. QED
    BY <2>2 DEF Octet, From
<1>11. /\ r \in [0 .. N -> Nat]
       /\ \A i \in 1 .. N : r[i] = r[i - 1] + fields[i][2]
  <2>1. Reaches(r, Sizes(fields))
    BY <1>1, <1>4, ColumnsAre, ReachedIs
  <2>2. Len(Sizes(fields)) = N /\ \A i \in 1 .. N : Sizes(fields)[i] = fields[i][2]
    BY <1>1, <1>2, ColumnsAre
  <2>3. QED
    BY <2>1, <2>2 DEF Reaches
<1>12. PICK S : S = {m \in Nat : m \in 0 .. N => r[N - m] <= r[N]}
  OBVIOUS
<1>13. \A m \in 0 .. N : r[m] <= n
  <2>1. 0 \in S
    BY <1>11, <1>12
  <2>2. ASSUME NEW m \in Nat, m \in S PROVE m + 1 \in S
    <3>1. CASE m + 1 \in 0 .. N
      <4>1. PICK l : l = N - m
        OBVIOUS
      <4>2. l \in 1 .. N /\ l - 1 = N - (m + 1) /\ m \in 0 .. N /\ l - 1 \in 0 .. N /\ l \in 0 .. N
        BY <3>1, <4>1
      <4>3. r[l] <= r[N] /\ r[l] = r[l - 1] + fields[l][2]
        BY <1>11, <1>12, <2>2, <4>1, <4>2
      <4>4. fields[l][2] \in Nat /\ r[l - 1] \in Nat /\ r[N] \in Nat
        <5>1. fields[l] \in FieldType /\ N \in 0 .. N
          BY <1>1, <1>2, <4>2
        <5>2. QED
          BY <1>11, <4>2, <5>1 DEF FieldType
      <4>5. r[l - 1] <= r[N]
        BY <4>3, <4>4
      <4>6. QED
        BY <1>12, <4>2, <4>5
    <3>2. QED
      BY <1>12, <3>1
  <2>3. Nat \subseteq S
    BY <2>1, <2>2, SetInduction
  <2>4. ASSUME NEW m \in 0 .. N PROVE r[m] <= n
    <3>1. N - m \in Nat /\ N - m \in 0 .. N /\ N - (N - m) = m
      OBVIOUS
    <3>2. N - m \in S
      BY <2>3, <3>1
    <3>3. QED
      BY <1>6, <1>9, <1>12, <3>1, <3>2
  <2>5. QED
    BY <2>4
<1>14. ASSUME NEW i \in 1 .. N
       PROVE  Read(bytes, r[i - 1], fields[i][2]) = fields[i][1]
  <2>1. PICK v, size, m : v = fields[i][1] /\ size = fields[i][2] /\ m = r[i - 1]
    OBVIOUS
  <2>2. v \in Nat /\ size \in Nat
    BY <1>1, <1>2, <2>1 DEF FieldType
  <2>3. i \in 0 .. N /\ i - 1 \in 0 .. N
    OBVIOUS
  <2>4. m \in Nat /\ m + size <= n
    BY <1>11, <1>13, <2>1, <2>3
  <2>5. \A y \in 1 .. size : bytes[m + y] = [v |-> v, k |-> y, of |-> size]
    BY <1>5, <1>8, <2>1 DEF Placed
  <2>6. size = 0 => v = 0
    BY <1>2, <2>1 DEF Writable
  <2>7. m + size <= Len(bytes)
    BY <1>8, <1>9, <2>2, <2>4
  <2>8. Read(bytes, m, size) = v
    <3>1. m \in Nat /\ bytes \in Seq(T)
      BY <1>8, <2>4
    <3>2. QED
      BY <2>2, <2>5, <2>6, <2>7, <3>1, ReadIs
  <2>9. QED
    BY <2>1, <2>8
<1>15. Fields(bytes, Sizes(fields)) = Values(fields)
  <2>1. DOMAIN Sizes(fields) = 1 .. N /\ \A i \in 1 .. N : Sizes(fields)[i] = fields[i][2]
    BY <1>2 DEF Sizes
  <2>2. Fields(bytes, Sizes(fields)) = [i \in 1 .. N |-> Read(bytes, r[i - 1], fields[i][2])]
    BY <1>4, <2>1 DEF Fields
  <2>3. Values(fields) = [i \in 1 .. N |-> fields[i][1]]
    BY <1>2 DEF Values
  <2>4. QED
    BY <1>14, <2>2, <2>3
<1>16. QED
  BY <1>2, <1>4, <1>6, <1>8, <1>10, <1>15

(* What an action reads, if it comes to it, are the fields that were written.*)
Laid(func, fields) ==
    /\ Writable(fields)
    /\ \A bytes : /\ Len(bytes) = Reached(Sizes(fields))[Len(fields)] + 2
                  /\ Fields(bytes, Sizes(fields)) = Values(fields)
                  => Layout(func, bytes) \in {NoLayout, Sizes(fields)}

(* The fields of the answers that are a few numbers each.                    *)
LEMMA LaidPlain ==
  ASSUME NEW func \in {18, 65, 72, 73, 81, 88, 89, 92, 107},
         NEW bit \in 0 .. 1, NEW fields \in Answers(func, bit)
  PROVE  Laid(func, fields)
<1>0. /\ \A bytes : Layout(18, bytes) = << 1, 2, 2 >>
      /\ \A bytes : Layout(65, bytes) = << 2 >>
      /\ \A bytes : Layout(72, bytes) = << 1 >>
      /\ \A bytes : \A f \in {73, 81, 92, 107} : Layout(f, bytes) = << >>
      /\ \A bytes : \A f \in {88, 89} : Layout(f, bytes) = << 1, 4, 1, 4 >>
  BY DEF Layout, ILCBusListLayout, ElectromechanicalLayout, ThermalLayout,
         ILC_EM_CMD, ILC_THERMAL_CMD, SENSOR_VALUES
<1> USE DEF Writable, FieldType, Sizes
<1>1. CASE func = 18
  <2>1. fields = << << bit, 1 >>, << 2 + bit, 2 >>, << 4 + bit, 2 >> >>
    BY <1>1 DEF Answers
  <2>2. Writable(fields)
    BY <2>1
  <2>3. Sizes(fields) = << 1, 2, 2 >>
    BY <2>1
  <2>4. QED
    BY <1>0, <1>1, <2>2, <2>3 DEF Laid
<1>2. CASE func = 65
  <2>1. fields = << << bit, 2 >> >>
    BY <1>2 DEF Answers
  <2>2. Writable(fields)
    BY <2>1
  <2>3. Sizes(fields) = << 2 >>
    BY <2>1
  <2>4. QED
    BY <1>0, <1>2, <2>2, <2>3 DEF Laid
<1>3. CASE func = 72
  <2>1. fields = << << bit, 1 >> >>
    BY <1>3 DEF Answers
  <2>2. Writable(fields)
    BY <2>1
  <2>3. Sizes(fields) = << 1 >>
    BY <2>1
  <2>4. QED
    BY <1>0, <1>3, <2>2, <2>3 DEF Laid
<1>4. CASE func \in {73, 81, 92, 107}
  <2>1. fields = << >>
    BY <1>4 DEF Answers
  <2>2. Writable(fields)
    BY <2>1
  <2>3. Sizes(fields) = << >>
    BY <2>1
  <2>4. QED
    BY <1>0, <1>4, <2>2, <2>3 DEF Laid
<1>5. CASE func \in {88, 89}
  <2>1. fields = << << bit, 1 >>, << 2 + bit, 4 >>, << 4 + bit, 1 >>, << 6 + bit, 4 >> >>
    BY <1>5 DEF Answers
  <2>2. Writable(fields)
    BY <2>1
  <2>3. Sizes(fields) = << 1, 4, 1, 4 >>
    BY <2>1
  <2>4. QED
    <3>1. \A bytes : Layout(func, bytes) = Sizes(fields)
      BY <1>0, <1>5, <2>3
    <3>2. QED
      BY <2>2, <3>1 DEF Laid
<1>6. QED
  BY <1>1, <1>2, <1>3, <1>4, <1>5

(* Floating point numbers,                                                   *)
LEMMA FloatedIs ==
  ASSUME NEW n \in Nat, NEW bit \in 0 .. 1
  PROVE  /\ Writable(Floated(n, bit)) /\ Len(Floated(n, bit)) = n
         /\ \A i \in 1 .. n : Floated(n, bit)[i] = << 2 * i + bit, 4 >>
         /\ Sizes(Floated(n, bit)) = Floats(n)
<1>1. \A i \in 1 .. n : << 2 * i + bit, 4 >> \in FieldType
  BY DEF FieldType
<1>2. PICK fields : fields = Floated(n, bit)
  OBVIOUS
<1>3. fields = [i \in 1 .. n |-> << 2 * i + bit, 4 >>]
  BY <1>2 DEF Floated
<1>4. fields \in Seq(FieldType) /\ Len(fields) = n
  <2>1. \A i \in 1 .. n : fields[i] \in FieldType
    BY <1>1, <1>3
  <2>2. fields = [i \in 1 .. n |-> fields[i]]
    BY <1>3
  <2>3. QED
    BY <2>1, <2>2
<1>5. \A i \in 1 .. n : fields[i] = << 2 * i + bit, 4 >>
  BY <1>3
<1>6. \A i \in 1 .. n : fields[i][2] = 4
  BY <1>5
<1>7. Writable(fields)
  BY <1>4, <1>6 DEF Writable
<1>8. Sizes(fields) = Floats(n)
  BY <1>4, <1>6 DEF Sizes, Floats
<1>9. QED
  BY <1>2, <1>4, <1>5, <1>7, <1>8

(* alone,                                                                    *)
LEMMA LaidFloats ==
  ASSUME NEW func \in {74, 93, 110, 119, 122},
         NEW bit \in 0 .. 1, NEW fields \in Answers(func, bit)
  PROVE  Laid(func, fields)
<1>1. PICK n \in {2, 4, 24} :
         fields = Floated(n, bit) /\ \A bytes : Layout(func, bytes) = Floats(n)
  <2> USE DEF Answers, Layout, ElectromechanicalLayout, ThermalLayout,
              ILC_EM_CMD, ILC_THERMAL_CMD, SENSOR_VALUES
  <2>1. CASE func \in {74, 93, 122}
    <3>1. fields = Floated(2, bit)
      BY <2>1
    <3>2. \A bytes : Layout(func, bytes) = Floats(2)
      BY <2>1
    <3>3. QED
      BY <3>1, <3>2
  <2>2. CASE func = 110
    <3>1. fields = Floated(24, bit)
      BY <2>2
    <3>2. \A bytes : Layout(func, bytes) = Floats(24)
      BY <2>2
    <3>3. QED
      BY <3>1, <3>2
  <2>3. CASE func = 119
    <3>1. fields = Floated(4, bit)
      BY <2>3
    <3>2. \A bytes : Layout(func, bytes) = Floats(4)
      BY <2>3
    <3>3. QED
      BY <3>1, <3>2
  <2>4. QED
    BY <2>1, <2>2, <2>3
<1>2. n \in Nat
  OBVIOUS
<1>3. Writable(fields) /\ Len(fields) = n /\ Sizes(fields) = Floats(n)
  <2>1. fields = Floated(n, bit)
    BY <1>1
  <2>2. /\ Writable(Floated(n, bit)) /\ Len(Floated(n, bit)) = n
        /\ \A i \in 1 .. n : Floated(n, bit)[i] = << 2 * i + bit, 4 >>
        /\ Sizes(Floated(n, bit)) = Floats(n)
    BY <1>2, FloatedIs
  <2>3. QED
    BY <2>1, <2>2
<1>4. QED
  BY <1>1, <1>3 DEF Laid

(* and after a byte.                                                         *)
LEMMA LaidByteFloats ==
  ASSUME NEW func \in {66, 67, 75, 76},
         NEW bit \in 0 .. 1, NEW fields \in Answers(func, bit)
  PROVE  Laid(func, fields)
<1>1. PICK n \in 1 .. 2 : /\ fields = << << bit, 1 >> >> \o Floated(n, bit)
                          /\ func \in {66, 67} => n = 2
  <2>1. CASE func \in {66, 67}
    <3>1. fields = << << bit, 1 >> >> \o Floated(2, bit)
      BY <2>1 DEF Answers
    <3>2. QED
      BY <3>1
  <2>2. CASE func \in {75, 76}
    <3>1. fields \in { << << bit, 1 >> >> \o Floated(n, bit) : n \in 1 .. 2 }
      <4>1. CASE func = 75
        BY <4>1 DEF Answers
      <4>2. CASE func = 76
        BY <4>2 DEF Answers
      <4>3. QED
        BY <2>2, <4>1, <4>2
    <3>2. QED
      BY <2>2, <3>1
  <2>3. QED
    BY <2>1, <2>2
<1>2. PICK rest : rest = Floated(n, bit)
  OBVIOUS
<1>3. rest \in Seq(FieldType) /\ Len(rest) = n /\ \A i \in 1 .. n : rest[i] = << 2 * i + bit, 4 >>
  <2>1. n \in Nat
    OBVIOUS
  <2>2. /\ Writable(Floated(n, bit)) /\ Len(Floated(n, bit)) = n
        /\ \A i \in 1 .. n : Floated(n, bit)[i] = << 2 * i + bit, 4 >>
        /\ Sizes(Floated(n, bit)) = Floats(n)
    BY <2>1, FloatedIs
  <2>3. QED
    BY <1>2, <2>2 DEF Writable
<1>4. << bit, 1 >> \in FieldType
  BY DEF FieldType
<1>5. PICK first : first = << << bit, 1 >> >>
  OBVIOUS
<1>6. first \in Seq(FieldType) /\ Len(first) = 1 /\ first[1] = << bit, 1 >>
  BY <1>4, <1>5
<1>7. /\ fields \in Seq(FieldType) /\ Len(fields) = Len(first) + Len(rest)
      /\ \A i \in 1 .. Len(first) + Len(rest) :
            fields[i] = IF i <= Len(first) THEN first[i] ELSE rest[i - Len(first)]
  BY <1>1, <1>2, <1>3, <1>5, <1>6, ConcatProperties
<1>8. Len(fields) = n + 1 /\ \A i \in 1 .. n + 1 : fields[i] = IF i <= 1 THEN first[i] ELSE rest[i - 1]
  BY <1>3, <1>6, <1>7
<1>9. fields[1] = << bit, 1 >> /\ \A i \in 2 .. n + 1 : fields[i] = << 2 * (i - 1) + bit, 4 >>
  <2>1. fields[1] = << bit, 1 >>
    BY <1>6, <1>8
  <2>2. ASSUME NEW i \in 2 .. n + 1 PROVE fields[i] = << 2 * (i - 1) + bit, 4 >>
    <3>1. i \in 1 .. n + 1 /\ ~(i <= 1) /\ i - 1 \in 1 .. n
      OBVIOUS
    <3>2. QED
      BY <1>3, <1>8, <3>1
  <2>3. QED
    BY <2>1, <2>2
<1>10. \A i \in 1 .. n + 1 : fields[i][2] # 0
  <2>1. ASSUME NEW i \in 1 .. n + 1 PROVE fields[i][2] # 0
    <3>1. i = 1 \/ i \in 2 .. n + 1
      OBVIOUS
    <3>2. QED
      BY <1>9, <3>1
  <2>2. QED
    BY <2>1
<1>11. Writable(fields)
  BY <1>7, <1>8, <1>10 DEF Writable
<1>12. /\ n = 1 => Sizes(fields) = << 1, 4 >>
       /\ n = 2 => Sizes(fields) = << 1, 4, 4 >>
  <2>1. CASE n = 1
    <3>1. fields[1][2] = 1 /\ fields[2][2] = 4
      BY <1>9, <2>1
    <3>2. Len(fields) = 2
      BY <1>8, <2>1
    <3>3. QED
      BY <2>1, <3>1, <3>2 DEF Sizes
  <2>2. CASE n = 2
    <3>1. fields[1][2] = 1 /\ fields[2][2] = 4 /\ fields[3][2] = 4
      BY <1>9, <2>2
    <3>2. Len(fields) = 3
      BY <1>8, <2>2
    <3>3. QED
      BY <2>2, <3>1, <3>2 DEF Sizes
  <2>3. QED
    BY <2>1, <2>2
<1>13. Reached(Sizes(fields))[Len(fields)] = 3 + 4 * n
  <2>1. PICK r : r = Reached(Sizes(fields))
    OBVIOUS
  <2>2. Reaches(r, Sizes(fields))
    BY <1>7, <2>1, ColumnsAre, ReachedIs
  <2>3. CASE n = 1
    <3>1. r[0] = 2 /\ \A i \in 1 .. 2 : r[i] = r[i - 1] + << 1, 4 >>[i]
      BY <1>12, <2>2, <2>3 DEF Reaches
    <3>2. r[1] = r[0] + 1 /\ r[2] = r[1] + 4
      BY <3>1
    <3>3. QED
      BY <1>8, <2>1, <2>3, <3>1, <3>2
  <2>4. CASE n = 2
    <3>1. r[0] = 2 /\ \A i \in 1 .. 3 : r[i] = r[i - 1] + << 1, 4, 4 >>[i]
      BY <1>12, <2>2, <2>4 DEF Reaches
    <3>2. r[1] = r[0] + 1 /\ r[2] = r[1] + 4 /\ r[3] = r[2] + 4
      BY <3>1
    <3>3. QED
      BY <1>8, <2>1, <2>4, <3>1, <3>2
  <2>5. QED
    BY <2>3, <2>4
<1>14. ASSUME NEW bytes, Len(bytes) = Reached(Sizes(fields))[Len(fields)] + 2
       PROVE  Layout(func, bytes) \in {NoLayout, Sizes(fields)}
  <2>1. Len(bytes) = 5 + 4 * n
    BY <1>13, <1>14
  <2>2. CASE func \in {66, 67}
    <3>1. Layout(func, bytes) = << 1, 4, 4 >>
      <4>1. Layout(func, bytes) = ElectromechanicalLayout(func, bytes)
        BY <2>2 DEF Layout, ILC_EM_CMD, ILC_THERMAL_CMD, SENSOR_VALUES
      <4>2. QED
        BY <2>2, <4>1 DEF ElectromechanicalLayout
    <3>2. QED
      BY <1>1, <1>12, <2>2, <3>1
  <2>3. CASE func \in {75, 76}
    <3>1. Layout(func, bytes) = ElectromechanicalLayout(func, bytes)
      BY <2>3 DEF Layout, ILC_EM_CMD, ILC_THERMAL_CMD, SENSOR_VALUES
    <3>2. n = 1 => ElectromechanicalLayout(func, bytes) = << 1, 4 >>
      BY <2>1, <2>3 DEF ElectromechanicalLayout
    <3>3. n = 2 => ElectromechanicalLayout(func, bytes) = << 1, 4, 4 >>
      BY <2>1, <2>3 DEF ElectromechanicalLayout
    <3>4. QED
      BY <1>12, <3>1, <3>2, <3>3
  <2>4. QED
    BY <2>2, <2>3
<1>15. QED
  BY <1>11, <1>14 DEF Laid

(* The values of a sensor, as many as there are bytes for.                   *)
LEMMA ReachedFloats ==
  ASSUME NEW n \in Nat
  PROVE  Reached(Floats(n))[n] = 2 + 4 * n
<1>1. PICK sizes : sizes = Floats(n)
  OBVIOUS
<1>2. sizes \in Seq(Nat) /\ Len(sizes) = n /\ \A i \in 1 .. n : sizes[i] = 4
  BY <1>1 DEF Floats
<1>3. PICK r : r = Reached(sizes)
  OBVIOUS
<1>4. r[0] = 2 /\ \A i \in 1 .. n : r[i] = r[i - 1] + 4
  <2>1. Reaches(r, sizes)
    BY <1>2, <1>3, ReachedIs
  <2>2. QED
    BY <1>2, <2>1 DEF Reaches
<1>5. PICK S : S = {m \in Nat : m \in 0 .. n => r[m] = 2 + 4 * m}
  OBVIOUS
<1>6. 0 \in S
  BY <1>4, <1>5
<1>7. ASSUME NEW m \in Nat, m \in S PROVE m + 1 \in S
  <2>1. CASE m + 1 \in 0 .. n
    <3>1. m \in 0 .. n /\ m + 1 \in 1 .. n /\ (m + 1) - 1 = m
      BY <2>1
    <3>2. r[m] = 2 + 4 * m /\ r[m + 1] = r[m] + 4
      BY <1>4, <1>5, <1>7, <3>1
    <3>3. QED
      BY <1>5, <3>2
  <2>2. QED
    BY <1>5, <2>1
<1>8. n \in S
  <2>1. Nat \subseteq S
    BY <1>6, <1>7, SetInduction
  <2>2. QED
    BY <2>1
<1>9. QED
  BY <1>1, <1>3, <1>5, <1>8

LEMMA LaidSensor ==
  ASSUME NEW bit \in 0 .. 1, NEW fields \in Answers(84, bit)
  PROVE  Laid(84, fields)
<1>1. PICK n \in Sensors : fields = Floated(n, bit)
  <2>1. fields \in { Floated(m, bit) : m \in Sensors }
    BY DEF Answers
  <2>2. QED
    BY <2>1
<1>2. n \in Nat
  BY ILCRepliesAssumption
<1>3. Writable(fields) /\ Len(fields) = n /\ Sizes(fields) = Floats(n)
  <2>1. /\ Writable(Floated(n, bit)) /\ Len(Floated(n, bit)) = n
        /\ Sizes(Floated(n, bit)) = Floats(n)
    BY <1>2, FloatedIs
  <2>2. QED
    BY <1>1, <2>1
<1>4. Reached(Sizes(fields))[Len(fields)] = 2 + 4 * n
  BY <1>2, <1>3, ReachedFloats
<1>5. ASSUME NEW bytes, Len(bytes) = Reached(Sizes(fields))[Len(fields)] + 2
      PROVE  Layout(84, bytes) = Floats(n)
  <2>1. Len(bytes) % 4 = 0 /\ Len(bytes) \div 4 - 1 = n
    <3>1. Len(bytes) = 4 + 4 * n
      BY <1>2, <1>4, <1>5
    <3>2. QED
      BY <1>2, <3>1
  <2>2. SensorLayout(bytes) = Floats(n)
    BY <2>1 DEF SensorLayout
  <2>3. Layout(84, bytes) = SensorLayout(bytes)
    BY DEF Layout, ILC_EM_CMD, ILC_THERMAL_CMD, SENSOR_VALUES
  <2>4. QED
    BY <2>2, <2>3
<1>6. QED
  BY <1>3, <1>5 DEF Laid

(* An identification, which has the length of the name in its first byte.    *)
LEMMA LaidIdentity ==
  ASSUME NEW bit \in 0 .. 1, NEW fields \in Answers(17, bit)
  PROVE  Laid(17, fields) /\ Len(fields) = 9
<1>1. PICK n \in Names : fields = << << 12 + n, 1 >>, << 2 + bit, 6 >> >> \o
                                  [i \in 1 .. 6 |-> << 2 * i + bit, 1 >>] \o
                                  << << IF n = 0 THEN 0 ELSE bit, n >> >>
  <2>1. fields \in { Identified(m, bit) : m \in Names }
    BY DEF Answers
  <2>2. QED
    BY <2>1 DEF Identified
<1>2. n \in Nat
  BY ILCRepliesAssumption
<1>3. PICK v : v = IF n = 0 THEN 0 ELSE bit
  OBVIOUS
<1>4. v \in 0 .. 1 /\ (n = 0 => v = 0)
  BY <1>3
<1>5. PICK p, q, t : /\ p = << << 12 + n, 1 >>, << 2 + bit, 6 >> >>
                     /\ q = [i \in 1 .. 6 |-> << 2 * i + bit, 1 >>]
                     /\ t = << << v, n >> >>
  OBVIOUS
<1>6. /\ p \in Seq(FieldType) /\ Len(p) = 2
      /\ p[1] = << 12 + n, 1 >> /\ p[2] = << 2 + bit, 6 >>
  BY <1>2, <1>5 DEF FieldType
<1>7. q \in Seq(FieldType) /\ Len(q) = 6 /\ \A i \in 1 .. 6 : q[i] = << 2 * i + bit, 1 >>
  <2>1. \A i \in 1 .. 6 : << 2 * i + bit, 1 >> \in FieldType
    BY DEF FieldType
  <2>2. QED
    BY <1>5, <2>1
<1>8. t \in Seq(FieldType) /\ Len(t) = 1 /\ t[1] = << v, n >>
  BY <1>2, <1>4, <1>5 DEF FieldType
<1>9. PICK pq : pq = p \o q
  OBVIOUS
<1>10. /\ pq \in Seq(FieldType) /\ Len(pq) = 8
       /\ \A i \in 1 .. 8 : pq[i] = IF i <= 2 THEN p[i] ELSE q[i - 2]
  <2>1. /\ pq \in Seq(FieldType) /\ Len(pq) = Len(p) + Len(q)
        /\ \A i \in 1 .. Len(p) + Len(q) : pq[i] = IF i <= Len(p) THEN p[i] ELSE q[i - Len(p)]
    BY <1>6, <1>7, <1>9, ConcatProperties
  <2>2. QED
    BY <1>6, <1>7, <2>1
<1>11. fields = pq \o t
  BY <1>1, <1>3, <1>5, <1>9
<1>12. /\ fields \in Seq(FieldType) /\ Len(fields) = 9
       /\ \A i \in 1 .. 9 : fields[i] = IF i <= 8 THEN pq[i] ELSE t[i - 8]
  <2>1. /\ fields \in Seq(FieldType) /\ Len(fields) = Len(pq) + Len(t)
        /\ \A i \in 1 .. Len(pq) + Len(t) :
              fields[i] = IF i <= Len(pq) THEN pq[i] ELSE t[i - Len(pq)]
    BY <1>8, <1>10, <1>11, ConcatProperties
  <2>2. QED
    BY <1>8, <1>10, <2>1
<1>13. /\ fields[1] = << 12 + n, 1 >> /\ fields[2] = << 2 + bit, 6 >> /\ fields[9] = << v, n >>
       /\ \A i \in 3 .. 8 : fields[i] = << 2 * (i - 2) + bit, 1 >>
  <2>1. fields[1] = << 12 + n, 1 >> /\ fields[2] = << 2 + bit, 6 >> /\ fields[9] = << v, n >>
    BY <1>6, <1>8, <1>10, <1>12
  <2>2. ASSUME NEW i \in 3 .. 8 PROVE fields[i] = << 2 * (i - 2) + bit, 1 >>
    <3>1. fields[i] = pq[i] /\ pq[i] = q[i - 2]
      BY <1>10, <1>12
    <3>2. i - 2 \in 1 .. 6
      OBVIOUS
    <3>3. QED
      BY <1>7, <3>1, <3>2
  <2>3. QED
    BY <2>1, <2>2
<1>14. ASSUME NEW i \in 1 .. 9
       PROVE  fields[i][2] = 0 => fields[i][1] = 0
  <2>1. CASE i \in 3 .. 8
    <3>1. fields[i][2] = 1
      BY <1>13, <2>1
    <3>2. QED
      BY <3>1
  <2>2. CASE i = 1
    BY <1>13, <2>2
  <2>3. CASE i = 2
    BY <1>13, <2>3
  <2>4. CASE i = 9
    BY <1>4, <1>13, <2>4
  <2>5. QED
    BY <2>1, <2>2, <2>3, <2>4
<1>15. Writable(fields)
  BY <1>12, <1>14 DEF Writable
<1>16. Sizes(fields) = << 1, 6, 1, 1, 1, 1, 1, 1, n >>
  <2>1. /\ fields[1][2] = 1 /\ fields[2][2] = 6 /\ fields[9][2] = n
        /\ \A i \in 3 .. 8 : fields[i][2] = 1
    BY <1>13
  <2>2. QED
    BY <1>12, <2>1 DEF Sizes
<1>17. ASSUME NEW bytes, Fields(bytes, Sizes(fields)) = Values(fields)
       PROVE  Layout(17, bytes) = Sizes(fields)
  <2>1. PICK sizes : sizes = Sizes(fields)
    OBVIOUS
  <2>2. DOMAIN sizes = 1 .. 9 /\ sizes[1] = 1
    BY <1>16, <2>1
  <2>3. Reached(sizes)[0] = 2
    BY <1>12, <2>1, ColumnsAre, ReachedIs DEF Reaches
  <2>4. Fields(bytes, sizes)[1] = Read(bytes, Reached(sizes)[1 - 1], sizes[1])
    BY <2>2 DEF Fields
  <2>5. Values(fields)[1] = 12 + n
    BY <1>12, <1>13 DEF Values
  <2>6. Read(bytes, 2, 1) = 12 + n
    BY <1>17, <2>1, <2>2, <2>3, <2>4, <2>5
  <2>7. ~(Read(bytes, 2, 1) < 12) /\ Read(bytes, 2, 1) - 12 = n
    BY <1>2, <2>6
  <2>8. ILCBusListLayout(17, bytes) = << 1, 6, 1, 1, 1, 1, 1, 1, n >>
    BY <2>7 DEF ILCBusListLayout
  <2>9. Layout(17, bytes) = ILCBusListLayout(17, bytes)
    BY DEF Layout, ILC_EM_CMD, ILC_THERMAL_CMD, SENSOR_VALUES
  <2>10. QED
    BY <1>16, <2>8, <2>9
<1>18. QED
  BY <1>12, <1>15, <1>17 DEF Laid

(* What is read of the answer of an ILC, and what it has said.               *)
LEMMA AnswerLaid ==
  ASSUME NEW func \in Functions, NEW bit \in 0 .. 1, NEW fields \in Answers(func, bit)
  PROVE  Laid(func, fields) /\ (func = 17 => Len(fields) = 9) /\ (func = 119 => Len(fields) = 4)
<1>1. /\ 17 \in Functions /\ func \in {17, 84} \cup {18, 65, 72, 73, 81, 88, 89, 92, 107}
                                \cup {74, 93, 110, 119, 122} \cup {66, 67, 75, 76}
  BY DEF Functions, ILC_CMD, ILC_EM_CMD, ILC_THERMAL_CMD, SENSOR_VALUES
<1>2. Laid(func, fields)
  <2>1. CASE func = 17
    BY <2>1, LaidIdentity
  <2>2. CASE func = 84
    BY <2>2, LaidSensor
  <2>3. CASE func \in {18, 65, 72, 73, 81, 88, 89, 92, 107}
    BY <2>3, LaidPlain
  <2>4. CASE func \in {74, 93, 110, 119, 122}
    BY <2>4, LaidFloats
  <2>5. CASE func \in {66, 67, 75, 76}
    BY <2>5, LaidByteFloats
  <2>6. QED
    BY <1>1, <2>1, <2>2, <2>3, <2>4, <2>5
<1>3. func = 17 => Len(fields) = 9
  BY LaidIdentity
<1>4. ASSUME func = 119 PROVE Len(fields) = 4
  <2>1. fields = Floated(4, bit)
    BY <1>4 DEF Answers
  <2>2. Len(Floated(4, bit)) = 4
    BY FloatedIs
  <2>3. QED
    BY <2>1, <2>2
<1>5. QED
  BY <1>2, <1>3, <1>4

(* What an ILC says are numbers, and                                         *)
LEMMA MeaningType ==
  ASSUME NEW func \in Functions, NEW bit \in 0 .. 1, NEW fields \in Answers(func, bit)
  PROVE  Meaning(func, fields) \in Seq(Nat)
<1>1. /\ fields \in Seq(FieldType)
      /\ (func = 17 => Len(fields) = 9) /\ (func = 119 => Len(fields) = 4)
  BY AnswerLaid DEF Laid, Writable
<1>2. PICK x : x = Values(fields)
  OBVIOUS
<1>3. x \in Seq(Nat) /\ Len(x) = Len(fields)
  BY <1>1, <1>2, ColumnsAre
<1>4. [i \in DOMAIN fields |-> fields[i][1]] = x
  BY <1>1, <1>2 DEF Values
<1>5. CASE func = 17
  <2>1. Meaning(func, fields) = Tail(x)
    BY <1>4, <1>5 DEF Meaning
  <2>2. x # << >>
    BY <1>1, <1>3, <1>5
  <2>3. QED
    BY <1>3, <2>1, <2>2
<1>6. CASE func = 119
  <2>1. Meaning(func, fields) = << x[1], x[2], x[4], x[3] >>
    BY <1>4, <1>6 DEF Meaning
  <2>2. 1 \in 1 .. Len(x) /\ 2 \in 1 .. Len(x) /\ 3 \in 1 .. Len(x) /\ 4 \in 1 .. Len(x)
    BY <1>1, <1>3, <1>6
  <2>3. x[1] \in Nat /\ x[2] \in Nat /\ x[3] \in Nat /\ x[4] \in Nat
    BY <1>3, <2>2
  <2>4. QED
    BY <2>1, <2>3
<1>7. CASE func \notin {17, 119}
  BY <1>3, <1>4, <1>7 DEF Meaning
<1>8. QED
  BY <1>5, <1>6, <1>7

(* the arguments of a method are what its ILC has said.                      *)
LEMMA ArgumentsBack ==
  ASSUME NEW a \in Nat, NEW func \in Functions, NEW bit \in 0 .. 1, NEW fields \in Answers(func, bit),
         NEW bytes, bytes = Sealed(Payload(a, func, fields)), Layout(func, bytes) # NoLayout
  PROVE  Arguments(func, bytes) = Meaning(func, fields)
<1>1. func \in Nat
  BY DEF Functions, ILC_CMD, ILC_EM_CMD, ILC_THERMAL_CMD, SENSOR_VALUES
<1>2. /\ Laid(func, fields) /\ Writable(fields) /\ fields \in Seq(FieldType)
      /\ (func = 17 => Len(fields) = 9) /\ (func = 119 => Len(fields) = 4)
  BY AnswerLaid DEF Laid, Writable
<1>3. /\ Fields(bytes, Sizes(fields)) = Values(fields)
      /\ Len(bytes) = Reached(Sizes(fields))[Len(fields)] + 2
  BY <1>1, <1>2, ReadsBack
<1>4. Layout(func, bytes) = Sizes(fields)
  BY <1>2, <1>3 DEF Laid
<1>5. PICK x : x = Values(fields)
  OBVIOUS
<1>6. Fields(bytes, Layout(func, bytes)) = x
  BY <1>3, <1>4, <1>5
<1>7. [i \in DOMAIN fields |-> fields[i][1]] = x
  BY <1>2, <1>5 DEF Values
<1>8. CASE func = 17
  <2>1. Arguments(func, bytes) = Tail(x)
    BY <1>6, <1>8 DEF Arguments, ILCBusListArguments, ILC_EM_CMD
  <2>2. Meaning(func, fields) = Tail(x)
    BY <1>7, <1>8 DEF Meaning
  <2>3. QED
    BY <2>1, <2>2
<1>9. CASE func = 119
  <2>1. Arguments(func, bytes) = Swapped(x)
    BY <1>6, <1>9 DEF Arguments, ElectromechanicalArguments, ILC_EM_CMD
  <2>2. Meaning(func, fields) = << x[1], x[2], x[4], x[3] >>
    BY <1>7, <1>9 DEF Meaning
  <2>3. QED
    BY <2>1, <2>2 DEF Swapped
<1>10. CASE func \notin {17, 119}
  <2>1. Arguments(func, bytes) = x
    BY <1>6, <1>10 DEF Arguments, ElectromechanicalArguments, ILCBusListArguments
  <2>2. Meaning(func, fields) = x
    BY <1>7, <1>10 DEF Meaning
  <2>3. QED
    BY <2>1, <2>2
<1>11. QED
  BY <1>8, <1>9, <1>10

(* The FPGA waits long enough.                                               *)
LEMMA Timely ==
  ASSUME NEW func \in Functions
  PROVE  ~(Wait(Timing(func)) < Timing(func))
<1>1. func \in ILC_CMD \cup ILC_EM_CMD \cup ILC_THERMAL_CMD \cup {84}
  BY DEF Functions, SENSOR_VALUES
<1>2. PICK t : t = Timing(func)
  OBVIOUS
<1>3. t \in {835, 270, 335, 250, 86840, 1800, 40000, 2000, 36500, 400, 500, 500000, 300}
  <2>1. CASE func \in ILC_CMD
    <3>1. t = ILCBusListTiming(func)
      BY <1>2, <2>1 DEF Timing, ILC_CMD, ILC_EM_CMD, ILC_THERMAL_CMD, SENSOR_VALUES
    <3>2. QED
      BY <2>1, <3>1 DEF ILCBusListTiming, ILC_CMD
  <2>2. CASE func \in ILC_EM_CMD
    <3>1. t = ElectromechanicalTiming(func)
      BY <1>2, <2>2 DEF Timing, ILC_EM_CMD, ILC_THERMAL_CMD, SENSOR_VALUES
    <3>2. QED
      BY <2>2, <3>1 DEF ElectromechanicalTiming, ILC_EM_CMD
  <2>3. CASE func \in ILC_THERMAL_CMD
    <3>1. t = ThermalTiming(func)
      BY <1>2, <2>3 DEF Timing, ILC_EM_CMD, ILC_THERMAL_CMD, SENSOR_VALUES
    <3>2. QED
      BY <2>3, <3>1 DEF ThermalTiming, ILC_THERMAL_CMD
  <2>4. CASE func = 84
    BY <1>2, <2>4 DEF Timing, SensorTiming, ILC_EM_CMD, ILC_THERMAL_CMD, SENSOR_VALUES
  <2>5. QED
    BY <1>1, <2>1, <2>2, <2>3, <2>4
<1>4. Wait(t) >= t
  <2>1. CASE t \in {86840, 40000, 36500, 500000}
    BY <2>1 DEF Wait
  <2>2. CASE t \notin {86840, 40000, 36500, 500000}
    BY <1>3, <2>2 DEF Wait
  <2>3. QED
    BY <2>1, <2>2
<1>5. QED
  <2>1. Wait(t) \in Int /\ t \in Int
    BY <1>3 DEF Wait
  <2>2. QED
    BY <1>2, <1>4, <2>1

----------------------------------------------------------------------------
(* What the line makes of frames.                                            *)

(* bytes that are no payload with its checksum                               *)
Bad(bytes) == \A p \in Seq(PlainByte) : bytes # Sealed(p)

(* d is s and then t.                                                        *)
Then(d, s, t) ==
    /\ d \in Seq(Byte) /\ Len(d) = Len(s) + Len(t)
    /\ \A x \in 1 .. Len(s) : d[x] = s[x]
    /\ \A x \in 1 .. Len(t) : d[Len(s) + x] = t[x]

LEMMA Joins ==
  ASSUME NEW s \in Seq(Byte), NEW t \in Seq(Byte)
  PROVE  Then(s \o t, s, t)
<1>1. PICK d : d = s \o t
  OBVIOUS
<1>2. PICK m \in Nat, n \in Nat : m = Len(s) /\ n = Len(t)
  OBVIOUS
<1>3. /\ d \in Seq(Byte) /\ Len(d) = Len(s) + Len(t)
      /\ \A i \in 1 .. Len(s) + Len(t) : d[i] = IF i <= Len(s) THEN s[i] ELSE t[i - Len(s)]
  BY <1>1, ConcatProperties
<1>4. \A i \in 1 .. m + n : d[i] = IF i <= m THEN s[i] ELSE t[i - m]
  BY <1>2, <1>3
<1>5. \A x \in 1 .. m : d[x] = s[x]
  BY <1>4
<1>6. ASSUME NEW x \in 1 .. n PROVE d[m + x] = t[x]
  <2>1. m + x \in 1 .. m + n /\ ~(m + x <= m) /\ (m + x) - m = x
    OBVIOUS
  <2>2. QED
    BY <1>4, <2>1
<1>7. QED
  BY <1>1, <1>2, <1>3, <1>5, <1>6 DEF Then

(* A sealed payload, byte by byte.                                           *)
Framed(b, p) ==
    /\ b \in Seq(Byte) /\ Len(b) = Len(p) + 2
    /\ \A x \in 1 .. Len(p) : b[x] = p[x] /\ b[x] \in PlainByte
    /\ b[Len(p) + 1] = [crc |-> p, k |-> 1] /\ b[Len(p) + 1] \in CRCByte
    /\ b[Len(p) + 2] = [crc |-> p, k |-> 2] /\ b[Len(p) + 2] \in CRCByte

LEMMA FramedIs ==
  ASSUME NEW p \in Seq(PlainByte)
  PROVE  Framed(Sealed(p), p)
<1>1. PICK c1, c2 : c1 = [crc |-> p, k |-> 1] /\ c2 = [crc |-> p, k |-> 2]
  OBVIOUS
<1>2. c1 \in CRCByte /\ c2 \in CRCByte
  BY <1>1 DEF CRCByte
<1>3. PICK T : T = PlainByte \cup {c1, c2}
  OBVIOUS
<1>4. T \subseteq Byte
  BY <1>2, <1>3 DEF Byte
<1>5. PICK b : b = Sealed(p)
  OBVIOUS
<1>6. /\ b \in Seq(T) /\ Len(b) = Len(p) + 2
      /\ \A x \in 1 .. Len(p) : b[x] = p[x]
      /\ b[Len(p) + 1] = c1 /\ b[Len(p) + 2] = c2
  BY <1>1, <1>3, <1>5, SealedIs
<1>7. b \in Seq(Byte)
  BY <1>4, <1>6
<1>8. \A x \in 1 .. Len(p) : p[x] \in PlainByte
  OBVIOUS
<1>9. QED
  BY <1>1, <1>2, <1>5, <1>6, <1>7, <1>8 DEF Framed

(* Bytes whose last is not the last of a checksum, or of which one is spoilt.*)
LEMMA BadByLast ==
  ASSUME NEW d \in Seq(Byte), d # << >>, d[Len(d)] \notin CRCByte \/ d[Len(d)].k = 1
  PROVE  Bad(d)
<1>1. SUFFICES ASSUME NEW p \in Seq(PlainByte), d = Sealed(p) PROVE FALSE
  BY DEF Bad
<1>2. PICK m \in Nat : m = Len(p)
  OBVIOUS
<1>3. Framed(d, p)
  BY <1>1, FramedIs
<1>4. Len(d) = m + 2 /\ d[m + 2] = [crc |-> p, k |-> 2] /\ d[m + 2] \in CRCByte
  BY <1>2, <1>3 DEF Framed
<1>5. d[Len(d)] \in CRCByte /\ d[Len(d)].k = 2
  BY <1>4
<1>6. QED
  BY <1>5

LEMMA BadBySpoilt ==
  ASSUME NEW d \in Seq(Byte), NEW i \in 1 .. Len(d), d[i] = Spoilt
  PROVE  Bad(d)
<1>1. SUFFICES ASSUME NEW p \in Seq(PlainByte), d = Sealed(p) PROVE FALSE
  BY DEF Bad
<1>2. PICK m \in Nat : m = Len(p)
  OBVIOUS
<1>3. Framed(d, p)
  BY <1>1, FramedIs
<1>4. /\ Len(d) = m + 2 /\ \A x \in 1 .. m : d[x] \in PlainByte
      /\ d[m + 1] \in CRCByte /\ d[m + 2] \in CRCByte
  BY <1>2, <1>3 DEF Framed
<1>5. i \in 1 .. m \/ i = m + 1 \/ i = m + 2
  BY <1>4
<1>6. Spoilt \in PlainByte \cup CRCByte
  BY <1>4, <1>5
<1>7. QED
  BY <1>6, Kinds

(* Bytes of which one before the last two is of a checksum.                  *)
LEMMA BadByChecksum ==
  ASSUME NEW d \in Seq(Byte), NEW i \in 1 .. Len(d) - 2, "crc" \in DOMAIN d[i]
  PROVE  Bad(d)
<1>1. SUFFICES ASSUME NEW p \in Seq(PlainByte), d = Sealed(p) PROVE FALSE
  BY DEF Bad
<1>2. PICK m \in Nat : m = Len(p)
  OBVIOUS
<1>3. Framed(d, p)
  BY <1>1, FramedIs
<1>4. Len(d) = m + 2 /\ \A x \in 1 .. m : d[x] \in PlainByte
  BY <1>2, <1>3 DEF Framed
<1>5. d[i] \in PlainByte
  BY <1>4
<1>6. QED
  BY <1>5, Kinds

(* Bytes that have their checksum, but not as many of them.                  *)
LEMMA BadByLength ==
  ASSUME NEW d \in Seq(Byte), d # << >>, NEW p \in Seq(PlainByte),
         d[Len(d)] = [crc |-> p, k |-> 2], Len(d) # Len(p) + 2
  PROVE  Bad(d)
<1>1. SUFFICES ASSUME NEW q \in Seq(PlainByte), d = Sealed(q) PROVE FALSE
  BY DEF Bad
<1>2. PICK m \in Nat : m = Len(q)
  OBVIOUS
<1>3. Framed(d, q)
  BY <1>1, FramedIs
<1>4. Len(d) = m + 2 /\ d[m + 2] = [crc |-> q, k |-> 2]
  BY <1>2, <1>3 DEF Framed
<1>5. [crc |-> q, k |-> 2] = [crc |-> p, k |-> 2]
  BY <1>4
<1>6. q = p
  <2>1. [crc |-> q, k |-> 2].crc = [crc |-> p, k |-> 2].crc
    BY <1>5
  <2>2. QED
    BY <2>1
<1>7. QED
  BY <1>2, <1>4, <1>6

(* Bytes before a checksum that are of none, where the first of it should be.*)
LEMMA BadByFirst ==
  ASSUME NEW d \in Seq(Byte), Len(d) >= 2, d[Len(d) - 1] \in PlainByte
  PROVE  Bad(d)
<1>1. SUFFICES ASSUME NEW p \in Seq(PlainByte), d = Sealed(p) PROVE FALSE
  BY DEF Bad
<1>2. PICK m \in Nat : m = Len(p)
  OBVIOUS
<1>3. Framed(d, p)
  BY <1>1, FramedIs
<1>4. Len(d) = m + 2 /\ d[m + 1] \in CRCByte
  BY <1>2, <1>3 DEF Framed
<1>5. Len(d) - 1 = m + 1
  BY <1>4
<1>6. d[m + 1] \in PlainByte
  BY <1>5
<1>7. QED
  BY <1>4, <1>6, Kinds

(* What the line makes of a frame that it spoils.                            *)
Mangled(d, b) ==
    /\ d # b
    /\ \E i \in DOMAIN b : d \in { [b EXCEPT ![i] = Spoilt], RemoveAt(b, i), SubSeq(b, 1, i) }

(* Nothing of it is new but the spoilt byte,                                 *)
Leftover(d, b) ==
    /\ d \in Seq(Byte) /\ d # << >>
    /\ \A x \in 1 .. Len(d) : d[x] = Spoilt \/ \E y \in 1 .. Len(b) : d[x] = b[y]

(* and it is no frame, neither alone nor behind another frame.               *)
LEMMA MangledSpoilt ==
  ASSUME NEW p \in Seq(PlainByte), NEW b, b = Sealed(p), NEW i \in 1 .. Len(p) + 2,
         NEW d, d = [b EXCEPT ![i] = Spoilt], NEW pre \in Seq(Byte)
  PROVE  Leftover(d, b) /\ Bad(pre \o d)
<1>1. PICK m \in Nat, n \in Nat : m = Len(p) + 2 /\ n = Len(pre)
  OBVIOUS
<1>2. Framed(b, p)
  BY FramedIs
<1>3. b \in Seq(Byte) /\ Len(b) = m
  BY <1>1, <1>2 DEF Framed
<1>4. Spoilt \in Byte
  BY DEF Byte
<1>5. d \in Seq(Byte) /\ Len(d) = m /\ d[i] = Spoilt /\ \A x \in 1 .. m : x # i => d[x] = b[x]
  BY <1>1, <1>3, <1>4
<1>6. d # << >>
  BY <1>1, <1>5
<1>7. Leftover(d, b)
  <2>1. \A x \in 1 .. Len(d) : d[x] = Spoilt \/ \E y \in 1 .. Len(b) : d[x] = b[y]
    BY <1>3, <1>5
  <2>2. QED
    BY <1>5, <1>6, <2>1 DEF Leftover
<1>8. PICK e : e = pre \o d
  OBVIOUS
<1>9. Then(e, pre, d)
  BY <1>5, <1>8, Joins
<1>10. /\ e \in Seq(Byte) /\ Len(e) = n + m
       /\ e[n + i] = Spoilt
  <2>1. i \in 1 .. Len(d)
    BY <1>1, <1>5
  <2>2. QED
    BY <1>1, <1>5, <1>9, <2>1 DEF Then
<1>11. n + i \in 1 .. Len(e)
  BY <1>1, <1>10
<1>12. Bad(e)
  BY <1>10, <1>11, BadBySpoilt
<1>13. QED
  BY <1>7, <1>8, <1>12

LEMMA MangledCut ==
  ASSUME NEW p \in Seq(PlainByte), NEW b, b = Sealed(p), NEW i \in 1 .. Len(p) + 1,
         NEW d, d = SubSeq(b, 1, i), NEW pre \in Seq(Byte)
  PROVE  Leftover(d, b) /\ Bad(pre \o d)
<1>1. PICK m \in Nat, n \in Nat : m = Len(p) /\ n = Len(pre)
  OBVIOUS
<1>2. Framed(b, p)
  BY FramedIs
<1>3. /\ b \in Seq(Byte) /\ Len(b) = m + 2 /\ \A x \in 1 .. m : b[x] \in PlainByte
      /\ b[m + 1] = [crc |-> p, k |-> 1]
  BY <1>1, <1>2 DEF Framed
<1>4. d \in Seq(Byte) /\ Len(d) = i /\ \A x \in 1 .. i : d[x] = b[x]
  <2>1. 1 \in Nat /\ i \in Nat /\ 1 <= i /\ i <= Len(b)
    BY <1>1, <1>3
  <2>2. /\ d \in Seq(Byte) /\ Len(d) = i - 1 + 1
        /\ \A x \in 1 .. i - 1 + 1 : d[x] = b[1 + x - 1]
    BY <1>3, <2>1, SubSeqProperties
  <2>3. \A x \in 1 .. i : 1 + x - 1 = x
    OBVIOUS
  <2>4. QED
    BY <2>1, <2>2, <2>3
<1>5. Leftover(d, b)
  <2>1. \A x \in 1 .. i : x \in 1 .. Len(b)
    BY <1>1, <1>3
  <2>2. \A x \in 1 .. Len(d) : d[x] = Spoilt \/ \E y \in 1 .. Len(b) : d[x] = b[y]
    BY <1>4, <2>1
  <2>3. d # << >>
    <3>1. Len(d) # 0
      BY <1>1, <1>4
    <3>2. QED
      BY <3>1
  <2>4. QED
    BY <1>4, <2>2, <2>3 DEF Leftover
<1>6. d[i] \notin CRCByte \/ d[i].k = 1
  <2>1. CASE i \in 1 .. m
    BY <1>3, <1>4, <2>1, Kinds
  <2>2. CASE i = m + 1
    BY <1>3, <1>4, <2>2
  <2>3. QED
    BY <1>1, <2>1, <2>2
<1>7. PICK e : e = pre \o d
  OBVIOUS
<1>8. Then(e, pre, d)
  BY <1>4, <1>7, Joins
<1>9. e \in Seq(Byte) /\ Len(e) = n + i /\ e[n + i] = d[i]
  BY <1>1, <1>4, <1>8 DEF Then
<1>10. e # << >> /\ (e[Len(e)] \notin CRCByte \/ e[Len(e)].k = 1)
  BY <1>1, <1>6, <1>9
<1>11. Bad(e)
  BY <1>9, <1>10, BadByLast
<1>12. QED
  BY <1>5, <1>7, <1>11

(* A byte less.                                                              *)
LEMMA RemoveIs ==
  ASSUME NEW b \in Seq(Byte), NEW i \in 1 .. Len(b)
  PROVE  /\ RemoveAt(b, i) \in Seq(Byte) /\ Len(RemoveAt(b, i)) = Len(b) - 1
         /\ \A x \in 1 .. Len(b) - 1 :
               RemoveAt(b, i)[x] = IF x < i THEN b[x] ELSE b[x + 1]
<1>1. PICK n \in Nat : n = Len(b)
  OBVIOUS
<1>2. PICK s : s = SubSeq(b, 1, i - 1)
  OBVIOUS
<1>3. s \in Seq(Byte) /\ Len(s) = i - 1 /\ \A x \in 1 .. i - 1 : s[x] = b[x]
  BY <1>1, <1>2
<1>4. PICK t : t = SubSeq(b, i + 1, Len(b))
  OBVIOUS
<1>5. t \in Seq(Byte) /\ Len(t) = n - i /\ \A x \in 1 .. n - i : t[x] = b[i + x]
  BY <1>1, <1>4
<1>6. PICK d : d = s \o t
  OBVIOUS
<1>7. Then(d, s, t)
  BY <1>3, <1>5, <1>6, Joins
<1>8. d \in Seq(Byte) /\ Len(d) = n - 1
  BY <1>1, <1>3, <1>5, <1>7 DEF Then
<1>9. ASSUME NEW x \in 1 .. n - 1 PROVE d[x] = IF x < i THEN b[x] ELSE b[x + 1]
  <2>1. CASE x < i
    <3>1. x \in 1 .. Len(s) /\ x \in 1 .. i - 1
      BY <1>3, <2>1
    <3>2. QED
      BY <1>3, <1>7, <2>1, <3>1 DEF Then
  <2>2. CASE ~(x < i)
    <3>1. PICK y : y = x - (i - 1)
      OBVIOUS
    <3>2. y \in 1 .. n - i /\ (i - 1) + y = x /\ i + y = x + 1
      BY <1>1, <2>2, <3>1
    <3>3. d[(i - 1) + y] = t[y]
      BY <1>3, <1>5, <1>7, <3>2 DEF Then
    <3>4. QED
      BY <1>5, <2>2, <3>2, <3>3
  <2>3. QED
    BY <2>1, <2>2
<1>10. d = RemoveAt(b, i)
  BY <1>2, <1>4, <1>6 DEF RemoveAt
<1>11. QED
  BY <1>1, <1>8, <1>9, <1>10

LEMMA MangledRemoved ==
  ASSUME NEW p \in Seq(PlainByte), Len(p) >= 2, NEW b, b = Sealed(p), NEW i \in 1 .. Len(p) + 2,
         NEW d, d = RemoveAt(b, i), NEW pre \in Seq(Byte),
         pre # << >> => "crc" \in DOMAIN pre[Len(pre)]
  PROVE  Leftover(d, b) /\ Bad(pre \o d)
<1>1. PICK m \in Nat, n \in Nat : m = Len(p) /\ n = Len(pre)
  OBVIOUS
<1>2. Framed(b, p)
  BY FramedIs
<1>3. /\ b \in Seq(Byte) /\ Len(b) = m + 2 /\ \A x \in 1 .. m : b[x] \in PlainByte
      /\ b[m + 1] = [crc |-> p, k |-> 1] /\ b[m + 2] = [crc |-> p, k |-> 2]
  BY <1>1, <1>2 DEF Framed
<1>4. /\ d \in Seq(Byte) /\ Len(d) = m + 1
      /\ \A x \in 1 .. m + 1 : d[x] = IF x < i THEN b[x] ELSE b[x + 1]
  <2>1. i \in 1 .. Len(b)
    BY <1>1, <1>3
  <2>2. /\ d \in Seq(Byte) /\ Len(d) = Len(b) - 1
        /\ \A x \in 1 .. Len(b) - 1 : d[x] = IF x < i THEN b[x] ELSE b[x + 1]
    BY <1>3, <2>1, RemoveIs
  <2>3. QED
    BY <1>1, <1>3, <2>2
<1>5. Leftover(d, b)
  <2>1. \A x \in 1 .. m + 1 : x \in 1 .. m + 2 /\ x + 1 \in 1 .. m + 2
    BY <1>1
  <2>2. \A x \in 1 .. m + 1 : \E y \in 1 .. m + 2 : d[x] = b[y]
    BY <1>4, <2>1
  <2>3. d # << >>
    BY <1>1, <1>4
  <2>4. \A x \in 1 .. Len(d) : \E y \in 1 .. Len(b) : d[x] = b[y]
    BY <1>3, <1>4, <2>2
  <2>5. QED
    BY <1>4, <2>3, <2>4 DEF Leftover
<1>6. PICK e : e = pre \o d
  OBVIOUS
<1>7. Then(e, pre, d)
  BY <1>4, <1>6, Joins
<1>8. /\ e \in Seq(Byte) /\ Len(e) = n + m + 1 /\ e # << >>
      /\ (\A x \in 1 .. n : e[x] = pre[x]) /\ (\A x \in 1 .. m + 1 : e[n + x] = d[x])
  BY <1>1, <1>4, <1>7 DEF Then
<1>9. m \in 1 .. m + 1 /\ m + 1 \in 1 .. m + 1 /\ m >= 2
  BY <1>1
<1>10. Bad(e)
  <2>1. CASE i \in 1 .. m
    <3>1. d[m + 1] = [crc |-> p, k |-> 2]
      BY <1>1, <1>3, <1>4, <1>9, <2>1
    <3>2. e[Len(e)] = [crc |-> p, k |-> 2]
      BY <1>1, <1>8, <1>9, <3>1
    <3>3. CASE n # 1
      <4>1. Len(e) # Len(p) + 2
        BY <1>1, <1>8, <3>3
      <4>2. QED
        BY <1>8, <3>2, <4>1, BadByLength
    <3>4. CASE n = 1
      <4>1. "crc" \in DOMAIN e[1] /\ 1 \in 1 .. Len(e) - 2
        <5>0. Len(pre) = 1 /\ 1 \in 1 .. n
          BY <1>1, <3>4
        <5>1. pre # << >> /\ Len(pre) = 1 /\ 1 \in 1 .. n
          <6>1. SUFFICES ASSUME pre = << >> PROVE FALSE
            BY <5>0
          <6>2. Len(pre) = 0
            BY <6>1
          <6>3. QED
            BY <5>0, <6>2
        <5>2. e[1] = pre[1]
          BY <1>8, <5>1
        <5>3. Len(e) - 2 = m
          BY <1>1, <1>8, <3>4
        <5>4. QED
          BY <1>9, <5>1, <5>2, <5>3
      <4>2. QED
        BY <1>8, <4>1, BadByChecksum
    <3>5. QED
      BY <3>3, <3>4
  <2>2. CASE i = m + 1
    <3>1. d[m] = b[m] /\ b[m] \in PlainByte
      BY <1>1, <1>3, <1>4, <1>9, <2>2
    <3>2. e[Len(e) - 1] \in PlainByte /\ Len(e) >= 2
      <4>1. e[n + m] = d[m] /\ Len(e) - 1 = n + m
        BY <1>1, <1>8, <1>9
      <4>2. QED
        BY <1>1, <1>8, <1>9, <3>1, <4>1
    <3>3. QED
      BY <1>8, <3>2, BadByFirst
  <2>3. CASE i = m + 2
    <3>1. d[m + 1] = [crc |-> p, k |-> 1]
      <4>1. m + 1 < i
        BY <1>1, <2>3
      <4>2. d[m + 1] = b[m + 1]
        BY <1>4, <1>9, <4>1
      <4>3. QED
        BY <1>3, <4>2
    <3>2. e[Len(e)].k = 1
      BY <1>1, <1>8, <1>9, <3>1
    <3>3. QED
      BY <1>8, <3>2, BadByLast
  <2>4. QED
    BY <1>1, <2>1, <2>2, <2>3
<1>11. QED
  BY <1>5, <1>6, <1>10

LEMMA MangledIs ==
  ASSUME NEW p \in Seq(PlainByte), Len(p) >= 2, NEW d, Mangled(d, Sealed(p)), NEW pre \in Seq(Byte),
         pre # << >> => "crc" \in DOMAIN pre[Len(pre)]
  PROVE  Leftover(d, Sealed(p)) /\ Bad(pre \o d)
<1>1. PICK b : b = Sealed(p)
  OBVIOUS
<1>2. PICK m \in Nat : m = Len(p)
  OBVIOUS
<1>3. b \in Seq(Byte) /\ Len(b) = m + 2
  BY <1>1, <1>2, FramedIs DEF Framed
<1>4. d # b
  BY <1>1 DEF Mangled
<1>5. PICK i \in 1 .. m + 2 : d \in { [b EXCEPT ![i] = Spoilt], RemoveAt(b, i), SubSeq(b, 1, i) }
  BY <1>1, <1>3 DEF Mangled
<1>6. CASE d = [b EXCEPT ![i] = Spoilt]
  BY <1>1, <1>2, <1>6, MangledSpoilt
<1>7. CASE d = RemoveAt(b, i)
  BY <1>1, <1>2, <1>7, MangledRemoved
<1>8. CASE d = SubSeq(b, 1, i)
  <2>1. i # m + 2
    <3>1. SUFFICES ASSUME i = m + 2 PROVE d = b
      BY <1>4
    <3>2. d = SubSeq(b, 1, Len(b))
      BY <1>3, <1>8, <3>1
    <3>3. QED
      BY <1>3, <3>2
  <2>2. i \in 1 .. m + 1
    BY <2>1
  <2>3. QED
    BY <1>1, <1>2, <1>8, <2>2, MangledCut
<1>9. QED
  BY <1>5, <1>6, <1>7, <1>8

(* Nor is a whole frame one behind anything.                                 *)
LEMMA JoinedBad ==
  ASSUME NEW p \in Seq(PlainByte), NEW pre \in Seq(Byte), pre # << >>
  PROVE  Bad(pre \o Sealed(p))
<1>1. PICK b : b = Sealed(p)
  OBVIOUS
<1>2. PICK m \in Nat, n \in Nat : m = Len(p) /\ n = Len(pre)
  OBVIOUS
<1>3. b \in Seq(Byte) /\ Len(b) = m + 2 /\ b[m + 2] = [crc |-> p, k |-> 2]
  BY <1>1, <1>2, FramedIs DEF Framed
<1>4. PICK e : e = pre \o b
  OBVIOUS
<1>5. Then(e, pre, b)
  BY <1>3, <1>4, Joins
<1>6. e \in Seq(Byte) /\ Len(e) = n + m + 2 /\ e[n + (m + 2)] = [crc |-> p, k |-> 2]
  BY <1>2, <1>3, <1>5 DEF Then
<1>7. n # 0
  BY <1>2
<1>8. e # << >> /\ e[Len(e)] = [crc |-> p, k |-> 2] /\ Len(e) # Len(p) + 2
  BY <1>2, <1>6, <1>7
<1>9. QED
  BY <1>1, <1>4, <1>6, <1>8, BadByLength

----------------------------------------------------------------------------
(* parse.                                                                    *)

Command == [address : 1 .. 255, func : Functions]

Told == [said : {"answer", "error", "nothing"}, address : 1 .. 255, func : Functions,
         arguments : Seq(Nat), spoilt : BOOLEAN, joined : BOOLEAN]

(* p is what the ILC of t has sent.                                          *)
Answered(t, p) ==
    /\ t.said = "answer"
    /\ \E bit \in 0 .. 1 : \E fields \in Answers(t.func, bit) :
          p = Payload(t.address, t.func, fields) /\ t.arguments = Meaning(t.func, fields)

Refused(t, p) ==
    t.said = "error" /\ p = Payload(t.address, t.func + 128, << << 1, 1 >> >>)

LEMMA FunctionNumbers ==
  ASSUME NEW func \in Functions
  PROVE  func \in 17 .. 122
BY DEF Functions, ILC_CMD, ILC_EM_CMD, ILC_THERMAL_CMD, SENSOR_VALUES

(* A byte by itself is a number.                                             *)
LEMMA OctetIs ==
  ASSUME NEW b \in Byte, NEW x \in Octet(b)
  PROVE  x \in Nat
<1>1. CASE "of" \in DOMAIN b /\ b.of = 1
  <2>1. b \in PlainByte
    <3>1. \A c \in CRCByte : DOMAIN c = {"crc", "k"}
      BY DEF CRCByte
    <3>2. DOMAIN Spoilt = {"spoilt"}
      BY DEF Spoilt
    <3>3. QED
      BY <1>1, <3>1, <3>2 DEF Byte
  <2>2. b.v \in Nat
    BY <2>1, Kinds
  <2>3. QED
    BY <1>1, <2>2 DEF Octet
<1>2. CASE ~("of" \in DOMAIN b /\ b.of = 1)
  <2>1. x \in Noise
    BY <1>2 DEF Octet
  <2>2. Noise \subseteq 0 .. 255
    BY ILCRepliesAssumption
  <2>3. QED
    BY <2>1, <2>2
<1>3. QED
  BY <1>1, <1>2

LEMMA Refusal ==
  ASSUME NEW g \in 17 .. 122, NEW func \in {g, g + 128}, func > 128
  PROVE  func - 128 = g
OBVIOUS

LEMMA NoRefusal ==
  ASSUME NEW g \in 17 .. 122, NEW func \in {g, g + 128}, ~(func > 128)
  PROVE  func = g
OBVIOUS

LEMMA ToldNumbers ==
  ASSUME NEW t \in Told
  PROVE  t.address \in 1 .. 255 /\ t.func \in Functions /\ t.func \in 17 .. 122
<1>1. t.address \in 1 .. 255 /\ t.func \in Functions
  BY DEF Told
<1>2. QED
  BY <1>1, FunctionNumbers

LEMMA AnsweredPlain ==
  ASSUME NEW t \in Told, NEW p, Answered(t, p)
  PROVE  p \in Seq(PlainByte) /\ Len(p) >= 2
<1>0. PICK bit \in 0 .. 1 :
         \E x \in Answers(t.func, bit) :
             p = Payload(t.address, t.func, x) /\ t.arguments = Meaning(t.func, x)
  BY DEF Answered
<1>1. PICK fields \in Answers(t.func, bit) : p = Payload(t.address, t.func, fields)
  BY <1>0
<1>2. t.address \in Nat /\ t.func \in Functions /\ t.func \in Nat
  BY ToldNumbers
<1>3. Laid(t.func, fields) /\ fields \in Seq(FieldType)
  BY <1>2, AnswerLaid DEF Laid, Writable
<1>4. PICK r : r = Reached(Sizes(fields))
  OBVIOUS
<1>5. Placed(p, t.address, t.func, fields, r, Len(fields))
  BY <1>1, <1>2, <1>3, <1>4, PayloadPlaced
<1>6. QED
  BY <1>5 DEF Placed

LEMMA RefusedPlain ==
  ASSUME NEW t \in Told, NEW p, Refused(t, p)
  PROVE  /\ p \in Seq(PlainByte) /\ Len(p) >= 2
         /\ From(Sealed(p), t.address, t.func + 128)
<1>1. PICK fields : fields = << << 1, 1 >> >>
  OBVIOUS
<1>2. Writable(fields) /\ fields \in Seq(FieldType)
  BY <1>1 DEF Writable, FieldType
<1>3. PICK f : f = t.func + 128
  OBVIOUS
<1>4. t.address \in Nat /\ f \in Nat
  BY <1>3, ToldNumbers
<1>5. p = Payload(t.address, f, fields)
  BY <1>1, <1>3 DEF Refused
<1>6. PICK r : r = Reached(Sizes(fields))
  OBVIOUS
<1>7. Placed(p, t.address, f, fields, r, Len(fields))
  BY <1>2, <1>4, <1>5, <1>6, PayloadPlaced
<1>8. From(Sealed(p), t.address, f)
  <2>1. PICK bytes : bytes = Sealed(p)
    OBVIOUS
  <2>2. bytes = Sealed(Payload(t.address, f, fields))
    BY <1>5, <2>1
  <2>3. From(bytes, t.address, f)
    BY <1>2, <1>4, <2>2, ReadsBack
  <2>4. QED
    BY <2>1, <2>3
<1>9. QED
  BY <1>3, <1>7, <1>8 DEF Placed

(* What parse does with the frame of an ILC, if it does not throw.           *)
Hands(t) ==
    /\ UNCHANGED step
    /\ handed' = IF t.said = "answer" /\ t.func \notin Silently
                 THEN Append(handed, Called(t)) ELSE handed

LEMMA ParseAnswer ==
  ASSUME NEW t \in Told, NEW p, Answered(t, p), decoded = Sealed(p), parse
  PROVE  Throw \/ Hands(t)
<1>0. PICK bit \in 0 .. 1 :
         \E x \in Answers(t.func, bit) :
             p = Payload(t.address, t.func, x) /\ t.arguments = Meaning(t.func, x)
  BY DEF Answered
<1>1. PICK fields \in Answers(t.func, bit) :
         p = Payload(t.address, t.func, fields) /\ t.arguments = Meaning(t.func, fields)
  BY <1>0
<1>2. t.address \in Nat /\ t.func \in Functions /\ t.func \in Nat /\ ~(t.func > 128)
  BY ToldNumbers
<1>3. Writable(fields)
  BY <1>2, AnswerLaid DEF Laid
<1>4. Throw \/ parseAs(t.address, t.func)
  <2>1. PICK bytes : bytes = decoded
    OBVIOUS
  <2>2. bytes = Sealed(Payload(t.address, t.func, fields))
    BY <1>1, <2>1
  <2>3. From(bytes, t.address, t.func)
    BY <1>2, <1>3, <2>2, ReadsBack
  <2>4. QED
    BY <2>1, <2>3 DEF parse, From
<1>5. CASE ~Acts(t.func, decoded)
  BY <1>2, <1>4, <1>5 DEF parseAs
<1>6. CASE Acts(t.func, decoded)
  <2>1. Layout(t.func, decoded) # NoLayout
    BY <1>6 DEF Acts
  <2>2. Arguments(t.func, decoded) = t.arguments
    BY <1>1, <1>2, <2>1, ArgumentsBack
  <2>3. \/ Throw
        \/ /\ handed' = IF t.func \in Silently THEN handed
                        ELSE Append(handed, [address |-> t.address, func |-> t.func,
                                             arguments |-> Arguments(t.func, decoded)])
           /\ UNCHANGED step
    BY <1>2, <1>4, <1>6 DEF parseAs
  <2>4. t.said = "answer"
    BY DEF Answered
  <2>5. QED
    BY <2>2, <2>3, <2>4 DEF Hands, Called
<1>7. QED
  BY <1>5, <1>6

LEMMA ParseRefusal ==
  ASSUME NEW t \in Told, NEW p, Refused(t, p), decoded = Sealed(p), parse
  PROVE  Throw \/ Hands(t)
<1>1. PICK f : f = t.func + 128
  OBVIOUS
<1>2. f > 128
  BY <1>1, ToldNumbers
<1>3. From(decoded, t.address, f)
  BY <1>1, RefusedPlain
<1>4. Throw \/ (UNCHANGED << step, handed >>)
  BY <1>2, <1>3 DEF parse, parseAs, From
<1>5. t.said # "answer"
  BY DEF Refused
<1>6. QED
  BY <1>4, <1>5 DEF Hands

(* The fields of an action.                                                  *)
LEMMA LayoutType ==
  ASSUME NEW func \in Functions \ {84}, NEW bytes \in Seq(Byte), Len(bytes) >= 4
  PROVE  Layout(func, bytes) \in Seq(Nat) \cup {NoLayout}
<1>1. Read(bytes, 2, 1) \in Int
  <2>1. 3 \in 1 .. Len(bytes)
    OBVIOUS
  <2>2. bytes[3] \in Byte
    BY <2>1
  <2>3. "v" \in DOMAIN bytes[3] => bytes[3].v \in Nat
    BY <2>2, Kinds DEF Byte
  <2>4. QED
    BY <2>3 DEF Read
<1>2. PICK n : n = Read(bytes, 2, 1)
  OBVIOUS
<1>3. \A m \in Nat : Floats(m) \in Seq(Nat)
  BY DEF Floats
<1>4. CASE func \in ILC_CMD
  <2>1. Layout(func, bytes) = ILCBusListLayout(func, bytes)
    BY <1>4 DEF Layout, ILC_CMD, ILC_EM_CMD, ILC_THERMAL_CMD, SENSOR_VALUES
  <2>2. CASE func = 17
    <3>1. CASE n < 12
      BY <1>2, <2>1, <2>2, <3>1 DEF ILCBusListLayout
    <3>2. CASE ~(n < 12)
      <4>1. ILCBusListLayout(17, bytes) = << 1, 6, 1, 1, 1, 1, 1, 1, n - 12 >>
        BY <1>2, <3>2 DEF ILCBusListLayout
      <4>2. n - 12 \in Nat
        BY <1>1, <1>2, <3>2
      <4>3. PICK m \in Nat : m = n - 12
        BY <4>2
      <4>4. << 1, 6, 1, 1, 1, 1, 1, 1, m >> \in Seq(Nat)
        OBVIOUS
      <4>5. QED
        BY <2>1, <2>2, <4>1, <4>3, <4>4
    <3>3. QED
      BY <3>1, <3>2
  <2>3. CASE func # 17
    <3>1. ILCBusListLayout(func, bytes) \in { << 1, 2, 2 >>, << 2 >>, << 1 >>, << >> }
      BY <1>4, <2>3 DEF ILCBusListLayout, ILC_CMD
    <3>2. << 1, 2, 2 >> \in Seq(Nat) /\ << 2 >> \in Seq(Nat) /\ << 1 >> \in Seq(Nat)
          /\ << >> \in Seq(Nat)
      OBVIOUS
    <3>3. QED
      BY <2>1, <3>1, <3>2
  <2>4. QED
    BY <2>2, <2>3
<1>5. CASE func \in ILC_EM_CMD
  <2>1. Layout(func, bytes) = ElectromechanicalLayout(func, bytes)
    BY <1>5 DEF Layout, ILC_EM_CMD, ILC_THERMAL_CMD, SENSOR_VALUES
  <2>2. ElectromechanicalLayout(func, bytes) \in
            { << 1, 4, 4 >>, << 1, 4 >>, NoLayout, Floats(2), Floats(24), Floats(4), << >> }
    BY <1>5 DEF ElectromechanicalLayout, ILC_EM_CMD
  <2>3. Floats(2) \in Seq(Nat) /\ Floats(24) \in Seq(Nat) /\ Floats(4) \in Seq(Nat)
    BY <1>3
  <2>4. << 1, 4, 4 >> \in Seq(Nat) /\ << 1, 4 >> \in Seq(Nat) /\ << >> \in Seq(Nat)
    OBVIOUS
  <2>5. QED
    BY <2>1, <2>2, <2>3, <2>4
<1>6. CASE func \in ILC_THERMAL_CMD
  <2>1. Layout(func, bytes) = ThermalLayout(func)
    BY <1>6 DEF Layout, ILC_EM_CMD, ILC_THERMAL_CMD, SENSOR_VALUES
  <2>2. ThermalLayout(func) \in { << 1, 4, 1, 4 >>, << >>, Floats(2) }
    BY <1>6 DEF ThermalLayout, ILC_THERMAL_CMD
  <2>3. Floats(2) \in Seq(Nat) /\ << 1, 4, 1, 4 >> \in Seq(Nat) /\ << >> \in Seq(Nat)
    BY <1>3
  <2>4. QED
    BY <2>1, <2>2, <2>3
<1>7. QED
  BY <1>4, <1>5, <1>6 DEF Functions, SENSOR_VALUES

(* A checksum that has come is that of something said.                       *)
Honest(b, said) ==
    "crc" \in DOMAIN b =>
        \E j \in 1 .. Len(said) : Answered(said[j], b.crc) \/ Refused(said[j], b.crc)

(* What an action takes is sealed.                                           *)
LEMMA ActsSealed ==
  ASSUME decoded \in Seq(Byte), Len(decoded) >= 4,
         \A i \in 1 .. Len(decoded) : Honest(decoded[i], told),
         NEW func \in Functions \ {84}, Acts(func, decoded)
  PROVE  \E j \in 1 .. Len(told) : \E p :
            (Answered(told[j], p) \/ Refused(told[j], p)) /\ decoded = Sealed(p)
<1>1. PICK sizes : sizes = Layout(func, decoded)
  OBVIOUS
<1>2. sizes \in Seq(Nat)
  BY <1>1, LayoutType DEF Acts
<1>3. PICK n : n = Reached(sizes)[Len(sizes)]
  OBVIOUS
<1>4. n \in Nat
  <2>1. Reaches(Reached(sizes), sizes)
    BY <1>2, ReachedIs
  <2>2. Len(sizes) \in 0 .. Len(sizes)
    BY <1>2
  <2>3. QED
    BY <1>3, <2>1, <2>2 DEF Reaches
<1>5. checkCRC(decoded, n)
  BY <1>1, <1>3 DEF Acts, SENSOR_VALUES
<1>6. PICK p : p = SubSeq(decoded, 1, n)
  OBVIOUS
<1>7. Len(decoded) >= n /\ decoded = Sealed(p)
  BY <1>5, <1>6 DEF checkCRC
<1>8. p \in Seq(Byte)
  BY <1>4, <1>6, <1>7
<1>9. Len(decoded) = Len(p) + 2 /\ decoded[Len(p) + 2] = [crc |-> p, k |-> 2]
  BY <1>7, <1>8, SealedIs
<1>10. Len(p) + 2 \in 1 .. Len(decoded)
  BY <1>8, <1>9
<1>11. PICK b : b = [crc |-> p, k |-> 2]
  OBVIOUS
<1>12. Honest(b, told)
  BY <1>9, <1>10, <1>11
<1>13. "crc" \in DOMAIN b /\ b.crc = p
  BY <1>11
<1>14. \E j \in 1 .. Len(told) : Answered(told[j], p) \/ Refused(told[j], p)
  BY <1>12, <1>13 DEF Honest
<1>15. QED
  BY <1>7, <1>14

(* parse takes nothing but what was said, if there are no sensors, or it takes *)
(* something for a refusal.                                                  *)
LEMMA ParseSealed ==
  ASSUME decoded \in Seq(Byte), \A i \in 1 .. Len(decoded) : Honest(decoded[i], told),
         \A i \in DOMAIN list : list[i].func \in Functions \ {84}, parse
  PROVE  \/ Throw
         \/ (UNCHANGED << step, handed >>) /\ \E i \in DOMAIN list : list[i].func = 65
         \/ \E j \in 1 .. Len(told) : \E p :
               (Answered(told[j], p) \/ Refused(told[j], p)) /\ decoded = Sealed(p)
<1>1. CASE Len(decoded) < 4
  BY <1>1 DEF parse
<1>2. CASE ~(Len(decoded) < 4)
  <2>1. Len(decoded) >= 4
    BY <1>2
  <2>2. PICK address \in Octet(decoded[1]), func \in Octet(decoded[2]) : parseAs(address, func)
    BY <1>2 DEF parse
  <2>3. func \in Nat
    <3>1. decoded[2] \in Byte
      BY <2>1
    <3>2. QED
      BY <3>1, OctetIs
  <2>4. CASE { i \in DOMAIN list : Fits(i, address, func) } = {}
    BY <2>2, <2>4 DEF parseAs
  <2>5. CASE { i \in DOMAIN list : Fits(i, address, func) } # {}
    <3>1. PICK i \in DOMAIN list : func \in {list[i].func, list[i].func + 128}
      BY <2>5 DEF Fits
    <3>2. list[i].func \in Functions \ {84} /\ list[i].func \in 17 .. 122
      BY FunctionNumbers
    <3>3. CASE func > 128
      <4>1. Throw \/ (func - 128 = 65 /\ UNCHANGED << step, handed >>)
        BY <2>2, <2>5, <3>3 DEF parseAs, ErrorsHandled
      <4>2. PICK g : g = list[i].func
        OBVIOUS
      <4>3. g \in 17 .. 122 /\ func \in {g, g + 128}
        BY <3>1, <3>2, <4>2
      <4>4. func - 128 = g
        BY <3>3, <4>3, Refusal
      <4>5. QED
        BY <4>1, <4>2, <4>4
    <3>4. CASE ~(func > 128)
      <4>1. func = list[i].func
        BY <3>1, <3>2, <3>4, NoRefusal
      <4>2. func \in Functions \ {84}
        BY <3>2, <4>1
      <4>3. CASE ~Acts(func, decoded)
        BY <2>2, <2>5, <3>4, <4>3 DEF parseAs
      <4>4. CASE Acts(func, decoded)
        BY <2>1, <4>2, <4>4, ActsSealed
      <4>5. QED
        BY <4>3, <4>4
    <3>5. QED
      BY <3>3, <3>4
  <2>6. QED
    BY <2>4, <2>5
<1>3. QED
  BY <1>1, <1>2

----------------------------------------------------------------------------
(* The words of the FPGA: for every frame a word of data and the two that    *)
(* end it. They are counted from the last.                                   *)

DataWord == [is : {"data"}, bytes : Seq(Byte) \ { << >> }]
Mark == [is : {"stamp", "end"}]

At(w, r) == w[Len(w) - r]

(* There are F frames to come, the one being decoded with them.              *)
Shaped(w, dec, F) ==
    /\ w \in Seq(DataWord \cup Mark) /\ dec \in Seq(Byte) /\ F \in Nat
    /\ IF dec = << >> THEN Len(w) \in {3 * F, 3 * F + 1} ELSE Len(w) = 3 * F - 1
    /\ \A k \in Nat : /\ 3 * k + 2 < Len(w) => At(w, 3 * k + 2) \in DataWord
                      /\ 3 * k + 1 < Len(w) => At(w, 3 * k + 1) \in Mark
                      /\ 3 * k < Len(w) => At(w, 3 * k) \in Mark

LEMMA WordKinds ==
  /\ \A word \in DataWord : /\ word.is = "data" /\ word.bytes \in Seq(Byte) /\ word.bytes # << >>
                            /\ word = [is |-> "data", bytes |-> word.bytes]
  /\ \A word \in Mark : word.is # "data"
BY DEF DataWord, Mark

(* A word is taken,                                                          *)
Taken(v, w) ==
    /\ Len(v) = Len(w) - 1
    /\ \A r \in Nat : r < Len(v) => At(v, r) = At(w, r)

LEMMA TakenIs ==
  ASSUME NEW T, NEW w \in Seq(T), w # << >>
  PROVE  Taken(Tail(w), w) /\ Tail(w) \in Seq(T) /\ Head(w) = At(w, Len(w) - 1)
<1>1. PICK n \in Nat : n = Len(w)
  OBVIOUS
<1>2. PICK v : v = Tail(w)
  OBVIOUS
<1>3. n # 0
  BY <1>1
<1>4. v \in Seq(T) /\ Len(v) = n - 1 /\ \A q \in 1 .. n - 1 : v[q] = w[q + 1]
  BY <1>1, <1>2, <1>3
<1>5. ASSUME NEW r \in Nat, r < Len(v) PROVE At(v, r) = At(w, r)
  <2>1. PICK q : q = (n - 1) - r
    OBVIOUS
  <2>2. q \in 1 .. n - 1 /\ q + 1 = n - r
    BY <1>3, <1>4, <1>5, <2>1
  <2>3. At(v, r) = v[q] /\ At(w, r) = w[q + 1]
    BY <1>1, <1>4, <2>1, <2>2 DEF At
  <2>4. QED
    BY <1>4, <2>2, <2>3
<1>6. Head(w) = w[1] /\ n - (n - 1) = 1
  BY <1>1, <1>3
<1>7. Head(w) = At(w, n - 1)
  BY <1>1, <1>6 DEF At
<1>8. QED
  BY <1>1, <1>2, <1>4, <1>5, <1>7 DEF Taken

(* put behind the others with those that end it,                             *)
Put(v, w, b) ==
    /\ Len(v) = Len(w) + 3
    /\ At(v, 2) = [is |-> "data", bytes |-> b] /\ At(v, 1) \in Mark /\ At(v, 0) \in Mark
    /\ \A r \in Nat : r < Len(w) => At(v, r + 3) = At(w, r)

LEMMA PutIs ==
  ASSUME NEW w \in Seq(DataWord \cup Mark), NEW b \in Seq(Byte) \ { << >> }, NEW ends \in Tails
  PROVE  LET v == w \o << [is |-> "data", bytes |-> b] >> \o ends
         IN  Put(v, w, b) /\ v \in Seq(DataWord \cup Mark)
<1>1. PICK T : T = DataWord \cup Mark
  OBVIOUS
<1>2. PICK n \in Nat : n = Len(w)
  OBVIOUS
<1>3. PICK d : d = << [is |-> "data", bytes |-> b] >>
  OBVIOUS
<1>4. [is |-> "data", bytes |-> b] \in DataWord
  BY DEF DataWord
<1>5. d \in Seq(T) /\ Len(d) = 1 /\ d[1] = [is |-> "data", bytes |-> b]
  BY <1>1, <1>3, <1>4
<1>6. ends \in Seq(T) /\ Len(ends) = 2 /\ ends[1] \in Mark /\ ends[2] \in Mark
  <2>1. PICK e, f : ends = << e, f >> /\ e \in Mark /\ f \in Mark
    <3>1. [is |-> "end"] \in Mark /\ [is |-> "stamp"] \in Mark
      BY DEF Mark
    <3>2. QED
      BY <3>1 DEF Tails
  <2>2. e \in T /\ f \in T
    BY <1>1, <2>1
  <2>3. QED
    BY <2>1, <2>2
<1>7. PICK u : u = w \o d
  OBVIOUS
<1>8. /\ u \in Seq(T) /\ Len(u) = Len(w) + Len(d)
      /\ \A i \in 1 .. Len(w) + Len(d) : u[i] = IF i <= Len(w) THEN w[i] ELSE d[i - Len(w)]
  BY <1>1, <1>5, <1>7, ConcatProperties
<1>9. Len(u) = n + 1 /\ \A i \in 1 .. n + 1 : u[i] = IF i <= n THEN w[i] ELSE d[i - n]
  BY <1>2, <1>5, <1>8
<1>10. PICK v : v = u \o ends
  OBVIOUS
<1>11. /\ v \in Seq(T) /\ Len(v) = Len(u) + Len(ends)
       /\ \A i \in 1 .. Len(u) + Len(ends) : v[i] = IF i <= Len(u) THEN u[i] ELSE ends[i - Len(u)]
  BY <1>6, <1>8, <1>10, ConcatProperties
<1>12. Len(v) = n + 3 /\ \A i \in 1 .. n + 3 : v[i] = IF i <= n + 1 THEN u[i] ELSE ends[i - (n + 1)]
  BY <1>6, <1>9, <1>11
<1>13. v[n + 1] = d[1] /\ v[n + 2] = ends[1] /\ v[n + 3] = ends[2]
  <2>1. n + 1 \in 1 .. n + 3 /\ n + 2 \in 1 .. n + 3 /\ n + 3 \in 1 .. n + 3 /\ n + 1 \in 1 .. n + 1
    OBVIOUS
  <2>2. v[n + 1] = u[n + 1] /\ u[n + 1] = d[1]
    BY <1>9, <1>12, <2>1
  <2>3. v[n + 2] = ends[1] /\ v[n + 3] = ends[2]
    BY <1>12, <2>1
  <2>4. QED
    BY <2>2, <2>3
<1>14. At(v, 2) = d[1] /\ At(v, 1) = ends[1] /\ At(v, 0) = ends[2]
  <2>1. (n + 3) - 2 = n + 1 /\ (n + 3) - 1 = n + 2 /\ (n + 3) - 0 = n + 3
    OBVIOUS
  <2>2. QED
    BY <1>12, <1>13, <2>1 DEF At
<1>15. ASSUME NEW r \in Nat, r < n PROVE At(v, r + 3) = At(w, r)
  <2>1. PICK q : q = n - r
    OBVIOUS
  <2>2. q \in 1 .. n /\ (n + 3) - (r + 3) = q /\ q \in 1 .. n + 1 /\ q \in 1 .. n + 3
    BY <1>15, <2>1
  <2>3. v[q] = u[q] /\ u[q] = w[q]
    BY <1>9, <1>12, <2>2
  <2>4. At(v, r + 3) = v[q] /\ At(w, r) = w[q]
    BY <1>2, <1>12, <2>1, <2>2 DEF At
  <2>5. QED
    BY <2>3, <2>4
<1>16. Put(v, w, b)
  BY <1>2, <1>5, <1>6, <1>12, <1>14, <1>15 DEF Put
<1>17. QED
  BY <1>1, <1>3, <1>7, <1>10, <1>11, <1>16

(* or bytes are put behind those of the last.                                *)
Joined(v, w, b) ==
    /\ Len(v) = Len(w)
    /\ At(v, 2) = [is |-> "data", bytes |-> At(w, 2).bytes \o b]
    /\ \A r \in Nat : r < Len(w) /\ r # 2 => At(v, r) = At(w, r)

LEMMA JoinedIs ==
  ASSUME NEW w \in Seq(DataWord \cup Mark), Len(w) >= 3, At(w, 2) \in DataWord, NEW b \in Seq(Byte)
  PROVE  LET v == [w EXCEPT ![Len(w) - 2].bytes = @ \o b]
         IN  /\ Joined(v, w, b) /\ v \in Seq(DataWord \cup Mark)
             /\ At(w, 2).bytes \o b \in Seq(Byte) \ { << >> }
<1>1. PICK n \in Nat : n = Len(w)
  OBVIOUS
<1>2. PICK a : a = w[n - 2].bytes
  OBVIOUS
<1>3. /\ w[n - 2] = [is |-> "data", bytes |-> a]
      /\ a \in Seq(Byte) /\ a # << >> /\ n - 2 \in 1 .. n /\ At(w, 2).bytes = a
  BY <1>1, <1>2, WordKinds DEF At
<1>4. PICK c : c = a \o b
  OBVIOUS
<1>5. c \in Seq(Byte) /\ c # << >>
  <2>1. Then(c, a, b)
    BY <1>3, <1>4, Joins
  <2>2. Len(c) = Len(a) + Len(b) /\ c \in Seq(Byte)
    BY <2>1 DEF Then
  <2>3. Len(a) # 0 /\ Len(a) \in Nat /\ Len(b) \in Nat
    BY <1>3
  <2>4. Len(c) # 0
    BY <2>2, <2>3
  <2>5. QED
    BY <2>2, <2>4
<1>6. PICK v : v = [w EXCEPT ![n - 2].bytes = @ \o b]
  OBVIOUS
<1>7. v = [w EXCEPT ![n - 2] = [w[n - 2] EXCEPT !.bytes = c]]
  BY <1>2, <1>4, <1>6
<1>8. [w[n - 2] EXCEPT !.bytes = c] = [is |-> "data", bytes |-> c]
  BY <1>3
<1>9. [is |-> "data", bytes |-> c] \in DataWord
  BY <1>5 DEF DataWord
<1>10. /\ v \in Seq(DataWord \cup Mark) /\ Len(v) = n /\ v[n - 2] = [is |-> "data", bytes |-> c]
       /\ \A q \in 1 .. n : q # n - 2 => v[q] = w[q]
  BY <1>1, <1>3, <1>7, <1>8, <1>9
<1>11. At(v, 2) = [is |-> "data", bytes |-> c]
  BY <1>10 DEF At
<1>12. ASSUME NEW r \in Nat, r < n, r # 2 PROVE At(v, r) = At(w, r)
  <2>1. n - r \in 1 .. n /\ n - r # n - 2
    BY <1>12
  <2>2. QED
    BY <1>1, <1>10, <2>1 DEF At
<1>13. Joined(v, w, b)
  BY <1>1, <1>3, <1>4, <1>10, <1>11, <1>12 DEF Joined
<1>14. QED
  BY <1>1, <1>3, <1>4, <1>5, <1>6, <1>10, <1>13

(* The next word is one of data, and its frame the one being decoded then,   *)
LEMMA ShapedData ==
  ASSUME NEW w, NEW dec, NEW F, Shaped(w, dec, F), w # << >>, Head(w).is = "data"
  PROVE  /\ dec = << >> /\ F - 1 \in Nat /\ 3 * (F - 1) + 2 < Len(w)
         /\ Head(w) = At(w, 3 * (F - 1) + 2) /\ Head(w) \in DataWord
         /\ Shaped(Tail(w), Head(w).bytes, F)
<1>1. PICK n \in Nat, m \in Nat : n = Len(w) /\ m = F
  BY DEF Shaped
<1>2. w \in Seq(DataWord \cup Mark)
  BY DEF Shaped
<1>3. PICK v : v = Tail(w)
  OBVIOUS
<1>4. Taken(v, w) /\ v \in Seq(DataWord \cup Mark) /\ Head(w) = At(w, n - 1) /\ n # 0
  BY <1>1, <1>2, <1>3, TakenIs
<1>5. \A k \in Nat : /\ 3 * k + 2 < n => At(w, 3 * k + 2) \in DataWord
                     /\ 3 * k + 1 < n => At(w, 3 * k + 1) \in Mark
                     /\ 3 * k < n => At(w, 3 * k) \in Mark
  BY <1>1 DEF Shaped
<1>6. n = 3 * m
  <2>1. CASE n = 3 * m + 1
    <3>1. At(w, 3 * m) \in Mark /\ n - 1 = 3 * m
      BY <1>5, <2>1
    <3>2. QED
      BY <1>4, <3>1, WordKinds
  <2>2. CASE n = 3 * m - 1
    <3>1. m - 1 \in Nat /\ n - 1 = 3 * (m - 1) + 1 /\ 3 * (m - 1) + 1 < n
      BY <2>2
    <3>2. At(w, 3 * (m - 1) + 1) \in Mark
      BY <1>5, <3>1
    <3>3. QED
      BY <1>4, <3>1, <3>2, WordKinds
  <2>3. QED
    BY <1>1, <2>1, <2>2 DEF Shaped
<1>7. dec = << >>
  <2>1. SUFFICES ASSUME dec # << >> PROVE FALSE
    OBVIOUS
  <2>2. n = 3 * m - 1
    BY <1>1, <2>1 DEF Shaped
  <2>3. QED
    BY <1>6, <2>2
<1>8. m - 1 \in Nat /\ n - 1 = 3 * (m - 1) + 2 /\ 3 * (m - 1) + 2 < n
  BY <1>4, <1>6
<1>9. Head(w) = At(w, 3 * (m - 1) + 2) /\ Head(w) \in DataWord
  BY <1>4, <1>5, <1>8
<1>10. Head(w).bytes \in Seq(Byte) /\ Head(w).bytes # << >>
  BY <1>9, WordKinds
<1>11. Len(v) = n - 1 /\ \A r \in Nat : r < n - 1 => At(v, r) = At(w, r)
  BY <1>1, <1>4 DEF Taken
<1>12. \A k \in Nat : /\ 3 * k + 2 < n - 1 => At(v, 3 * k + 2) \in DataWord
                      /\ 3 * k + 1 < n - 1 => At(v, 3 * k + 1) \in Mark
                      /\ 3 * k < n - 1 => At(v, 3 * k) \in Mark
  BY <1>5, <1>11
<1>13. Shaped(v, Head(w).bytes, m)
  BY <1>4, <1>6, <1>10, <1>11, <1>12 DEF Shaped
<1>14. QED
  BY <1>1, <1>3, <1>7, <1>8, <1>9, <1>13

(* or one that ends it.                                                      *)
LEMMA ShapedMark ==
  ASSUME NEW w, NEW dec, NEW F, Shaped(w, dec, F), w # << >>, Head(w).is # "data"
  PROVE  /\ dec # << >> => F - 1 \in Nat /\ Shaped(Tail(w), << >>, F - 1)
         /\ dec = << >> => Shaped(Tail(w), << >>, F)
<1>1. PICK n \in Nat, m \in Nat : n = Len(w) /\ m = F
  BY DEF Shaped
<1>2. w \in Seq(DataWord \cup Mark)
  BY DEF Shaped
<1>3. PICK v : v = Tail(w)
  OBVIOUS
<1>4. Taken(v, w) /\ v \in Seq(DataWord \cup Mark) /\ Head(w) = At(w, n - 1) /\ n # 0
  BY <1>1, <1>2, <1>3, TakenIs
<1>5. \A k \in Nat : /\ 3 * k + 2 < n => At(w, 3 * k + 2) \in DataWord
                     /\ 3 * k + 1 < n => At(w, 3 * k + 1) \in Mark
                     /\ 3 * k < n => At(w, 3 * k) \in Mark
  BY <1>1 DEF Shaped
<1>6. Len(v) = n - 1 /\ \A r \in Nat : r < n - 1 => At(v, r) = At(w, r)
  BY <1>1, <1>4 DEF Taken
<1>7. \A k \in Nat : /\ 3 * k + 2 < n - 1 => At(v, 3 * k + 2) \in DataWord
                     /\ 3 * k + 1 < n - 1 => At(v, 3 * k + 1) \in Mark
                     /\ 3 * k < n - 1 => At(v, 3 * k) \in Mark
  BY <1>5, <1>6
<1>8. << >> \in Seq(Byte)
  OBVIOUS
<1>9. CASE dec # << >>
  <2>1. n = 3 * m - 1
    BY <1>1, <1>9 DEF Shaped
  <2>2. m - 1 \in Nat /\ n - 1 = 3 * (m - 1) + 1
    BY <1>4, <2>1
  <2>3. Shaped(v, << >>, m - 1)
    BY <1>4, <1>6, <1>7, <1>8, <2>2 DEF Shaped
  <2>4. QED
    BY <1>1, <1>3, <1>9, <2>2, <2>3
<1>10. CASE dec = << >>
  <2>1. n \in {3 * m, 3 * m + 1}
    BY <1>1, <1>10 DEF Shaped
  <2>2. n # 3 * m
    <3>1. SUFFICES ASSUME n = 3 * m PROVE FALSE
      OBVIOUS
    <3>2. m - 1 \in Nat /\ n - 1 = 3 * (m - 1) + 2 /\ 3 * (m - 1) + 2 < n
      BY <1>4, <3>1
    <3>3. At(w, 3 * (m - 1) + 2) \in DataWord
      BY <1>5, <3>2
    <3>4. QED
      BY <1>4, <3>2, <3>3, WordKinds
  <2>3. n - 1 = 3 * m
    BY <2>1, <2>2
  <2>4. Shaped(v, << >>, m)
    BY <1>4, <1>6, <1>7, <1>8, <2>3 DEF Shaped
  <2>5. QED
    BY <1>1, <1>3, <1>10, <2>4
<1>11. QED
  BY <1>9, <1>10

(* A frame more is to come,                                                  *)
LEMMA ShapedPut ==
  ASSUME NEW w, NEW F, Shaped(w, << >>, F), Len(w) = 3 * F, NEW b \in Seq(Byte) \ { << >> },
         NEW v \in Seq(DataWord \cup Mark), Put(v, w, b)
  PROVE  Shaped(v, << >>, F + 1) /\ Len(v) = 3 * (F + 1)
<1>1. PICK n \in Nat, m \in Nat : n = Len(w) /\ m = F
  BY DEF Shaped
<1>2. \A k \in Nat : /\ 3 * k + 2 < n => At(w, 3 * k + 2) \in DataWord
                     /\ 3 * k + 1 < n => At(w, 3 * k + 1) \in Mark
                     /\ 3 * k < n => At(w, 3 * k) \in Mark
  BY <1>1 DEF Shaped
<1>3. /\ Len(v) = n + 3
      /\ At(v, 2) = [is |-> "data", bytes |-> b] /\ At(v, 1) \in Mark /\ At(v, 0) \in Mark
      /\ \A r \in Nat : r < n => At(v, r + 3) = At(w, r)
  BY <1>1 DEF Put
<1>4. At(v, 2) \in DataWord
  BY <1>3 DEF DataWord
<1>5. ASSUME NEW k \in Nat
      PROVE  /\ 3 * k + 2 < n + 3 => At(v, 3 * k + 2) \in DataWord
             /\ 3 * k + 1 < n + 3 => At(v, 3 * k + 1) \in Mark
             /\ 3 * k < n + 3 => At(v, 3 * k) \in Mark
  <2>1. CASE k = 0
    BY <1>3, <1>4, <2>1
  <2>2. CASE k # 0
    <3>1. PICK j \in Nat : k = j + 1
      <4>1. k - 1 \in Nat /\ k = (k - 1) + 1
        BY <2>2
      <4>2. QED
        BY <4>1
    <3>2. 3 * k + 2 = (3 * j + 2) + 3 /\ 3 * k + 1 = (3 * j + 1) + 3 /\ 3 * k = 3 * j + 3
      BY <3>1
    <3>3. 3 * j + 2 \in Nat /\ 3 * j + 1 \in Nat /\ 3 * j \in Nat
      OBVIOUS
    <3>4. /\ 3 * j + 2 < n => At(v, (3 * j + 2) + 3) = At(w, 3 * j + 2)
          /\ 3 * j + 1 < n => At(v, (3 * j + 1) + 3) = At(w, 3 * j + 1)
          /\ 3 * j < n => At(v, 3 * j + 3) = At(w, 3 * j)
      BY <1>3, <3>3
    <3>5. /\ (3 * j + 2) + 3 < n + 3 => At(v, (3 * j + 2) + 3) \in DataWord
          /\ (3 * j + 1) + 3 < n + 3 => At(v, (3 * j + 1) + 3) \in Mark
          /\ 3 * j + 3 < n + 3 => At(v, 3 * j + 3) \in Mark
      BY <1>2, <3>4
    <3>6. QED
      BY <3>2, <3>5
  <2>3. QED
    BY <2>1, <2>2
<1>6. << >> \in Seq(Byte)
  OBVIOUS
<1>7. Len(v) = 3 * (m + 1) /\ m + 1 \in Nat
  BY <1>1, <1>3
<1>8. Shaped(v, << >>, m + 1)
  BY <1>3, <1>5, <1>6, <1>7 DEF Shaped
<1>9. QED
  BY <1>1, <1>7, <1>8

(* or as many as before.                                                     *)
LEMMA ShapedJoined ==
  ASSUME NEW w, NEW F, Shaped(w, << >>, F), Len(w) = 3 * F, NEW b,
         NEW v \in Seq(DataWord \cup Mark), Joined(v, w, b),
         At(w, 2).bytes \o b \in Seq(Byte) \ { << >> }
  PROVE  Shaped(v, << >>, F) /\ Len(v) = 3 * F
<1>1. PICK n \in Nat, m \in Nat : n = Len(w) /\ m = F
  BY DEF Shaped
<1>2. \A k \in Nat : /\ 3 * k + 2 < n => At(w, 3 * k + 2) \in DataWord
                     /\ 3 * k + 1 < n => At(w, 3 * k + 1) \in Mark
                     /\ 3 * k < n => At(w, 3 * k) \in Mark
  BY <1>1 DEF Shaped
<1>3. At(v, 2) \in DataWord
  <2>1. PICK c \in Seq(Byte) \ { << >> } : c = At(w, 2).bytes \o b
    OBVIOUS
  <2>2. At(v, 2) = [is |-> "data", bytes |-> c]
    BY <2>1 DEF Joined
  <2>3. QED
    BY <2>2 DEF DataWord
<1>4. Len(v) = n /\ \A r \in Nat : r < n /\ r # 2 => At(v, r) = At(w, r)
  BY <1>1 DEF Joined
<1>5. ASSUME NEW k \in Nat
      PROVE  /\ 3 * k + 2 < n => At(v, 3 * k + 2) \in DataWord
             /\ 3 * k + 1 < n => At(v, 3 * k + 1) \in Mark
             /\ 3 * k < n => At(v, 3 * k) \in Mark
  <2>1. 3 * k + 1 # 2 /\ 3 * k # 2 /\ (3 * k + 2 = 2 \/ 3 * k + 2 # 2)
    OBVIOUS
  <2>2. 3 * k + 2 \in Nat /\ 3 * k + 1 \in Nat /\ 3 * k \in Nat
    OBVIOUS
  <2>3. QED
    BY <1>2, <1>3, <1>4, <2>1, <2>2
<1>6. << >> \in Seq(Byte)
  OBVIOUS
<1>7. Shaped(v, << >>, m)
  BY <1>1, <1>4, <1>5, <1>6 DEF Shaped
<1>8. QED
  BY <1>1, <1>4, <1>7

----------------------------------------------------------------------------
(* Where nothing is spoilt or joined, every frame on its way is one that an  *)
(* ILC has sent, and what was handed over is told in its order.              *)

Clean(said) == \A i \in 1 .. Len(said) : ~said[i].spoilt /\ ~said[i].joined

IsDue(t) == t.said = "answer" /\ t.func \notin Silently

Sends(t, b) == \E p : (Answered(t, p) \/ Refused(t, p)) /\ b = Sealed(p)

(* The frames to come are of the ILCs after the last one that is done with.  *)
Follows(said, last, from, F) ==
    /\ last \in 0 .. Len(said) /\ F \in Nat
    /\ \A k \in 1 .. F : from[k] \in last + 1 .. Len(said)
    /\ \A k, l \in 1 .. F : k < l => from[l] < from[k]
    /\ \A j \in last + 1 .. Len(said) : said[j].said # "nothing" => \E k \in 1 .. F : from[k] = j

Framing(w, dec, said, from, F) ==
    /\ \A k \in Nat : 3 * k + 2 < Len(w) => Sends(said[from[k + 1]], At(w, 3 * k + 2).bytes)
    /\ dec # << >> => Sends(said[from[F]], dec)

HandedSo(h, said, which, last) ==
    /\ \A i \in 1 .. Len(h) : /\ which[i] \in 1 .. last
                              /\ IsDue(said[which[i]]) /\ h[i] = Called(said[which[i]])
    /\ \A i, j \in 1 .. Len(h) : i < j => which[i] < which[j]
    /\ \A j \in 1 .. last : IsDue(said[j]) => \E i \in 1 .. Len(h) : which[i] = j

(* What was said stays, with the new behind it.                              *)
Further(more, said, t) ==
    /\ Len(more) = Len(said) + 1 /\ more[Len(said) + 1] = t
    /\ \A i \in 1 .. Len(said) : more[i] = said[i]

LEMMA FurtherIs ==
  ASSUME NEW said \in Seq(Told), NEW t \in Told
  PROVE  Further(Append(said, t), said, t) /\ Append(said, t) \in Seq(Told)
BY DEF Further

LEMMA FollowsSilence ==
  ASSUME NEW said \in Seq(Told), NEW t, NEW more, Further(more, said, t), t.said = "nothing",
         NEW last, NEW from, NEW F, Follows(said, last, from, F)
  PROVE  Follows(more, last, from, F)
<1>1. PICK n \in Nat : n = Len(said)
  OBVIOUS
<1>2. Len(more) = n + 1 /\ more[n + 1] = t /\ \A i \in 1 .. n : more[i] = said[i]
  BY <1>1 DEF Further
<1>3. /\ last \in 0 .. n /\ F \in Nat
      /\ \A k \in 1 .. F : from[k] \in last + 1 .. n
      /\ \A k, l \in 1 .. F : k < l => from[l] < from[k]
      /\ \A j \in last + 1 .. n : said[j].said # "nothing" => \E k \in 1 .. F : from[k] = j
  BY <1>1 DEF Follows
<1>4. ASSUME NEW j \in last + 1 .. n + 1, more[j].said # "nothing"
      PROVE  \E k \in 1 .. F : from[k] = j
  <2>1. j # n + 1
    BY <1>2, <1>4
  <2>2. j \in last + 1 .. n /\ j \in 1 .. n
    BY <1>3, <2>1
  <2>3. QED
    BY <1>2, <1>3, <1>4, <2>2
<1>5. last \in 0 .. n + 1 /\ \A k \in 1 .. F : from[k] \in last + 1 .. n + 1
  BY <1>3
<1>6. QED
  BY <1>2, <1>3, <1>4, <1>5 DEF Follows

Shifted(from, F, new) == [k \in 1 .. F + 1 |-> IF k = 1 THEN new ELSE from[k - 1]]

LEMMA FollowsSaid ==
  ASSUME NEW said \in Seq(Told), NEW t, NEW more, Further(more, said, t),
         NEW last, NEW from, NEW F, Follows(said, last, from, F)
  PROVE  Follows(more, last, Shifted(from, F, Len(said) + 1), F + 1)
<1>1. PICK n \in Nat : n = Len(said)
  OBVIOUS
<1>2. Len(more) = n + 1 /\ more[n + 1] = t /\ \A i \in 1 .. n : more[i] = said[i]
  BY <1>1 DEF Further
<1>3. /\ last \in 0 .. n /\ F \in Nat
      /\ \A k \in 1 .. F : from[k] \in last + 1 .. n
      /\ \A k, l \in 1 .. F : k < l => from[l] < from[k]
      /\ \A j \in last + 1 .. n : said[j].said # "nothing" => \E k \in 1 .. F : from[k] = j
  BY <1>1 DEF Follows
<1>4. PICK m \in Nat : m = F
  BY <1>3
<1>5. PICK g : g = Shifted(from, F, n + 1)
  OBVIOUS
<1>6. g[1] = n + 1 /\ \A k \in 2 .. m + 1 : g[k] = from[k - 1]
  BY <1>4, <1>5 DEF Shifted
<1>7. \A k \in 2 .. m + 1 : g[k] \in last + 1 .. n
  <2>1. \A k \in 2 .. m + 1 : k - 1 \in 1 .. m
    OBVIOUS
  <2>2. QED
    BY <1>3, <1>4, <1>6, <2>1
<1>8. \A k \in 1 .. m + 1 : g[k] \in last + 1 .. n + 1
  BY <1>3, <1>6, <1>7
<1>9. ASSUME NEW k \in 1 .. m + 1, NEW l \in 1 .. m + 1, k < l PROVE g[l] < g[k]
  <2>1. l \in 2 .. m + 1 /\ l - 1 \in 1 .. m
    BY <1>9
  <2>2. CASE k = 1
    BY <1>3, <1>6, <1>7, <2>1, <2>2
  <2>3. CASE k # 1
    <3>1. k \in 2 .. m + 1 /\ k - 1 \in 1 .. m /\ k - 1 < l - 1
      BY <1>9, <2>3
    <3>2. QED
      BY <1>3, <1>4, <1>6, <2>1, <3>1
  <2>4. QED
    BY <2>2, <2>3
<1>10. ASSUME NEW j \in last + 1 .. n + 1, more[j].said # "nothing"
       PROVE  \E k \in 1 .. m + 1 : g[k] = j
  <2>1. CASE j = n + 1
    BY <1>6, <2>1
  <2>2. CASE j # n + 1
    <3>1. j \in last + 1 .. n /\ j \in 1 .. n
      BY <1>3, <2>2
    <3>2. PICK k \in 1 .. m : from[k] = j
      BY <1>2, <1>3, <1>4, <1>10, <3>1
    <3>3. k + 1 \in 2 .. m + 1 /\ (k + 1) - 1 = k
      OBVIOUS
    <3>4. g[k + 1] = from[(k + 1) - 1]
      BY <1>6, <3>3
    <3>5. k + 1 \in 1 .. m + 1
      OBVIOUS
    <3>6. QED
      BY <3>2, <3>3, <3>4, <3>5
  <2>3. QED
    BY <2>1, <2>2
<1>11. last \in 0 .. n + 1 /\ m + 1 \in Nat
  BY <1>3
<1>12. Follows(more, last, g, m + 1)
  BY <1>2, <1>8, <1>9, <1>10, <1>11 DEF Follows
<1>13. QED
  BY <1>1, <1>4, <1>5, <1>12

LEMMA HandedFurther ==
  ASSUME NEW said \in Seq(Told), NEW t, NEW more, Further(more, said, t), NEW h, NEW which,
         NEW last \in 0 .. Len(said), HandedSo(h, said, which, last)
  PROVE  HandedSo(h, more, which, last)
<1>1. \A i \in 1 .. last : more[i] = said[i]
  BY DEF Further
<1>2. QED
  BY <1>1 DEF HandedSo

Handing(h, t) == IF IsDue(t) THEN Append(h, Called(t)) ELSE h

(* The frame that was decoded is done with.                                  *)
LEMMA HandedNext ==
  ASSUME NEW said \in Seq(Told), NEW last, NEW from, NEW F, Follows(said, last, from, F), F - 1 \in Nat,
         NEW S, NEW h \in Seq(S), Called(said[from[F]]) \in S, NEW which, HandedSo(h, said, which, last)
  PROVE  /\ Follows(said, from[F], from, F - 1)
         /\ \E new : HandedSo(Handing(h, said[from[F]]), said, new, from[F])
<1>0. PICK g : g = Handing(h, said[from[F]])
  OBVIOUS
<1>1. PICK n \in Nat : n = Len(said)
  OBVIOUS
<1>2. PICK m \in Nat : F = m + 1
  <2>1. F \in Nat /\ F = (F - 1) + 1
    BY DEF Follows
  <2>2. QED
    BY <2>1
<1>3. /\ last \in 0 .. n
      /\ \A k \in 1 .. m + 1 : from[k] \in last + 1 .. n
      /\ \A k, l \in 1 .. m + 1 : k < l => from[l] < from[k]
      /\ \A j \in last + 1 .. n : said[j].said # "nothing" => \E k \in 1 .. m + 1 : from[k] = j
  BY <1>1, <1>2 DEF Follows
<1>4. PICK c : c = from[m + 1]
  OBVIOUS
<1>5. c \in last + 1 .. n /\ \A k \in 1 .. m : from[k] \in c + 1 .. n
  <2>1. m + 1 \in 1 .. m + 1 /\ \A k \in 1 .. m : k \in 1 .. m + 1 /\ k < m + 1
    OBVIOUS
  <2>2. c \in last + 1 .. n
    BY <1>3, <1>4, <2>1
  <2>3. \A k \in 1 .. m : c < from[k] /\ from[k] \in last + 1 .. n
    BY <1>3, <1>4, <2>1
  <2>4. QED
    BY <1>3, <2>2, <2>3
<1>6. \A j \in last + 1 .. n :
         said[j].said # "nothing" => j = c \/ \E k \in 1 .. m : from[k] = j
  <2>1. \A k \in 1 .. m + 1 : k = m + 1 \/ k \in 1 .. m
    OBVIOUS
  <2>2. QED
    BY <1>3, <1>4, <2>1
<1>7. Follows(said, c, from, m)
  <2>1. c \in 0 .. n
    BY <1>3, <1>5
  <2>2. \A k, l \in 1 .. m : k < l => from[l] < from[k]
    BY <1>3
  <2>3. ASSUME NEW j \in c + 1 .. n, said[j].said # "nothing" PROVE \E k \in 1 .. m : from[k] = j
    <3>1. j \in last + 1 .. n /\ j # c
      BY <1>3, <1>5
    <3>2. QED
      BY <1>6, <2>3, <3>1
  <2>4. QED
    BY <1>1, <1>5, <2>1, <2>2, <2>3 DEF Follows
<1>8. ASSUME NEW j \in 1 .. c, IsDue(said[j]) PROVE j = c \/ j \in 1 .. last
  <2>1. SUFFICES ASSUME j # c, j \notin 1 .. last PROVE FALSE
    OBVIOUS
  <2>2. j \in last + 1 .. n /\ j < c
    BY <1>3, <1>5, <2>1
  <2>3. said[j].said # "nothing"
    BY <1>8 DEF IsDue
  <2>4. PICK k \in 1 .. m : from[k] = j
    BY <1>6, <2>1, <2>2, <2>3
  <2>5. QED
    BY <1>5, <2>2, <2>4
<1>9. PICK q \in Nat : q = Len(h)
  OBVIOUS
<1>10. /\ \A i \in 1 .. q : which[i] \in 1 .. last /\ IsDue(said[which[i]]) /\ h[i] = Called(said[which[i]])
       /\ \A i, j \in 1 .. q : i < j => which[i] < which[j]
       /\ \A j \in 1 .. last : IsDue(said[j]) => \E i \in 1 .. q : which[i] = j
  BY <1>9 DEF HandedSo
<1>11. \A i \in 1 .. q : which[i] \in 1 .. c /\ which[i] < c
  BY <1>3, <1>5, <1>10
<1>12. CASE IsDue(said[c])
  <2>1. g = Append(h, Called(said[c]))
    BY <1>0, <1>2, <1>4, <1>12 DEF Handing
  <2>2. Called(said[c]) \in S
    BY <1>2, <1>4
  <2>3. Len(g) = q + 1 /\ g[q + 1] = Called(said[c]) /\ \A i \in 1 .. q : g[i] = h[i]
    BY <1>9, <2>1, <2>2
  <2>4. PICK new : new = [i \in 1 .. q + 1 |-> IF i = q + 1 THEN c ELSE which[i]]
    OBVIOUS
  <2>5. new[q + 1] = c /\ \A i \in 1 .. q : new[i] = which[i]
    BY <2>4
  <2>6. \A i \in 1 .. q + 1 : i = q + 1 \/ i \in 1 .. q
    OBVIOUS
  <2>7. \A i \in 1 .. q + 1 : new[i] \in 1 .. c /\ IsDue(said[new[i]]) /\ g[i] = Called(said[new[i]])
    <3>1. c \in 1 .. c
      BY <1>3, <1>5
    <3>2. QED
      BY <1>10, <1>11, <1>12, <2>3, <2>5, <2>6, <3>1
  <2>8. ASSUME NEW i \in 1 .. q + 1, NEW j \in 1 .. q + 1, i < j PROVE new[i] < new[j]
    <3>1. i \in 1 .. q
      BY <2>8
    <3>2. CASE j = q + 1
      BY <1>11, <2>5, <3>1, <3>2
    <3>3. CASE j \in 1 .. q
      BY <1>10, <2>5, <2>8, <3>1, <3>3
    <3>4. QED
      BY <2>6, <3>2, <3>3
  <2>9. ASSUME NEW j \in 1 .. c, IsDue(said[j]) PROVE \E i \in 1 .. q + 1 : new[i] = j
    <3>1. CASE j = c
      BY <2>5, <3>1
    <3>2. CASE j \in 1 .. last
      <4>1. PICK i \in 1 .. q : which[i] = j
        BY <1>10, <2>9, <3>2
      <4>2. i \in 1 .. q + 1
        OBVIOUS
      <4>3. QED
        BY <2>5, <4>1, <4>2
    <3>3. QED
      BY <1>8, <2>9, <3>1, <3>2
  <2>10. HandedSo(g, said, new, c)
    BY <2>3, <2>7, <2>8, <2>9 DEF HandedSo
  <2>11. QED
    BY <1>0, <1>2, <1>4, <1>7, <2>10
<1>13. CASE ~IsDue(said[c])
  <2>1. g = h
    BY <1>0, <1>2, <1>4, <1>13 DEF Handing
  <2>2. \A j \in 1 .. c : IsDue(said[j]) => \E i \in 1 .. q : which[i] = j
    BY <1>8, <1>10, <1>13
  <2>3. HandedSo(g, said, which, c)
    BY <1>9, <1>10, <1>11, <2>1, <2>2 DEF HandedSo
  <2>4. QED
    BY <1>0, <1>2, <1>4, <1>7, <2>3
<1>14. QED
  BY <1>12, <1>13

(* All are done with.                                                        *)
LEMMA HandedAll ==
  ASSUME NEW said \in Seq(Told), NEW last, NEW from, Follows(said, last, from, 0),
         NEW h, NEW which, HandedSo(h, said, which, last)
  PROVE  HandedSo(h, said, which, Len(said))
<1>1. PICK n \in Nat : n = Len(said)
  OBVIOUS
<1>2. last \in 0 .. n /\ \A j \in last + 1 .. n : said[j].said = "nothing"
  BY <1>1 DEF Follows
<1>3. \A j \in 1 .. n : IsDue(said[j]) => j \in 1 .. last
  <2>1. \A j \in 1 .. n : j \in 1 .. last \/ j \in last + 1 .. n
    BY <1>2
  <2>2. QED
    BY <1>2, <2>1 DEF IsDue
<1>4. \A i \in 1 .. last : i \in 1 .. n
  BY <1>2
<1>5. QED
  BY <1>1, <1>3, <1>4 DEF HandedSo

(* The frames: nothing is said,                                              *)
LEMMA FramingFurther ==
  ASSUME NEW said \in Seq(Told), NEW t, NEW more, Further(more, said, t), NEW last, NEW from, NEW F,
         NEW w, NEW dec, Follows(said, last, from, F), Shaped(w, dec, F), Framing(w, dec, said, from, F)
  PROVE  Framing(w, dec, more, from, F)
<1>1. PICK n \in Nat, m \in Nat, q \in Nat : n = Len(said) /\ m = F /\ q = Len(w)
  BY DEF Follows, Shaped
<1>2. /\ last \in 0 .. n
      /\ \A k \in 1 .. m : from[k] \in last + 1 .. n
  BY <1>1 DEF Follows
<1>3. \A i \in 1 .. n : more[i] = said[i]
  BY <1>1 DEF Further
<1>4. \A k \in 1 .. m : more[from[k]] = said[from[k]]
  <2>1. \A k \in 1 .. m : from[k] \in 1 .. n
    BY <1>2
  <2>2. QED
    BY <1>3, <2>1
<1>5. q <= 3 * m + 1 /\ (dec # << >> => q = 3 * m - 1)
  BY <1>1 DEF Shaped
<1>6. \A k \in Nat : 3 * k + 2 < q => k + 1 \in 1 .. m
  BY <1>5
<1>7. dec # << >> => m \in 1 .. m
  BY <1>5
<1>8. /\ \A k \in Nat : 3 * k + 2 < q => Sends(said[from[k + 1]], At(w, 3 * k + 2).bytes)
      /\ dec # << >> => Sends(said[from[m]], dec)
  BY <1>1 DEF Framing
<1>9. /\ \A k \in Nat : 3 * k + 2 < q => Sends(more[from[k + 1]], At(w, 3 * k + 2).bytes)
      /\ dec # << >> => Sends(more[from[m]], dec)
  BY <1>4, <1>6, <1>7, <1>8
<1>10. QED
  BY <1>1, <1>9 DEF Framing

(* one is put behind the others,                                             *)
LEMMA FramingPut ==
  ASSUME NEW said \in Seq(Told), NEW t, NEW more, Further(more, said, t), NEW last, NEW from, NEW F,
         NEW w, Follows(said, last, from, F), Shaped(w, << >>, F), Framing(w, << >>, said, from, F),
         NEW b, Sends(t, b), NEW v, Put(v, w, b)
  PROVE  Framing(v, << >>, more, Shifted(from, F, Len(said) + 1), F + 1)
<1>1. PICK n \in Nat, m \in Nat, q \in Nat : n = Len(said) /\ m = F /\ q = Len(w)
  <2>1. F \in Nat
    BY DEF Follows
  <2>2. w \in Seq(DataWord \cup Mark)
    BY DEF Shaped
  <2>3. QED
    BY <2>1, <2>2
<1>2. Framing(w, << >>, more, from, m)
  BY <1>1, FramingFurther
<1>3. PICK g : g = Shifted(from, m, n + 1)
  OBVIOUS
<1>4. g[1] = n + 1 /\ \A k \in 2 .. m + 1 : g[k] = from[k - 1]
  BY <1>3 DEF Shifted
<1>5. more[n + 1] = t
  BY <1>1 DEF Further
<1>6. /\ Len(v) = q + 3 /\ At(v, 2) = [is |-> "data", bytes |-> b]
      /\ \A r \in Nat : r < q => At(v, r + 3) = At(w, r)
  BY <1>1 DEF Put
<1>7. q <= 3 * m + 1
  BY <1>1 DEF Shaped
<1>8. \A k \in Nat : 3 * k + 2 < q => Sends(more[from[k + 1]], At(w, 3 * k + 2).bytes)
  BY <1>1, <1>2 DEF Framing
<1>9. ASSUME NEW k \in Nat, 3 * k + 2 < q + 3
      PROVE  Sends(more[g[k + 1]], At(v, 3 * k + 2).bytes)
  <2>1. CASE k = 0
    <3>1. more[g[k + 1]] = t /\ At(v, 3 * k + 2).bytes = b
      BY <1>4, <1>5, <1>6, <2>1
    <3>2. QED
      BY <3>1
  <2>2. CASE k # 0
    <3>1. PICK j \in Nat : k = j + 1
      <4>1. k - 1 \in Nat /\ k = (k - 1) + 1
        BY <2>2
      <4>2. QED
        BY <4>1
    <3>2. 3 * j + 2 < q /\ 3 * k + 2 = (3 * j + 2) + 3 /\ k + 1 \in 2 .. m + 1 /\ (k + 1) - 1 = j + 1
      BY <1>7, <1>9, <3>1
    <3>3. g[k + 1] = from[j + 1] /\ At(v, 3 * k + 2) = At(w, 3 * j + 2)
      <4>1. 3 * j + 2 \in Nat
        OBVIOUS
      <4>2. QED
        BY <1>4, <1>6, <3>2, <4>1
    <3>4. QED
      BY <1>8, <3>2, <3>3
  <2>3. QED
    BY <2>1, <2>2
<1>10. Framing(v, << >>, more, g, m + 1)
  BY <1>6, <1>9 DEF Framing
<1>11. QED
  BY <1>1, <1>3, <1>10

(* the first of them is decoded, and                                         *)
LEMMA FramingData ==
  ASSUME NEW w, NEW dec, NEW F, Shaped(w, dec, F), w # << >>, Head(w).is = "data",
         NEW said, NEW from, Framing(w, dec, said, from, F)
  PROVE  Framing(Tail(w), Head(w).bytes, said, from, F)
<1>1. /\ F - 1 \in Nat /\ 3 * (F - 1) + 2 < Len(w)
      /\ Head(w) = At(w, 3 * (F - 1) + 2)
  BY ShapedData
<1>2. PICK m \in Nat, q \in Nat : m = F - 1 /\ F = m + 1 /\ q = Len(w)
  <2>1. F \in Nat
    BY DEF Shaped
  <2>2. w \in Seq(DataWord \cup Mark)
    BY DEF Shaped
  <2>3. QED
    BY <1>1, <2>1, <2>2
<1>3. Sends(said[from[m + 1]], Head(w).bytes)
  BY <1>1, <1>2 DEF Framing
<1>4. w \in Seq(DataWord \cup Mark)
  BY DEF Shaped
<1>5. Taken(Tail(w), w) /\ Len(w) \in Nat
  BY <1>4, TakenIs
<1>6. PICK v : v = Tail(w)
  OBVIOUS
<1>7. Len(v) = q - 1 /\ \A r \in Nat : r < q - 1 => At(v, r) = At(w, r)
  BY <1>2, <1>5, <1>6 DEF Taken
<1>8. \A k \in Nat : 3 * k + 2 < q => Sends(said[from[k + 1]], At(w, 3 * k + 2).bytes)
  BY <1>2 DEF Framing
<1>9. \A k \in Nat : 3 * k + 2 \in Nat /\ (3 * k + 2 < q - 1 => 3 * k + 2 < q)
  OBVIOUS
<1>10. \A k \in Nat : 3 * k + 2 < q - 1 => Sends(said[from[k + 1]], At(v, 3 * k + 2).bytes)
  BY <1>7, <1>8, <1>9
<1>11. QED
  BY <1>2, <1>3, <1>6, <1>7, <1>10 DEF Framing

(* what ends it is taken.                                                    *)
LEMMA FramingMark ==
  ASSUME NEW w, NEW dec, NEW F, Shaped(w, dec, F), w # << >>,
         NEW said, NEW from, Framing(w, dec, said, from, F), NEW G
  PROVE  Framing(Tail(w), << >>, said, from, G)
<1>1. w \in Seq(DataWord \cup Mark)
  BY DEF Shaped
<1>2. Taken(Tail(w), w)
  BY <1>1, TakenIs
<1>3. PICK q \in Nat : q = Len(w)
  BY <1>1
<1>4. PICK v : v = Tail(w)
  OBVIOUS
<1>5. Len(v) = q - 1 /\ \A r \in Nat : r < q - 1 => At(v, r) = At(w, r)
  BY <1>2, <1>3, <1>4 DEF Taken
<1>6. \A k \in Nat : 3 * k + 2 < q => Sends(said[from[k + 1]], At(w, 3 * k + 2).bytes)
  BY <1>3 DEF Framing
<1>7. \A k \in Nat : 3 * k + 2 \in Nat /\ (3 * k + 2 < q - 1 => 3 * k + 2 < q)
  OBVIOUS
<1>8. \A k \in Nat : 3 * k + 2 < q - 1 => Sends(said[from[k + 1]], At(v, 3 * k + 2).bytes)
  BY <1>5, <1>6, <1>7
<1>9. QED
  BY <1>4, <1>5, <1>8 DEF Framing

----------------------------------------------------------------------------
(* Where every answer has a checksum that counts, all checksums are of what   *)
(* was said, and of what is spoilt or joined a frame comes that has none; if *)
(* no refusal is taken, that ends the call.                                  *)

Sealing(said) == \A i \in 1 .. Len(said) : said[i].func # 84

Steady(said) == \A i \in 1 .. Len(said) : said[i].func # 65

Frank(b, said) == \A x \in 1 .. Len(b) : Honest(b[x], said)

AllFrank(w, dec, said) ==
    /\ \A k \in Nat : 3 * k + 2 < Len(w) => Frank(At(w, 3 * k + 2).bytes, said)
    /\ Frank(dec, said)

AnyBad(w, dec) ==
    \/ dec # << >> /\ Bad(dec)
    \/ \E k \in Nat : 3 * k + 2 < Len(w) /\ Bad(At(w, 3 * k + 2).bytes)

(* The last frame ends with a byte of a checksum.                            *)
Ends(b) == "crc" \in DOMAIN b[Len(b)]

Closed(w) == 2 < Len(w) => Ends(At(w, 2).bytes)

LEMMA FrankFurther ==
  ASSUME NEW said \in Seq(Told), NEW t, NEW more, Further(more, said, t)
  PROVE  /\ \A b : Frank(b, said) => Frank(b, more)
         /\ \A w, dec : AllFrank(w, dec, said) => AllFrank(w, dec, more)
<1>1. PICK n \in Nat : n = Len(said)
  OBVIOUS
<1>2. Len(more) = n + 1 /\ \A i \in 1 .. n : more[i] = said[i]
  BY <1>1 DEF Further
<1>3. ASSUME NEW c, Honest(c, said) PROVE Honest(c, more)
  <2>1. ASSUME "crc" \in DOMAIN c
        PROVE  \E j \in 1 .. n + 1 : Answered(more[j], c.crc) \/ Refused(more[j], c.crc)
    <3>1. PICK j \in 1 .. n : Answered(said[j], c.crc) \/ Refused(said[j], c.crc)
      BY <1>1, <1>3, <2>1 DEF Honest
    <3>2. j \in 1 .. n + 1 /\ (Answered(more[j], c.crc) \/ Refused(more[j], c.crc))
      BY <1>2, <3>1
    <3>3. QED
      BY <3>2
  <2>2. QED
    BY <1>2, <1>3, <2>1 DEF Honest
<1>4. \A b : Frank(b, said) => Frank(b, more)
  BY <1>3 DEF Frank
<1>5. QED
  BY <1>4 DEF AllFrank

(* What comes of a frame                                                    *)
LEMMA FrankAnswer ==
  ASSUME NEW said \in Seq(Told), NEW t \in Told, NEW more, Further(more, said, t),
         NEW p, Answered(t, p) \/ Refused(t, p),
         NEW d, d = Sealed(p) \/ Leftover(d, Sealed(p))
  PROVE  Frank(d, more)
<1>1. p \in Seq(PlainByte)
  BY AnsweredPlain, RefusedPlain
<1>2. PICK m \in Nat, n \in Nat : m = Len(p) /\ n = Len(said)
  BY <1>1
<1>3. PICK b : b = Sealed(p)
  OBVIOUS
<1>4. Framed(b, p)
  BY <1>1, <1>3, FramedIs
<1>5. /\ Len(b) = m + 2 /\ \A x \in 1 .. m : b[x] = p[x]
      /\ b[m + 1] = [crc |-> p, k |-> 1] /\ b[m + 2] = [crc |-> p, k |-> 2]
  BY <1>2, <1>4 DEF Framed
<1>6. Len(more) = n + 1 /\ more[n + 1] = t
  BY <1>2 DEF Further
<1>7. \E j \in 1 .. Len(more) : Answered(more[j], p) \/ Refused(more[j], p)
  <2>1. n + 1 \in 1 .. n + 1
    OBVIOUS
  <2>2. QED
    BY <1>6, <2>1
<1>8. \A k : LET c == [crc |-> p, k |-> k] IN Honest(c, more)
  <2>1. ASSUME NEW k, NEW c, c = [crc |-> p, k |-> k] PROVE Honest(c, more)
    <3>1. c.crc = p
      BY <2>1
    <3>2. QED
      BY <1>7, <3>1 DEF Honest
  <2>2. QED
    BY <2>1
<1>9. \A x \in 1 .. m : Honest(b[x], more)
  <2>1. ASSUME NEW x \in 1 .. m PROVE Honest(b[x], more)
    <3>1. b[x] \in PlainByte
      BY <1>1, <1>2, <1>5
    <3>2. "crc" \notin DOMAIN b[x]
      BY <3>1, Kinds
    <3>3. QED
      BY <3>2 DEF Honest
  <2>2. QED
    BY <2>1
<1>10. \A x \in 1 .. m + 2 : Honest(b[x], more)
  <2>1. \A x \in 1 .. m + 2 : x \in 1 .. m \/ x = m + 1 \/ x = m + 2
    OBVIOUS
  <2>2. Honest(b[m + 1], more) /\ Honest(b[m + 2], more)
    BY <1>5, <1>8
  <2>3. QED
    BY <1>9, <2>1, <2>2
<1>11. Frank(b, more)
  BY <1>5, <1>10 DEF Frank
<1>12. Honest(Spoilt, more)
  BY DEF Honest, Spoilt
<1>13. CASE Leftover(d, b)
  BY <1>5, <1>10, <1>12, <1>13 DEF Leftover, Frank
<1>14. QED
  BY <1>3, <1>11, <1>13

(* is put behind the others                                                  *)
LEMMA FrankPut ==
  ASSUME NEW said, NEW w, NEW v, NEW b, Put(v, w, b), NEW n \in Nat, n = Len(w)
  PROVE  /\ AllFrank(w, << >>, said) /\ Frank(b, said) => AllFrank(v, << >>, said)
         /\ AnyBad(w, << >>) \/ Bad(b) => AnyBad(v, << >>)
         /\ Ends(b) => Closed(v)
<1>1. /\ Len(v) = n + 3 /\ At(v, 2).bytes = b
      /\ \A r \in Nat : r < n => At(v, r + 3) = At(w, r)
  BY DEF Put
<1>2. \A k \in Nat : 3 * k + 2 < n =>
         /\ 3 * (k + 1) + 2 < n + 3 /\ At(v, 3 * (k + 1) + 2) = At(w, 3 * k + 2)
  <2>1. \A k \in Nat : 3 * k + 2 \in Nat /\ (3 * k + 2) + 3 = 3 * (k + 1) + 2
    OBVIOUS
  <2>2. QED
    BY <1>1, <2>1
<1>3. ASSUME AllFrank(w, << >>, said), Frank(b, said) PROVE AllFrank(v, << >>, said)
  <2>1. ASSUME NEW k \in Nat, 3 * k + 2 < n + 3 PROVE Frank(At(v, 3 * k + 2).bytes, said)
    <3>1. CASE k = 0
      BY <1>1, <1>3, <3>1
    <3>2. CASE k # 0
      <4>1. PICK j \in Nat : k = j + 1
        <5>1. k - 1 \in Nat /\ k = (k - 1) + 1
          BY <3>2
        <5>2. QED
          BY <5>1
      <4>2. 3 * j + 2 < n
        BY <2>1, <4>1
      <4>3. Frank(At(w, 3 * j + 2).bytes, said)
        BY <1>3, <4>2 DEF AllFrank
      <4>4. QED
        BY <1>2, <4>1, <4>2, <4>3
    <3>3. QED
      BY <3>1, <3>2
  <2>2. QED
    BY <1>1, <1>3, <2>1 DEF AllFrank
<1>4. ASSUME Bad(b) PROVE AnyBad(v, << >>)
  <2>1. 0 \in Nat /\ 3 * 0 + 2 < n + 3 /\ Bad(At(v, 3 * 0 + 2).bytes)
    BY <1>1, <1>4
  <2>2. QED
    BY <1>1, <2>1 DEF AnyBad
<1>5. ASSUME AnyBad(w, << >>) PROVE AnyBad(v, << >>)
  <2>1. PICK k \in Nat : 3 * k + 2 < n /\ Bad(At(w, 3 * k + 2).bytes)
    BY <1>5 DEF AnyBad
  <2>2. k + 1 \in Nat /\ 3 * (k + 1) + 2 < n + 3 /\ Bad(At(v, 3 * (k + 1) + 2).bytes)
    BY <1>2, <2>1
  <2>3. QED
    BY <1>1, <2>2 DEF AnyBad
<1>6. Ends(b) => Closed(v)
  BY <1>1 DEF Closed
<1>7. QED
  BY <1>3, <1>4, <1>5, <1>6

(* or behind the last.                                                       *)
LEMMA FrankJoined ==
  ASSUME NEW said, NEW w, NEW v, NEW b \in Seq(Byte), Joined(v, w, b), NEW n \in Nat, n = Len(w), n >= 3,
         At(w, 2).bytes \in Seq(Byte), b # << >>
  PROVE  /\ AllFrank(w, << >>, said) /\ Frank(b, said) => AllFrank(v, << >>, said)
         /\ Bad(At(w, 2).bytes \o b) => AnyBad(v, << >>)
         /\ Ends(b) => Closed(v)
<1>1. PICK a : a = At(w, 2).bytes
  OBVIOUS
<1>2. PICK c : c = a \o b
  OBVIOUS
<1>3. /\ Len(v) = n /\ At(v, 2).bytes = c
      /\ \A r \in Nat : r < n /\ r # 2 => At(v, r) = At(w, r)
  BY <1>1, <1>2 DEF Joined
<1>4. Then(c, a, b)
  BY <1>1, <1>2, Joins
<1>5. PICK p \in Nat, q \in Nat : p = Len(a) /\ q = Len(b)
  BY <1>1
<1>6. /\ Len(c) = p + q /\ \A x \in 1 .. p : c[x] = a[x]
      /\ \A x \in 1 .. q : c[p + x] = b[x]
  BY <1>4, <1>5 DEF Then
<1>7. ASSUME Frank(a, said), Frank(b, said) PROVE Frank(c, said)
  <2>1. ASSUME NEW x \in 1 .. p + q PROVE Honest(c[x], said)
    <3>1. CASE x <= p
      <4>1. x \in 1 .. p
        BY <3>1
      <4>2. QED
        BY <1>5, <1>6, <1>7, <4>1 DEF Frank
    <3>2. CASE x > p
      <4>1. PICK y : y = x - p
        OBVIOUS
      <4>2. y \in 1 .. q /\ x = p + y
        BY <3>2, <4>1
      <4>3. QED
        BY <1>5, <1>6, <1>7, <4>2 DEF Frank
    <3>3. QED
      BY <3>1, <3>2
  <2>2. QED
    BY <1>6, <2>1 DEF Frank
<1>8. ASSUME AllFrank(w, << >>, said), Frank(b, said) PROVE AllFrank(v, << >>, said)
  <2>1. Frank(a, said)
    <3>1. 0 \in Nat /\ 3 * 0 + 2 = 2 /\ 2 < n
      OBVIOUS
    <3>2. QED
      BY <1>1, <1>8, <3>1 DEF AllFrank
  <2>2. ASSUME NEW k \in Nat, 3 * k + 2 < n PROVE Frank(At(v, 3 * k + 2).bytes, said)
    <3>1. CASE k = 0
      BY <1>3, <1>7, <1>8, <2>1, <3>1
    <3>2. CASE k # 0
      <4>1. 3 * k + 2 # 2 /\ 3 * k + 2 \in Nat
        BY <3>2
      <4>2. QED
        BY <1>3, <1>8, <2>2, <4>1 DEF AllFrank
    <3>3. QED
      BY <3>1, <3>2
  <2>3. QED
    BY <1>3, <1>8, <2>2 DEF AllFrank
<1>9. ASSUME Bad(c) PROVE AnyBad(v, << >>)
  <2>1. 0 \in Nat /\ 3 * 0 + 2 < n /\ Bad(At(v, 3 * 0 + 2).bytes)
    BY <1>3, <1>9
  <2>2. QED
    BY <1>3, <2>1 DEF AnyBad
<1>10. ASSUME Ends(b) PROVE Closed(v)
  <2>1. q # 0
    BY <1>5
  <2>2. c[p + q] = b[q]
    BY <1>6, <2>1
  <2>3. Ends(c)
    BY <1>5, <1>6, <1>10, <2>2 DEF Ends
  <2>4. QED
    BY <1>3, <2>3 DEF Closed
<1>11. QED
  BY <1>1, <1>2, <1>8, <1>9, <1>10

(* The first word is decoded,                                                *)
LEMMA FrankData ==
  ASSUME NEW w, NEW dec, NEW F, Shaped(w, dec, F), w # << >>, Head(w).is = "data", NEW said
  PROVE  /\ AllFrank(w, dec, said) => AllFrank(Tail(w), Head(w).bytes, said)
         /\ AnyBad(w, dec) => AnyBad(Tail(w), Head(w).bytes)
<1>1. /\ dec = << >> /\ F - 1 \in Nat /\ 3 * (F - 1) + 2 < Len(w)
      /\ Head(w) = At(w, 3 * (F - 1) + 2) /\ Head(w) \in DataWord
  BY ShapedData
<1>2. w \in Seq(DataWord \cup Mark)
  BY DEF Shaped
<1>3. Taken(Tail(w), w) /\ Head(w) = At(w, Len(w) - 1)
  BY <1>2, TakenIs
<1>4. PICK q \in Nat, m \in Nat : q = Len(w) /\ m = F - 1
  BY <1>1, <1>2
<1>5. PICK v : v = Tail(w)
  OBVIOUS
<1>6. Len(v) = q - 1 /\ \A r \in Nat : r < q - 1 => At(v, r) = At(w, r)
  BY <1>3, <1>4, <1>5 DEF Taken
<1>7. \A k \in Nat : 3 * k + 2 \in Nat /\ (3 * k + 2 < q - 1 => 3 * k + 2 < q)
  OBVIOUS
<1>8. ASSUME AllFrank(w, dec, said) PROVE AllFrank(v, Head(w).bytes, said)
  <2>1. \A k \in Nat : 3 * k + 2 < q => Frank(At(w, 3 * k + 2).bytes, said)
    BY <1>4, <1>8 DEF AllFrank
  <2>2. Frank(Head(w).bytes, said)
    BY <1>1, <1>4, <2>1
  <2>3. \A k \in Nat : 3 * k + 2 < q - 1 => Frank(At(v, 3 * k + 2).bytes, said)
    BY <1>6, <1>7, <2>1
  <2>4. QED
    BY <1>6, <2>2, <2>3 DEF AllFrank
<1>9. ASSUME AnyBad(w, dec) PROVE AnyBad(v, Head(w).bytes)
  <2>1. PICK k \in Nat : 3 * k + 2 < q /\ Bad(At(w, 3 * k + 2).bytes)
    BY <1>1, <1>4, <1>9 DEF AnyBad
  <2>2. CASE 3 * k + 2 = q - 1
    <3>1. Bad(Head(w).bytes)
      BY <1>3, <1>4, <2>1, <2>2
    <3>2. Head(w).bytes # << >>
      BY <1>1, WordKinds
    <3>3. QED
      BY <3>1, <3>2 DEF AnyBad
  <2>3. CASE 3 * k + 2 # q - 1
    <3>1. 3 * k + 2 < q - 1
      BY <2>1, <2>3
    <3>2. At(v, 3 * k + 2) = At(w, 3 * k + 2)
      BY <1>6, <1>7, <3>1
    <3>3. QED
      BY <1>6, <2>1, <3>1, <3>2 DEF AnyBad
  <2>4. QED
    BY <2>2, <2>3
<1>10. QED
  BY <1>5, <1>8, <1>9

(* or it ends a frame that is none of the bad.                               *)
LEMMA FrankMark ==
  ASSUME NEW w, NEW dec, NEW F, Shaped(w, dec, F), w # << >>, Head(w).is # "data", NEW said
  PROVE  /\ AllFrank(w, dec, said) => AllFrank(Tail(w), << >>, said)
         /\ AnyBad(w, dec) /\ ~(dec # << >> /\ Bad(dec)) => AnyBad(Tail(w), << >>)
<1>1. w \in Seq(DataWord \cup Mark)
  BY DEF Shaped
<1>2. Taken(Tail(w), w) /\ Head(w) = At(w, Len(w) - 1)
  BY <1>1, TakenIs
<1>3. PICK q \in Nat : q = Len(w)
  BY <1>1
<1>4. PICK v : v = Tail(w)
  OBVIOUS
<1>5. Len(v) = q - 1 /\ \A r \in Nat : r < q - 1 => At(v, r) = At(w, r)
  BY <1>2, <1>3, <1>4 DEF Taken
<1>6. \A k \in Nat : 3 * k + 2 \in Nat /\ (3 * k + 2 < q - 1 => 3 * k + 2 < q)
  OBVIOUS
<1>7. ASSUME AllFrank(w, dec, said) PROVE AllFrank(v, << >>, said)
  <2>1. \A k \in Nat : 3 * k + 2 < q => Frank(At(w, 3 * k + 2).bytes, said)
    BY <1>3, <1>7 DEF AllFrank
  <2>2. \A k \in Nat : 3 * k + 2 < q - 1 => Frank(At(v, 3 * k + 2).bytes, said)
    BY <1>5, <1>6, <2>1
  <2>3. Frank(<< >>, said)
    BY DEF Frank
  <2>4. QED
    BY <1>5, <2>2, <2>3 DEF AllFrank
<1>8. ASSUME AnyBad(w, dec), ~(dec # << >> /\ Bad(dec)) PROVE AnyBad(v, << >>)
  <2>1. PICK k \in Nat : 3 * k + 2 < q /\ Bad(At(w, 3 * k + 2).bytes)
    BY <1>3, <1>8 DEF AnyBad
  <2>2. 3 * k + 2 # q - 1
    <3>1. At(w, 3 * k + 2) \in DataWord
      BY <1>3, <2>1 DEF Shaped
    <3>2. QED
      BY <1>2, <1>3, <3>1, WordKinds
  <2>3. 3 * k + 2 < q - 1
    BY <2>1, <2>2
  <2>4. At(v, 3 * k + 2) = At(w, 3 * k + 2)
    BY <1>5, <1>6, <2>3
  <2>5. QED
    BY <1>5, <2>1, <2>3, <2>4 DEF AnyBad
<1>9. QED
  BY <1>4, <1>7, <1>8

----------------------------------------------------------------------------
(* The invariant.                                                            *)

Working == step \in {"bus", "decode"}

CalledOf(said) == { Called(said[j]) : j \in { i \in 1 .. Len(said) : IsDue(said[i]) } }

Kept ==
    /\ list \in Seq(Command) /\ told \in Seq(Told) /\ Len(told) <= Len(list)
    /\ \A i \in 1 .. Len(told) : told[i].func = list[i].func
    /\ step \in {"bus", "decode", "normal", "thrown"}
    /\ step = "decode" => Len(told) = Len(list)
    /\ tail \in Tails

OnTheWay(F) ==
    Working => /\ Shaped(words, decoded, F)
               /\ step = "bus" => decoded = << >> /\ Len(words) = 3 * F

InOrder(F, last, from, which) ==
    /\ last \in 0 .. Len(told) /\ HandedSo(handed, told, which, last)
    /\ Working => Follows(told, last, from, F) /\ Framing(words, decoded, told, from, F)
    /\ step = "normal" => last = Len(told)

NoneSpoilt(said) == \A i \in 1 .. Len(said) : ~said[i].spoilt

Guarded ==
    /\ Working => AllFrank(words, decoded, told)
    /\ step = "bus" /\ NoneSpoilt(told) => Closed(words)
    /\ ~Clean(told) /\ (step = "bus" \/ Steady(told)) =>
           step # "normal" /\ (Working => AnyBad(words, decoded))

RepliesInv ==
    /\ Kept
    /\ Clean(told) \/ Sealing(told) => handed \in Seq(CalledOf(told))
    /\ \E F : /\ OnTheWay(F)
              /\ Clean(told) => \E last, from, which : InOrder(F, last, from, which)
    /\ Sealing(told) => Guarded

(* Nothing is called, said or received.                                      *)
LEMMA NothingYet ==
  ASSUME NEW said, said = << >>
  PROVE  /\ said \in Seq(Told) /\ Clean(said) /\ Len(said) = 0
         /\ \A S : << >> \in Seq(S)
         /\ \A from, which : Follows(said, 0, from, 0) /\ HandedSo(<< >>, said, which, 0)
                             /\ Framing(<< >>, << >>, said, from, 0)
         /\ Shaped(<< >>, << >>, 0) /\ AllFrank(<< >>, << >>, said) /\ Closed(<< >>)
<1>1. said \in Seq(Told) /\ Len(said) = 0 /\ Clean(said)
  BY DEF Clean
<1>2. ASSUME NEW from, NEW which
      PROVE  Follows(said, 0, from, 0) /\ HandedSo(<< >>, said, which, 0)
             /\ Framing(<< >>, << >>, said, from, 0)
  BY <1>1 DEF Follows, HandedSo, Framing
<1>3. Shaped(<< >>, << >>, 0)
  BY DEF Shaped
<1>4. AllFrank(<< >>, << >>, said) /\ Closed(<< >>)
  BY DEF AllFrank, Frank, Closed
<1>5. \A S : << >> \in Seq(S)
  OBVIOUS
<1>6. QED
  BY <1>1, <1>2, <1>3, <1>4, <1>5

LEMMA RepliesInitially ==
  ASSUME ILCRepliesInit
  PROVE  RepliesInv
<1>1. /\ list = << >> /\ step = "normal" /\ words = << >> /\ decoded = << >>
      /\ handed = << >> /\ told = << >> /\ tail \in Tails
  BY DEF ILCRepliesInit
<1>2. Kept
  BY <1>1 DEF Kept
<1>3. handed \in Seq(CalledOf(told)) /\ Clean(told) /\ ~Working
  BY <1>1, NothingYet DEF Working
<1>4. PICK any : TRUE
  OBVIOUS
<1>5. InOrder(0, 0, any, any)
  BY <1>1, <1>3, NothingYet DEF InOrder
<1>6. OnTheWay(0)
  BY <1>3 DEF OnTheWay
<1>7. Guarded
  BY <1>1, <1>3 DEF Guarded, Working
<1>8. QED
  BY <1>2, <1>3, <1>5, <1>6, <1>7 DEF RepliesInv

LEMMA RepliesStart ==
  ASSUME RepliesInv, NEW cmds \in Seq(Command), ilcCommands(cmds)
  PROVE  RepliesInv'
<1>1. /\ list' = cmds /\ step' = "bus" /\ words' = << >> /\ decoded' = << >>
      /\ handed' = << >> /\ told' = << >> /\ tail' = tail
  BY DEF ilcCommands
<1>2. Kept'
  BY <1>1 DEF Kept, RepliesInv
<1>3. handed' \in Seq(CalledOf(told')) /\ Clean(told')
  BY <1>1, NothingYet
<1>4. PICK any : TRUE
  OBVIOUS
<1>5. InOrder(0, 0, any, any)'
  <2>1. /\ Follows(told', 0, any, 0) /\ HandedSo(handed', told', any, 0)
        /\ Framing(words', decoded', told', any, 0) /\ Len(told') = 0
    BY <1>1, NothingYet
  <2>2. QED
    BY <1>1, <2>1 DEF InOrder
<1>6. OnTheWay(0)'
  <2>1. Shaped(words', decoded', 0) /\ decoded' = << >> /\ Len(words') = 3 * 0
    BY <1>1, NothingYet
  <2>2. QED
    BY <2>1 DEF OnTheWay
<1>7. Guarded'
  <2>1. AllFrank(words', decoded', told') /\ Closed(words')
    BY <1>1, NothingYet
  <2>2. QED
    BY <1>3, <2>1 DEF Guarded
<1>8. QED
  BY <1>2, <1>3, <1>5, <1>6, <1>7 DEF RepliesInv

(* What was clean, sealed, not spoilt or handed over before something more is*)
(* said.                                                                     *)
LEMMA MoreSaid ==
  ASSUME NEW said \in Seq(Told), NEW t, NEW more, Further(more, said, t)
  PROVE  /\ Clean(more) <=> Clean(said) /\ ~t.spoilt /\ ~t.joined
         /\ Sealing(more) <=> Sealing(said) /\ t.func # 84
         /\ NoneSpoilt(more) <=> NoneSpoilt(said) /\ ~t.spoilt
         /\ \A h : h \in Seq(CalledOf(said)) => h \in Seq(CalledOf(more))
<1>1. PICK n \in Nat : n = Len(said)
  OBVIOUS
<1>2. Len(more) = n + 1 /\ more[n + 1] = t /\ \A i \in 1 .. n : more[i] = said[i]
  BY <1>1 DEF Further
<1>3. /\ \A i \in 1 .. n : i \in 1 .. n + 1
      /\ n + 1 \in 1 .. n + 1 /\ \A i \in 1 .. n + 1 : i = n + 1 \/ i \in 1 .. n
  OBVIOUS
<1>4. Clean(more) <=> Clean(said) /\ ~t.spoilt /\ ~t.joined
  BY <1>1, <1>2, <1>3 DEF Clean
<1>5. Sealing(more) <=> Sealing(said) /\ t.func # 84
  BY <1>1, <1>2, <1>3 DEF Sealing
<1>6. NoneSpoilt(more) <=> NoneSpoilt(said) /\ ~t.spoilt
  BY <1>1, <1>2, <1>3 DEF NoneSpoilt
<1>7. CalledOf(said) \subseteq CalledOf(more)
  <2>1. SUFFICES ASSUME NEW j \in 1 .. n, IsDue(said[j])
                 PROVE  \E i \in 1 .. n + 1 : IsDue(more[i]) /\ Called(said[j]) = Called(more[i])
    BY <1>1, <1>2 DEF CalledOf
  <2>2. QED
    BY <1>2, <1>3, <2>1
<1>8. \A h : h \in Seq(CalledOf(said)) => h \in Seq(CalledOf(more))
  BY <1>7
<1>9. QED
  BY <1>4, <1>5, <1>6, <1>8

LEMMA RepliesSilence ==
  ASSUME RepliesInv, ILCIsSilent
  PROVE  RepliesInv'
<1>1. /\ step = "bus" /\ Len(told) < Len(list)
      /\ list' = list /\ step' = step /\ words' = words /\ decoded' = decoded
      /\ handed' = handed /\ tail' = tail
  BY DEF ILCIsSilent
<1>2. Kept
  BY DEF RepliesInv
<1>3. PICK n \in Nat, l \in Nat : n = Len(told) /\ l = Len(list)
  BY <1>2 DEF Kept
<1>4. OnBus \in Command /\ OnBus = list[n + 1]
  <2>1. n + 1 \in 1 .. l
    BY <1>1, <1>3
  <2>2. QED
    BY <1>2, <1>3, <2>1 DEF Kept, OnBus
<1>5. PICK t : t = [said |-> "nothing", address |-> OnBus.address, func |-> OnBus.func,
                    arguments |-> << >>, spoilt |-> FALSE, joined |-> FALSE]
  OBVIOUS
<1>6. t \in Told
  <2>1. << >> \in Seq(Nat)
    OBVIOUS
  <2>2. QED
    BY <1>4, <1>5, <2>1 DEF Told, Command
<1>7. Further(told', told, t) /\ told' \in Seq(Told)
  <2>1. told' = Append(told, t)
    BY <1>5 DEF ILCIsSilent
  <2>2. QED
    BY <1>2, <1>6, <2>1, FurtherIs DEF Kept
<1>8. t.said = "nothing" /\ ~t.spoilt /\ ~t.joined /\ t.func = list[n + 1].func
  BY <1>4, <1>5
<1>9. told \in Seq(Told)
  BY <1>2 DEF Kept
<1>10. /\ Clean(told') <=> Clean(told)
       /\ Sealing(told') => Sealing(told)
       /\ NoneSpoilt(told') => NoneSpoilt(told)
       /\ handed \in Seq(CalledOf(told)) => handed \in Seq(CalledOf(told'))
  BY <1>7, <1>8, <1>9, MoreSaid
<1>11. Kept'
  <2>1. Len(told') = n + 1 /\ told'[n + 1] = t /\ \A i \in 1 .. n : told'[i] = told[i]
    BY <1>3, <1>7 DEF Further
  <2>2. \A i \in 1 .. n + 1 : told'[i].func = list[i].func
    <3>1. \A i \in 1 .. n + 1 : i = n + 1 \/ i \in 1 .. n
      OBVIOUS
    <3>2. QED
      BY <1>2, <1>3, <1>8, <2>1, <3>1 DEF Kept
  <2>3. n + 1 <= l
    BY <1>1, <1>3
  <2>4. QED
    BY <1>1, <1>2, <1>3, <1>7, <2>1, <2>2, <2>3 DEF Kept
<1>12. PICK F : /\ OnTheWay(F)
                /\ Clean(told) => \E last, from, which : InOrder(F, last, from, which)
  BY DEF RepliesInv
<1>13. OnTheWay(F)'
  BY <1>1, <1>12 DEF OnTheWay, Working
<1>14. ASSUME Clean(told') PROVE (\E last, from, which : InOrder(F, last, from, which)')
  <2>1. PICK last, from, which : InOrder(F, last, from, which)
    BY <1>10, <1>12, <1>14
  <2>2. /\ last \in 0 .. n /\ HandedSo(handed, told, which, last)
        /\ Follows(told, last, from, F) /\ Framing(words, decoded, told, from, F)
        /\ Shaped(words, decoded, F)
    BY <1>1, <1>3, <1>12, <2>1 DEF InOrder, OnTheWay, Working
  <2>3. Follows(told', last, from, F)
    BY <1>7, <1>8, <1>9, <2>2, FollowsSilence
  <2>4. Framing(words, decoded, told', from, F)
    BY <1>7, <1>9, <2>2, FramingFurther
  <2>5. HandedSo(handed, told', which, last)
    BY <1>3, <1>7, <1>9, <2>2, HandedFurther
  <2>6. last \in 0 .. Len(told')
    BY <1>3, <1>7, <2>2 DEF Further
  <2>7. InOrder(F, last, from, which)'
    BY <1>1, <2>3, <2>4, <2>5, <2>6 DEF InOrder
  <2>8. QED
    BY <2>7
<1>15. ASSUME Sealing(told') PROVE Guarded'
  <2>1. Guarded
    BY <1>10, <1>15 DEF RepliesInv
  <2>2. AllFrank(words, decoded, told')
    BY <1>1, <1>7, <1>9, <2>1, FrankFurther DEF Guarded, Working
  <2>3. NoneSpoilt(told') => Closed(words)
    BY <1>1, <1>10, <2>1 DEF Guarded
  <2>4. ~Clean(told') => AnyBad(words, decoded)
    BY <1>1, <1>10, <2>1 DEF Guarded, Working
  <2>5. QED
    BY <1>1, <2>2, <2>3, <2>4 DEF Guarded
<1>16. Clean(told') \/ Sealing(told') => handed' \in Seq(CalledOf(told'))
  BY <1>1, <1>10 DEF RepliesInv
<1>17. QED
  BY <1>11, <1>13, <1>14, <1>15, <1>16 DEF RepliesInv

(* What the FPGA receives of a frame: the frame, or what is left of it, and  *)
(* that of one frame only.                                                   *)
Arrives(d, p, said) ==
    /\ d \in Seq(Byte) \ { << >> }
    /\ d = Sealed(p) \/ Leftover(d, Sealed(p))
    /\ d = Sealed(p) => Ends(d)
    /\ d # Sealed(p) => /\ NoneSpoilt(said)
                        /\ \A pre \in Seq(Byte) : (pre # << >> => Ends(pre)) => Bad(pre \o d)

LEMMA ReceivedIs ==
  ASSUME told \in Seq(Told), NEW p \in Seq(PlainByte), Len(p) >= 2, NEW d \in Received(Sealed(p))
  PROVE  Arrives(d, p, told)
<1>1. PICK b : b = Sealed(p)
  OBVIOUS
<1>2. PICK m \in Nat : m = Len(p)
  OBVIOUS
<1>3. b \in Seq(Byte) /\ Len(b) = m + 2 /\ b[m + 2] \in CRCByte
  BY <1>1, <1>2, FramedIs DEF Framed
<1>4. CASE d = b
  <2>1. Len(b) # 0
    BY <1>3
  <2>2. b # << >>
    BY <2>1
  <2>3. Ends(b)
    BY <1>3, Kinds DEF Ends
  <2>4. QED
    BY <1>1, <1>3, <1>4, <2>2, <2>3 DEF Arrives
<1>5. CASE d # b
  <2>1. /\ ~\E i \in DOMAIN told : told[i].spoilt
        /\ d \in UNION { { [b EXCEPT ![i] = Spoilt], RemoveAt(b, i), SubSeq(b, 1, i) } : i \in DOMAIN b }
    BY <1>1, <1>5 DEF Received
  <2>2. Mangled(d, b)
    BY <1>5, <2>1 DEF Mangled
  <2>3. NoneSpoilt(told)
    BY <2>1 DEF NoneSpoilt
  <2>4. << >> \in Seq(Byte)
    OBVIOUS
  <2>5. Leftover(d, b)
    BY <1>1, <2>2, <2>4, MangledIs
  <2>6. \A pre \in Seq(Byte) : (pre # << >> => Ends(pre)) => Bad(pre \o d)
    BY <1>1, <2>2, MangledIs DEF Ends
  <2>7. QED
    BY <1>1, <1>5, <2>3, <2>5, <2>6 DEF Arrives, Leftover
<1>6. QED
  BY <1>4, <1>5

(* It is put behind the words there are, or behind the bytes of the last     *)
(* frame.                                                                    *)
LEMMA SentIs ==
  ASSUME Kept, NEW F, OnTheWay(F), step = "bus", OnBus.func \in Functions, NEW b \in Seq(Byte) \ { << >> },
         NEW j \in BOOLEAN, j => words # << >>, words' = Sent(b, j)
  PROVE  /\ words' \in Seq(DataWord \cup Mark)
         /\ ~j => Put(words', words, b)
         /\ j => /\ Joined(words', words, b) /\ Len(words) >= 3 /\ At(words, 2) \in DataWord
                 /\ At(words, 2).bytes \o b \in Seq(Byte) \ { << >> }
<1>1. Shaped(words, decoded, F) /\ decoded = << >> /\ Len(words) = 3 * F
  BY DEF OnTheWay, Working
<1>2. words \in Seq(DataWord \cup Mark) /\ F \in Nat
  BY <1>1 DEF Shaped
<1>3. words' = IF j THEN [words EXCEPT ![Len(words) - Len(tail)].bytes = @ \o b]
               ELSE words \o << [is |-> "data", bytes |-> b] >> \o tail
  BY Timely DEF Sent
<1>4. tail \in Tails
  BY DEF Kept
<1>5. CASE ~j
  <2>1. words' = words \o << [is |-> "data", bytes |-> b] >> \o tail
    BY <1>3, <1>5
  <2>2. QED
    BY <1>2, <1>4, <1>5, <2>1, PutIs
<1>6. CASE j
  <2>1. Len(tail) = 2
    BY <1>4 DEF Tails
  <2>2. words' = [words EXCEPT ![Len(words) - 2].bytes = @ \o b]
    BY <1>3, <1>6, <2>1
  <2>3. Len(words) >= 3
    <3>1. Len(words) # 0
      BY <1>2, <1>6
    <3>2. QED
      BY <1>1, <1>2, <3>1
  <2>4. At(words, 2) \in DataWord
    <3>1. 0 \in Nat /\ 3 * 0 + 2 = 2 /\ 2 < Len(words)
      BY <1>2, <2>3
    <3>2. QED
      BY <1>1, <3>1 DEF Shaped
  <2>5. QED
    BY <1>2, <1>6, <2>2, <2>3, <2>4, JoinedIs
<1>7. QED
  BY <1>5, <1>6

(* Clean before and after: the frame is the last of those to come.           *)
LEMMA SaidInOrder ==
  ASSUME told \in Seq(Told), NEW t, Further(told', told, t), NEW F, OnTheWay(F), step = "bus",
         NEW last, NEW from, NEW which, InOrder(F, last, from, which),
         NEW b, Sends(t, b), Put(words', words, b), UNCHANGED << step, decoded, handed >>
  PROVE  (\E l, f, w : InOrder(F + 1, l, f, w)')
<1>1. /\ last \in 0 .. Len(told) /\ HandedSo(handed, told, which, last)
      /\ Follows(told, last, from, F) /\ Framing(words, decoded, told, from, F)
      /\ Shaped(words, decoded, F) /\ decoded = << >>
  BY DEF InOrder, OnTheWay, Working
<1>2. PICK f : f = Shifted(from, F, Len(told) + 1)
  OBVIOUS
<1>3. Follows(told', last, f, F + 1)
  BY <1>1, <1>2, FollowsSaid
<1>4. Framing(words', << >>, told', f, F + 1)
  BY <1>1, <1>2, FramingPut
<1>5. HandedSo(handed, told', which, last)
  BY <1>1, HandedFurther
<1>6. last \in 0 .. Len(told')
  <2>1. PICK n \in Nat : n = Len(told)
    OBVIOUS
  <2>2. Len(told') = n + 1 /\ last \in 0 .. n
    BY <1>1, <2>1 DEF Further
  <2>3. QED
    BY <2>2
<1>7. InOrder(F + 1, last, f, which)'
  BY <1>1, <1>3, <1>4, <1>5, <1>6 DEF InOrder
<1>8. QED
  BY <1>7

(* All that is said afterwards is sealed.                                    *)
LEMMA SaidGuarded ==
  ASSUME told \in Seq(Told), NEW t \in Told, Further(told', told, t), NEW F, OnTheWay(F), step = "bus",
         Guarded, NEW p, Answered(t, p) \/ Refused(t, p), NEW d, Arrives(d, p, told),
         t.spoilt <=> d # Sealed(p),
         \/ ~t.joined /\ Put(words', words, d)
         \/ /\ t.joined /\ Joined(words', words, d)
            /\ Len(words) >= 3 /\ At(words, 2) \in DataWord,
         UNCHANGED << step, decoded >>
  PROVE  Guarded'
<1>1. /\ AllFrank(words, << >>, told) /\ (NoneSpoilt(told) => Closed(words))
      /\ (~Clean(told) => AnyBad(words, << >>)) /\ decoded = << >>
  BY DEF Guarded, OnTheWay, Working
<1>2. p \in Seq(PlainByte)
  BY AnsweredPlain, RefusedPlain
<1>3. Frank(d, told')
  BY FrankAnswer DEF Arrives
<1>4. AllFrank(words, << >>, told')
  BY <1>1, FrankFurther
<1>5. d \in Seq(Byte) /\ d # << >>
  BY DEF Arrives
<1>6. PICK n \in Nat : n = Len(words)
  <2>1. words \in Seq(DataWord \cup Mark)
    BY DEF OnTheWay, Working, Shaped
  <2>2. QED
    BY <2>1
<1>7. ~t.spoilt => Ends(d)
  BY DEF Arrives
<1>8. /\ Clean(told') <=> Clean(told) /\ ~t.spoilt /\ ~t.joined
      /\ NoneSpoilt(told') <=> NoneSpoilt(told) /\ ~t.spoilt
  BY MoreSaid
<1>9. AllFrank(words', << >>, told') /\ (NoneSpoilt(told') => Closed(words'))
      /\ (~Clean(told') => AnyBad(words', << >>))
  <2>1. CASE ~t.joined /\ Put(words', words, d)
    <3>1. ASSUME t.spoilt PROVE Bad(d)
      <4>1. << >> \in Seq(Byte)
        OBVIOUS
      <4>2. Bad(<< >> \o d)
        BY <3>1, <4>1 DEF Arrives
      <4>3. << >> \o d = d
        BY <1>5
      <4>4. QED
        BY <4>2, <4>3
    <3>2. AllFrank(words', << >>, told') /\ (Ends(d) => Closed(words'))
          /\ (AnyBad(words, << >>) \/ Bad(d) => AnyBad(words', << >>))
      BY <1>3, <1>4, <1>6, <2>1, FrankPut
    <3>3. QED
      BY <1>1, <1>7, <1>8, <2>1, <3>1, <3>2
  <2>2. CASE /\ t.joined /\ Joined(words', words, d)
             /\ Len(words) >= 3 /\ At(words, 2) \in DataWord
    <3>1. PICK pre : pre = At(words, 2).bytes
      OBVIOUS
    <3>2. pre \in Seq(Byte) /\ pre # << >>
      BY <2>2, <3>1, WordKinds
    <3>3. Bad(pre \o d)
      <4>1. CASE d = Sealed(p)
        BY <1>2, <3>2, <4>1, JoinedBad
      <4>2. CASE d # Sealed(p)
        <5>1. Closed(words)
          BY <1>1, <4>2 DEF Arrives
        <5>2. Ends(pre)
          BY <1>6, <2>2, <3>1, <5>1 DEF Closed
        <5>3. QED
          BY <3>2, <4>2, <5>2 DEF Arrives
      <4>3. QED
        BY <4>1, <4>2
    <3>4. AllFrank(words', << >>, told') /\ (Ends(d) => Closed(words')) /\ AnyBad(words', << >>)
      BY <1>3, <1>4, <1>5, <1>6, <2>2, <3>1, <3>2, <3>3, FrankJoined
    <3>5. QED
      BY <1>7, <1>8, <3>4
  <2>3. QED
    BY <2>1, <2>2
<1>10. QED
  BY <1>1, <1>8, <1>9 DEF Guarded

LEMMA RepliesSay ==
  ASSUME RepliesInv, step = "bus", Len(told) < Len(list), NEW said \in {"answer", "error"},
         NEW p, NEW meaning \in Seq(Nat), Say(said, Sealed(p), meaning),
         \A t \in Told : /\ t.said = said /\ t.address = OnBus.address
                         /\ t.func = OnBus.func /\ t.arguments = meaning
                         => Answered(t, p) \/ Refused(t, p)
  PROVE  RepliesInv'
<1>1. Kept
  BY DEF RepliesInv
<1>2. PICK d \in Received(Sealed(p)), j \in BOOLEAN :
        /\ j => words # << >>
        /\ words' = Sent(d, j)
        /\ told' = Append(told, [said |-> said, address |-> OnBus.address, func |-> OnBus.func,
                                 arguments |-> meaning, spoilt |-> d # Sealed(p), joined |-> j])
        /\ UNCHANGED << list, parsed, step, decoded, stamps, handed, tail >>
  BY DEF Say
<1>3. PICK n \in Nat, l \in Nat : n = Len(told) /\ l = Len(list)
  BY <1>1 DEF Kept
<1>4. OnBus \in Command /\ OnBus = list[n + 1]
  <2>1. n + 1 \in 1 .. l
    BY <1>3
  <2>2. QED
    BY <1>1, <1>3, <2>1 DEF Kept, OnBus
<1>5. PICK sp : sp = (d # Sealed(p))
  OBVIOUS
<1>6. PICK t : t = [said |-> said, address |-> OnBus.address, func |-> OnBus.func,
                    arguments |-> meaning, spoilt |-> sp, joined |-> j]
  OBVIOUS
<1>7. t \in Told
  <2>1. sp \in BOOLEAN
    BY <1>5
  <2>2. QED
    BY <1>4, <1>6, <2>1 DEF Told, Command
<1>8. /\ t.said = said /\ t.address = OnBus.address /\ t.func = OnBus.func /\ t.arguments = meaning
      /\ t.spoilt = sp /\ t.joined = j
  BY <1>6
<1>9. told \in Seq(Told)
  BY <1>1 DEF Kept
<1>10. Further(told', told, t) /\ told' \in Seq(Told)
  <2>1. told' = Append(told, t)
    BY <1>2, <1>5, <1>6
  <2>2. QED
    BY <1>7, <1>9, <2>1, FurtherIs
<1>11. Answered(t, p) \/ Refused(t, p)
  BY <1>7, <1>8
<1>12. p \in Seq(PlainByte) /\ Len(p) >= 2
  BY <1>7, <1>11, AnsweredPlain, RefusedPlain
<1>13. Arrives(d, p, told)
  BY <1>2, <1>9, <1>12, ReceivedIs
<1>14. PICK F : /\ OnTheWay(F)
                /\ Clean(told) => \E last, from, which : InOrder(F, last, from, which)
  BY DEF RepliesInv
<1>15. d \in Seq(Byte) \ { << >> }
  BY <1>13 DEF Arrives
<1>16. /\ words' \in Seq(DataWord \cup Mark)
       /\ ~j => Put(words', words, d)
       /\ j => /\ Joined(words', words, d) /\ Len(words) >= 3 /\ At(words, 2) \in DataWord
               /\ At(words, 2).bytes \o d \in Seq(Byte) \ { << >> }
  <2>1. OnBus.func \in Functions
    BY <1>4 DEF Command
  <2>2. QED
    BY <1>1, <1>2, <1>14, <1>15, <2>1, SentIs
<1>17. /\ Clean(told') <=> Clean(told) /\ ~t.spoilt /\ ~t.joined
       /\ Sealing(told') <=> Sealing(told) /\ t.func # 84
       /\ handed \in Seq(CalledOf(told)) => handed \in Seq(CalledOf(told'))
  BY <1>9, <1>10, MoreSaid
<1>18. /\ list' = list /\ step' = step /\ decoded' = decoded /\ handed' = handed /\ tail' = tail
  BY <1>2
<1>19. Kept'
  <2>1. Len(told') = n + 1 /\ told'[n + 1] = t /\ \A i \in 1 .. n : told'[i] = told[i]
    BY <1>3, <1>10 DEF Further
  <2>2. \A i \in 1 .. n + 1 : told'[i].func = list[i].func
    <3>1. \A i \in 1 .. n + 1 : i = n + 1 \/ i \in 1 .. n
      OBVIOUS
    <3>2. QED
      BY <1>1, <1>3, <1>4, <1>8, <2>1, <3>1 DEF Kept
  <2>3. n + 1 <= l
    BY <1>3
  <2>4. QED
    BY <1>1, <1>3, <1>10, <1>18, <2>1, <2>2, <2>3 DEF Kept
<1>20. Shaped(words, << >>, F) /\ Len(words) = 3 * F /\ decoded = << >>
  BY <1>14 DEF OnTheWay, Working
<1>21. ASSUME Sealing(told') PROVE Guarded'
  <2>1. Guarded
    BY <1>17, <1>21 DEF RepliesInv
  <2>2. Answered(t, p) \/ Refused(t, p)
    BY <1>11
  <2>3. \/ ~t.joined /\ Put(words', words, d)
        \/ /\ t.joined /\ Joined(words', words, d)
           /\ Len(words) >= 3 /\ At(words, 2) \in DataWord
    BY <1>8, <1>16
  <2>4. t.spoilt <=> d # Sealed(p)
    BY <1>5, <1>8
  <2>5. UNCHANGED << step, decoded >>
    BY <1>18
  <2>6. QED
    BY <1>7, <1>9, <1>10, <1>13, <1>14, <2>1, <2>2, <2>3, <2>4, <2>5, SaidGuarded
<1>22. Clean(told') \/ Sealing(told') => handed' \in Seq(CalledOf(told'))
  BY <1>17, <1>18 DEF RepliesInv
<1>23. \E G : /\ OnTheWay(G)'
              /\ Clean(told') => (\E last, from, which : InOrder(G, last, from, which)')
  <2>1. CASE ~j
    <3>1. Shaped(words', << >>, F + 1) /\ Len(words') = 3 * (F + 1)
      BY <1>15, <1>16, <1>20, <2>1, ShapedPut
    <3>2. OnTheWay(F + 1)'
      BY <1>18, <1>20, <3>1 DEF OnTheWay
    <3>3. ASSUME Clean(told') PROVE (\E last, from, which : InOrder(F + 1, last, from, which)')
      <4>1. d = Sealed(p) /\ Clean(told)
        BY <1>5, <1>8, <1>17, <3>3
      <4>2. Sends(t, d)
        BY <1>11, <4>1 DEF Sends
      <4>3. PICK last, from, which : InOrder(F, last, from, which)
        BY <1>14, <4>1
      <4>4. UNCHANGED << step, decoded, handed >>
        BY <1>18
      <4>5. QED
        BY <1>9, <1>10, <1>14, <1>16, <2>1, <4>2, <4>3, <4>4, SaidInOrder
    <3>4. QED
      BY <3>2, <3>3
  <2>2. CASE j
    <3>1. Shaped(words', << >>, F) /\ Len(words') = 3 * F
      BY <1>16, <1>20, <2>2, ShapedJoined
    <3>2. OnTheWay(F)'
      BY <1>18, <1>20, <3>1 DEF OnTheWay
    <3>3. ~Clean(told')
      BY <1>8, <1>17, <2>2
    <3>4. QED
      BY <3>2, <3>3
  <2>3. QED
    BY <2>1, <2>2
<1>24. QED
  BY <1>19, <1>21, <1>22, <1>23 DEF RepliesInv

LEMMA RepliesAnswer ==
  ASSUME RepliesInv, ILCAnswers
  PROVE  RepliesInv'
<1>1. step = "bus" /\ Len(told) < Len(list) /\ Kept
  BY DEF ILCAnswers, RepliesInv
<1>2. PICK bit \in 0 .. 1 :
         \E fields \in Answers(OnBus.func, bit) :
             Say("answer", Sealed(Payload(OnBus.address, OnBus.func, fields)),
                 Meaning(OnBus.func, fields))
  BY DEF ILCAnswers
<1>3. PICK fields \in Answers(OnBus.func, bit) :
         Say("answer", Sealed(Payload(OnBus.address, OnBus.func, fields)),
             Meaning(OnBus.func, fields))
  BY <1>2
<1>4. OnBus \in Command
  <2>1. PICK n \in Nat, l \in Nat : n = Len(told) /\ l = Len(list)
    BY <1>1 DEF Kept
  <2>2. n + 1 \in 1 .. l
    BY <1>1, <2>1
  <2>3. QED
    BY <1>1, <2>1, <2>2 DEF Kept, OnBus
<1>5. PICK p, meaning : /\ p = Payload(OnBus.address, OnBus.func, fields)
                        /\ meaning = Meaning(OnBus.func, fields)
  OBVIOUS
<1>6. meaning \in Seq(Nat)
  <2>1. OnBus.func \in Functions
    BY <1>4 DEF Command
  <2>2. QED
    BY <1>5, <2>1, MeaningType
<1>7. Say("answer", Sealed(p), meaning)
  BY <1>3, <1>5
<1>8. ASSUME NEW t \in Told, t.said = "answer", t.address = OnBus.address,
             t.func = OnBus.func, t.arguments = meaning
      PROVE  Answered(t, p)
  BY <1>5, <1>8 DEF Answered
<1>9. QED
  BY <1>1, <1>6, <1>7, <1>8, RepliesSay

LEMMA RepliesRefusal ==
  ASSUME RepliesInv, ILCRefuses
  PROVE  RepliesInv'
<1>1. step = "bus" /\ Len(told) < Len(list)
  BY DEF ILCRefuses
<1>2. PICK p, meaning : /\ p = Payload(OnBus.address, OnBus.func + 128, << << 1, 1 >> >>)
                        /\ meaning = << >>
  OBVIOUS
<1>3. Say("error", Sealed(p), meaning)
  BY <1>2 DEF ILCRefuses
<1>4. meaning \in Seq(Nat)
  BY <1>2
<1>5. ASSUME NEW t \in Told, t.said = "error", t.address = OnBus.address, t.func = OnBus.func
      PROVE  Refused(t, p)
  BY <1>2, <1>5 DEF Refused
<1>6. QED
  BY <1>1, <1>3, <1>4, <1>5, RepliesSay

LEMMA RepliesRead ==
  ASSUME RepliesInv, ReadResponse
  PROVE  RepliesInv'
<1>1. /\ step = "bus" /\ Len(told) = Len(list) /\ step' \in {"decode", "thrown"}
      /\ UNCHANGED << list, words, decoded, handed, told, tail >>
  BY DEF ReadResponse
<1>2. Kept'
  BY <1>1 DEF Kept, RepliesInv
<1>3. PICK F : /\ OnTheWay(F)
               /\ Clean(told) => \E last, from, which : InOrder(F, last, from, which)
  BY DEF RepliesInv
<1>4. OnTheWay(F)'
  BY <1>1, <1>3 DEF OnTheWay, Working
<1>5. ASSUME Clean(told) PROVE (\E last, from, which : InOrder(F, last, from, which)')
  <2>1. PICK last, from, which : InOrder(F, last, from, which)
    BY <1>3, <1>5
  <2>2. InOrder(F, last, from, which)'
    BY <1>1, <2>1 DEF InOrder, Working
  <2>3. QED
    BY <2>2
<1>6. ASSUME Sealing(told) PROVE Guarded'
  <2>1. Guarded
    BY <1>6 DEF RepliesInv
  <2>2. QED
    BY <1>1, <2>1 DEF Guarded, Working
<1>7. QED
  BY <1>1, <1>2, <1>4, <1>5, <1>6 DEF RepliesInv

LEMMA RepliesData ==
  ASSUME RepliesInv, DecodeData
  PROVE  RepliesInv'
<1>1. /\ step = "decode" /\ words # << >> /\ Head(words).is = "data"
      /\ decoded' = decoded \o Head(words).bytes /\ words' = Tail(words)
      /\ UNCHANGED << list, step, handed, told, tail >>
  BY DEF DecodeData
<1>2. Kept'
  BY <1>1 DEF Kept, RepliesInv
<1>3. PICK F : /\ OnTheWay(F)
               /\ Clean(told) => \E last, from, which : InOrder(F, last, from, which)
  BY DEF RepliesInv
<1>4. Shaped(words, decoded, F)
  BY <1>1, <1>3 DEF OnTheWay, Working
<1>5. /\ decoded = << >> /\ Head(words) \in DataWord
      /\ Shaped(Tail(words), Head(words).bytes, F)
  BY <1>1, <1>4, ShapedData
<1>6. decoded' = Head(words).bytes
  BY <1>1, <1>5, WordKinds
<1>7. OnTheWay(F)'
  BY <1>1, <1>5, <1>6 DEF OnTheWay
<1>8. ASSUME Clean(told) PROVE (\E last, from, which : InOrder(F, last, from, which)')
  <2>1. PICK last, from, which : InOrder(F, last, from, which)
    BY <1>3, <1>8
  <2>2. Framing(words, decoded, told, from, F)
    BY <1>1, <2>1 DEF InOrder, Working
  <2>3. Framing(words', decoded', told, from, F)
    BY <1>1, <1>4, <1>6, <2>2, FramingData
  <2>4. InOrder(F, last, from, which)'
    BY <1>1, <2>1, <2>3 DEF InOrder, Working
  <2>5. QED
    BY <2>4
<1>9. ASSUME Sealing(told) PROVE Guarded'
  <2>1. Guarded
    BY <1>9 DEF RepliesInv
  <2>2. /\ AllFrank(words, decoded, told) => AllFrank(words', decoded', told)
        /\ AnyBad(words, decoded) => AnyBad(words', decoded')
    BY <1>1, <1>4, <1>6, FrankData
  <2>3. QED
    BY <1>1, <2>1, <2>2 DEF Guarded, Working
<1>10. QED
  BY <1>1, <1>2, <1>7, <1>8, <1>9 DEF RepliesInv

(* A method is called with what was said.                                    *)
LEMMA HandsType ==
  ASSUME told \in Seq(Told), handed \in Seq(CalledOf(told)), NEW j \in 1 .. Len(told), Hands(told[j])
  PROVE  handed' \in Seq(CalledOf(told))
<1>1. CASE IsDue(told[j])
  <2>1. Called(told[j]) \in CalledOf(told)
    BY <1>1 DEF CalledOf
  <2>2. handed' = Append(handed, Called(told[j]))
    BY <1>1 DEF Hands, IsDue
  <2>3. QED
    BY <2>1, <2>2
<1>2. CASE ~IsDue(told[j])
  BY <1>2 DEF Hands, IsDue
<1>3. QED
  BY <1>1, <1>2

(* The frame that was decoded ends.                                          *)
LEMMA RepliesMark ==
  ASSUME RepliesInv, step = "decode", words # << >>, Head(words).is # "data",
         decoded' = << >>, words' = Tail(words), UNCHANGED << list, told, tail >>,
         Throw \/ (decoded = << >> /\ UNCHANGED << step, handed >>) \/ (decoded # << >> /\ parse)
  PROVE  RepliesInv'
<1>1. Kept
  BY DEF RepliesInv
<1>2. told \in Seq(Told)
  BY <1>1 DEF Kept
<1>3. PICK F : /\ OnTheWay(F)
               /\ Clean(told) => \E last, from, which : InOrder(F, last, from, which)
  BY DEF RepliesInv
<1>4. Shaped(words, decoded, F)
  BY <1>3 DEF OnTheWay, Working
<1>5. CASE Throw
  <2>1. step' = "thrown" /\ handed' = handed
    BY <1>5 DEF Throw
  <2>2. Kept' /\ OnTheWay(F)'
    BY <1>1, <2>1 DEF Kept, OnTheWay, Working
  <2>3. ASSUME Clean(told) PROVE (\E last, from, which : InOrder(F, last, from, which)')
    <3>1. PICK last, from, which : InOrder(F, last, from, which)
      BY <1>3, <2>3
    <3>2. InOrder(F, last, from, which)'
      BY <2>1, <3>1 DEF InOrder, Working
    <3>3. QED
      BY <3>2
  <2>4. Guarded'
    BY <2>1 DEF Guarded, Working
  <2>5. QED
    BY <2>1, <2>2, <2>3, <2>4 DEF RepliesInv
<1>6. CASE ~Throw /\ decoded = << >> /\ UNCHANGED << step, handed >>
  <2>1. Kept'
    BY <1>1, <1>6 DEF Kept
  <2>2. Shaped(words', decoded', F)
    BY <1>4, <1>6, ShapedMark
  <2>3. OnTheWay(F)'
    BY <1>6, <2>2 DEF OnTheWay
  <2>4. ASSUME Clean(told) PROVE (\E last, from, which : InOrder(F, last, from, which)')
    <3>1. PICK last, from, which : InOrder(F, last, from, which)
      BY <1>3, <2>4
    <3>2. Framing(words, decoded, told, from, F)
      BY <3>1 DEF InOrder, Working
    <3>3. Framing(words', decoded', told, from, F)
      BY <1>4, <3>2, FramingMark
    <3>4. InOrder(F, last, from, which)'
      BY <1>6, <3>1, <3>3 DEF InOrder, Working
    <3>5. QED
      BY <3>4
  <2>5. ASSUME Sealing(told) PROVE Guarded'
    <3>1. Guarded
      BY <2>5 DEF RepliesInv
    <3>2. /\ AllFrank(words, decoded, told) => AllFrank(words', decoded', told)
          /\ AnyBad(words, decoded) => AnyBad(words', decoded')
      BY <1>4, <1>6, FrankMark
    <3>3. QED
      BY <1>6, <3>1, <3>2 DEF Guarded, Working
  <2>6. QED
    BY <1>6, <2>1, <2>3, <2>4, <2>5 DEF RepliesInv
<1>7. CASE ~Throw /\ decoded # << >> /\ parse
  <2>1. step' = step
    BY <1>7 DEF parse, parseAs
  <2>2. Kept'
    BY <1>1, <2>1 DEF Kept
  <2>3. F - 1 \in Nat /\ Shaped(words', decoded', F - 1)
    BY <1>4, <1>7, ShapedMark
  <2>4. OnTheWay(F - 1)'
    BY <2>1, <2>3 DEF OnTheWay
  <2>5. ASSUME Clean(told)
        PROVE  /\ handed' \in Seq(CalledOf(told))
               /\ (\E last, from, which : InOrder(F - 1, last, from, which)')
    <3>1. PICK last, from, which : InOrder(F, last, from, which)
      BY <1>3, <2>5
    <3>2. /\ HandedSo(handed, told, which, last) /\ Follows(told, last, from, F)
          /\ Framing(words, decoded, told, from, F)
      BY <3>1 DEF InOrder, Working
    <3>3. PICK n \in Nat, m \in Nat : n = Len(told) /\ m = F
      BY <1>2, <3>2 DEF Follows
    <3>4. from[F] \in 1 .. n
      <4>1. m \in 1 .. m
        BY <2>3, <3>3
      <4>2. last \in 0 .. n /\ from[m] \in last + 1 .. n
        BY <3>2, <3>3, <4>1 DEF Follows
      <4>3. QED
        BY <3>3, <4>2
    <3>5. PICK c : c = from[F]
      OBVIOUS
    <3>6. PICK p : (Answered(told[c], p) \/ Refused(told[c], p)) /\ decoded = Sealed(p)
      BY <1>7, <3>2, <3>5 DEF Framing, Sends
    <3>7. told[c] \in Told
      BY <1>2, <3>3, <3>4, <3>5
    <3>8. Hands(told[c])
      BY <1>7, <3>6, <3>7, ParseAnswer, ParseRefusal
    <3>9. handed \in Seq(CalledOf(told))
      BY <2>5 DEF RepliesInv
    <3>10. handed' \in Seq(CalledOf(told))
      BY <1>2, <3>3, <3>4, <3>5, <3>8, <3>9, HandsType
    <3>11. PICK S : S = { Called(told[j]) : j \in 1 .. n }
      OBVIOUS
    <3>12. Called(told[from[F]]) \in S /\ CalledOf(told) \subseteq S
      BY <3>3, <3>4, <3>11 DEF CalledOf
    <3>13. handed \in Seq(S)
      BY <3>9, <3>12
    <3>14. handed' = Handing(handed, told[c])
      BY <3>8 DEF Hands, Handing, IsDue
    <3>15. /\ Follows(told, from[F], from, F - 1)
           /\ \E new : HandedSo(Handing(handed, told[from[F]]), told, new, from[F])
      BY <1>2, <2>3, <3>2, <3>12, <3>13, HandedNext
    <3>16. PICK new : HandedSo(Handing(handed, told[c]), told, new, c)
      BY <3>5, <3>15
    <3>17. Follows(told, c, from, F - 1) /\ HandedSo(handed', told, new, c)
      BY <3>5, <3>14, <3>15, <3>16
    <3>18. Framing(words', decoded', told, from, F - 1)
      BY <1>4, <3>2, FramingMark
    <3>19. c \in 0 .. Len(told)
      BY <3>3, <3>4, <3>5
    <3>20. InOrder(F - 1, c, from, new)'
      BY <2>1, <3>17, <3>18, <3>19 DEF InOrder
    <3>21. QED
      BY <3>10, <3>20
  <2>6. ASSUME Sealing(told) PROVE Guarded' /\ handed' \in Seq(CalledOf(told))
    <3>1. Guarded /\ handed \in Seq(CalledOf(told))
      BY <2>6 DEF RepliesInv
    <3>2. /\ AllFrank(words, decoded, told)
          /\ ~Clean(told) /\ Steady(told) => AnyBad(words, decoded)
      BY <3>1 DEF Guarded, Working
    <3>3. decoded \in Seq(Byte)
      BY <1>4 DEF Shaped
    <3>4. \A i \in 1 .. Len(decoded) : Honest(decoded[i], told)
      BY <3>2 DEF AllFrank, Frank
    <3>5. /\ Len(told) = Len(list) /\ list \in Seq(Command)
          /\ \A i \in 1 .. Len(list) : list[i].func = told[i].func
      BY <1>1 DEF Kept
    <3>6. \A i \in DOMAIN list : list[i].func \in Functions \ {84}
      <4>1. ASSUME NEW i \in 1 .. Len(list) PROVE list[i].func \in Functions \ {84}
        <5>1. list[i].func # 84
          BY <2>6, <3>5 DEF Sealing
        <5>2. list[i] \in Command
          BY <3>5
        <5>3. list[i].func \in Functions
          BY <5>2 DEF Command
        <5>4. QED
          BY <5>1, <5>3
      <4>2. QED
        BY <3>5, <4>1
    <3>7. AllFrank(words', decoded', told)
      BY <1>4, <3>2, FrankMark
    <3>8. CASE UNCHANGED << step, handed >> /\ \E i \in DOMAIN list : list[i].func = 65
      <4>1. PICK i \in 1 .. Len(told) : told[i].func = 65
        BY <3>5, <3>8
      <4>2. ~Steady(told)
        BY <4>1 DEF Steady
      <4>3. step' = "decode" /\ told' = told
        BY <2>1
      <4>4. Guarded'
        BY <3>7, <4>2, <4>3 DEF Guarded
      <4>5. QED
        BY <3>1, <3>8, <4>4
    <3>9. CASE \E j \in 1 .. Len(told) : \E p :
                  (Answered(told[j], p) \/ Refused(told[j], p)) /\ decoded = Sealed(p)
      <4>1. PICK j \in 1 .. Len(told) : \E p :
                  (Answered(told[j], p) \/ Refused(told[j], p)) /\ decoded = Sealed(p)
        BY <3>9
      <4>2. PICK p : (Answered(told[j], p) \/ Refused(told[j], p)) /\ decoded = Sealed(p)
        BY <4>1
      <4>3. told[j] \in Told
        BY <1>2
      <4>4. Hands(told[j])
        BY <1>7, <4>2, <4>3, ParseAnswer, ParseRefusal
      <4>5. handed' \in Seq(CalledOf(told))
        BY <1>2, <3>1, <4>4, HandsType
      <4>6. ~Bad(decoded)
        BY <4>2, <4>3, AnsweredPlain, RefusedPlain DEF Bad
      <4>7. AnyBad(words, decoded) => AnyBad(words', decoded')
        BY <1>4, <4>6, FrankMark
      <4>8. step' = "decode" /\ told' = told
        BY <2>1
      <4>9. Guarded'
        BY <3>2, <3>7, <4>7, <4>8 DEF Guarded
      <4>10. QED
        BY <4>5, <4>9
    <3>10. QED
      BY <1>7, <3>3, <3>4, <3>6, <3>8, <3>9, ParseSealed
  <2>7. QED
    BY <2>2, <2>4, <2>5, <2>6 DEF RepliesInv
<1>8. QED
  BY <1>5, <1>6, <1>7

LEMMA RepliesReturn ==
  ASSUME RepliesInv, Return
  PROVE  RepliesInv'
<1>1. /\ step = "decode" /\ words = << >> /\ step' = "normal"
      /\ UNCHANGED << list, words, decoded, handed, told, tail >>
  BY DEF Return
<1>2. Kept'
  BY <1>1 DEF Kept, RepliesInv
<1>3. PICK F : /\ OnTheWay(F)
               /\ Clean(told) => \E last, from, which : InOrder(F, last, from, which)
  BY DEF RepliesInv
<1>4. Shaped(words, decoded, F)
  BY <1>1, <1>3 DEF OnTheWay, Working
<1>5. decoded = << >> /\ F = 0
  <2>1. PICK m \in Nat : m = F
    BY <1>4 DEF Shaped
  <2>2. IF decoded = << >> THEN 0 \in {3 * m, 3 * m + 1} ELSE 0 = 3 * m - 1
    <3>1. Len(words) = 0
      BY <1>1
    <3>2. QED
      BY <1>4, <2>1, <3>1 DEF Shaped
  <2>3. 0 # 3 * m + 1 /\ 0 # 3 * m - 1 /\ (0 = 3 * m => m = 0)
    OBVIOUS
  <2>4. QED
    BY <2>1, <2>2, <2>3
<1>6. told \in Seq(Told)
  BY DEF RepliesInv, Kept
<1>7. ASSUME Clean(told) PROVE (\E last, from, which : InOrder(F, last, from, which)')
  <2>1. PICK last, from, which : InOrder(F, last, from, which)
    BY <1>3, <1>7
  <2>2. HandedSo(handed, told, which, last) /\ Follows(told, last, from, 0)
    BY <1>1, <1>5, <2>1 DEF InOrder, Working
  <2>3. HandedSo(handed, told, which, Len(told))
    BY <1>6, <2>2, HandedAll
  <2>4. Len(told) \in 0 .. Len(told)
    BY <1>6
  <2>5. InOrder(F, Len(told), from, which)'
    BY <1>1, <2>3, <2>4 DEF InOrder, Working
  <2>6. QED
    BY <2>5
<1>8. OnTheWay(F)'
  BY <1>1 DEF OnTheWay, Working
<1>9. ASSUME Sealing(told) PROVE Guarded'
  <2>1. ~AnyBad(words, decoded)
    <3>1. \A k \in Nat : ~(3 * k + 2 < 0)
      OBVIOUS
    <3>2. Len(words) = 0
      BY <1>1
    <3>3. QED
      BY <1>5, <3>1, <3>2 DEF AnyBad
  <2>2. Clean(told) \/ ~Steady(told)
    BY <1>1, <1>9, <2>1 DEF RepliesInv, Guarded, Working
  <2>3. QED
    BY <1>1, <2>2 DEF Guarded, Working
<1>10. QED
  BY <1>1, <1>2, <1>7, <1>8, <1>9 DEF RepliesInv

LEMMA RepliesStutter ==
  ASSUME RepliesInv, UNCHANGED ilcReplies
  PROVE  RepliesInv'
BY DEF RepliesInv, Kept, OnTheWay, InOrder, Guarded, Working, ilcReplies

LEMMA RepliesStep ==
  ASSUME RepliesInv, [ILCRepliesNext]_ilcReplies
  PROVE  RepliesInv'
<1>1. ASSUME NEW cmds \in ILCLists, ilcCommands(cmds) PROVE RepliesInv'
  <2>1. cmds \in Seq(Command)
    BY ILCRepliesAssumption DEF Command
  <2>2. QED
    BY <1>1, <2>1, RepliesStart
<1>2. CASE ILCAnswers
  BY <1>2, RepliesAnswer
<1>3. CASE ILCRefuses
  BY <1>3, RepliesRefusal
<1>4. CASE ILCIsSilent
  BY <1>4, RepliesSilence
<1>5. CASE ReadResponse
  BY <1>5, RepliesRead
<1>6. CASE DecodeData
  BY <1>6, RepliesData
<1>7. CASE DecodeEnd
  <2>1. /\ step = "decode" /\ words # << >> /\ Head(words).is # "data"
        /\ decoded' = << >> /\ words' = Tail(words) /\ UNCHANGED << list, told, tail >>
    BY <1>7 DEF DecodeEnd
  <2>2. (decoded = << >> /\ UNCHANGED << step, handed >>) \/ (decoded # << >> /\ parse)
    BY <1>7 DEF DecodeEnd
  <2>3. QED
    BY <2>1, <2>2, RepliesMark
<1>8. CASE DecodeStamp
  <2>1. /\ step = "decode" /\ words # << >> /\ Head(words).is # "data"
        /\ decoded' = << >> /\ words' = Tail(words) /\ UNCHANGED << list, told, tail >>
    BY <1>8 DEF DecodeStamp
  <2>2. Throw \/ (decoded = << >> /\ UNCHANGED << step, handed >>) \/ (decoded # << >> /\ parse)
    BY <1>8 DEF DecodeStamp
  <2>3. QED
    BY <2>1, <2>2, RepliesMark
<1>9. CASE Return
  BY <1>9, RepliesReturn
<1>10. CASE UNCHANGED ilcReplies
  BY <1>10, RepliesStutter
<1>11. QED
  BY <1>1, <1>2, <1>3, <1>4, <1>5, <1>6, <1>7, <1>8, <1>9, <1>10 DEF ILCRepliesNext, Decode

(* Which call is whose: in order where nothing was spoilt or joined, any that*)
(* was due otherwise.                                                        *)
LEMMA RepliesDelivered ==
  ASSUME RepliesInv
  PROVE  Delivered
<1>1. SUFFICES ASSUME ~Doubtful({SENSOR_VALUES})
               PROVE  \E which \in [DOMAIN handed -> Due] :
                         /\ \A i \in DOMAIN handed : handed[i] = Called(told[which[i]])
                         /\ step = "normal" /\ ~Doubtful(ErrorsHandled) =>
                                /\ \A i, j \in DOMAIN handed : i < j => which[i] < which[j]
                                /\ \A d \in Due : \E i \in DOMAIN handed : which[i] = d
  BY DEF Delivered
<1>2. told \in Seq(Told)
  BY DEF RepliesInv, Kept
<1>3. PICK n \in Nat : n = Len(told)
  BY <1>2
<1>4. Due = { i \in 1 .. n : IsDue(told[i]) }
  BY <1>2, <1>3 DEF Due, IsDue
<1>5. ASSUME NEW f, ~Clean(told), ~Doubtful({f}) PROVE \A i \in 1 .. n : told[i].func # f
  <2>1. \E i \in DOMAIN told : told[i].spoilt \/ told[i].joined
    BY <1>2, <1>5 DEF Clean
  <2>2. ~\E i \in DOMAIN told : told[i].func = f
    BY <1>5, <2>1 DEF Doubtful
  <2>3. DOMAIN told = 1 .. n
    BY <1>2, <1>3
  <2>4. QED
    BY <2>2, <2>3
<1>6. Clean(told) \/ Sealing(told)
  BY <1>1, <1>3, <1>5 DEF Sealing, SENSOR_VALUES
<1>7. handed \in Seq(CalledOf(told))
  BY <1>6 DEF RepliesInv
<1>8. PICK h \in Nat : h = Len(handed) /\ DOMAIN handed = 1 .. h
  BY <1>7
<1>9. CASE Clean(told)
  <2>1. PICK F, last, from, which : InOrder(F, last, from, which)
    BY <1>9 DEF RepliesInv
  <2>2. /\ last \in 0 .. n /\ (step = "normal" => last = n)
        /\ \A i \in 1 .. h : which[i] \in 1 .. last /\ IsDue(told[which[i]])
                             /\ handed[i] = Called(told[which[i]])
        /\ \A i, j \in 1 .. h : i < j => which[i] < which[j]
        /\ \A j \in 1 .. last : IsDue(told[j]) => \E i \in 1 .. h : which[i] = j
    BY <1>3, <1>8, <2>1 DEF InOrder, HandedSo
  <2>3. PICK whose : whose = [i \in 1 .. h |-> which[i]]
    OBVIOUS
  <2>4. \A i \in 1 .. h : whose[i] = which[i] /\ which[i] \in Due
    BY <1>4, <2>2, <2>3
  <2>5. whose \in [DOMAIN handed -> Due]
    BY <1>8, <2>3, <2>4
  <2>6. \A i \in DOMAIN handed : handed[i] = Called(told[whose[i]])
    BY <1>8, <2>2, <2>4
  <2>7. ASSUME step = "normal"
        PROVE  /\ \A i, j \in DOMAIN handed : i < j => whose[i] < whose[j]
               /\ \A d \in Due : \E i \in DOMAIN handed : whose[i] = d
    <3>1. \A i, j \in 1 .. h : i < j => whose[i] < whose[j]
      BY <2>2, <2>4
    <3>2. \A d \in Due : \E i \in 1 .. h : whose[i] = d
      BY <1>4, <2>2, <2>4, <2>7
    <3>3. QED
      BY <1>8, <3>1, <3>2
  <2>8. QED
    BY <2>5, <2>6, <2>7
<1>10. CASE Sealing(told) /\ ~Clean(told)
  <2>1. step # "normal" \/ Doubtful(ErrorsHandled)
    <3>1. SUFFICES ASSUME ~Doubtful({65}) PROVE step # "normal"
      BY DEF ErrorsHandled
    <3>2. Steady(told)
      BY <1>3, <1>5, <1>10, <3>1 DEF Steady
    <3>3. QED
      BY <1>10, <3>2 DEF RepliesInv, Guarded
  <2>2. \A i \in 1 .. h : \E d \in Due : handed[i] = Called(told[d])
    <3>1. \A i \in 1 .. h : handed[i] \in CalledOf(told)
      BY <1>7, <1>8
    <3>2. \A c \in CalledOf(told) : \E d \in Due : c = Called(told[d])
      BY <1>3, <1>4 DEF CalledOf
    <3>3. QED
      BY <3>1, <3>2
  <2>3. PICK whose : whose = [i \in 1 .. h |-> CHOOSE d \in Due : handed[i] = Called(told[d])]
    OBVIOUS
  <2>4. \A i \in 1 .. h : whose[i] \in Due /\ handed[i] = Called(told[whose[i]])
    BY <2>2, <2>3
  <2>5. whose \in [DOMAIN handed -> Due] /\ \A i \in DOMAIN handed : handed[i] = Called(told[whose[i]])
    BY <1>8, <2>3, <2>4
  <2>6. QED
    BY <2>1, <2>5
<1>11. QED
  BY <1>6, <1>9, <1>10

(* Whatever bytes are spoilt, lost or read as others, or frames run together,*)
(* the process... methods of a list without sensor values are called with    *)
(* what the ILCs have said, and when ilcCommands returns, with all of it in  *)
(* its order; this last, if the list changes no mode, as refusals of that are*)
(* taken without their checksum.                                             *)
THEOREM AnswersDelivered == ILCRepliesSpec => []Delivered
<1>1. ILCRepliesInit => RepliesInv
  BY RepliesInitially
<1>2. RepliesInv /\ [ILCRepliesNext]_ilcReplies => RepliesInv'
  BY RepliesStep
<1>3. RepliesInv => Delivered
  BY RepliesDelivered
<1>4. QED
  BY <1>1, <1>2, <1>3, PTL DEF ILCRepliesSpec
=============================================================================
