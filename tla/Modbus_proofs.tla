---------------------------- MODULE Modbus_proofs ----------------------------
(* Theorems about the two masters of a Modbus line: MPU, for any lists of    *)
(* commands, any answers, cuts and delays, and ModbusBuffer, for any calls,  *)
(* answers, frames nobody has asked for and subclass.                        *)
EXTENDS MPU, ModbusBuffer, SequenceTheorems, WellFoundedInduction, TLAPS

----------------------------------------------------------------------------
(* MPU.                                                                      *)

BusListType == [commands : Seq(Request), parsed_index : Nat,
                errors : [Addresses -> 0 .. MaxErrors]]

(* There is an info for the command being executed and for each after it.   *)
Enough ==
    /\ list \in BusListType
    /\ info \in Seq(CommandedInfo)
    /\ next \in Nat \ {0}
    /\ pc \in {"execute", "read", "parse"} =>
           Len(info) + next >= Len(list.commands) + 1
    /\ pc \in {"read", "parse"} => next <= Len(list.commands)

(* r is s and then t.                                                      *)
Then(r, s, t) ==
    /\ Len(r) = Len(s) + Len(t)
    /\ \A i \in 1 .. Len(s) : r[i] = s[i]
    /\ \A i \in 1 .. Len(t) : r[Len(s) + i] = t[i]

LEMMA Joins ==
  ASSUME NEW T, NEW s \in Seq(T), NEW t \in Seq(T)
  PROVE  s \o t \in Seq(T) /\ Then(s \o t, s, t)
BY DEF Then

(* What the operators of the bus list keep.                                 *)
LEMMA ListKept ==
  ASSUME NEW l \in BusListType, NEW frame
  PROVE  /\ parse(l, frame) \in BusListType
         /\ parse(l, frame).commands = l.commands
         /\ next_message(l) \in BusListType
         /\ next_message(l).commands = l.commands
<1>1. ASSUME NEW a
      PROVE  Record(l, a) \in BusListType /\ Record(l, a).commands = l.commands
             /\ Record(l, a).parsed_index = l.parsed_index
  <2>1. l.errors \in [Addresses -> 0 .. MaxErrors]
    BY DEF BusListType
  <2>2. MaxErrors \in Nat
    BY BusAssumption
  <2> DEFINE e == [l.errors EXCEPT ![a] = IF @ < MaxErrors THEN @ + 1 ELSE @]
  <2>3. e \in [Addresses -> 0 .. MaxErrors]
    <3>1. CASE a \in Addresses
      BY <2>1, <2>2, <3>1
    <3>2. CASE a \notin Addresses
      <4>1. e = l.errors
        BY <2>1, <3>2
      <4>2. QED
        BY <2>1, <4>1
    <3>3. QED
      BY <3>1, <3>2
  <2>4. Record(l, a) = [l EXCEPT !.errors = e]
    BY DEF Record, BusListType
  <2> HIDE DEF e
  <2>5. QED
    BY <2>3, <2>4 DEF BusListType
<1> DEFINE noted == IF Outcome(l, frame) = "wrong"
                    THEN Record(l, Expected(l).address) ELSE l
<1>2. noted \in BusListType /\ noted.commands = l.commands
      /\ noted.parsed_index = l.parsed_index
  BY <1>1
<1>3. parse(l, frame) = [noted EXCEPT !.parsed_index =
                            IF Advances(l, frame) THEN @ + 1 ELSE @]
  BY DEF parse
<1> HIDE DEF noted
<1> DEFINE p == IF Advances(l, frame) THEN l.parsed_index + 1 ELSE l.parsed_index
<1>4. p \in Nat
  BY DEF BusListType
<1>5. parse(l, frame) = [noted EXCEPT !.parsed_index = p]
  BY <1>2, <1>3
<1> HIDE DEF p
<1>6. parse(l, frame) \in BusListType /\ parse(l, frame).commands = l.commands
  BY <1>2, <1>4, <1>5 DEF BusListType
<1>7. next_message(l) \in BusListType /\ next_message(l).commands = l.commands
  BY DEF next_message, BusListType
<1>8. QED
  BY <1>6, <1>7

LEMMA RequestFields ==
  ASSUME NEW r \in Request
  PROVE  r.start \in 0 .. MaxAddress /\ r.count \in 1 .. MaxAddress
BY DEF Request

(* Commands come with as many infos.                                        *)
LEMMA InfosType ==
  ASSUME NEW cmds \in Lists
  PROVE  /\ cmds \in Seq(Request)
         /\ Infos(cmds) \in Seq(CommandedInfo)
         /\ Len(Infos(cmds)) = Len(cmds)
<1>1. PICK n \in 1 .. MaxCommands : cmds \in [1 .. n -> Requests]
  BY DEF Lists
<1>2. n \in Nat /\ cmds \in [1 .. n -> Request] /\ MaxAddress \in Nat
  BY <1>1, MPUAssumption
<1>3. cmds \in Seq(Request) /\ Len(cmds) = n /\ DOMAIN cmds = 1 .. n
  BY <1>2
<1>4. ASSUME NEW i \in 1 .. n
      PROVE  [address |-> cmds[i].start,
              length |-> IF cmds[i].func = PRESET_HOLDING_REGISTER THEN 0
                         ELSE cmds[i].count] \in CommandedInfo
  <2> DEFINE len == IF cmds[i].func = PRESET_HOLDING_REGISTER THEN 0
                    ELSE cmds[i].count
  <2>1. cmds[i] \in Request
    BY <1>2
  <2>2. cmds[i].start \in 0 .. MaxAddress /\ cmds[i].count \in 1 .. MaxAddress
    BY <2>1, RequestFields
  <2>3. len \in 0 .. MaxAddress
    BY <1>2, <2>2
  <2> HIDE DEF len
  <2>4. [address |-> cmds[i].start, length |-> len] \in CommandedInfo
    BY <2>2, <2>3 DEF CommandedInfo
  <2>5. QED
    BY <2>4 DEF len
<1>5. Infos(cmds) \in [1 .. n -> CommandedInfo]
  BY <1>3, <1>4 DEF Infos
<1>6. QED
  BY <1>2, <1>3, <1>5

LEMMA EnoughAlways == Spec => []Enough
<1>1. Init => Enough
  <2> SUFFICES ASSUME Init PROVE Enough
    OBVIOUS
  <2>1. EmptyList \in BusListType
    BY BusAssumption DEF EmptyList, BusListType
  <2>2. QED
    BY <2>1 DEF Init, Enough
<1>2. Enough /\ [Next]_vars => Enough'
  <2> SUFFICES ASSUME Enough, [Next]_vars PROVE Enough'
    OBVIOUS
  <2> USE DEF Enough
  <2>f. ASSUME NEW cmds \in Seq(Request)
        PROVE  Fill(list, cmds) \in BusListType /\ Fill(list, cmds).commands = cmds
    BY DEF Fill, BusListType
  <2>p. pop_front(info) \in Seq(CommandedInfo) /\ Len(pop_front(info)) >= Len(info) - 1
    BY DEF pop_front
  <2>l. Len(info) \in Nat /\ Len(list.commands) \in Nat
    BY DEF BusListType
  <2>1. ASSUME NEW cmds \in Lists, Commands(cmds) PROVE Enough'
    <3>1. list' = Fill(list, cmds) /\ info' = info \o Infos(cmds)
          /\ pc' = "execute" /\ next' = 1
      BY <2>1 DEF Commands
    <3>2. list' \in BusListType /\ list'.commands = cmds
      BY <2>f, <3>1, InfosType
    <3>3. info' \in Seq(CommandedInfo) /\ Len(info') = Len(info) + Len(cmds)
      <4>1. Infos(cmds) \in Seq(CommandedInfo) /\ Len(Infos(cmds)) = Len(cmds)
        BY InfosType
      <4>2. QED
        BY <3>1, <4>1, Joins DEF Then
    <3>4. QED
      BY <2>l, <3>1, <3>2, <3>3, InfosType
  <2>2. CASE Recover
    <3>1. << >> \in Seq(Request)
      OBVIOUS
    <3>2. list' \in BusListType
      BY <2>2, <2>f, <3>1, ListKept DEF Recover
    <3>3. QED
      BY <2>2, <3>2 DEF Recover
  <2>3. CASE Flush
    BY <2>3 DEF Flush, mpu, transport
  <2>4. CASE Renew
    <3>1. EmptyList \in BusListType
      BY BusAssumption DEF EmptyList, BusListType
    <3>2. QED
      BY <2>4, <3>1 DEF Renew
  <2>5. CASE Write
    BY <2>5 DEF Write, mpu
  <2>6. CASE GiveUp
    BY <2>6 DEF GiveUp, Fail, mpu
  <2>7. CASE Receive
    <3>1. list' = list /\ info' = info /\ next' = next
          /\ pc' \in {"failed", "parse", "read"} /\ pc = "read"
      BY <2>7 DEF Receive, Fail, mpu
    <3>2. QED
      BY <3>1
  <2>8. CASE TimeOut
    <3>1. CASE answer = << >>
      <4>1. info' = pop_front(info) /\ pc' = "failed" /\ next' = next
            /\ list' = [list EXCEPT !.parsed_index = @ + 1]
        BY <2>8, <3>1 DEF TimeOut, missing_response, Fail
      <4>2. list' \in BusListType
        BY <4>1 DEF BusListType
      <4>3. QED
        BY <2>p, <4>1, <4>2
    <3>2. CASE answer # << >>
      BY <2>8, <3>2 DEF TimeOut
    <3>3. QED
      BY <3>1, <3>2
  <2>9. CASE Parse
    <3>0. PICK command :
             /\ info' \in {info, pop_front(info)}
             /\ \/ /\ list' = next_message(parse(list, Parsed(command)))
                   /\ pc' = "execute"
                   /\ next' = next + 1
                \/ /\ list' = parse(list, Parsed(command))
                   /\ pc' = "failed"
                   /\ next' = next
      BY <2>9 DEF Parse, Fail
    <3>1. /\ info' \in {info, pop_front(info)}
          /\ \/ pc' = "execute" /\ next' = next + 1
             \/ pc' = "failed" /\ next' = next
      BY <3>0
    <3>2. list' \in BusListType /\ list'.commands = list.commands
      BY <3>0, ListKept
    <3>3. info' \in Seq(CommandedInfo) /\ Len(info') >= Len(info) - 1
      BY <2>p, <2>l, <3>1
    <3>4. pc = "parse" /\ Len(info') \in Nat
      BY <2>9, <3>3 DEF Parse
    <3>5. QED
      BY <2>l, <3>1, <3>2, <3>3, <3>4
  <2>10. CASE Return
    <3>1. << >> \in Seq(Request)
      OBVIOUS
    <3>2. QED
      BY <2>10, <2>f, <3>1 DEF Return
  <2>11. CASE DeviceAnswers
    BY <2>11 DEF DeviceAnswers, mpu, transport
  <2>12. CASE UNCHANGED vars
    BY <2>12 DEF vars, mpu, transport
  <2>13. QED
    BY <2>1, <2>2, <2>3, <2>4, <2>5, <2>6, <2>7, <2>8, <2>9, <2>10, <2>11, <2>12
    DEF Next, CallerStep, TransportStep
<1>3. QED
  BY <1>1, <1>2, PTL DEF Spec

(* front and pop_front are never called on an empty _commanded_info: MPU.cpp*)
(* 33-119 and 148-151, whatever answers are missing, refused or spoiled.    *)
THEOREM FrontIsThere == Spec => []FrontThere
<1>1. Enough => FrontThere
  <2> SUFFICES ASSUME Enough, pc \in {"read", "parse"} PROVE info # << >>
    BY DEF FrontThere
  <2>1. Len(info) \in Nat /\ Len(list.commands) \in Nat /\ next \in Nat
        /\ Len(info) + next >= Len(list.commands) + 1 /\ next <= Len(list.commands)
    BY DEF Enough, BusListType
  <2>2. Len(info) # 0
    BY <2>1
  <2>3. QED
    BY <2>2
<1>2. QED
  BY <1>1, EnoughAlways, PTL

----------------------------------------------------------------------------
(* The bytes of MPU's answers, and what is stored of them.                  *)

(* What the device makes of what it reads and writes, byte by byte          *)
Octet == [b : Nat]
Bytes == Octet \cup [crc : Seq(Octet)]

LEMMA WordNat ==
  ASSUME NEW n, NEW v \in 0 .. n
  PROVE  v \in Nat
OBVIOUS

LEMMA NumberIs ==
  ASSUME NEW n
  PROVE  Number(Byte(n)) = n
BY DEF Number, Byte

LEMMA OctetIs ==
  ASSUME NEW n \in Nat
  PROVE  Byte(n) \in Octet
BY DEF Byte, Octet

(* No byte of a message is one of a checksum.                               *)
LEMMA NoChecksum ==
  ASSUME NEW o \in Octet, NEW q
  PROVE  o # [crc |-> q]
<1>1. DOMAIN o = {"b"}
  BY DEF Octet
<1>2. DOMAIN [crc |-> q] = {"crc"}
  OBVIOUS
<1>3. "b" # "crc"
  OBVIOUS
<1>4. QED
  BY <1>1, <1>2, <1>3

LEMMA RequestIs ==
  ASSUME NEW req \in Requests
  PROVE  /\ req \in Request
         /\ req.address = Node /\ Node \in Addresses /\ Node \in 1 .. 255
         /\ req.func \in {2, 3, 6, 16} /\ req.start \in Nat /\ req.count \in Nat \ {0}
         /\ req.start + req.count <= MaxAddress + 1 /\ MaxAddress \in Nat
         /\ req.value \in Nat
<1>1. req \in Request /\ MaxAddress \in Nat
  BY MPUAssumption
<1>2. req.start + req.count <= MaxAddress + 1
  BY MPUAssumption
<1>3. Node \in Addresses /\ Node \in 1 .. 255
  BY MPUAssumption
<1>4. /\ req.address = Node /\ req.func \in MODBUS_CMD /\ req.start \in 0 .. MaxAddress
      /\ req.count \in 1 .. MaxAddress /\ req.value \in Uint16
  BY <1>1 DEF Request
<1>5. req.func \in {2, 3, 6, 16}
  BY <1>4 DEF MODBUS_CMD, READ_INPUT_STATUS, READ_HOLDING_REGISTERS,
      PRESET_HOLDING_REGISTER, PRESET_HOLDING_REGISTERS
<1>6. req.value \in Nat
  <2> DEFINE n == 65535
  <2>1. Uint16 = 0 .. n
    BY DEF Uint16
  <2> HIDE DEF n
  <2>2. QED
    BY <1>4, <2>1, WordNat
<1>7. QED
  BY <1>1, <1>2, <1>3, <1>4, <1>5, <1>6

Four(a, b, c, d) == << Byte(a), Byte(b), Byte(c), Byte(d) >>

LEMMA FourIs ==
  ASSUME NEW a, NEW b, NEW c, NEW d,
         {Byte(a), Byte(b), Byte(c), Byte(d)} \subseteq Octet
  PROVE  /\ Four(a, b, c, d) \in Seq(Octet) /\ Len(Four(a, b, c, d)) = 4
         /\ Four(a, b, c, d)[3] = Byte(c) /\ Four(a, b, c, d)[4] = Byte(d)
BY DEF Four

LEMMA OctetsIs ==
  ASSUME NEW n \in Nat \ {0}
  PROVE  Octets(n) \in Nat \ {0} /\ n <= 8 * Octets(n)
BY DEF Octets

(* The bytes p of a proper answer, in front of its checksum                 *)
Speaks(p, req, reading) ==
    /\ p \in Seq(Octet) /\ Len(p) >= 4
    /\ p[1] = Byte(Node) /\ p[2] = Byte(req.func)
    /\ req.func = 2 =>
          /\ Len(p) = 3 + Octets(req.count)
          /\ p[3] = Byte(Octets(req.count))
          /\ \A i \in 1 .. Octets(req.count) : p[3 + i] = Byte(reading)
    /\ req.func = 3 =>
          /\ Len(p) = 3 + 2 * req.count
          /\ p[3] = Byte(2 * req.count)
          /\ \A i \in 1 .. 2 * req.count :
                p[3 + i] = Byte(IF i % 2 = 1 THEN req.start + i \div 2 ELSE reading)
    /\ req.func \in {6, 16} => Len(p) = 6
    /\ req.func = 6 => p[5] = Byte(req.value \div 256) /\ p[6] = Byte(req.value % 256)

LEMMA PayloadIs ==
  ASSUME NEW req \in Requests, NEW reading \in 0 .. 255
  PROVE  Speaks(Payload(req, reading), req, reading)
<1>p. PICK p : p = Payload(req, reading)
  OBVIOUS
<1> DEFINE n == Octets(req.count)
           h == << Byte(Node), Byte(req.func) >>
<1>1. /\ req.func \in {2, 3, 6, 16} /\ req.func \in Nat
      /\ Node \in Nat /\ req.start \in Nat /\ req.count \in Nat \ {0}
      /\ n \in Nat \ {0} /\ req.value \in Nat
  BY RequestIs, OctetsIs
<1>2. /\ h \in Seq(Octet) /\ Len(h) = 2 /\ h[1] = Byte(Node) /\ h[2] = Byte(req.func)
  <2>1. Byte(Node) \in Octet /\ Byte(req.func) \in Octet
    BY <1>1, OctetIs
  <2>2. QED
    BY <2>1
<1> HIDE DEF h
<1>a. ASSUME NEW tail \in Seq(Octet), p = h \o tail
      PROVE  /\ p \in Seq(Octet) /\ Len(p) = 2 + Len(tail)
             /\ p[1] = Byte(Node) /\ p[2] = Byte(req.func)
             /\ \A i \in 1 .. Len(tail) : p[2 + i] = tail[i]
  <2>0. h \in Seq(Octet) /\ tail \in Seq(Octet)
    BY <1>2
  <2>1. h \o tail \in Seq(Octet) /\ Then(h \o tail, h, tail)
    BY <2>0, Joins
  <2>2. QED
    BY <1>2, <1>a, <2>1 DEF Then
<1>b. ASSUME NEW size \in Nat, NEW body \in Seq(Octet), p = h \o (<< Byte(size) >> \o body)
      PROVE  /\ p \in Seq(Octet) /\ Len(p) = 3 + Len(body)
             /\ p[1] = Byte(Node) /\ p[2] = Byte(req.func) /\ p[3] = Byte(size)
             /\ \A i \in 1 .. Len(body) : p[3 + i] = body[i]
  <2> DEFINE z == << Byte(size) >>
             t == z \o body
  <2>1. z \in Seq(Octet) /\ Len(z) = 1 /\ z[1] = Byte(size)
    BY OctetIs
  <2> HIDE DEF z
  <2>j. t \in Seq(Octet) /\ Then(t, z, body)
    BY <2>1, Joins
  <2>2. /\ t \in Seq(Octet) /\ Len(t) = 1 + Len(body) /\ t[1] = Byte(size)
        /\ \A i \in 1 .. Len(body) : t[1 + i] = body[i]
    BY <2>1, <2>j DEF Then
  <2>3. p = h \o t
    BY <1>b DEF z
  <2> HIDE DEF t
  <2>4. /\ p \in Seq(Octet) /\ Len(p) = 2 + Len(t)
        /\ p[1] = Byte(Node) /\ p[2] = Byte(req.func)
        /\ \A i \in 1 .. Len(t) : p[2 + i] = t[i]
    BY <2>2, <2>3, <1>a
  <2>5. p[3] = Byte(size)
    <3>1. 1 \in 1 .. Len(t) /\ 2 + 1 = 3
      BY <2>1, <2>2
    <3>2. p[2 + 1] = t[1]
      BY <2>4, <3>1
    <3>3. QED
      BY <2>2, <3>1, <3>2
  <2>6. ASSUME NEW i \in 1 .. Len(body) PROVE p[3 + i] = body[i]
    <3>1. 1 + i \in 1 .. Len(t) /\ 2 + (1 + i) = 3 + i
      BY <2>2
    <3>2. QED
      BY <2>2, <2>4, <3>1
  <2>7. QED
    BY <2>2, <2>4, <2>5, <2>6
<1>3. ASSUME req.func = 2 PROVE Speaks(p, req, reading)
  <2> DEFINE body == InputData(req, reading)
  <2>1. body \in Seq(Octet) /\ Len(body) = n /\ \A i \in 1 .. n : body[i] = Byte(reading)
    <3>1. Byte(reading) \in Octet
      BY OctetIs
    <3>2. body = [i \in 1 .. n |-> Byte(reading)]
      BY DEF InputData
    <3> HIDE DEF n, body
    <3>3. QED
      BY <1>1, <3>1, <3>2
  <2>2. p = h \o (<< Byte(n) >> \o body)
    BY <1>p, <1>3 DEF Payload, READ_INPUT_STATUS, READ_HOLDING_REGISTERS, PRESET_HOLDING_REGISTER,
       PRESET_HOLDING_REGISTERS, h
  <2> HIDE DEF body, n
  <2>3. QED
    <3> HIDE DEF n
    <3>1. n \in Nat /\ body \in Seq(Octet)
      BY <1>1, <2>1
    <3>2. /\ p \in Seq(Octet) /\ Len(p) = 3 + Len(body)
          /\ p[1] = Byte(Node) /\ p[2] = Byte(req.func) /\ p[3] = Byte(n)
          /\ \A i \in 1 .. Len(body) : p[3 + i] = body[i]
      BY <2>2, <3>1, <1>b
    <3>3. Len(p) = 3 + n /\ Len(p) >= 4
      BY <3>1, <2>1, <3>2, <1>1
    <3>a. ASSUME NEW i \in 1 .. n PROVE p[3 + i] = Byte(reading)
      <4>1. i \in 1 .. Len(body) /\ body[i] = Byte(reading)
        BY <2>1
      <4>2. QED
        BY <3>2, <4>1
    <3>4. QED
      BY <1>3, <3>2, <3>3, <3>a DEF n, Speaks
<1>4. ASSUME req.func = 3 PROVE Speaks(p, req, reading)
  <2> DEFINE m == 2 * req.count
             body == RegisterData(req, reading)
  <2>1. m \in Nat /\ m >= 2
    BY <1>1
  <2>2. /\ body \in Seq(Octet) /\ Len(body) = m
        /\ \A i \in 1 .. m : body[i] = Byte(IF i % 2 = 1 THEN req.start + i \div 2 ELSE reading)
    <3>1. ASSUME NEW i \in 1 .. m
          PROVE  Byte(IF i % 2 = 1 THEN req.start + i \div 2 ELSE reading) \in Octet
      <4>1. (IF i % 2 = 1 THEN req.start + i \div 2 ELSE reading) \in Nat
        BY <1>1, <2>1
      <4>2. QED
        BY <4>1, OctetIs
    <3>2. body = [i \in 1 .. m |-> Byte(IF i % 2 = 1 THEN req.start + i \div 2 ELSE reading)]
      BY DEF RegisterData
    <3> HIDE DEF m, body
    <3>3. QED
      BY <2>1, <3>1, <3>2
  <2>3. p = h \o (<< Byte(m) >> \o body)
    BY <1>p, <1>4 DEF Payload, READ_INPUT_STATUS, READ_HOLDING_REGISTERS, PRESET_HOLDING_REGISTER,
       PRESET_HOLDING_REGISTERS, h
  <2> HIDE DEF body, m
  <2>4. QED
    <3>1. m \in Nat /\ body \in Seq(Octet)
      BY <2>1, <2>2
    <3>2. /\ p \in Seq(Octet) /\ Len(p) = 3 + Len(body)
          /\ p[1] = Byte(Node) /\ p[2] = Byte(req.func) /\ p[3] = Byte(m)
          /\ \A i \in 1 .. Len(body) : p[3 + i] = body[i]
      BY <2>3, <3>1, <1>b
    <3>3. Len(p) = 3 + m /\ Len(p) >= 4
      BY <2>1, <2>2, <3>2
    <3>a. ASSUME NEW i \in 1 .. m
          PROVE  p[3 + i] = Byte(IF i % 2 = 1 THEN req.start + i \div 2 ELSE reading)
      <4>1. i \in 1 .. Len(body)
            /\ body[i] = Byte(IF i % 2 = 1 THEN req.start + i \div 2 ELSE reading)
        BY <2>2
      <4>2. QED
        BY <3>2, <4>1
    <3>4. QED
      BY <1>4, <3>2, <3>3, <3>a DEF m, Speaks
<1>5. ASSUME req.func = 6 PROVE Speaks(p, req, reading)
  <2> DEFINE v == req.value \div 256
             w == req.value % 256
             t == Four(0, req.start, v, w)
  <2>1. v \in Nat /\ w \in Nat
    BY <1>1
  <2>2. p = h \o t
    BY <1>p, <1>5 DEF Payload, READ_INPUT_STATUS, READ_HOLDING_REGISTERS, PRESET_HOLDING_REGISTER,
       PRESET_HOLDING_REGISTERS, h, Four
  <2> HIDE DEF v, w
  <2>3. t \in Seq(Octet) /\ Len(t) = 4 /\ t[3] = Byte(v) /\ t[4] = Byte(w)
    <3>1. {Byte(0), Byte(req.start), Byte(v), Byte(w)} \subseteq Octet
      BY <1>1, <2>1, OctetIs
    <3>2. QED
      BY <3>1, FourIs
  <2> HIDE DEF t
  <2>4. /\ p \in Seq(Octet) /\ Len(p) = 2 + Len(t)
        /\ p[1] = Byte(Node) /\ p[2] = Byte(req.func)
        /\ \A i \in 1 .. Len(t) : p[2 + i] = t[i]
    BY <1>a, <2>2, <2>3
  <2>5. p[2 + 3] = t[3] /\ p[2 + 4] = t[4]
    BY <2>3, <2>4
  <2>6. p \in Seq(Octet) /\ Len(p) = 6 /\ p[5] = Byte(v) /\ p[6] = Byte(w)
    BY <2>3, <2>4, <2>5
  <2>7. p[5] = Byte(req.value \div 256) /\ p[6] = Byte(req.value % 256)
    BY <2>6 DEF v, w
  <2>8. ~(req.func = 2) /\ ~(req.func = 3) /\ Len(p) >= 4
    BY <1>5, <2>6
  <2>9. QED
    BY <1>5, <2>4, <2>6, <2>7, <2>8 DEF Speaks
<1>6. ASSUME req.func = 16 PROVE Speaks(p, req, reading)
  <2> DEFINE t == Four(0, req.start, 0, req.count)
  <2>2. p = h \o t
    BY <1>p, <1>6 DEF Payload, READ_INPUT_STATUS, READ_HOLDING_REGISTERS, PRESET_HOLDING_REGISTER,
       PRESET_HOLDING_REGISTERS, h, Four
  <2>3. t \in Seq(Octet) /\ Len(t) = 4
    <3>1. {Byte(0), Byte(req.start), Byte(0), Byte(req.count)} \subseteq Octet
      BY <1>1, OctetIs
    <3>2. QED
      BY <3>1, FourIs
  <2> HIDE DEF t
  <2>4. /\ p \in Seq(Octet) /\ Len(p) = 2 + Len(t)
        /\ p[1] = Byte(Node) /\ p[2] = Byte(req.func)
    BY <1>a, <2>2, <2>3
  <2>5. QED
    BY <1>6, <2>3, <2>4 DEF Speaks
<1>7. QED
  BY <1>1, <1>p, <1>3, <1>4, <1>5, <1>6

LEMMA CheckedIs ==
  ASSUME NEW p \in Seq(Octet)
  PROVE  /\ Checked(p) \in Seq(Bytes) /\ Len(Checked(p)) = Len(p) + 2
         /\ Checked(p)[Len(p) + 1] = [crc |-> p] /\ Checked(p)[Len(p) + 2] = [crc |-> p]
         /\ \A i \in 1 .. Len(p) : Checked(p)[i] = p[i] /\ Checked(p)[i] \in Octet
<1> DEFINE c == << [crc |-> p], [crc |-> p] >>
<1>1. c \in Seq(Bytes) /\ Len(c) = 2 /\ c[1] = [crc |-> p] /\ c[2] = [crc |-> p]
  BY DEF Bytes
<1>2. p \in Seq(Bytes)
  BY DEF Bytes
<1>3. Checked(p) = p \o c
  BY DEF Checked
<1> HIDE DEF c
<1>4. p \o c \in Seq(Bytes) /\ Then(p \o c, p, c)
  BY <1>1, <1>2, Joins
<1>5. QED
  BY <1>1, <1>3, <1>4 DEF Then

(* How the device answers                                                   *)
Ways == {"proper"} \cup Faults

(* How an answer r looks, given the bytes p of a proper one                 *)
Looks(r, how, func, p) ==
    /\ r \in Seq(Bytes) /\ Len(r) >= 5
    /\ how = "proper" => \A i \in 1 .. Len(p) : r[i] = p[i]
    /\ how \in {"proper", "garbled"} =>
          /\ Len(r) = Len(p) + 2 /\ r[Len(p) + 1] = [crc |-> p]
          /\ \A i \in 1 .. Len(p) : r[i] \in Octet
    /\ how = "stray" => r[1] = Byte(0)
    /\ how = "refused" => r[2] = Byte(func + 128)

LEMMA ReplyIs ==
  ASSUME NEW req \in Requests, NEW reading \in 0 .. 255, NEW how \in Ways
  PROVE  Looks(Reply(req, reading, how), how, req.func, Payload(req, reading))
<1>a. PICK p, r : p = Payload(req, reading) /\ r = Reply(req, reading, how)
  OBVIOUS
<1>1. p \in Seq(Octet) /\ Len(p) >= 4
  BY <1>a, PayloadIs DEF Speaks
<1>2. /\ Checked(p) \in Seq(Bytes) /\ Len(Checked(p)) = Len(p) + 2
      /\ Checked(p)[Len(p) + 1] = [crc |-> p]
      /\ \A i \in 1 .. Len(p) : Checked(p)[i] = p[i] /\ Checked(p)[i] \in Octet
  BY <1>1, CheckedIs
<1>3. how \in {"proper", "garbled", "stray", "refused"}
  BY MPUAssumption DEF Ways
<1>4. ASSUME how = "proper" PROVE Looks(r, how, req.func, p)
  <2>1. r = Checked(p)
    BY <1>a, <1>4 DEF Reply
  <2>2. QED
    BY <1>1, <1>2, <1>4, <2>1 DEF Looks
<1>5. ASSUME how = "garbled" PROVE Looks(r, how, req.func, p)
  <2>1. r = [Checked(p) EXCEPT ![4] = Byte(255)]
    BY <1>a, <1>5 DEF Reply
  <2>2. Byte(255) \in Octet /\ Byte(255) \in Bytes
    BY OctetIs DEF Bytes
  <2>3. r \in Seq(Bytes) /\ Len(r) = Len(Checked(p))
    BY <1>1, <1>2, <2>1, <2>2
  <2>4. \A i \in 1 .. Len(p) + 2 : r[i] = IF i = 4 THEN Byte(255) ELSE Checked(p)[i]
    BY <1>1, <1>2, <2>1
  <2>5. r[Len(p) + 1] = [crc |-> p] /\ \A i \in 1 .. Len(p) : r[i] \in Octet
    BY <1>1, <1>2, <2>2, <2>4
  <2>6. QED
    BY <1>1, <1>2, <1>5, <2>3, <2>5 DEF Looks
<1>6. ASSUME how = "stray" PROVE Looks(r, how, req.func, p)
  <2> DEFINE q == [p EXCEPT ![1] = Byte(0)]
  <2>1. r = Checked(q)
    BY <1>a, <1>6 DEF Reply
  <2>2. q \in Seq(Octet) /\ Len(q) = Len(p) /\ q[1] = Byte(0)
    BY <1>1, OctetIs
  <2> HIDE DEF q
  <2>a. /\ Checked(q) \in Seq(Bytes) /\ Len(Checked(q)) = Len(q) + 2
        /\ \A i \in 1 .. Len(q) : Checked(q)[i] = q[i] /\ Checked(q)[i] \in Octet
    BY <2>2, CheckedIs
  <2>3. r \in Seq(Bytes) /\ Len(r) = Len(q) + 2 /\ \A i \in 1 .. Len(q) : r[i] = q[i]
    BY <2>1, <2>a
  <2>4. QED
    BY <1>1, <1>6, <2>2, <2>3 DEF Looks
<1>7. ASSUME how = "refused" PROVE Looks(r, how, req.func, p)
  <2> DEFINE q == << Byte(Node), Byte(req.func + 128), Byte(2) >>
  <2>1. r = Checked(q)
    BY <1>a, <1>7 DEF Reply, MODBUS_ERROR_MASK
  <2>2. q \in Seq(Octet) /\ Len(q) = 3 /\ q[2] = Byte(req.func + 128)
    <3>1. Node \in Nat /\ req.func + 128 \in Nat
      BY RequestIs
    <3>2. Byte(Node) \in Octet /\ Byte(req.func + 128) \in Octet /\ Byte(2) \in Octet
      BY <3>1, OctetIs
    <3>3. QED
      BY <3>2
  <2> HIDE DEF q
  <2>a. /\ Checked(q) \in Seq(Bytes) /\ Len(Checked(q)) = Len(q) + 2
        /\ \A i \in 1 .. Len(q) : Checked(q)[i] = q[i] /\ Checked(q)[i] \in Octet
    BY <2>2, CheckedIs
  <2>3. r \in Seq(Bytes) /\ Len(r) = Len(q) + 2 /\ \A i \in 1 .. Len(q) : r[i] = q[i]
    BY <2>1, <2>a
  <2>4. QED
    <3>1. r[2] = q[2]
      BY <2>2, <2>3
    <3>2. Len(r) >= 5
      BY <2>2, <2>3
    <3>3. QED
      BY <1>7, <2>2, <2>3, <3>1, <3>2 DEF Looks
<1>8. QED
  BY <1>a, <1>3, <1>4, <1>5, <1>6, <1>7

(* Bytes of the answer r, from the first on                                 *)
Part(a, r) == Len(a) <= Len(r) /\ \A i \in 1 .. Len(a) : a[i] = r[i]

(* What passes the check is a proper answer, and all of it: a checksum is no *)
(* octet, so it can only be the one behind the payload, computed from that.  *)
LEMMA Full ==
  ASSUME NEW req \in Requests, NEW reading \in 0 .. 255, NEW how \in Ways,
         NEW a \in Seq(Bytes), Len(a) >= 2, Part(a, Reply(req, reading, how)),
         Number(a[1]) = Node, Number(a[2]) \in MODBUS_CMD,
         NEW k \in Nat, ChecksOut(a, k)
  PROVE  /\ Len(a) = Len(Payload(req, reading)) + 2
         /\ Len(a) = Len(Reply(req, reading, how))
         /\ \A i \in 1 .. Len(Payload(req, reading)) : a[i] = Payload(req, reading)[i]
<1>a. PICK p, r : p = Payload(req, reading) /\ r = Reply(req, reading, how)
  OBVIOUS
<1>1. Looks(r, how, req.func, p)
  BY <1>a, ReplyIs
<1>p. p \in Seq(Octet) /\ Len(p) >= 4
  BY <1>a, PayloadIs DEF Speaks
<1>2. Len(a) <= Len(r) /\ \A i \in 1 .. Len(a) : a[i] = r[i]
  BY <1>a DEF Part
<1>3. how # "stray"
  <2>1. SUFFICES ASSUME how = "stray" PROVE FALSE
    OBVIOUS
  <2>2. a[1] = Byte(0)
    BY <1>1, <1>2, <2>1 DEF Looks
  <2>3. Number(a[1]) = 0
    BY <2>2, NumberIs
  <2>4. QED
    BY <2>3, RequestIs
<1>4. how # "refused"
  <2>1. SUFFICES ASSUME how = "refused" PROVE FALSE
    OBVIOUS
  <2>2. a[2] = Byte(req.func + 128)
    BY <1>1, <1>2, <2>1 DEF Looks
  <2>3. Number(a[2]) = req.func + 128 /\ req.func \in {2, 3, 6, 16}
    BY <2>2, NumberIs, RequestIs
  <2>4. QED
    BY <2>3 DEF MODBUS_CMD, READ_INPUT_STATUS, READ_HOLDING_REGISTERS, PRESET_HOLDING_REGISTER,
        PRESET_HOLDING_REGISTERS
<1>5. how \in {"proper", "garbled"}
  BY <1>3, <1>4, MPUAssumption DEF Ways
<1>6. /\ Len(r) = Len(p) + 2 /\ r[Len(p) + 1] = [crc |-> p]
      /\ \A i \in 1 .. Len(p) : r[i] \in Octet
  BY <1>1, <1>5 DEF Looks
<1> DEFINE s == SubSeq(a, 1, k)
           c == << [crc |-> s], [crc |-> s] >>
<1>7. k <= Len(a) /\ a = s \o c
  BY DEF ChecksOut, Checked
<1>8. s \in Seq(Bytes) /\ Len(s) = k /\ \A i \in 1 .. k : s[i] = a[i]
  BY <1>7
<1>9. Len(a) = k + 2 /\ a[k + 1] = [crc |-> s]
  <2>1. Len(c) = 2 /\ c[1] = [crc |-> s] /\ c \in Seq(Bytes \cup {[crc |-> s]})
    OBVIOUS
  <2>2. s \in Seq(Bytes \cup {[crc |-> s]})
    BY <1>8
  <2> HIDE DEF s, c
  <2>3. Then(s \o c, s, c)
    BY <2>1, <2>2, Joins
  <2>4. Len(a) = Len(s) + Len(c) /\ \A i \in 1 .. Len(c) : a[Len(s) + i] = c[i]
    BY <1>7, <2>3 DEF Then
  <2>5. QED
    BY <1>8, <2>1, <2>4
<1> HIDE DEF s, c
<1>10. k = Len(p)
  <2>1. k <= Len(p)
    BY <1>2, <1>6, <1>9, <1>p
  <2>2. k + 1 \in 1 .. Len(a) /\ r[k + 1] = [crc |-> s]
    BY <1>2, <1>9
  <2>3. ~(k + 1 \in 1 .. Len(p))
    BY <1>6, <2>2, NoChecksum
  <2>4. QED
    BY <2>1, <2>3, <1>p
<1>11. s = p
  <2>1. a[k + 1] = [crc |-> p]
    BY <1>2, <1>6, <1>9, <1>10
  <2>2. [crc |-> s] = [crc |-> p]
    BY <1>9, <2>1
  <2>3. [crc |-> s].crc = s /\ [crc |-> p].crc = p
    OBVIOUS
  <2>4. QED
    BY <2>2, <2>3
<1>12. QED
  BY <1>a, <1>2, <1>6, <1>8, <1>9, <1>10, <1>11

(* What is stored of an answer is what it says.                             *)
TheInfo(req) == [address |-> req.start,
                 length |-> IF req.func = PRESET_HOLDING_REGISTER THEN 0 ELSE req.count]

Within(f, g) == \A cell \in DOMAIN f : cell \in DOMAIN g /\ f[cell] = g[cell]

(* A front part of a proper answer, with its checksum or some of it         *)
Shows(req, reading) ==
    /\ answer \in Seq(Bytes) /\ Len(answer) >= 4
    /\ Len(answer) <= Len(Payload(req, reading)) + 2
    /\ \A i \in 1 .. Len(answer) :
          i <= Len(Payload(req, reading)) => answer[i] = Payload(req, reading)[i]

Whole(req, reading) == Len(answer) = Len(Payload(req, reading)) + 2

LEMMA ContentIs ==
  ASSUME NEW req \in Requests, NEW reading
  PROVE  /\ req.func = 2 =>
              Content(req, reading) = InputContent(req, reading)
         /\ req.func = 3 =>
              Content(req, reading) = RegisterContent(req, reading)
         /\ req.func = 6 =>
              Content(req, reading) = [cell \in {<< "register", req.start >>} |-> req.value]
         /\ req.func = 16 => Content(req, reading) = << >>
BY DEF Content, READ_INPUT_STATUS, READ_HOLDING_REGISTERS, PRESET_HOLDING_REGISTER,
   PRESET_HOLDING_REGISTERS

LEMMA HoldingStored ==
  ASSUME NEW req \in Requests, NEW reading \in 0 .. 255, req.func = 3, Shows(req, reading)
  PROVE  /\ Within(ReadHoldingRegisters(TheInfo(req)).stored, RegisterContent(req, reading))
         /\ Whole(req, reading) =>
              DOMAIN RegisterContent(req, reading)
                 \subseteq DOMAIN ReadHoldingRegisters(TheInfo(req)).stored
<1> DEFINE com == TheInfo(req)
           len == Number(answer[3]) \div 2
           read == Readable(len, (Len(answer) - 3) \div 2)
           stored == ReadHoldingRegisters(com).stored
<1>1. com.address = req.start
  BY DEF TheInfo
<1>2. req.start \in Nat /\ req.count \in Nat \ {0} /\ Len(answer) \in Nat /\ Len(answer) >= 4
  BY RequestIs DEF Shows
<1>a. PICK p : p = Payload(req, reading)
  OBVIOUS
<1>3. /\ Len(p) = 3 + 2 * req.count
      /\ p[3] = Byte(2 * req.count)
      /\ \A i \in 1 .. 2 * req.count :
            p[3 + i] = Byte(IF i % 2 = 1 THEN req.start + i \div 2 ELSE reading)
  BY <1>a, PayloadIs DEF Speaks
<1>4. /\ Len(answer) <= Len(p) + 2
      /\ \A i \in 1 .. Len(answer) : i <= Len(p) => answer[i] = p[i]
  BY <1>a DEF Shows
<1>5. len = req.count
  <2>1. answer[3] = Byte(2 * req.count)
    <3>1. 3 \in 1 .. Len(answer) /\ 3 <= Len(p)
      BY <1>2, <1>3
    <3>2. QED
      BY <1>3, <1>4, <3>1
  <2>2. Number(answer[3]) = 2 * req.count
    BY <2>1, NumberIs
  <2>3. QED
    BY <1>2, <2>2
<1> HIDE DEF len
<1>6. read \in Nat /\ read <= req.count /\ 3 + 2 * read <= Len(answer)
      /\ (Len(answer) = Len(p) + 2 => read = req.count)
  BY <1>2, <1>3, <1>5 DEF Readable
<1>7. /\ DOMAIN stored = {"register"} \X { com.address + i : i \in 0 .. read - 1 }
      /\ \A cell \in DOMAIN stored : stored[cell] = Word(answer, 4 + 2 * (cell[2] - com.address))
  BY DEF ReadHoldingRegisters, len
<1> HIDE DEF read, stored, com
<1>8. /\ DOMAIN RegisterContent(req, reading)
           = {"register"} \X (req.start .. req.start + req.count - 1)
      /\ \A cell \in DOMAIN RegisterContent(req, reading) :
            RegisterContent(req, reading)[cell] = 256 * cell[2] + reading
  BY DEF RegisterContent
<1>9. ASSUME NEW i \in 0 .. read - 1
      PROVE  Word(answer, 4 + 2 * i) = 256 * (req.start + i) + reading
  <2>1. i \in Nat /\ 1 + 2 * i \in 1 .. 2 * req.count /\ 2 + 2 * i \in 1 .. 2 * req.count
    BY <1>2, <1>6
  <2>2. /\ (1 + 2 * i) % 2 = 1 /\ (1 + 2 * i) \div 2 = i /\ (2 + 2 * i) % 2 # 1
    BY <2>1
  <2>3. p[3 + (1 + 2 * i)] = Byte(req.start + i)
    BY <1>3, <2>1, <2>2
  <2>4. p[3 + (2 + 2 * i)] = Byte(reading)
    BY <1>3, <2>1, <2>2
  <2>5. answer[4 + 2 * i] = p[3 + (1 + 2 * i)] /\ answer[4 + 2 * i + 1] = p[3 + (2 + 2 * i)]
    <3>1. /\ 4 + 2 * i \in 1 .. Len(answer) /\ 4 + 2 * i <= Len(p) /\ 4 + 2 * i = 3 + (1 + 2 * i)
          /\ 4 + 2 * i + 1 \in 1 .. Len(answer) /\ 4 + 2 * i + 1 <= Len(p)
          /\ 4 + 2 * i + 1 = 3 + (2 + 2 * i)
      <4>1. Len(p) = 3 + 2 * req.count
        BY <1>3
      <4>2. read <= req.count /\ 3 + 2 * read <= Len(answer) /\ i <= read - 1 /\ i \in Nat
        BY <1>6, <2>1
      <4>3. QED
        BY <1>2, <1>6, <4>1, <4>2
    <3>2. QED
      BY <1>4, <3>1
  <2>6. Number(answer[4 + 2 * i]) = req.start + i /\ Number(answer[4 + 2 * i + 1]) = reading
    BY <2>3, <2>4, <2>5, NumberIs
  <2>7. QED
    BY <2>6 DEF Word
<1>10. ASSUME NEW cell \in DOMAIN stored
       PROVE  /\ cell \in DOMAIN RegisterContent(req, reading)
              /\ stored[cell] = RegisterContent(req, reading)[cell]
  <2>1. PICK i \in 0 .. read - 1 : cell = << "register", req.start + i >>
    BY <1>1, <1>7
  <2>2. i \in Nat /\ cell[2] = req.start + i /\ cell[2] - com.address = i
    BY <1>1, <1>2, <1>6, <2>1
  <2>3. stored[cell] = 256 * cell[2] + reading
    BY <1>7, <1>9, <2>2
  <2>4. req.start + i \in req.start .. req.start + req.count - 1
    BY <1>2, <1>6, <2>2
  <2>5. cell \in DOMAIN RegisterContent(req, reading)
    BY <1>8, <2>1, <2>4
  <2>6. QED
    BY <1>8, <2>3, <2>5
<1>11. ASSUME Whole(req, reading), NEW cell \in DOMAIN RegisterContent(req, reading)
       PROVE  cell \in DOMAIN stored
  <2>1. PICK n \in req.start .. req.start + req.count - 1 : cell = << "register", n >>
    BY <1>8
  <2>2. read = req.count
    BY <1>6, <1>11, <1>a DEF Whole
  <2>3. n - req.start \in 0 .. read - 1 /\ n = com.address + (n - req.start)
    BY <1>1, <1>2, <2>2
  <2>4. QED
    BY <1>7, <2>1, <2>3
<1>12. QED
  BY <1>10, <1>11 DEF Within, stored, com

LEMMA InputStored ==
  ASSUME NEW req \in Requests, NEW reading \in 0 .. 255, req.func = 2, Shows(req, reading)
  PROVE  /\ Within(ReadInputStatus(TheInfo(req)).stored, InputContent(req, reading))
         /\ Whole(req, reading) /\ ReadInputStatus(TheInfo(req)).good =>
              DOMAIN InputContent(req, reading)
                 \subseteq DOMAIN ReadInputStatus(TheInfo(req)).stored
<1> DEFINE com == TheInfo(req)
           e == ReadInputStatus(com)
           n == Octets(req.count)
           fits == /\ com.address # 0
                   /\ com.length # 0
                   /\ (com.length + 7) \div 8 = Number(answer[3])
           read == IF fits THEN Readable(com.length, 8 * (Len(answer) - 3)) ELSE 0
<1>1. com.address = req.start /\ com.length = req.count
  BY DEF TheInfo, PRESET_HOLDING_REGISTER
<1>2. /\ req.start \in Nat /\ req.count \in Nat \ {0} /\ Len(answer) \in Nat /\ Len(answer) >= 4
      /\ n \in Nat \ {0} /\ req.count <= 8 * n
  <2>1. req.start \in Nat /\ req.count \in Nat \ {0}
    BY RequestIs
  <2>2. n \in Nat \ {0} /\ req.count <= 8 * n
    BY <2>1, OctetsIs
  <2>3. Len(answer) \in Nat /\ Len(answer) >= 4
    BY DEF Shows
  <2>4. QED
    BY <2>1, <2>2, <2>3
<1>a. PICK p : p = Payload(req, reading)
  OBVIOUS
<1> HIDE DEF n
<1>3. /\ Len(p) = 3 + n
      /\ \A i \in 1 .. n : p[3 + i] = Byte(reading)
  BY <1>a, PayloadIs DEF Speaks, n
<1>4. /\ Len(answer) <= Len(p) + 2
      /\ \A i \in 1 .. Len(answer) : i <= Len(p) => answer[i] = p[i]
  BY <1>a DEF Shows
<1> HIDE DEF fits
<1>6. /\ read \in Nat /\ read <= req.count /\ read <= 8 * (Len(answer) - 3)
      /\ (fits /\ Len(answer) = Len(p) + 2 => read = req.count)
  <2>1. Len(p) = 3 + n
    BY <1>3
  <2>2. QED
    BY <1>1, <1>2, <2>1 DEF Readable
<1>7. /\ DOMAIN e.stored = {"input"} \X { com.address + i : i \in 0 .. read - 1 }
      /\ \A cell \in DOMAIN e.stored :
            e.stored[cell] = (Number(answer[4 + (cell[2] - com.address) \div 8])
                                \div 2 ^ ((cell[2] - com.address) % 8)) % 2
      /\ e.good => fits
  BY DEF ReadInputStatus, fits
<1> HIDE DEF read, e, com
<1>8. /\ DOMAIN InputContent(req, reading)
           = {"input"} \X (req.start .. req.start + req.count - 1)
      /\ \A cell \in DOMAIN InputContent(req, reading) :
            InputContent(req, reading)[cell]
               = (reading \div 2 ^ ((cell[2] - req.start) % 8)) % 2
  BY DEF InputContent
<1>9. ASSUME NEW i \in 0 .. read - 1
      PROVE  Number(answer[4 + i \div 8]) = reading
  <2>1. i \in Nat /\ i < 8 * n /\ i < 8 * (Len(answer) - 3)
    BY <1>2, <1>6
  <2>2. PICK d \in Nat : d = i \div 8
    BY <2>1
  <2>3. 8 * d <= i
    BY <2>1, <2>2
  <2>4. 1 + d \in 1 .. n /\ 4 + d \in 1 .. Len(answer) /\ 4 + d <= 3 + n
        /\ 3 + (1 + d) = 4 + d
    BY <1>2, <2>1, <2>3
  <2>5. p[4 + d] = Byte(reading)
    BY <1>3, <2>4
  <2>6. answer[4 + d] = Byte(reading)
    BY <1>3, <1>4, <2>4, <2>5
  <2>7. QED
    BY <2>2, <2>6, NumberIs
<1>10. ASSUME NEW cell \in DOMAIN e.stored
       PROVE  /\ cell \in DOMAIN InputContent(req, reading)
              /\ e.stored[cell] = InputContent(req, reading)[cell]
  <2>1. PICK i \in 0 .. read - 1 : cell = << "input", req.start + i >>
    BY <1>1, <1>7
  <2>2. i \in Nat /\ cell[2] = req.start + i /\ cell[2] - com.address = i
        /\ cell[2] - req.start = i
    BY <1>1, <1>2, <1>6, <2>1
  <2>4. req.start + i \in req.start .. req.start + req.count - 1
    BY <1>2, <1>6, <2>2
  <2>5. cell \in DOMAIN InputContent(req, reading)
    BY <1>8, <2>1, <2>4
  <2>6. e.stored[cell] = (Number(answer[4 + i \div 8]) \div 2 ^ (i % 8)) % 2
    BY <1>7, <2>2, Zenon
  <2>7. InputContent(req, reading)[cell] = (reading \div 2 ^ (i % 8)) % 2
    BY <1>8, <2>2, <2>5, Zenon
  <2>8. e.stored[cell] = InputContent(req, reading)[cell]
    BY <1>9, <2>6, <2>7, Zenon
  <2>9. QED
    BY <2>5, <2>8
<1>11. ASSUME Whole(req, reading), e.good, NEW cell \in DOMAIN InputContent(req, reading)
       PROVE  cell \in DOMAIN e.stored
  <2>1. PICK m \in req.start .. req.start + req.count - 1 : cell = << "input", m >>
    BY <1>8
  <2>2. read = req.count
    BY <1>6, <1>7, <1>11, <1>a DEF Whole
  <2>3. m - req.start \in 0 .. read - 1 /\ m = com.address + (m - req.start)
    BY <1>1, <1>2, <2>2
  <2>4. QED
    BY <1>7, <2>1, <2>3
<1>12. QED
  BY <1>10, <1>11 DEF Within, e, com

LEMMA Divided ==
  ASSUME NEW v \in Nat, NEW q, q = v \div 256, NEW r, r = v % 256
  PROVE  256 * q + r = v
OBVIOUS

LEMMA PresetStored ==
  ASSUME NEW req \in Requests, NEW reading \in 0 .. 255, req.func = 6, Shows(req, reading)
  PROVE  /\ Within(PresetHoldingRegister(TheInfo(req)).stored, Content(req, reading))
         /\ PresetHoldingRegister(TheInfo(req)).good =>
              DOMAIN Content(req, reading)
                 \subseteq DOMAIN PresetHoldingRegister(TheInfo(req)).stored
<1> DEFINE com == TheInfo(req)
           e == PresetHoldingRegister(com)
           fits == Len(answer) >= 6 /\ Word(answer, 3) = com.address
           cell == << "register", req.start >>
<1>1. com.address = req.start
  BY DEF TheInfo
<1>2. /\ DOMAIN Content(req, reading) = {cell}
      /\ Content(req, reading)[cell] = req.value
  <2>1. Content(req, reading) = [c \in {<< "register", req.start >>} |-> req.value]
    BY ContentIs
  <2>2. QED
    BY <2>1
<1> HIDE DEF fits
<1>3. /\ DOMAIN e.stored = IF fits THEN {cell} ELSE {}
      /\ \A c \in DOMAIN e.stored : e.stored[c] = Word(answer, 5)
      /\ e.good => fits
  BY <1>1 DEF PresetHoldingRegister, fits
<1> HIDE DEF e, com, cell
<1>4. ASSUME fits PROVE Word(answer, 5) = req.value
  <2>1. Len(answer) >= 6
    BY <1>4 DEF fits
  <2>2. PICK p : p = Payload(req, reading)
    OBVIOUS
  <2>3. Len(p) = 6 /\ p[5] = Byte(req.value \div 256) /\ p[6] = Byte(req.value % 256)
    BY <2>2, PayloadIs DEF Speaks
  <2>4. answer[5] = p[5] /\ answer[6] = p[6]
    BY <2>1, <2>2, <2>3 DEF Shows
  <2>5. Number(answer[5]) = req.value \div 256 /\ Number(answer[6]) = req.value % 256
    BY <2>3, <2>4, NumberIs
  <2>6. Word(answer, 5) = 256 * Number(answer[5]) + Number(answer[6])
    BY DEF Word
  <2>7. PICK v \in Nat : v = req.value
    BY RequestIs
  <2>8. 256 * Number(answer[5]) + Number(answer[6]) = v
    BY <2>5, <2>7, Divided
  <2>9. QED
    BY <2>6, <2>7, <2>8
<1>5. QED
  BY <1>2, <1>3, <1>4 DEF Within, e, com

(* Whatever an action stores of a proper answer is what the device said; it *)
(* is all of that if the action came to its end with all of the answer.     *)
LEMMA EffectStored ==
  ASSUME NEW req \in Requests, NEW reading \in 0 .. 255, Shows(req, reading)
  PROVE  /\ Within(Effect(TheInfo(req)).stored, Content(req, reading))
         /\ Whole(req, reading) /\ Effect(TheInfo(req)).good =>
              DOMAIN Content(req, reading) \subseteq DOMAIN Effect(TheInfo(req)).stored
<1>1. Number(answer[2]) = req.func
  <2>a. PICK p : p = Payload(req, reading)
    OBVIOUS
  <2>b. Len(p) >= 4 /\ p[2] = Byte(req.func)
    BY <2>a, PayloadIs DEF Speaks
  <2>c. Len(answer) >= 4 /\ \A i \in 1 .. Len(answer) : i <= Len(p) => answer[i] = p[i]
    BY <2>a DEF Shows
  <2>d. 2 \in 1 .. Len(answer) /\ 2 <= Len(p)
    BY <2>b, <2>c
  <2>1. answer[2] = Byte(req.func)
    BY <2>b, <2>c, <2>d
  <2>2. QED
    BY <2>1, NumberIs
<1>2. req.func \in {2, 3, 6, 16}
  BY RequestIs
<1> DEFINE com == TheInfo(req)
<1>3. CASE req.func = 2
  <2>1. Effect(com) = ReadInputStatus(com)
    BY <1>1, <1>3 DEF Effect, Action, READ_INPUT_STATUS, READ_HOLDING_REGISTERS,
       PRESET_HOLDING_REGISTER, PRESET_HOLDING_REGISTERS
  <2>2. QED
    BY <1>3, <2>1, InputStored, ContentIs
<1>4. CASE req.func = 3
  <2>1. Effect(com) = ReadHoldingRegisters(com)
    BY <1>1, <1>4 DEF Effect, Action, READ_INPUT_STATUS, READ_HOLDING_REGISTERS,
       PRESET_HOLDING_REGISTER, PRESET_HOLDING_REGISTERS
  <2>2. QED
    BY <1>4, <2>1, HoldingStored, ContentIs
<1>5. CASE req.func = 6
  <2>1. Effect(com) = PresetHoldingRegister(com)
    BY <1>1, <1>5 DEF Effect, Action, READ_INPUT_STATUS, READ_HOLDING_REGISTERS,
       PRESET_HOLDING_REGISTER, PRESET_HOLDING_REGISTERS
  <2>2. QED
    BY <1>5, <2>1, PresetStored
<1>6. CASE req.func = 16
  <2>1. Effect(com) = PresetHoldingRegisters(com)
    BY <1>1, <1>6 DEF Effect, Action, READ_INPUT_STATUS, READ_HOLDING_REGISTERS,
       PRESET_HOLDING_REGISTER, PRESET_HOLDING_REGISTERS
  <2>2. Effect(com).stored = << >>
    BY <2>1 DEF PresetHoldingRegisters
  <2>3. Content(req, reading) = << >>
    BY <1>6, ContentIs
  <2>4. QED
    BY <2>2, <2>3 DEF Within
<1>7. QED
  BY <1>2, <1>3, <1>4, <1>5, <1>6

(* Its words have the address they were read at in their high byte.         *)
\* What is written to a register says which one, as what is read does.
Tagged ==
    \A req \in Requests :
        req.func = PRESET_HOLDING_REGISTER => req.value \div 256 = req.start

LEMMA ContentTagged ==
  ASSUME Tagged, NEW req \in Requests, NEW reading \in 0 .. 255,
         NEW cell \in DOMAIN Content(req, reading), cell[1] = "register"
  PROVE  Content(req, reading)[cell] \div 256 = cell[2]
<1>1. req.func \in {2, 3, 6, 16}
  BY RequestIs
<1>2. CASE req.func = 2
  <2>1. DOMAIN Content(req, reading) = {"input"} \X (req.start .. req.start + req.count - 1)
    BY <1>2, ContentIs DEF InputContent
  <2>2. QED
    BY <2>1
<1>3. CASE req.func = 3
  <2>1. cell \in {"register"} \X (req.start .. req.start + req.count - 1)
        /\ Content(req, reading)[cell] = 256 * cell[2] + reading
    <3>1. Content(req, reading) = RegisterContent(req, reading)
      BY <1>3, ContentIs
    <3>2. QED
      BY <3>1 DEF RegisterContent
  <2>2. PICK n \in req.start .. req.start + req.count - 1 : cell = << "register", n >>
    BY <2>1
  <2>3. n \in Nat /\ cell[2] = n
    BY <2>2, RequestIs
  <2>4. (256 * n + reading) \div 256 = n
    BY <2>3
  <2>5. QED
    BY <2>1, <2>3, <2>4
<1>4. CASE req.func = 6
  <2>1. Content(req, reading) = [c \in {<< "register", req.start >>} |-> req.value]
    BY <1>4, ContentIs
  <2>2. cell = << "register", req.start >> /\ Content(req, reading)[cell] = req.value
    BY <2>1
  <2>3. req.value \div 256 = req.start
    BY <1>4 DEF Tagged, PRESET_HOLDING_REGISTER
  <2>4. QED
    BY <2>2, <2>3
<1>5. CASE req.func = 16
  <2>1. Content(req, reading) = << >>
    BY <1>5, ContentIs
  <2>2. DOMAIN Content(req, reading) = {}
    BY <2>1
  <2>3. QED
    BY <2>2
<1>6. QED
  BY <1>1, <1>2, <1>3, <1>4, <1>5

----------------------------------------------------------------------------
(* The invariant of an exchange. While a call that began with nothing left  *)
(* of earlier ones is under way, the infos are those of the commands from   *)
(* the one in execution on (Aligned). Its answer has not been asked for, or *)
(* was not given yet (Awaited), or what was read and what is on the line    *)
(* make the front part of one (Replied), and what the device said in this   *)
(* call is stored, but for that answer.                                     *)

(* s and then t are the first bytes of r.                                   *)
Begins(s, t, r) ==
    /\ Len(s) + Len(t) <= Len(r)
    /\ \A i \in 1 .. Len(s) : s[i] = r[i]
    /\ \A i \in 1 .. Len(t) : t[i] = r[Len(s) + i]

Kept == \A cell \in Cells : told[cell] # None => cache[cell] = told[cell]

Calling == pc \in {"execute", "read", "parse"}

Now == list.commands[next]

(* There is an info for each command from the one in execution on.          *)
Aligned ==
    /\ Len(info) = Len(list.commands) - next + 1
    /\ \A i \in 1 .. Len(info) : info[i] = TheInfo(list.commands[next - 1 + i])

Awaited == order = << Now >> /\ answer = << >> /\ line = << >> /\ Kept

(* What the device said with an answer is all that may not be stored yet.   *)
Noticed(req, reading) ==
    \A cell \in Cells :
        told[cell] # None =>
            IF cell \in DOMAIN Content(req, reading)
            THEN told[cell] = Content(req, reading)[cell]
            ELSE cache[cell] = told[cell]

(* What the footing says of the answer                                      *)
Fair(how) ==
    /\ footing = "sound" => how = "proper"
    /\ how = "garbled" => footing = "lost"

Replied ==
    /\ order = << >>
    /\ \E reading \in Readings, how \in Ways :
          /\ Begins(answer, line, Reply(Now, reading, how))
          /\ Fair(how)
          /\ Noticed(Now, reading)

Quiet ==
    /\ Calling => Aligned /\ next \in 1 .. Len(list.commands) + 1
    /\ pc \in {"read", "parse"} => next \in 1 .. Len(list.commands)
    /\ pc = "read" => Awaited \/ Replied
    /\ pc = "parse" => answer # << >> /\ Replied
    /\ pc = "execute" \/ (pc = "idle" /\ ended = "normal") =>
           order = << >> /\ line = << >> /\ Kept

Placed == Tagged => AddressWillBeRead

(* Single commands leave no info to the next call.                          *)
Single ==
    /\ ~Calling => info = << >>
    /\ Calling => Len(list.commands) = 1
    /\ pc = "parse" => Len(answer) >= 4

Footed ==
    /\ Placed
    /\ Calling => quiet
    /\ footing = "sound" => Single

Shape ==
    /\ list.commands \in Seq(Requests)
    /\ order \in Seq(Requests)
    /\ answer \in Seq(Bytes)
    /\ line \in Seq(Bytes)
    /\ told = [cell \in Cells |-> told[cell]]
    /\ cache = [cell \in Cells |-> cache[cell]]
    /\ pc \in {"idle", "execute", "read", "parse", "failed"}
    /\ pc # "failed" => list.parsed_index = 0
    /\ pc = "failed" => ended # "normal"
    /\ footing \in {"sound", "doubtful", "lost"}

Exchange ==
    /\ Shape
    /\ quiet => Quiet
    /\ footing # "lost" => Footed

(* A step that leaves the footing or makes it worse                         *)
Sinks == footing' = footing \/ Doubt

LEMMA SinksIs ==
  ASSUME Sinks
  PROVE  /\ footing' # "lost" => footing # "lost"
         /\ footing' = "sound" => footing = "sound" /\ ~Doubt
         /\ \A how : Fair(how) => Fair(how)'
BY DEF Sinks, Doubt, Fair

LEMMA ExchangeInit == Init => Exchange
<1> SUFFICES ASSUME Init PROVE Exchange
  OBVIOUS
<1>1. /\ list = EmptyList /\ info = << >> /\ pc = "idle" /\ answer = << >> /\ ended = "none"
      /\ order = << >> /\ line = << >> /\ quiet = TRUE
      /\ cache = [cell \in Cells |-> None] /\ told = [cell \in Cells |-> None]
      /\ footing = "sound"
  BY DEF Init
<1>2. Shape
  BY <1>1 DEF Shape, EmptyList
<1>3. Quiet
  BY <1>1 DEF Quiet, Calling
<1>4. Footed
  BY <1>1 DEF Footed, Single, Calling, Placed, Tagged, AddressWillBeRead
<1>5. QED
  BY <1>2, <1>3, <1>4 DEF Exchange

LEMMA FillIs ==
  ASSUME NEW l \in BusListType, NEW cmds
  PROVE  /\ Fill(l, cmds).commands = cmds
         /\ Fill(l, cmds).parsed_index = l.parsed_index
         /\ next_message(Fill(l, cmds)).commands = cmds
         /\ next_message(Fill(l, cmds)).parsed_index = 0
BY DEF Fill, next_message, BusListType

LEMMA CommandsStep ==
  ASSUME Enough, Exchange, NEW cmds \in Lists, Commands(cmds)
  PROVE  Exchange'
<1>1. /\ pc = "idle" /\ list' = Fill(list, cmds) /\ info' = info \o Infos(cmds)
      /\ pc' = "execute" /\ next' = 1 /\ answer' = << >>
      /\ told' = [cell \in Cells |-> None] /\ cache' = cache
      /\ order' = order /\ line' = line
  BY DEF Commands, device
<1>2. quiet' => order = << >> /\ line = << >> /\ info = << >>
  BY Zenon DEF Commands
<1>3. /\ footing' \in {"sound", "doubtful", "lost"}
      /\ footing' # "lost" =>
            /\ footing # "lost" /\ order = << >> /\ line = << >>
            /\ footing = "doubtful" => info = << >>
      /\ footing' = "sound" => Len(cmds) = 1
  BY DEF Commands
<1>4. cmds \in Seq(Requests) /\ Len(Infos(cmds)) = Len(cmds) /\ Infos(cmds) \in Seq(CommandedInfo)
      /\ \A i \in 1 .. Len(cmds) : Infos(cmds)[i] = TheInfo(cmds[i])
  <2>1. Infos(cmds) \in Seq(CommandedInfo) /\ Len(Infos(cmds)) = Len(cmds)
    BY InfosType
  <2>2. PICK n \in 1 .. MaxCommands : cmds \in [1 .. n -> Requests]
    BY DEF Lists
  <2>3. n \in Nat
    BY <2>2, MPUAssumption
  <2>4. cmds \in Seq(Requests) /\ DOMAIN cmds = 1 .. Len(cmds)
    BY <2>2, <2>3
  <2>5. QED
    BY <2>1, <2>4 DEF Infos, TheInfo
<1>5. list'.commands = cmds /\ list'.parsed_index = 0
  BY <1>1, FillIs DEF Exchange, Shape, Enough
<1>6. Shape'
  BY <1>1, <1>3, <1>4, <1>5 DEF Exchange, Shape
<1>7. ASSUME quiet' PROVE Quiet'
  <2>1. order = << >> /\ line = << >> /\ info = << >>
    BY <1>2, <1>7
  <2>2. info' = Infos(cmds)
    BY <1>1, <1>4, <2>1
  <2>3. Aligned'
    BY <1>1, <1>4, <1>5, <2>2 DEF Aligned
  <2>4. Kept'
    BY <1>1 DEF Kept
  <2>5. QED
    BY <1>1, <1>4, <1>5, <2>1, <2>3, <2>4 DEF Quiet
<1>8. ASSUME footing' # "lost" PROVE Footed'
  <2>1. /\ footing # "lost" /\ order = << >> /\ line = << >>
        /\ footing = "doubtful" => info = << >>
    BY <1>3, <1>8
  <2>2. info = << >> /\ Placed
    BY <1>1, <2>1 DEF Exchange, Shape, Footed, Single, Calling
  <2>3. quiet'
    BY <2>1, <2>2, Zenon DEF Commands
  <2>4. QED
    BY <1>1, <1>3, <1>5, <2>2, <2>3
    DEF Footed, Single, Placed, Tagged, AddressWillBeRead, Calling
<1>9. QED
  BY <1>6, <1>7, <1>8 DEF Exchange


LEMMA WriteStep ==
  ASSUME Enough, Exchange, Write
  PROVE  Exchange'
<1>1. /\ pc = "execute" /\ next <= Len(list.commands) /\ order' = Append(order, Now)
      /\ pc' = "read" /\ answer' = << >> /\ list' = list /\ info' = info /\ cache' = cache
      /\ next' = next /\ ended' = ended /\ line' = line
      /\ quiet' = quiet /\ told' = told /\ footing' = footing
  BY DEF Write, mpu, ghosts, Now
<1>2. next \in Nat \ {0} /\ Now \in Requests
  BY <1>1 DEF Enough, Exchange, Shape, Now
<1>3. Shape'
  BY <1>1, <1>2 DEF Exchange, Shape
<1>4. ASSUME quiet' PROVE Quiet'
  <2>1. Quiet
    BY <1>1, <1>4 DEF Exchange
  <2>2. /\ order = << >> /\ line = << >> /\ Kept /\ Aligned
        /\ next \in 1 .. Len(list.commands) + 1
    BY <1>1, <2>1 DEF Quiet, Calling
  <2>3. Now' = Now /\ order' = << Now >>
    BY <1>1, <2>2 DEF Now
  <2>4. Awaited'
    BY <1>1, <2>2, <2>3 DEF Awaited, Kept
  <2>5. Aligned'
    BY <1>1, <2>2 DEF Aligned
  <2>6. next' \in 1 .. Len(list'.commands)
    BY <1>1, <2>2 DEF Enough, BusListType
  <2>7. QED
    BY <1>1, <2>2, <2>4, <2>5, <2>6 DEF Quiet, Calling
<1>5. ASSUME footing' # "lost" PROVE Footed'
  BY <1>1, <1>5 DEF Exchange, Footed, Single, Placed, Tagged, AddressWillBeRead, Calling
<1>6. QED
  BY <1>3, <1>4, <1>5 DEF Exchange

LEMMA GiveUpStep ==
  ASSUME Enough, Exchange, GiveUp
  PROVE  Exchange'
<1>1. /\ pc' = "failed" /\ ended' = "transport" /\ Doubt
      /\ UNCHANGED << list, info, cache, order, line, answer, told >>
  BY DEF GiveUp, Fail, mpu, device
<1>2. Shape'
  BY <1>1 DEF Exchange, Shape, Doubt
<1>3. Quiet'
  BY <1>1 DEF Quiet, Calling
<1>4. ASSUME footing' # "lost" PROVE Footed'
  BY <1>1, <1>4 DEF Exchange, Footed, Doubt, Placed, Tagged, AddressWillBeRead, Calling
<1>5. QED
  BY <1>2, <1>3, <1>4 DEF Exchange

(* Bytes that are read go from the line to the answer.                      *)
LEMMA Moves ==
  ASSUME NEW s \in Seq(Bytes), NEW t \in Seq(Bytes), NEW n \in 1 .. Len(t)
  PROVE  /\ s \o SubSeq(t, 1, n) \in Seq(Bytes) /\ SubSeq(t, n + 1, Len(t)) \in Seq(Bytes)
         /\ s \o SubSeq(t, 1, n) # << >>
         /\ \A r : Begins(s, t, r) =>
                      Begins(s \o SubSeq(t, 1, n), SubSeq(t, n + 1, Len(t)), r)
<1>a. PICK a, b : a = SubSeq(t, 1, n) /\ b = SubSeq(t, n + 1, Len(t))
  OBVIOUS
<1>1. /\ a \in Seq(Bytes) /\ Len(a) = n /\ \A i \in 1 .. n : a[i] = t[i]
      /\ b \in Seq(Bytes) /\ Len(b) = Len(t) - n /\ \A i \in 1 .. Len(b) : b[i] = t[n + i]
  BY <1>a
<1>2. PICK c : c = s \o a
  OBVIOUS
<1>3. c \in Seq(Bytes) /\ Then(c, s, a)
  BY <1>1, <1>2, Joins
<1>4. /\ Len(c) = Len(s) + n
      /\ \A i \in 1 .. Len(s) : c[i] = s[i]
      /\ \A i \in 1 .. n : c[Len(s) + i] = t[i]
  BY <1>1, <1>3 DEF Then
<1>5. c # << >>
  BY <1>4
<1>6. ASSUME NEW r, Begins(s, t, r) PROVE Begins(c, b, r)
  <2>1. /\ Len(s) + Len(t) <= Len(r)
        /\ \A i \in 1 .. Len(s) : s[i] = r[i]
        /\ \A i \in 1 .. Len(t) : t[i] = r[Len(s) + i]
    BY <1>6 DEF Begins
  <2>2. Len(c) + Len(b) <= Len(r)
    BY <1>1, <1>4, <2>1
  <2>3. ASSUME NEW i \in 1 .. Len(c) PROVE c[i] = r[i]
    <3>1. CASE i <= Len(s)
      BY <1>4, <2>1, <3>1
    <3>2. CASE ~(i <= Len(s))
      <4>1. i - Len(s) \in 1 .. n /\ Len(s) + (i - Len(s)) = i /\ i - Len(s) \in 1 .. Len(t)
        BY <1>4, <3>2
      <4>2. QED
        BY <1>4, <2>1, <4>1
    <3>3. QED
      BY <3>1, <3>2
  <2>4. ASSUME NEW i \in 1 .. Len(b) PROVE b[i] = r[Len(c) + i]
    <3>1. n + i \in 1 .. Len(t) /\ Len(s) + (n + i) = Len(c) + i
      BY <1>1, <1>4
    <3>2. QED
      BY <1>1, <2>1, <3>1
  <2>5. QED
    BY <2>2, <2>3, <2>4 DEF Begins
<1>7. QED
  BY <1>a, <1>1, <1>2, <1>3, <1>5, <1>6

LEMMA NumberNat ==
  ASSUME NEW byte \in Bytes
  PROVE  Number(byte) \in Nat
<1>1. CASE byte \in Octet
  BY <1>1 DEF Octet, Number
<1>2. CASE byte \in [crc : Seq(Octet)]
  <2>1. DOMAIN byte = {"crc"} /\ "b" # "crc"
    BY <1>2
  <2>2. QED
    BY <2>1 DEF Number
<1>3. QED
  BY <1>1, <1>2 DEF Bytes

LEMMA LengthIs ==
  ASSUME NEW r \in Seq(Bytes)
  PROVE  /\ responseLength(r) \in Int
         /\ responseLength(r) \in {-1, 0} \/ responseLength(r) >= 5
<1>1. CASE Len(r) < 2
  BY <1>1 DEF responseLength
<1>2. CASE ~(Len(r) < 2)
  <2>1. Number(r[2]) \in Nat
    BY <1>2, NumberNat
  <2>2. ~(Len(r) < 3) => Number(r[3]) \in Nat
    BY <1>2, NumberNat
  <2>3. CASE Number(r[2]) \in {2, 3}
    <3>1. responseLength(r) = IF Len(r) < 3 THEN -1 ELSE 5 + Number(r[3])
      BY <1>2, <2>3 DEF responseLength, READ_INPUT_STATUS, READ_HOLDING_REGISTERS,
         PRESET_HOLDING_REGISTER, PRESET_HOLDING_REGISTERS, MODBUS_ERROR_MASK
    <3>2. QED
      BY <2>2, <3>1
  <2>4. CASE Number(r[2]) \in {6, 16}
    <3>1. responseLength(r) = 8
      BY <1>2, <2>4 DEF responseLength, READ_INPUT_STATUS, READ_HOLDING_REGISTERS,
         PRESET_HOLDING_REGISTER, PRESET_HOLDING_REGISTERS, MODBUS_ERROR_MASK
    <3>2. QED
      BY <3>1
  <2>5. CASE Number(r[2]) >= 128
    <3>1. responseLength(r) = 5
      BY <1>2, <2>5, <2>1 DEF responseLength, READ_INPUT_STATUS, READ_HOLDING_REGISTERS,
         PRESET_HOLDING_REGISTER, PRESET_HOLDING_REGISTERS, MODBUS_ERROR_MASK
    <3>2. QED
      BY <3>1
  <2>6. CASE ~(Number(r[2]) \in {2, 3, 6, 16}) /\ ~(Number(r[2]) >= 128)
    <3>1. responseLength(r) = 0
      BY <1>2, <2>6, <2>1 DEF responseLength, READ_INPUT_STATUS, READ_HOLDING_REGISTERS,
         PRESET_HOLDING_REGISTER, PRESET_HOLDING_REGISTERS, MODBUS_ERROR_MASK
    <3>2. QED
      BY <3>1
  <2>7. QED
    BY <2>3, <2>4, <2>5, <2>6
<1>3. QED
  BY <1>1, <1>2

LEMMA ReceiveStep ==
  ASSUME Enough, Exchange, Receive
  PROVE  Exchange'
<1>1. PICK n \in 1 .. Len(line) :
        /\ line' = SubSeq(line, n + 1, Len(line))
        /\ IF responseLength(answer \o SubSeq(line, 1, n)) = 0
           THEN Fail("function") /\ Doubt
           ELSE /\ answer' = answer \o SubSeq(line, 1, n)
                /\ pc' = IF responseLength(answer \o SubSeq(line, 1, n))
                              \in 1 .. Len(answer \o SubSeq(line, 1, n))
                         THEN "parse" ELSE "read"
                /\ UNCHANGED << next, ended, footing >>
  BY DEF Receive
<1>2. pc = "read" /\ UNCHANGED << list, info, cache, order, quiet, told >>
  BY DEF Receive, mpu
<1>a. PICK got : got = answer \o SubSeq(line, 1, n)
  OBVIOUS
<1>3. /\ got \in Seq(Bytes) /\ SubSeq(line, n + 1, Len(line)) \in Seq(Bytes)
      /\ got # << >>
      /\ \A r : Begins(answer, line, r) => Begins(got, SubSeq(line, n + 1, Len(line)), r)
  BY <1>a, Moves DEF Exchange, Shape
<1>5. CASE responseLength(got) = 0
  <2>1. pc' = "failed" /\ ended' = "function" /\ Doubt /\ UNCHANGED << next, answer >>
    BY <1>1, <1>a, <1>5 DEF Fail
  <2>2. Shape'
    BY <1>1, <1>2, <1>3, <2>1 DEF Exchange, Shape, Doubt
  <2>3. Quiet'
    BY <2>1 DEF Quiet, Calling
  <2>4. ASSUME footing' # "lost" PROVE Footed'
    BY <1>2, <2>1, <2>4 DEF Exchange, Footed, Doubt, Placed, Tagged, AddressWillBeRead, Calling
  <2>5. QED
    BY <2>2, <2>3, <2>4 DEF Exchange
<1>6. CASE responseLength(got) # 0
  <2>1. /\ answer' = got /\ pc' \in {"parse", "read"} /\ UNCHANGED << next, ended, footing >>
        /\ pc' = "parse" => responseLength(got) \in 1 .. Len(got)
    BY <1>1, <1>a, <1>6
  <2>2. Shape'
    BY <1>1, <1>2, <1>3, <2>1 DEF Exchange, Shape
  <2>3. ASSUME quiet' PROVE Quiet'
    <3>1. Quiet
      BY <1>2, <2>3 DEF Exchange
    <3>2. Aligned /\ next \in 1 .. Len(list.commands) /\ next \in 1 .. Len(list.commands) + 1
          /\ (Awaited \/ Replied)
      BY <1>2, <3>1 DEF Quiet, Calling
    <3>3. Replied
      BY <3>2 DEF Awaited
    <3>4. PICK reading \in Readings, how \in Ways :
            /\ order = << >>
            /\ Begins(answer, line, Reply(Now, reading, how))
            /\ Fair(how)
            /\ Noticed(Now, reading)
      BY <3>3 DEF Replied
    <3>5. Now' = Now /\ Noticed(Now, reading)'
      BY <1>2, <2>1, <3>4 DEF Now, Noticed
    <3>6. Begins(answer', line', Reply(Now', reading, how))
      BY <1>1, <1>3, <2>1, <3>4, <3>5
    <3>7. Replied'
      BY <1>2, <2>1, <3>4, <3>5, <3>6 DEF Replied, Fair
    <3>8. Aligned'
      BY <1>2, <2>1, <3>2 DEF Aligned
    <3>9. QED
      BY <1>2, <1>3, <2>1, <3>2, <3>7, <3>8 DEF Quiet
  <2>4. ASSUME footing' # "lost" PROVE Footed'
    <3>1. Footed
      BY <2>1, <2>4 DEF Exchange
    <3>2. ASSUME pc' = "parse" PROVE Len(answer') >= 4
      <4>1. responseLength(got) >= 5 /\ responseLength(got) <= Len(got)
            /\ responseLength(got) \in Int /\ Len(got) \in Int
        BY <1>3, <2>1, <3>2, LengthIs
      <4>2. QED
        BY <2>1, <4>1
    <3>3. QED
      BY <1>2, <2>1, <3>1, <3>2
      DEF Footed, Single, Placed, Tagged, AddressWillBeRead, Calling
  <2>5. QED
    BY <2>2, <2>3, <2>4 DEF Exchange
<1>7. QED
  BY <1>5, <1>6

LEMMA TimeOutStep ==
  ASSUME Enough, Exchange, TimeOut
  PROVE  Exchange'
<1>1. pc = "read" /\ UNCHANGED << cache, order, line, quiet, told >>
  BY DEF TimeOut, device
<1>2. Sinks /\ (Len(answer) \in 1 .. 3 => Doubt)
  BY Zenon DEF TimeOut, Sinks
<1>3. CASE answer = << >>
  <2>1. /\ pc' = "failed" /\ ended' = "missing" /\ UNCHANGED << next, answer >>
        /\ list' = [list EXCEPT !.parsed_index = @ + 1] /\ info' = pop_front(info)
    BY <1>3 DEF TimeOut, missing_response, Fail
  <2>2. list'.commands = list.commands
    BY <2>1 DEF Enough, BusListType
  <2>3. Shape'
    BY <1>1, <1>2, <2>1, <2>2 DEF Exchange, Shape, Sinks, Doubt
  <2>4. Quiet'
    BY <2>1 DEF Quiet, Calling
  <2>5. ASSUME footing' # "lost" PROVE Footed'
    <3>1. Footed /\ quiet
      BY <1>1, <1>2, <2>5, SinksIs DEF Exchange, Footed, Calling
    <3>2. ASSUME footing' = "sound" PROVE info' = << >>
      <4>1. Len(list.commands) = 1
        BY <1>1, <1>2, <3>1, <3>2, SinksIs DEF Footed, Single, Calling
      <4>2. Aligned /\ next \in 1 .. Len(list.commands)
        BY <1>1, <3>1 DEF Exchange, Quiet, Calling
      <4>3. info \in Seq(CommandedInfo) /\ Len(info) = 1
        BY <4>1, <4>2 DEF Aligned, Enough
      <4>4. QED
        BY <2>1, <4>3 DEF pop_front
    <3>3. QED
      BY <1>1, <2>1, <3>1, <3>2 DEF Footed, Single, Placed, Tagged, AddressWillBeRead, Calling
  <2>6. QED
    BY <2>3, <2>4, <2>5 DEF Exchange
<1>4. CASE answer # << >>
  <2>1. pc' = "parse" /\ UNCHANGED << list, info, next, answer, ended >>
    BY <1>4 DEF TimeOut
  <2>2. Shape'
    BY <1>1, <1>2, <2>1 DEF Exchange, Shape, Sinks, Doubt
  <2>3. ASSUME quiet' PROVE Quiet'
    <3>1. Quiet
      BY <1>1, <2>3 DEF Exchange
    <3>2. Aligned /\ next \in 1 .. Len(list.commands) /\ next \in 1 .. Len(list.commands) + 1
          /\ (Awaited \/ Replied)
      BY <1>1, <3>1 DEF Quiet, Calling
    <3>3. Replied
      BY <1>4, <3>2 DEF Awaited
    <3>4. PICK reading \in Readings, how \in Ways :
            /\ order = << >>
            /\ Begins(answer, line, Reply(Now, reading, how))
            /\ Fair(how)
            /\ Noticed(Now, reading)
      BY <3>3 DEF Replied
    <3>5. Now' = Now /\ Noticed(Now, reading)'
      BY <1>1, <2>1, <3>4 DEF Now, Noticed
    <3>6. Begins(answer', line', Reply(Now', reading, how))
      BY <1>1, <2>1, <3>4, <3>5
    <3>7. Replied'
      BY <1>1, <1>2, <3>4, <3>5, <3>6, SinksIs DEF Replied
    <3>8. Aligned'
      BY <2>1, <3>2 DEF Aligned
    <3>9. QED
      BY <1>4, <2>1, <3>2, <3>7, <3>8 DEF Quiet
  <2>4. ASSUME footing' # "lost" PROVE Footed'
    <3>1. Footed
      BY <1>2, <2>4, SinksIs DEF Exchange
    <3>2. ASSUME footing' = "sound" PROVE Single /\ Len(answer) >= 4
      <4>0. Single
        BY <1>2, <3>1, <3>2, SinksIs DEF Footed
      <4>1. answer \in Seq(Bytes)
        BY DEF Exchange, Shape
      <4>2. Len(answer) \in Nat /\ Len(answer) # 0
        BY <1>4, <4>1
      <4>3. Len(answer) \notin 1 .. 3
        BY <1>2, <3>2, SinksIs
      <4>4. PICK n \in Nat : n = Len(answer)
        BY <4>2
      <4>5. n # 0 /\ ~(1 <= n /\ n <= 3)
        BY <4>2, <4>3, <4>4
      <4>6. QED
        BY <4>0, <4>4, <4>5
    <3>3. QED
      BY <1>1, <2>1, <3>1, <3>2 DEF Footed, Single, Placed, Tagged, AddressWillBeRead, Calling
  <2>5. QED
    BY <2>2, <2>3, <2>4 DEF Exchange
<1>5. QED
  BY <1>3, <1>4

LEMMA DeviceStep ==
  ASSUME Enough, Exchange, DeviceAnswers
  PROVE  Exchange'
<1>1. PICK reading \in Readings, how \in Ways :
        /\ \E n \in 0 .. Len(Reply(Head(order), reading, how)) :
              line' = line \o SubSeq(Reply(Head(order), reading, how), 1, n)
        /\ told' = [cell \in Cells |->
                       IF quiet /\ cell \in DOMAIN Content(Head(order), reading)
                       THEN Content(Head(order), reading)[cell] ELSE told[cell]]
        /\ CASE how = "proper" -> UNCHANGED footing
             [] how = "garbled" -> footing' = "lost"
             [] OTHER -> Doubt
  BY DEF DeviceAnswers, Ways
<1>2. /\ order # << >> /\ order' = Tail(order)
      /\ UNCHANGED << list, info, cache, pc, next, answer, ended, quiet >>
  BY DEF DeviceAnswers, mpu, transport
<1>3. /\ Fair(how)'
      /\ footing' \in {"sound", "doubtful", "lost"}
      /\ footing' # "lost" => footing # "lost"
      /\ footing' = "sound" => footing = "sound"
  <2>1. CASE how = "proper"
    BY <1>1, <2>1 DEF Fair, Exchange, Shape
  <2>2. CASE how = "garbled"
    BY <1>1, <2>2 DEF Fair
  <2>3. CASE how \notin {"proper", "garbled"}
    BY <1>1, <2>3 DEF Fair, Doubt
  <2>4. QED
    BY <2>1, <2>2, <2>3
<1>4. Head(order) \in Requests /\ Tail(order) \in Seq(Requests) /\ reading \in 0 .. 255
  BY <1>2, MPUAssumption DEF Exchange, Shape
<1>5. PICK r : r = Reply(Head(order), reading, how)
  OBVIOUS
<1>6. r \in Seq(Bytes)
  BY <1>4, <1>5, ReplyIs DEF Looks
<1>7. PICK n \in 0 .. Len(r) : line' = line \o SubSeq(r, 1, n)
  BY <1>1, <1>5
<1>8. PICK b : b = SubSeq(r, 1, n)
  OBVIOUS
<1>9. b \in Seq(Bytes) /\ Len(b) = n /\ \A i \in 1 .. n : b[i] = r[i]
  BY <1>6, <1>8
<1>10. line' = line \o b /\ line' \in Seq(Bytes)
  <2>1. line \in Seq(Bytes)
    BY DEF Exchange, Shape
  <2>2. line \o b \in Seq(Bytes)
    BY <1>9, <2>1, Joins
  <2>3. QED
    BY <1>7, <1>8, <2>2
<1>11. Shape'
  <2>1. told' = [cell \in Cells |-> told'[cell]]
    BY <1>1
  <2>2. QED
    BY <1>2, <1>3, <1>4, <1>10, <2>1 DEF Exchange, Shape
<1>12. ASSUME quiet' PROVE Quiet'
  <2>1. Quiet /\ quiet
    BY <1>2, <1>12 DEF Exchange
  <2>2. pc # "parse" /\ pc # "execute" /\ ~(pc = "idle" /\ ended = "normal")
    BY <1>2, <2>1 DEF Quiet, Replied
  <2>3. ASSUME pc = "read" PROVE Replied'
    <3>1. Awaited
      BY <1>2, <2>1, <2>3 DEF Quiet, Replied
    <3>2. order = << Now >> /\ answer = << >> /\ line = << >> /\ Kept
      BY <3>1 DEF Awaited
    <3>3. order' = << >> /\ Head(order) = Now
      BY <1>2, <3>2
    <3>4. line' = b
      BY <1>9, <1>10, <3>2
    <3>5. Begins(answer', line', r)
      BY <1>2, <1>6, <1>9, <3>2, <3>4 DEF Begins
    <3>6. Now' = Now
      BY <1>2 DEF Now
    <3>7. Noticed(Now, reading)'
      <4> SUFFICES ASSUME NEW cell \in Cells, told'[cell] # None
                   PROVE  IF cell \in DOMAIN Content(Now, reading)
                          THEN told'[cell] = Content(Now, reading)[cell]
                          ELSE cache'[cell] = told'[cell]
        BY <3>6 DEF Noticed
      <4>1. told'[cell] = IF cell \in DOMAIN Content(Now, reading)
                          THEN Content(Now, reading)[cell] ELSE told[cell]
        BY <1>1, <2>1, <3>3
      <4>2. QED
        BY <1>2, <3>2, <4>1 DEF Kept
    <3>8. QED
      BY <1>3, <1>5, <3>3, <3>5, <3>6, <3>7 DEF Replied
  <2>4. Aligned' <=> Aligned
    BY <1>2 DEF Aligned
  <2>5. QED
    BY <1>2, <2>1, <2>2, <2>3, <2>4 DEF Quiet, Calling
<1>13. ASSUME footing' # "lost" PROVE Footed'
  BY <1>2, <1>3, <1>13 DEF Exchange, Footed, Single, Placed, Tagged, AddressWillBeRead, Calling
<1>14. QED
  BY <1>11, <1>12, <1>13 DEF Exchange

(* What is seen of an answer that begins like a proper one                  *)
LEMMA ProperShows ==
  ASSUME NEW req \in Requests, NEW reading \in 0 .. 255, answer \in Seq(Bytes), line \in Seq(Bytes),
         Len(answer) >= 4, Begins(answer, line, Reply(req, reading, "proper"))
  PROVE  Shows(req, reading)
<1>1. "proper" \in Ways
  BY DEF Ways
<1>2. PICK p, r : p = Payload(req, reading) /\ r = Reply(req, reading, "proper")
  OBVIOUS
<1>3. Looks(r, "proper", req.func, p)
  BY <1>1, <1>2, ReplyIs
<1>4. Len(r) = Len(p) + 2 /\ \A i \in 1 .. Len(p) : r[i] = p[i]
  BY <1>3 DEF Looks
<1>5. Len(answer) + Len(line) <= Len(r) /\ \A i \in 1 .. Len(answer) : answer[i] = r[i]
  BY <1>2 DEF Begins
<1>6. p \in Seq(Octet)
  BY <1>2, PayloadIs DEF Speaks
<1>7. Len(answer) \in Nat /\ Len(line) \in Nat /\ Len(p) \in Nat
  BY <1>6
<1>8. Len(answer) <= Len(p) + 2
  BY <1>4, <1>5, <1>7
<1>9. \A i \in 1 .. Len(answer) : i <= Len(p) => answer[i] = p[i]
  BY <1>4, <1>5, <1>7
<1>10. QED
  BY <1>2, <1>8, <1>9 DEF Shows

(* An action that came to its end has checked the checksum.                 *)
LEMMA GoodChecked ==
  ASSUME answer \in Seq(Bytes), Len(answer) >= 4, NEW com,
         Number(answer[2]) \in MODBUS_CMD, Effect(com).good
  PROVE  \E k \in Nat : ChecksOut(answer, k)
<1>1. Number(answer[3]) \in Nat
  BY NumberNat
<1>2. Number(answer[2]) \in {2, 3, 6, 16}
  BY DEF MODBUS_CMD, READ_INPUT_STATUS, READ_HOLDING_REGISTERS, PRESET_HOLDING_REGISTER,
     PRESET_HOLDING_REGISTERS
<1>3. CASE Number(answer[2]) = 2
  <2>1. Effect(com) = ReadInputStatus(com)
    BY <1>3 DEF Effect, Action, READ_INPUT_STATUS, READ_HOLDING_REGISTERS,
       PRESET_HOLDING_REGISTER, PRESET_HOLDING_REGISTERS
  <2>a. ReadInputStatus(com).good => ChecksOut(answer, 3 + Number(answer[3]))
    BY DEF ReadInputStatus
  <2>2. ChecksOut(answer, 3 + Number(answer[3]))
    BY <2>1, <2>a
  <2>3. QED
    BY <1>1, <2>2
<1>4. CASE Number(answer[2]) = 3
  <2>1. Effect(com) = ReadHoldingRegisters(com)
    BY <1>4 DEF Effect, Action, READ_INPUT_STATUS, READ_HOLDING_REGISTERS,
       PRESET_HOLDING_REGISTER, PRESET_HOLDING_REGISTERS
  <2>2. ChecksOut(answer, 3 + 2 * (Number(answer[3]) \div 2))
    BY <2>1 DEF ReadHoldingRegisters
  <2>3. 3 + 2 * (Number(answer[3]) \div 2) \in Nat
    BY <1>1
  <2>4. QED
    BY <2>2, <2>3
<1>5. CASE Number(answer[2]) = 6
  <2>1. Effect(com) = PresetHoldingRegister(com)
    BY <1>5 DEF Effect, Action, READ_INPUT_STATUS, READ_HOLDING_REGISTERS,
       PRESET_HOLDING_REGISTER, PRESET_HOLDING_REGISTERS
  <2>a. PresetHoldingRegister(com).good => ChecksOut(answer, 6)
    BY DEF PresetHoldingRegister
  <2>2. ChecksOut(answer, 6)
    BY <2>1, <2>a
  <2>3. QED
    BY <2>2
<1>6. CASE Number(answer[2]) = 16
  <2>1. Effect(com) = PresetHoldingRegisters(com)
    BY <1>6 DEF Effect, Action, READ_INPUT_STATUS, READ_HOLDING_REGISTERS,
       PRESET_HOLDING_REGISTER, PRESET_HOLDING_REGISTERS
  <2>2. ChecksOut(answer, 6)
    BY <2>1 DEF PresetHoldingRegisters
  <2>3. QED
    BY <2>2
<1>7. QED
  BY <1>2, <1>3, <1>4, <1>5, <1>6

(* How parse ends, and when                                                 *)
LEMMA EndsIs ==
  ASSUME answer \in Seq(Bytes), NEW com
  PROVE  /\ Ends(com) # "normal"
         /\ Ends(com) \in {"handled", "bad"} =>
               /\ Len(answer) >= 4 /\ Number(answer[2]) \in MODBUS_CMD
               /\ ~Exhausted(list) /\ Number(answer[1]) = Expected(list).address
         /\ Ends(com) = "handled" => Effect(com).good
         /\ /\ Len(answer) >= 4 /\ Number(answer[2]) \in MODBUS_CMD
            /\ ~Exhausted(list) /\ Number(answer[1]) = Expected(list).address
            /\ Number(answer[2]) = Expected(list).func
            => Ends(com) \in {"handled", "bad"}
<1> DEFINE g == /\ Len(answer) >= 4
                /\ Number(answer[2]) \in MODBUS_CMD
                /\ Effect(com).good
<1>a. PICK f : f = Parsed(com)
  OBVIOUS
<1>1. f = AsFrame(g)
  BY <1>a DEF Parsed
<1>2. Ends(com) = Outcome(list, f)
  BY <1>a DEF Ends
<1>3. ErrorActions = {} /\ Actions = MODBUS_CMD
  BY MPUAssumption
<1>g. g => Effect(com).good
  OBVIOUS
<1> HIDE DEF g
<1>4. CASE Len(answer) < 4
  <2>1. f.kind = "short"
    BY <1>1, <1>4 DEF AsFrame
  <2>2. Outcome(list, f) = "short"
    BY <2>1 DEF Outcome
  <2>3. QED
    BY <1>2, <1>4, <2>2
<1>5. CASE ~(Len(answer) < 4)
  <2>0. PICK func \in Nat : func = Number(answer[2])
    BY <1>5, NumberNat
  <2>1. /\ f.address = Number(answer[1]) /\ f.func = func % 128
        /\ f.kind = IF func >= 128 THEN "error" ELSE IF g THEN "answer" ELSE "bad"
    BY <1>1, <1>5, <2>0 DEF AsFrame, MODBUS_ERROR_MASK
  <2>2. f.kind \in {"error", "answer", "bad"} /\ (f.kind = "answer" => g)
    BY <2>1
  <2>3. func \in MODBUS_CMD => f.func = func /\ f.kind # "error"
    BY <2>1 DEF MODBUS_CMD, READ_INPUT_STATUS, READ_HOLDING_REGISTERS, PRESET_HOLDING_REGISTER,
       PRESET_HOLDING_REGISTERS
  <2>4. Outcome(list, f) = IF Exhausted(list) THEN "exhausted"
                           ELSE IF ~Matches(list, f) THEN "wrong"
                           ELSE IF f.func \notin MODBUS_CMD THEN "unregistered"
                           ELSE IF f.kind = "answer" THEN "handled"
                           ELSE IF f.kind = "bad" THEN "bad" ELSE "error"
    BY <1>3, <2>2 DEF Outcome
  <2>5. Outcome(list, f) # "normal"
    BY <2>4
  <2>6. ASSUME Outcome(list, f) \in {"handled", "bad"}
        PROVE  /\ ~Exhausted(list) /\ Matches(list, f) /\ func \in MODBUS_CMD
               /\ Outcome(list, f) = "handled" => g
    <3>1. ~Exhausted(list) /\ Matches(list, f) /\ f.func \in MODBUS_CMD /\ f.kind \in {"answer", "bad"}
      BY <2>2, <2>4, <2>6
    <3>2. func < 128
      BY <2>1, <3>1
    <3>3. func \in MODBUS_CMD
      BY <2>1, <3>1, <3>2
    <3>4. QED
      BY <2>2, <2>4, <3>1, <3>3
  <2>7. ASSUME Matches(list, f) PROVE Number(answer[1]) = Expected(list).address
    BY <2>1, <2>7 DEF Matches
  <2>8. ASSUME Number(answer[2]) \in MODBUS_CMD, ~Exhausted(list),
               Number(answer[1]) = Expected(list).address,
               Number(answer[2]) = Expected(list).func
        PROVE  Outcome(list, f) \in {"handled", "bad"}
    <3>1. f.func = func /\ f.func \in MODBUS_CMD /\ f.kind \in {"answer", "bad"}
      BY <2>0, <2>2, <2>3, <2>8
    <3>2. Matches(list, f)
      BY <2>0, <2>1, <2>8, <3>1 DEF Matches
    <3>3. QED
      BY <2>4, <2>8, <3>1, <3>2
  <2>9. QED
    BY <1>2, <1>5, <1>g, <2>0, <2>5, <2>6, <2>7, <2>8
<1>6. QED
  BY <1>4, <1>5

LEMMA ParseStep ==
  ASSUME Enough, Exchange, Parse
  PROVE  Exchange'
<1>1. PICK com \in IF info = << >> THEN CommandedInfo ELSE {Head(info)} :
        /\ info' = IF Ends(com) \in {"handled", "bad"} THEN pop_front(info) ELSE info
        /\ cache' = [cell \in Cells |->
                        IF Ends(com) \in {"handled", "bad"} /\ cell \in DOMAIN Effect(com).stored
                        THEN Effect(com).stored[cell] ELSE cache[cell]]
        /\ IF Ends(com) = "handled"
           THEN /\ list' = next_message(parse(list, Parsed(com)))
                /\ pc' = "execute"
                /\ next' = next + 1
                /\ UNCHANGED << answer, ended >>
           ELSE /\ list' = parse(list, Parsed(com))
                /\ Fail(Ends(com))
  BY DEF Parse
<1>2. pc = "parse" /\ UNCHANGED << order, line, quiet, told, footing >>
  BY DEF Parse, device, ghosts
<1>3. /\ list \in BusListType /\ info \in Seq(CommandedInfo) /\ info # << >>
      /\ next \in Nat \ {0} /\ next <= Len(list.commands)
  <2>1. list \in BusListType /\ info \in Seq(CommandedInfo) /\ next \in Nat \ {0}
        /\ next <= Len(list.commands) /\ Len(info) + next >= Len(list.commands) + 1
    BY <1>2 DEF Enough
  <2>2. Len(info) \in Nat /\ Len(list.commands) \in Nat
    BY <2>1 DEF BusListType
  <2>3. Len(info) # 0
    BY <2>1, <2>2
  <2>4. QED
    BY <2>1, <2>3
<1>4. com = info[1]
  BY <1>1, <1>3
<1>5. /\ list.commands \in Seq(Requests) /\ answer \in Seq(Bytes) /\ line \in Seq(Bytes)
      /\ list.parsed_index = 0 /\ Now \in Requests
  BY <1>2, <1>3 DEF Exchange, Shape, Now
<1>6. /\ list'.commands = list.commands
      /\ Ends(com) = "handled" => list'.parsed_index = 0
  <2>1. /\ parse(list, Parsed(com)) \in BusListType
        /\ parse(list, Parsed(com)).commands = list.commands
    BY <1>3, ListKept
  <2>2. /\ next_message(parse(list, Parsed(com))).commands = list.commands
        /\ next_message(parse(list, Parsed(com))).parsed_index = 0
    BY <2>1 DEF next_message, BusListType
  <2>3. QED
    BY <1>1, <2>1, <2>2
<1>7. /\ Ends(com) # "normal"
      /\ Ends(com) \in {"handled", "bad"} =>
            /\ Len(answer) >= 4 /\ Number(answer[2]) \in MODBUS_CMD
            /\ ~Exhausted(list) /\ Number(answer[1]) = Expected(list).address
      /\ Ends(com) = "handled" => Effect(com).good
      /\ /\ Len(answer) >= 4 /\ Number(answer[2]) \in MODBUS_CMD
         /\ ~Exhausted(list) /\ Number(answer[1]) = Expected(list).address
         /\ Number(answer[2]) = Expected(list).func
         => Ends(com) \in {"handled", "bad"}
  BY <1>5, EndsIs
<1>8. /\ Ends(com) = "handled" => pc' = "execute" /\ next' = next + 1 /\ UNCHANGED << answer, ended >>
      /\ Ends(com) # "handled" => pc' = "failed" /\ ended' = Ends(com) /\ UNCHANGED << next, answer >>
  BY <1>1 DEF Fail
<1>9. Shape'
  <2>1. cache' = [cell \in Cells |-> cache'[cell]]
    BY <1>1
  <2>2. pc' \in {"execute", "failed"} /\ (pc' = "execute" => Ends(com) = "handled")
        /\ (pc' = "failed" => ended' # "normal")
    BY <1>7, <1>8
  <2>3. QED
    BY <1>2, <1>5, <1>6, <1>8, <2>1, <2>2 DEF Exchange, Shape
(* What is known in a quiet call                                            *)
<1>10. ASSUME quiet
       PROVE  /\ Aligned /\ next \in 1 .. Len(list.commands) /\ answer # << >> /\ Replied
              /\ com = TheInfo(Now)
  <2>1. Quiet
    BY <1>10 DEF Exchange
  <2>2. Aligned /\ next \in 1 .. Len(list.commands) /\ answer # << >> /\ Replied
    BY <1>2, <2>1 DEF Quiet, Calling
  <2>3. Len(info) \in Nat /\ 1 \in 1 .. Len(info)
    BY <1>3
  <2>4. info[1] = TheInfo(list.commands[next - 1 + 1])
    BY <2>2, <2>3 DEF Aligned
  <2>5. next - 1 + 1 = next
    BY <1>3
  <2>6. QED
    BY <1>4, <2>2, <2>4, <2>5 DEF Now
<1>11. ASSUME quiet' PROVE Quiet'
  <2>1. CASE Ends(com) = "handled"
    <3>1. Aligned /\ next \in 1 .. Len(list.commands) /\ Replied /\ com = TheInfo(Now)
      BY <1>2, <1>10, <1>11
    <3>2. PICK reading \in Readings, how \in Ways :
            /\ order = << >>
            /\ Begins(answer, line, Reply(Now, reading, how))
            /\ Fair(how)
            /\ Noticed(Now, reading)
      BY <3>1 DEF Replied
    <3>3. reading \in 0 .. 255
      BY MPUAssumption
    <3>4. Number(answer[1]) = Node
      <4>1. list.parsed_index + 1 \in 1 .. Len(list.commands)
        BY <1>3, <1>5
      <4>2. Expected(list) \in Requests
        BY <1>5, <4>1 DEF Expected
      <4>3. QED
        BY <1>7, <2>1, <4>2, RequestIs
    <3>5. PICK k \in Nat : ChecksOut(answer, k)
      BY <1>5, <1>7, <2>1, GoodChecked
    <3>6. PICK p, r : p = Payload(Now, reading) /\ r = Reply(Now, reading, how)
      OBVIOUS
    <3>7. Len(answer) + Len(line) <= Len(r) /\ \A i \in 1 .. Len(answer) : answer[i] = r[i]
      BY <3>2, <3>6 DEF Begins
    <3>8. Len(line) \in Nat /\ Len(answer) \in Nat /\ Len(answer) >= 4
          /\ Number(answer[2]) \in MODBUS_CMD /\ Effect(com).good
      BY <1>5, <1>7, <2>1
    <3>9. r \in Seq(Bytes)
      BY <1>5, <3>3, <3>6, ReplyIs DEF Looks
    <3>10. Part(answer, r)
      BY <3>7, <3>8, <3>9 DEF Part
    <3>11. /\ Len(answer) = Len(p) + 2 /\ Len(answer) = Len(r)
           /\ \A i \in 1 .. Len(p) : answer[i] = p[i]
      <4>1. Part(answer, Reply(Now, reading, how)) /\ Len(answer) >= 2
        BY <3>6, <3>8, <3>10
      <4>2. /\ Len(answer) = Len(Payload(Now, reading)) + 2
            /\ Len(answer) = Len(Reply(Now, reading, how))
            /\ \A i \in 1 .. Len(Payload(Now, reading)) : answer[i] = Payload(Now, reading)[i]
        BY <1>5, <3>3, <3>4, <3>5, <3>8, <4>1, Full
      <4>3. QED
        BY <3>6, <4>2
    <3>12. p \in Seq(Octet)
      BY <1>5, <3>3, <3>6, PayloadIs DEF Speaks
    <3>13. line = << >>
      <4>1. Len(line) = 0
        BY <3>7, <3>8, <3>11
      <4>2. QED
        BY <1>5, <4>1
    <3>14. Shows(Now, reading) /\ Whole(Now, reading)
      <4>1. Len(p) \in Nat
        BY <3>12
      <4>2. Len(answer) <= Len(p) + 2 /\ \A i \in 1 .. Len(answer) : i <= Len(p) => answer[i] = p[i]
        BY <3>8, <3>11, <4>1
      <4>3. QED
        BY <1>5, <3>6, <3>8, <3>11, <4>2 DEF Shows, Whole
    <3>15. /\ Within(Effect(com).stored, Content(Now, reading))
           /\ DOMAIN Content(Now, reading) \subseteq DOMAIN Effect(com).stored
      BY <1>5, <3>1, <3>3, <3>8, <3>14, EffectStored
    <3>16. Kept'
      <4> SUFFICES ASSUME NEW cell \in Cells, told'[cell] # None
                   PROVE  cache'[cell] = told'[cell]
        BY DEF Kept
      <4>1. cache'[cell] = IF cell \in DOMAIN Effect(com).stored
                           THEN Effect(com).stored[cell] ELSE cache[cell]
        BY <1>1, <2>1
      <4>2. /\ told'[cell] = told[cell] /\ told[cell] # None
            /\ IF cell \in DOMAIN Content(Now, reading)
               THEN told[cell] = Content(Now, reading)[cell]
               ELSE cache[cell] = told[cell]
        BY <1>2, <3>2 DEF Noticed
      <4>3. QED
        BY <3>15, <4>1, <4>2 DEF Within
    <3>17. info' = Tail(info) /\ next' = next + 1
      BY <1>1, <1>3, <1>8, <2>1 DEF pop_front
    <3>18. Aligned'
      <4>1. Len(info') = Len(info) - 1 /\ Len(info) = Len(list.commands) - next + 1
        BY <1>3, <3>1, <3>17 DEF Aligned
      <4>2. Len(info) \in Nat /\ Len(list.commands) \in Nat
        BY <1>3 DEF BusListType
      <4>3. ASSUME NEW i \in 1 .. Len(info')
            PROVE  info'[i] = TheInfo(list.commands[next + 1 - 1 + i])
        <5>1. i + 1 \in 1 .. Len(info) /\ next - 1 + (i + 1) = next + 1 - 1 + i
          BY <1>3, <4>1, <4>2
        <5>2. info'[i] = info[i + 1]
          BY <1>3, <3>17, <5>1
        <5>3. info[i + 1] = TheInfo(list.commands[next - 1 + (i + 1)])
          BY <3>1, <5>1 DEF Aligned
        <5>4. QED
          BY <5>1, <5>2, <5>3
      <4>4. Len(info') = Len(list'.commands) - next' + 1
        BY <1>3, <1>6, <3>17, <4>1, <4>2
      <4>5. ASSUME NEW i \in 1 .. Len(info')
            PROVE  info'[i] = TheInfo(list'.commands[next' - 1 + i])
        <5>1. info'[i] = TheInfo(list.commands[next + 1 - 1 + i])
          BY <4>3
        <5>2. list'.commands = list.commands /\ next' = next + 1
          BY <1>6, <3>17
        <5>3. next + 1 - 1 + i = next' - 1 + i
          BY <1>3, <5>2
        <5>4. QED
          BY <5>1, <5>2, <5>3, Zenon
      <4>6. QED
        BY <4>4, <4>5 DEF Aligned
    <3>19. next' \in 1 .. Len(list'.commands) + 1
      BY <1>3, <1>6, <3>1, <3>17 DEF BusListType
    <3>20. pc' = "execute" /\ order' = << >> /\ line' = << >>
      BY <1>2, <1>8, <2>1, <3>2, <3>13
    <3>21. QED
      BY <3>16, <3>18, <3>19, <3>20 DEF Quiet
  <2>2. CASE Ends(com) # "handled"
    BY <1>8, <2>2 DEF Quiet, Calling
  <2>3. QED
    BY <2>1, <2>2
<1>12. ASSUME footing' # "lost" PROVE Footed'
  <2>1. Footed /\ Placed /\ quiet /\ footing # "lost"
    BY <1>2, <1>12 DEF Exchange, Footed, Calling
  <2>2. Aligned /\ next \in 1 .. Len(list.commands) /\ Replied /\ com = TheInfo(Now)
    BY <1>10, <2>1
  <2>3. PICK reading \in Readings, how \in Ways :
          Begins(answer, line, Reply(Now, reading, how)) /\ Fair(how)
    BY <2>2 DEF Replied
  <2>4. reading \in 0 .. 255
    BY MPUAssumption
  <2>5. PICK p, r : p = Payload(Now, reading) /\ r = Reply(Now, reading, how)
    OBVIOUS
  <2>6. Speaks(p, Now, reading) /\ Looks(r, how, Now.func, p)
    BY <1>5, <2>4, <2>5, PayloadIs, ReplyIs
  <2>7. ASSUME Len(answer) >= 4
        PROVE  answer[1] = r[1] /\ answer[2] = r[2]
    <3>1. \A i \in 1 .. Len(answer) : answer[i] = r[i]
      BY <2>3, <2>5 DEF Begins
    <3>2. 1 \in 1 .. Len(answer) /\ 2 \in 1 .. Len(answer)
      BY <1>5, <2>7
    <3>3. QED
      BY <3>1, <3>2
  <2>8. Now.address = Node /\ Now.func \in MODBUS_CMD
    <3>1. Now \in Request
      BY <1>5, RequestIs
    <3>2. QED
      BY <3>1 DEF Request
  (* What reaches an action is an answer to the command, or the front of one. *)
  <2>9. ASSUME Ends(com) \in {"handled", "bad"} PROVE how = "proper" /\ Len(answer) >= 4
    <3>1. /\ Len(answer) >= 4 /\ Number(answer[2]) \in MODBUS_CMD
          /\ ~Exhausted(list) /\ Number(answer[1]) = Expected(list).address
      BY <1>7, <2>9
    <3>2. Expected(list).address = Node
      <4>1. list.parsed_index + 1 \in 1 .. Len(list.commands)
        BY <1>3, <1>5
      <4>2. Expected(list) \in Requests
        BY <1>5, <4>1 DEF Expected
      <4>3. QED
        BY <4>2, RequestIs
    <3>3. how # "stray"
      <4>1. how = "stray" => Number(answer[1]) = 0
        BY <2>6, <2>7, <3>1, NumberIs DEF Looks
      <4>2. Node # 0
        BY MPUAssumption
      <4>3. QED
        BY <3>1, <3>2, <4>1, <4>2
    <3>4. how # "refused"
      <4>1. how = "refused" => Number(answer[2]) = Now.func + 128
        BY <2>6, <2>7, <3>1, NumberIs DEF Looks
      <4>2. QED
        BY <2>8, <3>1, <4>1 DEF MODBUS_CMD, READ_INPUT_STATUS, READ_HOLDING_REGISTERS,
           PRESET_HOLDING_REGISTER, PRESET_HOLDING_REGISTERS
    <3>5. how # "garbled"
      BY <2>1, <2>3 DEF Fair
    <3>6. how \in {"proper", "refused", "garbled", "stray"}
      BY MPUAssumption DEF Ways
    <3>7. QED
      BY <3>1, <3>3, <3>4, <3>5, <3>6
  <2>10. Placed'
    <3> SUFFICES ASSUME Tagged, NEW cell \in Cells, cell[1] = "register", cache'[cell] # None
                 PROVE  cache'[cell] \div 256 = cell[2]
      BY DEF Placed, Tagged, AddressWillBeRead
    <3> DEFINE stores == Ends(com) \in {"handled", "bad"} /\ cell \in DOMAIN Effect(com).stored
    <3>1. cache'[cell] = IF stores THEN Effect(com).stored[cell] ELSE cache[cell]
      BY <1>1
    <3>2. CASE stores
      <4>1. how = "proper" /\ Len(answer) >= 4
        BY <2>9, <3>2
      <4>2. Shows(Now, reading)
        BY <1>5, <2>3, <2>4, <4>1, ProperShows
      <4>3. Within(Effect(com).stored, Content(Now, reading))
        BY <1>5, <2>2, <2>4, <4>1, <4>2, EffectStored
      <4>4. cell \in DOMAIN Content(Now, reading) /\ cache'[cell] = Content(Now, reading)[cell]
        BY <3>1, <3>2, <4>3 DEF Within
      <4>5. Content(Now, reading)[cell] \div 256 = cell[2]
        BY <1>5, <2>4, <4>4, ContentTagged
      <4>6. QED
        BY <4>4, <4>5
    <3>3. CASE ~stores
      BY <2>1, <3>1, <3>3 DEF Placed, AddressWillBeRead
    <3>4. QED
      BY <3>2, <3>3
  <2>11. ASSUME footing = "sound" PROVE info' = << >> /\ Len(list.commands) = 1
    <3>1. Len(list.commands) = 1 /\ Len(answer) >= 4 /\ next = 1
      <4>1. Len(list.commands) = 1 /\ Len(answer) >= 4
        BY <1>2, <2>1, <2>11 DEF Footed, Single, Calling
      <4>2. QED
        BY <2>2, <4>1
    <3>2. how = "proper"
      BY <2>3, <2>11 DEF Fair
    <3>3. Number(answer[1]) = Node /\ Number(answer[2]) = Now.func
      BY <2>6, <2>7, <3>1, <3>2, NumberIs DEF Looks, Speaks
    <3>4. Expected(list) = Now /\ ~Exhausted(list)
      BY <1>5, <3>1 DEF Expected, Exhausted, Now
    <3>5. Ends(com) \in {"handled", "bad"}
      BY <1>7, <2>8, <3>1, <3>3, <3>4
    <3>6. Len(info) = 1
      BY <1>3, <2>2, <3>1 DEF Aligned
    <3>7. info' = Tail(info)
      BY <1>1, <1>3, <3>5 DEF pop_front
    <3>8. QED
      BY <1>3, <3>1, <3>6, <3>7
  <2>12. pc' # "parse"
    BY <1>8
  <2>13. QED
    BY <1>2, <1>6, <2>1, <2>10, <2>11, <2>12 DEF Footed, Single
<1>13. QED
  BY <1>9, <1>11, <1>12 DEF Exchange

LEMMA ExchangeStep == Enough /\ Exchange /\ [Next]_vars => Exchange'
<1> SUFFICES ASSUME Enough, Exchange, [Next]_vars PROVE Exchange'
  OBVIOUS
<1>1. CASE Return
  <2>1. /\ pc = "execute" /\ next > Len(list.commands) /\ list' = Fill(list, << >>)
        /\ pc' = "idle" /\ ended' = "normal"
        /\ UNCHANGED << info, cache, next, answer, order, line, quiet, told, footing >>
    BY <1>1 DEF Return, device, ghosts
  <2>2. list'.commands = << >> /\ list'.parsed_index = 0
    BY <2>1, FillIs DEF Enough, Exchange, Shape
  <2>3. Shape'
    <3>1. Shape /\ list'.commands \in Seq(Requests)
      BY <2>2 DEF Exchange
    <3>2. QED
      BY <2>1, <2>2, <3>1 DEF Shape
  <2>4. ASSUME quiet PROVE order = << >> /\ line = << >> /\ Kept /\ info = << >>
    <3>1. /\ order = << >> /\ line = << >> /\ Kept
          /\ Aligned /\ next \in 1 .. Len(list.commands) + 1
      BY <2>1, <2>4 DEF Exchange, Quiet, Calling
    <3>2. info \in Seq(CommandedInfo) /\ Len(list.commands) \in Nat /\ next \in Nat
      BY DEF Enough, BusListType
    <3>3. Len(info) = 0
      BY <2>1, <3>1, <3>2 DEF Aligned
    <3>4. QED
      BY <3>1, <3>2, <3>3
  <2>5. ASSUME quiet' PROVE Quiet'
    <3>1. order = << >> /\ line = << >> /\ Kept
      BY <2>1, <2>4, <2>5
    <3>2. Kept'
      BY <2>1, <3>1 DEF Kept
    <3>3. QED
      BY <2>1, <3>1, <3>2 DEF Quiet, Calling
  <2>6. ASSUME footing' # "lost" PROVE Footed'
    <3>1. Footed /\ quiet
      BY <2>1, <2>6 DEF Exchange, Footed, Calling
    <3>2. info = << >>
      BY <2>4, <3>1
    <3>3. QED
      BY <2>1, <3>1, <3>2 DEF Footed, Single, Placed, Tagged, AddressWillBeRead, Calling
  <2>7. QED
    BY <2>3, <2>5, <2>6 DEF Exchange
<1>2. CASE Recover
  <2>1. /\ pc = "failed" /\ list' = next_message(Fill(list, << >>)) /\ pc' = "idle"
        /\ UNCHANGED << info, cache, next, answer, ended, order, line, quiet, told, footing >>
    BY <1>2 DEF Recover, device, ghosts
  <2>2. list'.commands = << >> /\ list'.parsed_index = 0
    BY <2>1, FillIs DEF Enough
  <2>3. Shape'
    <3>1. Shape /\ list'.commands \in Seq(Requests)
      BY <2>2 DEF Exchange
    <3>2. QED
      BY <2>1, <2>2, <3>1 DEF Shape
  <2>4. Quiet'
    BY <2>1 DEF Exchange, Shape, Quiet, Calling
  <2>5. ASSUME footing' # "lost" PROVE Footed'
    BY <2>1, <2>5 DEF Exchange, Footed, Single, Placed, Tagged, AddressWillBeRead, Calling
  <2>6. QED
    BY <2>3, <2>4, <2>5 DEF Exchange
<1>3. CASE Flush
  <2>1. /\ pc = "idle" /\ line' = << >>
        /\ UNCHANGED << list, info, cache, pc, next, answer, ended, order, quiet, told, footing >>
    BY <1>3 DEF Flush, mpu, transport, ghosts
  <2>2. Shape'
    BY <2>1 DEF Exchange, Shape
  <2>3. ASSUME quiet' PROVE Quiet'
    BY <2>1, <2>3 DEF Exchange, Quiet, Calling, Kept
  <2>4. ASSUME footing' # "lost" PROVE Footed'
    BY <2>1, <2>4 DEF Exchange, Footed, Single, Placed, Tagged, AddressWillBeRead, Calling
  <2>5. QED
    BY <2>2, <2>3, <2>4 DEF Exchange
<1>4. CASE Renew
  <2>1. /\ pc = "idle" /\ list' = EmptyList /\ info' = << >>
        /\ cache' = [cell \in Cells |-> None] /\ ended' = "none"
        /\ footing' = "sound"
        /\ UNCHANGED << pc, next, answer, order, line, quiet, told >>
    BY <1>4 DEF Renew, device
  <2>2. list'.commands = << >> /\ list'.parsed_index = 0
    BY <2>1 DEF EmptyList
  <2>3. Shape'
    BY <2>1, <2>2 DEF Exchange, Shape
  <2>4. Quiet'
    BY <2>1 DEF Quiet, Calling
  <2>5. Placed'
    BY <2>1 DEF Placed, AddressWillBeRead
  <2>6. Footed'
    BY <2>1, <2>5 DEF Footed, Single, Calling
  <2>7. QED
    BY <2>3, <2>4, <2>6 DEF Exchange
<1>5. CASE UNCHANGED vars
  BY <1>5 DEF vars, mpu, transport, device, ghosts, Exchange, Shape, Quiet, Footed, Single, Calling,
     Aligned, Awaited, Replied, Fair, Noticed, Now, Kept, Placed, Tagged, AddressWillBeRead
<1>6. QED
  BY <1>1, <1>2, <1>3, <1>4, <1>5, CommandsStep, WriteStep, GiveUpStep, ReceiveStep, TimeOutStep,
     ParseStep, DeviceStep DEF Next, CallerStep, TransportStep

LEMMA ExchangeAlways == Spec => []Exchange
  BY ExchangeInit, ExchangeStep, EnoughAlways, PTL DEF Spec

(* A call of commands that began with nothing left of earlier ones and ends *)
(* normally has stored what the device said where it belongs, in whatever   *)
(* pieces the answers came (Transport.cpp, MPU.cpp 33-119).                 *)
THEOREM AllIsStored == Spec => []ReadsTrue
<1>1. Exchange => ReadsTrue
  BY DEF Exchange, Quiet, Kept, ReadsTrue
<1>2. QED
  BY <1>1, ExchangeAlways, PTL

(* _commanded_info says where words belong (MPU.h) in every call that begins *)
(* with nothing left of earlier ones and on which the line changes no byte,  *)
(* whatever becomes of it; and no info is left by single commands that are   *)
(* answered in full, not at all or with four bytes or more. An answer of     *)
(* fewer, an error response, a frame of another device or an error of the    *)
(* FPGA may leave one, and then the words of later calls may go elsewhere,   *)
(* until there is a new MPU. Words tell where they belong: those read, by    *)
(* the answers of the device, those written, by Tagged.                      *)
THEOREM StoredRight ==
  ASSUME Tagged
  PROVE  Spec => []StoredWhereRead
<1>1. Exchange => StoredWhereRead
  BY DEF Exchange, Footed, Placed, StoredWhereRead
<1>2. QED
  BY <1>1, ExchangeAlways, PTL

----------------------------------------------------------------------------
(* ModbusBuffer. Its invariant has three parts: Typed; Accounts, which binds *)
(* the queue of functions commanded, the line and what the actions were      *)
(* given to the calls that were made; and Watched, which binds the data an   *)
(* action was given last to what checkRecording has cached.                  *)

Elements == [call : Calls, of : Nat]

Pairs == { data \in Seq(Nat) : Len(data) = 2 }

Frames == [address : Devices, func : Nat, kind : FrameKinds, data : Pairs, of : Nat]

(* The frames processResponse has still to come to                          *)
waiting == IF processing THEN buffer ELSE received

Typed ==
    /\ subclass \in [reports : BOOLEAN, watched : SUBSET Funcs, most : Nat]
    /\ commanded \in Seq(Elements)
    /\ sent \in Seq(Elements)
    /\ buffer \in Seq(Frames)
    /\ received \in Seq(Frames)
    /\ processing => received = << >>
    /\ ~processing => buffer = << >>
    /\ asked \in Seq(Calls)
    /\ ran \in Seq(Nat)
    /\ missing \in SUBSET Nat

(* What a frame answers, if it answers anything                             *)
CallOf(frame) == [address |-> frame.address, func |-> Function(frame.func)]

(* Elements of the queue, commands on the line and frames belong to calls.  *)
Queued ==
    /\ Len(commanded) <= Len(asked)
    /\ \A i \in 1 .. Len(commanded) :
          /\ commanded[i].of = Len(asked) - Len(commanded) + i
          /\ commanded[i].call = asked[Len(asked) - Len(commanded) + i]

OnItsWay ==
    /\ \A i \in 1 .. Len(sent) :
          sent[i].of \in 1 .. Len(asked) /\ sent[i].call = asked[sent[i].of]
    /\ \A i \in 1 .. Len(waiting) :
          \/ waiting[i].of = 0 /\ strayed /\ CallOf(waiting[i]) \notin Calls
          \/ waiting[i].of \in 1 .. Len(asked) /\ CallOf(waiting[i]) = asked[waiting[i].of]

(* The line keeps the order.                                                *)
Ordered ==
    /\ \A i, j \in 1 .. Len(sent) : i < j => sent[i].of < sent[j].of
    /\ \A i \in 1 .. Len(waiting), j \in 1 .. Len(sent) : waiting[i].of < sent[j].of
    /\ \A i, j \in 1 .. Len(waiting) :
          i < j /\ waiting[j].of # 0 => waiting[i].of < waiting[j].of

(* What is still to come is of later calls.                                 *)
Later(n) ==
    /\ \A i \in 1 .. Len(sent) : n < sent[i].of
    /\ \A i \in 1 .. Len(waiting) : waiting[i].of # 0 => n < waiting[i].of

Behind == Len(asked) - Len(commanded)

Ran ==
    /\ \A i \in 1 .. Len(ran) : ran[i] \in 1 .. Len(asked) /\ Later(ran[i])
    /\ \A i, j \in 1 .. Len(ran) : i <= j => ran[j] - ran[i] >= j - i

(* Whoever takes no note of a missing reply has come to none.               *)
Strict == Len(ran) = Behind

Noted ==
    /\ Later(Behind)
    /\ \A n \in 1 .. Behind : n \in missing \/ \E i \in 1 .. Len(ran) : ran[i] = n
    /\ missing \subseteq 1 .. Behind
    /\ \A i \in 1 .. Len(ran) : ran[i] <= Behind /\ ran[i] \notin missing

Accounts ==
    well =>
        /\ Queued /\ OnItsWay /\ Ordered
        /\ ~subclass.reports => Ran /\ Strict
        /\ subclass.reports /\ ~strayed /\ NoneRepeated => Ran /\ Noted

(* The data given last end what was recorded last.                          *)
EndsWith(s, data) ==
    Len(s) >= 2 /\ s[Len(s) - 1] = data[1] /\ s[Len(s)] = data[2]

Watched ==
    /\ records \in Seq(Nat)
    /\ cached \in [Devices -> Seq(Nat)]
    /\ last \in [Devices -> Seq(Nat)]
    /\ \A a \in Devices : cached[a] # << >> => last[a] \in Pairs /\ EndsWith(cached[a], last[a])
    /\ ~missed

BufferInv == Typed /\ Accounts /\ Watched

LEMMA LeastPlace ==
  ASSUME NEW n \in Nat, NEW V \in SUBSET (1 .. n), V # {}
  PROVE  Min(V) \in V /\ \A v \in V : Min(V) <= v
<1>1. V \in SUBSET Nat
  OBVIOUS
<1>2. PICK x \in V : \A y \in V : ~(<<y, x>> \in OpToRel(<, Nat))
  BY <1>1, NatLessThanWellFounded, WFMin
<1>3. ASSUME NEW y \in V, ~(x <= y) PROVE FALSE
  <2>1. <<y, x>> \in OpToRel(<, Nat)
    BY <1>1, <1>3 DEF OpToRel
  <2>2. QED
    BY <2>1, <1>2
<1>4. \E x1 \in V : \A y \in V : x1 =< y
  BY <1>3
<1>5. QED
  BY <1>4 DEF Min

(* How far checkCommanded goes in the queue                                 *)
LEMMA PassedIs ==
  ASSUME commanded \in Seq(Elements), NEW address
  PROVE  /\ Passed(address) \in 0 .. Len(commanded)
         /\ \A i \in 1 .. Passed(address) : commanded[i].call.address # address
         /\ Passed(address) < Len(commanded) =>
                commanded[Passed(address) + 1].call.address = address
<1> DEFINE V == { i \in DOMAIN commanded : commanded[i].call.address = address }
<1>1. DOMAIN commanded = 1 .. Len(commanded) /\ Len(commanded) \in Nat
  OBVIOUS
<1>2. Passed(address) = IF V = {} THEN Len(commanded) ELSE Min(V) - 1
  BY DEF Passed
<1>3. CASE V = {}
  BY <1>1, <1>2, <1>3
<1>4. CASE V # {}
  <2>1. V \in SUBSET (1 .. Len(commanded))
    BY <1>1
  <2>2. Min(V) \in V /\ \A v \in V : Min(V) <= v
    BY <1>1, <1>4, <2>1, LeastPlace
  <2>3. Min(V) \in 1 .. Len(commanded) /\ commanded[Min(V)].call.address = address
    BY <2>1, <2>2
  <2>4. ASSUME NEW i \in 1 .. Min(V) - 1, i \in V PROVE FALSE
    <3>1. Min(V) <= i
      BY <2>2, <2>4
    <3> HIDE DEF V
    <3>2. QED
      BY <2>3, <3>1
  <2>5. \A i \in 1 .. Min(V) - 1 : commanded[i].call.address # address
    BY <1>1, <2>3, <2>4
  <2> HIDE DEF V
  <2>6. QED
    BY <1>1, <1>2, <1>4, <2>3, <2>5
<1>5. QED
  BY <1>3, <1>4

(* and what it leaves of it: some elements at its end.                      *)
LEMMA LeftIs ==
  ASSUME commanded \in Seq(Elements), commanded # << >>, NEW address,
         subclass.reports \in BOOLEAN
  PROVE  /\ Skipped(address) \in 0 .. Len(commanded)
         /\ Left(address) \in Seq(Elements)
         /\ Len(Left(address)) <= Len(commanded)
         /\ \A i \in 1 .. Len(Left(address)) :
                Left(address)[i] = commanded[Len(commanded) - Len(Left(address)) + i]
         /\ subclass.reports \/ Skipped(address) = 0 =>
                Len(Left(address)) = IF Skipped(address) = Len(commanded) THEN 0
                                     ELSE Len(commanded) - Skipped(address) - 1
<1> DEFINE n == Skipped(address)
           rest == SubSeq(commanded, n + 1, Len(commanded))
<1>1. n \in 0 .. Len(commanded) /\ Len(commanded) \in Nat
  BY PassedIs DEF Skipped
<1>2. /\ rest \in Seq(Elements) /\ Len(rest) = Len(commanded) - n
      /\ \A i \in 1 .. Len(rest) : rest[i] = commanded[n + i]
  <2>1. \A i \in n + 1 .. Len(commanded) : commanded[i] \in Elements
    BY <1>1
  <2>2. n + 1 \in Int /\ Len(commanded) \in Int
    BY <1>1
  <2> HIDE DEF n
  <2>3. QED
    BY <1>1, <2>1, <2>2, SubSeqProperties
<1>3. Left(address) = IF rest = << >> \/ (~subclass.reports /\ n > 0) THEN rest ELSE Tail(rest)
  BY DEF Left
<1> HIDE DEF n, rest
<1>4. CASE rest = << >>
  BY <1>1, <1>2, <1>3, <1>4 DEF n
<1>5. CASE rest # << >> /\ ~subclass.reports /\ n > 0
  <2>1. Left(address) = rest /\ ~(subclass.reports \/ Skipped(address) = 0)
    BY <1>1, <1>3, <1>5 DEF n
  <2>2. QED
    BY <1>1, <1>2, <2>1 DEF n
<1>6. CASE rest # << >> /\ ~(~subclass.reports /\ n > 0)
  <2>1. /\ Left(address) = Tail(rest) /\ Len(rest) > 0
        /\ Tail(rest) \in Seq(Elements) /\ Len(Tail(rest)) = Len(rest) - 1
        /\ \A i \in 1 .. Len(Tail(rest)) : Tail(rest)[i] = rest[i + 1]
    BY <1>2, <1>3, <1>6, HeadTailProperties
  <2>2. QED
    BY <1>1, <1>2, <2>1 DEF n
<1>7. QED
  BY <1>4, <1>5, <1>6

LEMMA CarriedIsPair ==
  ASSUME NEW func, NEW data \in Carried(func)
  PROVE  data \in Pairs
<1>1. CASE data = << 0, 0 >>
  BY <1>1 DEF Pairs
<1>2. CASE data \in Data
  BY <1>2, ModbusBufferAssumption DEF Pairs
<1>3. QED
  BY <1>1, <1>2 DEF Carried

LEMMA CallFields ==
  ASSUME NEW call \in Calls \cup Strays
  PROVE  /\ call = [address |-> call.address, func |-> call.func]
         /\ call.address \in Devices /\ call.address \in Nat /\ call.func \in Nat
         /\ call \in Calls => call.func \in Funcs
<1>1. call \in [address : 0 .. 255, func : 0 .. 255]
  BY ModbusBufferAssumption
<1>2. call.address \in Devices
  BY DEF Devices
<1>3. call \in Calls => call.func \in Funcs
  BY DEF Funcs
<1>4. QED
  BY <1>1, <1>2, <1>3

LEMMA ErrorIs ==
  ASSUME NEW error \in DOMAIN ErrorFunc
  PROVE  error \in Nat /\ error \notin Funcs /\ ErrorFunc[error] \in Funcs
<1>1. DOMAIN ErrorFunc \subseteq (0 .. 255) \ Funcs
  BY ModbusBufferAssumption
<1>2. ErrorFunc[error] \in Funcs
  BY ModbusBufferAssumption
<1>3. QED
  BY <1>1, <1>2

LEMMA FrameIs ==
  ASSUME NEW call \in Calls \cup Strays, NEW of \in Nat, NEW func \in Nat,
         NEW kind \in FrameKinds, NEW data \in Pairs
  PROVE  /\ Frame(call, of, func, kind, data) \in Frames
         /\ Frame(call, of, func, kind, data).data = data
         /\ Frame(call, of, func, kind, data).of = of
         /\ Frame(call, of, func, kind, data).func = func
         /\ Frame(call, of, func, kind, data).address = call.address
BY CallFields DEF Frame, Frames

LEMMA BufferInit == ModbusBufferInit => BufferInv
<1> SUFFICES ASSUME ModbusBufferInit PROVE BufferInv
  OBVIOUS
<1> USE DEF ModbusBufferInit
<1>1. Typed
  BY ModbusBufferAssumption DEF Typed
<1>2. Accounts
  BY DEF Accounts, Queued, OnItsWay, Ordered, Ran, Strict, Noted, Later, Behind, waiting
<1>3. Watched
  BY DEF Watched
<1>4. QED
  BY <1>1, <1>2, <1>3 DEF BufferInv

(* What an iteration of processResponse's loop does: when its action comes  *)
(* to its end,                                                              *)
Answered ==
  /\ processing /\ buffer # << >> /\ commanded # << >>
  /\ checkCommanded(Head(buffer).address, Function(Head(buffer).func))
  /\ commanded' = Left(Head(buffer).address)
  /\ ran' = Append(ran, Head(buffer).of)
  /\ missing' = missing \cup { commanded[i].of : i \in 1 .. Skipped(Head(buffer).address) }
  /\ buffer' = Tail(buffer)
  /\ processing'
  /\ UNCHANGED << subclass, sent, received, asked, well, strayed >>

(* and when something is thrown.                                            *)
Breaks ==
  /\ processing /\ buffer # << >>
  /\ commanded' = IF commanded = << >> THEN << >> ELSE Left(Head(buffer).address)
  /\ well' = FALSE /\ asked' = << >> /\ ran' = << >> /\ missing' = {}
  /\ \/ buffer' = << >> /\ ~processing'
     \/ buffer' = Tail(buffer) /\ processing'
  /\ UNCHANGED << subclass, sent, received, strayed >>

LEMMA Iterates ==
  ASSUME Iterate
  PROVE  (well /\ Answered) \/ Breaks
<1>1. CASE Result(Head(buffer)) = "good" /\ well
  <2>1. checkCommanded(Head(buffer).address, Function(Head(buffer).func))
    BY <1>1 DEF Result
  <2>2. commanded # << >>
    BY <2>1 DEF checkCommanded
  <2>3. QED
    BY <1>1, <2>1, <2>2 DEF Iterate, Answered, onLine
<1>2. CASE ~(Result(Head(buffer)) = "good" /\ well)
  <2>1. Thrown
    BY <1>2 DEF Iterate
  <2>2. \/ buffer' = << >> /\ ~processing'
        \/ buffer' = Tail(buffer) /\ processing'
    <3>1. /\ processing' = (Result(Head(buffer)) = "good")
          /\ buffer' = IF Result(Head(buffer)) = "good" THEN Tail(buffer) ELSE << >>
      BY DEF Iterate
    <3>2. CASE Result(Head(buffer)) = "good"
      BY <3>1, <3>2
    <3>3. CASE Result(Head(buffer)) # "good"
      BY <3>1, <3>3
    <3>4. QED
      BY <3>2, <3>3
  <2>3. QED
    BY <2>1, <2>2 DEF Iterate, Breaks, Thrown, onLine
<1>3. QED
  BY <1>1, <1>2

LEMMA TypedStep ==
  ASSUME Typed, [ModbusBufferNext]_modbusBuffer
  PROVE  Typed'
<1> USE DEF Typed
<1>0. subclass.reports \in BOOLEAN
  OBVIOUS
<1>q. << >> \in Seq(Nat) /\ << >> \in Seq(Elements) /\ << >> \in Seq(Frames)
      /\ << >> \in Seq(Calls) /\ {} \in SUBSET Nat
  OBVIOUS
<1>1. ASSUME NEW call \in Calls, callFunction(call) PROVE Typed'
  <2>1. [call |-> call, of |-> Len(asked) + 1] \in Elements
    BY DEF Elements
  <2>2. CASE Unicast(call.address)
    <3>0. /\ commanded' = Append(commanded, [call |-> call, of |-> Len(asked) + 1])
          /\ sent' = Append(sent, [call |-> call, of |-> Len(asked) + 1])
          /\ asked' = Append(asked, call) \/ asked' = asked
      BY <1>1, <2>2 DEF callFunction
    <3>1. commanded' \in Seq(Elements) /\ sent' \in Seq(Elements)
      BY <2>1, <3>0
    <3>2. Append(asked, call) \in Seq(Calls)
      OBVIOUS
    <3>3. QED
      BY <1>1, <3>0, <3>1, <3>2 DEF callFunction
  <2>3. CASE ~Unicast(call.address)
    BY <1>1, <2>3 DEF callFunction
  <2>4. QED
    BY <2>2, <2>3
<1>2. ASSUME NEW onlyBuffers \in BOOLEAN, clear(onlyBuffers) PROVE Typed'
  <2>1. CASE onlyBuffers
    BY <1>2, <2>1, <1>q DEF clear, onLine, accounts
  <2>2. CASE ~onlyBuffers
    BY <1>2, <2>2, <1>q DEF clear, onLine, accounts
  <2>3. QED
    BY <2>1, <2>2
<1>3. CASE checkCommandedEmpty
  <2>1. asked' \in Seq(Calls) /\ ran' \in Seq(Nat) /\ missing' \in SUBSET Nat
    <3>1. CASE EmptyPasses
      BY <1>3, <3>1 DEF checkCommandedEmpty, accounts
    <3>2. CASE ~EmptyPasses
      BY <1>3, <3>2, <1>q DEF checkCommandedEmpty, Thrown
    <3>3. QED
      BY <3>1, <3>2
  <2>2. QED
    BY <1>3, <2>1, <1>q DEF checkCommandedEmpty, onLine
<1>4. CASE processResponse
  BY <1>4 DEF processResponse, accounts, watch
<1>t. ASSUME processing, buffer # << >>
      PROVE  Head(buffer) \in Frames /\ Tail(buffer) \in Seq(Frames)
  BY <1>t, HeadTailProperties
<1>5. CASE Iterate
  <2>1. CASE Answered
    <3>1. Left(Head(buffer).address) \in Seq(Elements)
          /\ Skipped(Head(buffer).address) \in 0 .. Len(commanded)
      BY <2>1, <1>0, LeftIs DEF Answered
    <3>2. Head(buffer).of \in Nat
      BY <2>1, <1>t DEF Answered, Frames
    <3>3. { commanded[i].of : i \in 1 .. Skipped(Head(buffer).address) } \subseteq Nat
      <4>1. ASSUME NEW i \in 1 .. Skipped(Head(buffer).address) PROVE commanded[i].of \in Nat
        <5>1. commanded[i] \in Elements
          BY <3>1
        <5>2. QED
          BY <5>1 DEF Elements
      <4>2. QED
        BY <4>1
    <3>4. missing' \in SUBSET Nat
      BY <2>1, <3>3 DEF Answered
    <3>5. ran' \in Seq(Nat)
      BY <2>1, <3>2 DEF Answered
    <3>6. QED
      BY <2>1, <1>t, <3>1, <3>4, <3>5 DEF Answered
  <2>2. CASE Breaks
    <3>1. commanded' \in Seq(Elements)
      BY <2>2, <1>0, LeftIs DEF Breaks
    <3>2. received' = << >> /\ buffer' \in Seq(Frames)
      BY <2>2, <1>t DEF Breaks
    <3>3. QED
      BY <2>2, <3>1, <3>2 DEF Breaks
  <2>3. QED
    BY <1>5, <2>1, <2>2, Iterates
<1>6. CASE Processed
  BY <1>6 DEF Processed, onLine, accounts, watch
<1>7. CASE Deliver
  <2>1. sent # << >> /\ Head(sent) \in Elements /\ Tail(sent) \in Seq(Elements)
    BY <1>7, HeadTailProperties DEF Deliver
  <2>2. Head(sent).call \in Calls /\ Head(sent).of \in Nat
    BY <2>1 DEF Elements
  <2>3. PICK data \in Carried(Head(sent).call.func), kind \in FrameKinds,
             func \in {Head(sent).call.func} \cup
                      { error \in DOMAIN ErrorFunc : ErrorFunc[error] = Head(sent).call.func } :
             received' = Append(received, Frame(Head(sent).call, Head(sent).of, func, kind, data))
    BY <1>7 DEF Deliver
  <2>4. func \in Nat
    BY <2>2, CallFields, ErrorIs
  <2> DEFINE f == Frame(Head(sent).call, Head(sent).of, func, kind, data)
  <2>5. f \in Frames
    BY <2>2, <2>4, CarriedIsPair, FrameIs
  <2> HIDE DEF f
  <2>6. received' \in Seq(Frames)
    BY <2>3, <2>5, AppendProperties DEF f
  <2>7. QED
    BY <1>7, <2>1, <2>6 DEF Deliver, buffers, accounts
<1>8. CASE Lose
  BY <1>8 DEF Lose, buffers, accounts
<1>9. CASE Stray
  <2>0. PICK stray \in Strays : \E data \in Carried(stray.func) :
             received' = Append(received, Frame(stray, 0, stray.func, "answer", data))
    BY <1>9 DEF Stray
  <2>1. PICK data \in Carried(stray.func) :
             received' = Append(received, Frame(stray, 0, stray.func, "answer", data))
    BY <2>0
  <2> DEFINE f == Frame(stray, 0, stray.func, "answer", data)
  <2>2. f \in Frames
    BY CarriedIsPair, CallFields, FrameIs DEF FrameKinds
  <2> HIDE DEF f
  <2>3. received' \in Seq(Frames)
    BY <2>1, <2>2, AppendProperties DEF f
  <2>4. QED
    BY <1>9, <2>3 DEF Stray, buffers, accounts
<1>10. CASE UNCHANGED modbusBuffer
  BY <1>10 DEF modbusBuffer, buffers, onLine, accounts
<1>11. QED
  BY <1>1, <1>2, <1>3, <1>4, <1>5, <1>6, <1>7, <1>8, <1>9, <1>10
  DEF ModbusBufferNext, Process

(* What an answer records                                                   *)
LEMMA PairIs ==
  ASSUME NEW data \in Pairs
  PROVE  data \in Seq(Nat) /\ Len(data) = 2 /\ data[1] \in Nat /\ data[2] \in Nat
<1>1. data \in Seq(Nat) /\ Len(data) = 2
  BY DEF Pairs
<1>2. 1 \in 1 .. Len(data) /\ 2 \in 1 .. Len(data)
  BY <1>1
<1>3. QED
  BY <1>1, <1>2, ElementOfSeq

LEMMA HeadingType ==
  ASSUME records \in Seq(Nat), NEW frame \in Frames
  PROVE  Heading(frame) \in Seq(Nat)
<1>1. frame.address \in Nat /\ frame.func \in Nat
  <2>1. frame.address \in Devices /\ frame.func \in Nat
    BY DEF Frames
  <2>2. PICK call \in Calls \cup Strays : frame.address = call.address
    BY <2>1 DEF Devices
  <2>3. QED
    BY <2>1, <2>2, CallFields
<1>2. << frame.address, frame.func >> \in Seq(Nat)
  BY <1>1
<1>3. records \o << frame.address, frame.func >> \in Seq(Nat)
  BY <1>2, ConcatProperties
<1>4. QED
  BY <1>3 DEF Heading

LEMMA RecordedType ==
  ASSUME records \in Seq(Nat), NEW frame \in Frames
  PROVE  Recorded(frame) \in Seq(Nat)
<1>1. frame.data \in Pairs
  BY DEF Frames
<1>2. /\ << frame.data[1] >> \in Seq(Nat) /\ << >> \in Seq(Nat) /\ frame.data \in Seq(Nat)
      /\ Heading(frame) \in Seq(Nat)
  BY <1>1, PairIs, HeadingType
<1>3. \A s \in Seq(Nat) : Heading(frame) \o s \in Seq(Nat)
  BY <1>2, ConcatProperties
<1>4. CASE ~Recording(frame)
  BY <1>4 DEF Recorded
<1>5. CASE Recording(frame) /\ frame.func \in DOMAIN ErrorFunc
  <2>1. (IF Result(frame) = "end" THEN << >> ELSE << frame.data[1] >>) \in Seq(Nat)
    BY <1>2
  <2>2. QED
    BY <1>3, <1>5, <2>1 DEF Recorded
<1>6. CASE Recording(frame) /\ frame.func \notin DOMAIN ErrorFunc
  <2>1. (IF Result(frame) = "end" THEN << frame.data[1] >> ELSE frame.data) \in Seq(Nat)
    BY <1>2
  <2>2. QED
    BY <1>3, <1>6, <2>1 DEF Recorded
<1>7. QED
  BY <1>4, <1>5, <1>6

LEMMA PairAtEnd ==
  ASSUME NEW h \in Seq(Nat), NEW d \in Pairs
  PROVE  EndsWith(h \o d, d)
<1>1. d \in Seq(Nat) /\ Len(d) = 2 /\ Len(h) \in Nat
  BY PairIs
<1>2. /\ Len(h \o d) = Len(h) + 2
      /\ \A i \in 1 .. Len(h) + Len(d) :
             (h \o d)[i] = IF i <= Len(h) THEN h[i] ELSE d[i - Len(h)]
  <2>1. Len(h \o d) = Len(h) + Len(d)
    BY <1>1, ConcatProperties
  <2>2. \A i \in 1 .. Len(h) + Len(d) :
           (h \o d)[i] = IF i <= Len(h) THEN h[i] ELSE d[i - Len(h)]
    BY <1>1, ConcatProperties, Zenon
  <2>3. QED
    BY <1>1, <2>1, <2>2
<1>3. (h \o d)[Len(h) + 1] = d[1] /\ (h \o d)[Len(h) + 2] = d[2]
  BY <1>1, <1>2
<1>4. QED
  BY <1>1, <1>2, <1>3 DEF EndsWith

LEMMA RecordedEnd ==
  ASSUME Typed, records \in Seq(Nat), NEW frame \in Frames,
         frame.func \in subclass.watched, Result(frame) = "good"
  PROVE  EndsWith(Recorded(frame), frame.data)
<1>1. frame.data \in Pairs
  BY DEF Frames
<1>2. frame.func \in Funcs
  BY DEF Typed
<1>3. frame.func \notin DOMAIN ErrorFunc
  BY <1>2, ErrorIs
<1>4. Recorded(frame) = Heading(frame) \o frame.data
  BY <1>3 DEF Recorded, Recording
<1>5. Heading(frame) \in Seq(Nat) /\ frame.data \in Seq(Nat) /\ Len(frame.data) = 2
  BY <1>1, PairIs, HeadingType
<1>6. QED
  BY <1>1, <1>4, <1>5, PairAtEnd

LEMMA EndsAlike ==
  ASSUME NEW s, NEW d \in Pairs, NEW e \in Pairs, EndsWith(s, d), EndsWith(s, e)
  PROVE  d = e
<1>1. d[1] = e[1] /\ d[2] = e[2]
  BY DEF EndsWith
<1>2. d \in Seq(Nat) /\ e \in Seq(Nat) /\ Len(d) = 2 /\ Len(e) = 2
  BY PairIs
<1>3. QED
  BY <1>1, <1>2, SeqEqual

LEMMA WatchedSame ==
  ASSUME Watched, UNCHANGED << records, cached, last, missed >>
  PROVE  Watched'
BY DEF Watched

LEMMA WatchedStep ==
  ASSUME Typed, Watched, [ModbusBufferNext]_modbusBuffer
  PROVE  Watched'
<1>q. << >> \in Seq(Nat)
  OBVIOUS
<1>1. CASE Iterate
  <2> DEFINE f == Head(buffer)
  <2>1. f \in Frames
    BY <1>1, HeadTailProperties DEF Iterate, Typed
  <2>2. Records(f)
    BY <1>1 DEF Iterate
  <2>3. f.address \in Devices /\ f.data \in Pairs
    BY <2>1 DEF Frames
  <2>4. Recorded(f) \in Seq(Nat) /\ Heading(f) \in Seq(Nat)
    BY <2>1, RecordedType, HeadingType DEF Watched
  <2> HIDE DEF f
  <2>5. CASE Result(f) = "good" /\ f.func \in subclass.watched
    <3>1. checkRecording(f)
      BY <2>2, <2>5 DEF Records
    <3>2. EndsWith(Recorded(f), f.data)
      BY <2>1, <2>5, RecordedEnd DEF Watched
    <3>3. cached' = [cached EXCEPT ![f.address] = Recorded(f)]
      <4>1. cached' = [cached EXCEPT ![f.address] =
                          IF cached[f.address] = Recorded(f) THEN cached[f.address] ELSE Recorded(f)]
        BY <3>1 DEF checkRecording, Cached
      <4>2. QED
        BY <4>1
    <3>4. last' = [last EXCEPT ![f.address] = f.data]
      BY <3>1 DEF checkRecording
    <3>5. ~missed'
      <4>1. cached[f.address] = Recorded(f) => last[f.address] = f.data
        <5>1. SUFFICES ASSUME cached[f.address] = Recorded(f) PROVE last[f.address] = f.data
          OBVIOUS
        <5>2. cached[f.address] # << >>
          BY <3>2, <5>1 DEF EndsWith
        <5>3. last[f.address] \in Pairs /\ EndsWith(cached[f.address], last[f.address])
          BY <2>3, <5>2 DEF Watched
        <5>4. QED
          BY <2>3, <3>2, <5>1, <5>3, EndsAlike
      <4>2. QED
        BY <3>1, <4>1 DEF checkRecording, Watched
    <3>6. cached' \in [Devices -> Seq(Nat)] /\ last' \in [Devices -> Seq(Nat)]
      <4>1. f.data \in Seq(Nat)
        BY <2>3, PairIs
      <4>2. QED
        BY <2>4, <3>3, <3>4, <4>1 DEF Watched
    <3>7. ASSUME NEW a \in Devices, cached'[a] # << >>
          PROVE  last'[a] \in Pairs /\ EndsWith(cached'[a], last'[a])
      <4>1. CASE a = f.address
        <5>1. cached'[a] = Recorded(f) /\ last'[a] = f.data
          BY <2>3, <3>3, <3>4, <4>1 DEF Watched
        <5>2. QED
          BY <2>3, <3>2, <5>1
      <4>2. CASE a # f.address
        <5>1. cached'[a] = cached[a] /\ last'[a] = last[a]
          BY <3>3, <3>4, <4>2 DEF Watched
        <5>2. QED
          BY <3>7, <5>1 DEF Watched
      <4>3. QED
        BY <4>1, <4>2
    <3>8. records' \in Seq(Nat)
      BY <3>1, <1>q DEF checkRecording, StartRecording
    <3>9. QED
      BY <3>5, <3>6, <3>7, <3>8 DEF Watched
  <2>6. CASE ~(Result(f) = "good" /\ f.func \in subclass.watched)
    <3>1. UNCHANGED << cached, last, missed >> /\ records' \in {Heading(f), Recorded(f)}
      BY <2>2, <2>6 DEF Records
    <3>2. QED
      BY <2>4, <3>1 DEF Watched
  <2>7. QED
    BY <2>5, <2>6
<1>2. ASSUME NEW onlyBuffers \in BOOLEAN, clear(onlyBuffers) PROVE Watched'
  BY <1>2, <1>q DEF clear, StartRecording, Watched
<1>c. ASSUME NEW call \in Calls, callFunction(call) PROVE Watched'
  <2>1. Written(call) \in Seq(Nat)
    BY CallFields DEF Written
  <2>2. records \in Seq(Nat)
    BY DEF Watched
  <2>3. records \o Written(call) \in Seq(Nat)
    BY <2>1, <2>2, ConcatProperties
  <2>4. records' \in Seq(Nat) /\ UNCHANGED << cached, last, missed >>
    BY <1>c, <2>2, <2>3 DEF callFunction
  <2>5. QED
    BY <2>4 DEF Watched
<1>3. CASE \/ checkCommandedEmpty \/ processResponse \/ Processed \/ Deliver \/ Lose \/ Stray
           \/ UNCHANGED modbusBuffer
  <2>1. UNCHANGED << records, cached, last, missed >>
    BY <1>3 DEF checkCommandedEmpty, processResponse, Processed, Deliver, Lose,
                Stray, modbusBuffer, watch, recording
  <2>2. QED
    BY <2>1, WatchedSame
<1>4. QED
  BY <1>1, <1>2, <1>c, <1>3 DEF ModbusBufferNext, Process

-----------------------------------------------------------------------------
(* The accounts.                                                            *)

LEMMA TailIs ==
  ASSUME NEW S, NEW s \in Seq(S), s # << >>
  PROVE  /\ Head(s) = s[1] /\ 1 \in 1 .. Len(s) /\ Len(s) \in Nat
         /\ Len(Tail(s)) = Len(s) - 1
         /\ \A i \in 1 .. Len(Tail(s)) : i + 1 \in 1 .. Len(s) /\ Tail(s)[i] = s[i + 1]
OBVIOUS

LEMMA AppendIs ==
  ASSUME NEW S, NEW s \in Seq(S), NEW e \in S
  PROVE  /\ Len(Append(s, e)) = Len(s) + 1 /\ Len(s) \in Nat
         /\ \A i \in 1 .. Len(s) : Append(s, e)[i] = s[i]
         /\ Append(s, e)[Len(s) + 1] = e
BY AppendProperties

LEMMA AccountTypes ==
  ASSUME Typed
  PROVE  /\ Len(commanded) \in Nat /\ Len(asked) \in Nat /\ Len(sent) \in Nat
         /\ Len(ran) \in Nat /\ Len(waiting) \in Nat
         /\ waiting \in Seq(Frames)
         /\ \A i \in 1 .. Len(sent) : sent[i].of \in Nat /\ sent[i].call \in Calls
         /\ \A i \in 1 .. Len(waiting) : waiting[i].of \in Nat
         /\ \A i \in 1 .. Len(ran) : ran[i] \in Nat
         /\ \A i \in 1 .. Len(asked) : asked[i] \in Calls
<1>1. waiting \in Seq(Frames)
  BY DEF Typed, waiting
<1>2. ASSUME NEW i \in 1 .. Len(sent) PROVE sent[i].of \in Nat /\ sent[i].call \in Calls
  <2>1. sent[i] \in Elements
    BY DEF Typed
  <2>2. QED
    BY <2>1 DEF Elements
<1>3. ASSUME NEW i \in 1 .. Len(waiting) PROVE waiting[i].of \in Nat
  <2>1. waiting[i] \in Frames
    BY <1>1
  <2>2. QED
    BY <2>1 DEF Frames
<1>4. /\ Len(commanded) \in Nat /\ Len(asked) \in Nat /\ Len(sent) \in Nat
      /\ Len(ran) \in Nat
      /\ \A i \in 1 .. Len(ran) : ran[i] \in Nat
      /\ \A i \in 1 .. Len(asked) : asked[i] \in Calls
  BY DEF Typed
<1>5. Len(waiting) \in Nat
  BY <1>1
<1>6. QED
  BY <1>1, <1>2, <1>3, <1>4, <1>5

LEMMA AccountsSame ==
  ASSUME Accounts,
         UNCHANGED << subclass, commanded, sent, waiting, asked, well, strayed, ran, missing >>
  PROVE  Accounts'
<1>1. NoneRepeated' <=> NoneRepeated
  BY DEF NoneRepeated
<1>2. Queued <=> Queued'
  BY DEF Queued
<1>3. OnItsWay <=> OnItsWay'
  BY DEF OnItsWay
<1>4. Ordered <=> Ordered'
  BY DEF Ordered
<1>5. (Ran <=> Ran') /\ (Strict <=> Strict') /\ (Noted <=> Noted')
  BY DEF Ran, Strict, Noted, Later, Behind
<1>6. QED
  BY <1>1, <1>2, <1>3, <1>4, <1>5 DEF Accounts

(* The line goes on: a call is taken from it.                               *)
LEMMA SentShrinks ==
  ASSUME Typed, Accounts, sent # << >>, sent' = Tail(sent), waiting' = waiting,
         UNCHANGED << subclass, commanded, asked, well, strayed, ran, missing >>
  PROVE  Accounts'
<1> SUFFICES ASSUME well PROVE Accounts'
  BY DEF Accounts
<1>0. Queued /\ OnItsWay /\ Ordered
  BY DEF Accounts
<1>1. /\ Len(sent') = Len(sent) - 1 /\ Len(sent) \in Nat
      /\ \A i \in 1 .. Len(sent') : i + 1 \in 1 .. Len(sent) /\ sent'[i] = sent[i + 1]
  BY TailIs DEF Typed
<1>2. Queued'
  BY <1>0 DEF Queued
<1>3. OnItsWay'
  BY <1>0, <1>1 DEF OnItsWay
<1>4. Ordered'
  BY <1>0, <1>1 DEF Ordered
<1>5. \A n : Later(n) => Later(n)'
  BY <1>1 DEF Later
<1>6. (Ran => Ran') /\ (Strict => Strict')
  BY <1>5 DEF Ran, Strict, Behind
<1>7. Noted => Noted'
  BY <1>5 DEF Noted, Behind
<1>8. NoneRepeated' <=> NoneRepeated
  BY DEF NoneRepeated
<1>9. QED
  BY <1>2, <1>3, <1>4, <1>6, <1>7, <1>8 DEF Accounts

LEMMA CallsAccounts ==
  ASSUME Typed, Accounts, NEW call \in Calls, callFunction(call)
  PROVE  Accounts'
<1>1. ~processing /\ UNCHANGED << subclass, buffer, processing, received, well, strayed, ran, missing >>
  BY DEF callFunction
<1>2. waiting' = waiting
  BY <1>1 DEF waiting
<1>3. CASE ~Unicast(call.address)
  BY <1>1, <1>2, <1>3, AccountsSame DEF callFunction
<1>4. CASE ~well
  BY <1>1, <1>4 DEF Accounts
<1>5. CASE Unicast(call.address) /\ well
  <2> DEFINE e == [call |-> call, of |-> Len(asked) + 1]
  <2>1. commanded' = Append(commanded, e) /\ sent' = Append(sent, e) /\ asked' = Append(asked, call)
    BY <1>5 DEF callFunction
  <2>2. Queued /\ OnItsWay /\ Ordered
    BY <1>5 DEF Accounts
  <2>t. /\ Len(commanded) \in Nat /\ Len(asked) \in Nat /\ Len(sent) \in Nat
        /\ Len(ran) \in Nat /\ Len(waiting) \in Nat
    BY AccountTypes
  <2>3. /\ e \in Elements /\ e.of = Len(asked) + 1 /\ e.call = call
    BY <2>t DEF Elements
  <2> HIDE DEF e
  <2>4. /\ Len(commanded') = Len(commanded) + 1
        /\ \A i \in 1 .. Len(commanded) : commanded'[i] = commanded[i]
        /\ commanded'[Len(commanded) + 1] = e
    BY <2>1, <2>3, AppendIs DEF Typed
  <2>5. /\ Len(sent') = Len(sent) + 1
        /\ \A i \in 1 .. Len(sent) : sent'[i] = sent[i]
        /\ sent'[Len(sent) + 1] = e
    BY <2>1, <2>3, AppendIs DEF Typed
  <2>6. /\ Len(asked') = Len(asked) + 1
        /\ \A i \in 1 .. Len(asked) : asked'[i] = asked[i]
        /\ asked'[Len(asked) + 1] = call
    BY <2>1, AppendIs DEF Typed
  <2>7. Queued'
    <3>1. Len(commanded') <= Len(asked')
      BY <2>t, <2>2, <2>4, <2>6 DEF Queued
    <3>2. ASSUME NEW i \in 1 .. Len(commanded')
          PROVE  /\ commanded'[i].of = Len(asked') - Len(commanded') + i
                 /\ commanded'[i].call = asked'[Len(asked') - Len(commanded') + i]
      <4>1. CASE i \in 1 .. Len(commanded)
        <5>1. Len(asked') - Len(commanded') + i = Len(asked) - Len(commanded) + i
              /\ Len(asked) - Len(commanded) + i \in 1 .. Len(asked)
          BY <4>1, <2>t, <2>2, <2>4, <2>6 DEF Queued
        <5>2. QED
          BY <4>1, <5>1, <2>2, <2>4, <2>6 DEF Queued
      <4>2. CASE i = Len(commanded) + 1
        <5>1. Len(asked') - Len(commanded') + i = Len(asked) + 1
          BY <4>2, <2>t, <2>4, <2>6
        <5>2. QED
          BY <4>2, <5>1, <2>3, <2>4, <2>6
      <4>3. QED
        BY <4>1, <4>2, <2>4, <2>t
    <3>3. QED
      BY <3>1, <3>2 DEF Queued
  <2>8. OnItsWay'
    <3>1. ASSUME NEW i \in 1 .. Len(sent')
          PROVE  sent'[i].of \in 1 .. Len(asked') /\ sent'[i].call = asked'[sent'[i].of]
      BY <2>t, <2>2, <2>3, <2>5, <2>6 DEF OnItsWay
    <3>2. ASSUME NEW i \in 1 .. Len(waiting)
          PROVE  \/ waiting[i].of = 0 /\ strayed' /\ CallOf(waiting[i]) \notin Calls
                 \/ waiting[i].of \in 1 .. Len(asked') /\ CallOf(waiting[i]) = asked'[waiting[i].of]
      BY <1>1, <2>t, <2>2, <2>6 DEF OnItsWay
    <3>3. QED
      BY <1>2, <3>1, <3>2 DEF OnItsWay
  <2>9. Ordered'
    <3>1. ASSUME NEW i \in 1 .. Len(sent'), NEW j \in 1 .. Len(sent'), i < j
          PROVE  sent'[i].of < sent'[j].of
      <4>1. i \in 1 .. Len(sent)
        BY <3>1, <2>t, <2>5
      <4>2. CASE j \in 1 .. Len(sent)
        BY <3>1, <4>1, <4>2, <2>2, <2>5 DEF Ordered
      <4>3. CASE j = Len(sent) + 1
        BY <4>1, <4>3, <2>t, <2>2, <2>3, <2>5 DEF OnItsWay
      <4>4. QED
        BY <4>2, <4>3, <2>t, <2>5
    <3>2. ASSUME NEW i \in 1 .. Len(waiting), NEW j \in 1 .. Len(sent')
          PROVE  waiting[i].of < sent'[j].of
      BY <2>t, <2>2, <2>3, <2>5 DEF Ordered, OnItsWay
    <3>3. QED
      BY <1>2, <2>2, <3>1, <3>2 DEF Ordered
  <2>10. ASSUME NEW n \in Nat, n <= Len(asked), Later(n) PROVE Later(n)'
    BY <1>2, <2>10, <2>t, <2>3, <2>5 DEF Later
  <2>11. Behind' = Behind /\ Behind \in Nat /\ Behind <= Len(asked)
    BY <2>t, <2>2, <2>4, <2>6 DEF Behind, Queued
  <2>12. Ran => Ran'
    BY <1>1, <2>t, <2>6, <2>10 DEF Ran
  <2>13. (Strict => Strict') /\ (Noted => Noted')
    BY <1>1, <2>10, <2>11 DEF Strict, Noted
  <2>14. NoneRepeated' => NoneRepeated
    <3>1. DOMAIN asked = 1 .. Len(asked) /\ DOMAIN asked' = 1 .. Len(asked')
      BY <2>1 DEF Typed
    <3>2. QED
      BY <3>1, <2>t, <2>6 DEF NoneRepeated
  <2>15. QED
    BY <1>1, <1>5, <2>7, <2>8, <2>9, <2>12, <2>13, <2>14 DEF Accounts
<1>6. QED
  BY <1>3, <1>4, <1>5

LEMMA DeliversAccounts ==
  ASSUME Typed, Accounts, Deliver
  PROVE  Accounts'
<1>1. /\ ~processing /\ ~processing' /\ sent # << >> /\ sent' = Tail(sent)
      /\ UNCHANGED << subclass, commanded, asked, well, strayed, ran, missing >>
  BY DEF Deliver, buffers, accounts
<1>2. waiting = received /\ waiting' = received'
  BY <1>1 DEF waiting
<1> SUFFICES ASSUME well PROVE Accounts'
  BY <1>1 DEF Accounts
<1>0. Queued /\ OnItsWay /\ Ordered
  BY DEF Accounts
<1>t. /\ Len(asked) \in Nat /\ Len(sent) \in Nat /\ Len(waiting) \in Nat
      /\ \A i \in 1 .. Len(sent) : sent[i].of \in Nat /\ sent[i].call \in Calls
      /\ \A i \in 1 .. Len(waiting) : waiting[i].of \in Nat
  BY AccountTypes
<1>3. /\ Head(sent) = sent[1] /\ 1 \in 1 .. Len(sent)
      /\ Len(sent') = Len(sent) - 1
      /\ \A i \in 1 .. Len(sent') : i + 1 \in 1 .. Len(sent) /\ sent'[i] = sent[i + 1]
  BY <1>1, TailIs DEF Typed
<1>4. PICK data \in Carried(Head(sent).call.func), kind \in FrameKinds,
           func \in {Head(sent).call.func} \cup
                    { error \in DOMAIN ErrorFunc : ErrorFunc[error] = Head(sent).call.func } :
           received' = Append(received, Frame(Head(sent).call, Head(sent).of, func, kind, data))
  BY DEF Deliver
<1> DEFINE f == Frame(Head(sent).call, Head(sent).of, func, kind, data)
<1>5. f \in Frames /\ f.of = sent[1].of /\ CallOf(f) = sent[1].call
  <2>1. sent[1].call \in Calls /\ sent[1].of \in Nat
    BY <1>t, <1>3
  <2>2. func \in Nat /\ Function(func) = sent[1].call.func
    <3>1. CASE func = sent[1].call.func
      <4>1. func \in Funcs /\ func \in Nat
        BY <3>1, <2>1, CallFields
      <4>2. func \notin DOMAIN ErrorFunc
        BY <4>1, ErrorIs
      <4>3. QED
        BY <3>1, <4>1, <4>2 DEF Function
    <3>2. CASE func \in DOMAIN ErrorFunc /\ ErrorFunc[func] = sent[1].call.func
      BY <3>2, ErrorIs DEF Function
    <3>3. QED
      BY <1>3, <3>1, <3>2
  <2>3. data \in Pairs
    BY CarriedIsPair
  <2>4. f \in Frames /\ f.of = sent[1].of /\ f.func = func /\ f.address = sent[1].call.address
    BY <1>3, <2>1, <2>2, <2>3, FrameIs
  <2> HIDE DEF f
  <2>5. QED
    BY <2>1, <2>2, <2>4, CallFields DEF CallOf
<1>6. waiting' = Append(waiting, f)
  BY <1>2, <1>4
<1> HIDE DEF f
<1>7. /\ Len(waiting') = Len(waiting) + 1
      /\ \A i \in 1 .. Len(waiting) : waiting'[i] = waiting[i]
      /\ waiting'[Len(waiting) + 1] = f
  BY <1>5, <1>6, AppendIs, AccountTypes
<1>8. f.of \in 1 .. Len(asked) /\ CallOf(f) = asked[f.of]
  BY <1>0, <1>3, <1>5 DEF OnItsWay
<1>9. Queued'
  BY <1>0, <1>1 DEF Queued
<1>10. OnItsWay'
  <2>1. ASSUME NEW i \in 1 .. Len(sent')
        PROVE  sent'[i].of \in 1 .. Len(asked) /\ sent'[i].call = asked[sent'[i].of]
    BY <1>0, <1>3 DEF OnItsWay
  <2>2. ASSUME NEW i \in 1 .. Len(waiting')
        PROVE  \/ waiting'[i].of = 0 /\ strayed /\ CallOf(waiting'[i]) \notin Calls
               \/ waiting'[i].of \in 1 .. Len(asked) /\ CallOf(waiting'[i]) = asked[waiting'[i].of]
    <3>1. CASE i \in 1 .. Len(waiting)
      BY <3>1, <1>0, <1>7 DEF OnItsWay
    <3>2. CASE i = Len(waiting) + 1
      BY <3>2, <1>7, <1>8
    <3>3. QED
      BY <3>1, <3>2, <1>t, <1>7
  <2>3. QED
    BY <1>1, <2>1, <2>2 DEF OnItsWay
<1>11. Ordered'
  <2>1. ASSUME NEW i \in 1 .. Len(sent'), NEW j \in 1 .. Len(sent'), i < j
        PROVE  sent'[i].of < sent'[j].of
    BY <2>1, <1>0, <1>3 DEF Ordered
  <2>2. ASSUME NEW i \in 1 .. Len(waiting'), NEW j \in 1 .. Len(sent')
        PROVE  waiting'[i].of < sent'[j].of
    <3>1. CASE i \in 1 .. Len(waiting)
      BY <3>1, <1>0, <1>3, <1>7 DEF Ordered
    <3>2. CASE i = Len(waiting) + 1
      <4>1. j + 1 \in 1 .. Len(sent) /\ 1 < j + 1 /\ sent'[j] = sent[j + 1]
        BY <1>3, <1>t
      <4>2. QED
        BY <3>2, <4>1, <1>0, <1>3, <1>5, <1>7 DEF Ordered
    <3>3. QED
      BY <3>1, <3>2, <1>t, <1>7
  <2>3. ASSUME NEW i \in 1 .. Len(waiting'), NEW j \in 1 .. Len(waiting'),
               i < j, waiting'[j].of # 0
        PROVE  waiting'[i].of < waiting'[j].of
    <3>1. i \in 1 .. Len(waiting)
      BY <2>3, <1>t, <1>7
    <3>2. CASE j \in 1 .. Len(waiting)
      BY <2>3, <3>1, <3>2, <1>0, <1>7 DEF Ordered
    <3>3. CASE j = Len(waiting) + 1
      BY <3>1, <3>3, <1>0, <1>3, <1>5, <1>7 DEF Ordered
    <3>4. QED
      BY <3>2, <3>3, <1>t, <1>7
  <2>4. QED
    BY <2>1, <2>2, <2>3 DEF Ordered
<1>12. ASSUME NEW n, Later(n) PROVE Later(n)'
  <2>1. ASSUME NEW i \in 1 .. Len(sent') PROVE n < sent'[i].of
    BY <1>12, <1>3 DEF Later
  <2>2. ASSUME NEW i \in 1 .. Len(waiting'), waiting'[i].of # 0 PROVE n < waiting'[i].of
    <3>1. CASE i \in 1 .. Len(waiting)
      BY <2>2, <3>1, <1>12, <1>7 DEF Later
    <3>2. CASE i = Len(waiting) + 1
      BY <3>2, <1>12, <1>3, <1>5, <1>7 DEF Later
    <3>3. QED
      BY <3>1, <3>2, <1>t, <1>7
  <2>3. QED
    BY <2>1, <2>2 DEF Later
<1>13. (Ran => Ran') /\ (Strict => Strict')
  BY <1>1, <1>12 DEF Ran, Strict, Behind
<1>14. Noted => Noted'
  BY <1>1, <1>12 DEF Noted, Behind
<1>15. NoneRepeated' <=> NoneRepeated
  BY <1>1 DEF NoneRepeated
<1>16. QED
  BY <1>1, <1>9, <1>10, <1>11, <1>13, <1>14, <1>15 DEF Accounts

LEMMA StraysAccounts ==
  ASSUME Typed, Accounts, Stray
  PROVE  Accounts'
<1>1. /\ ~processing /\ ~processing' /\ strayed' = TRUE
      /\ UNCHANGED << subclass, commanded, sent, asked, well, ran, missing >>
  BY DEF Stray, buffers
<1>2. waiting = received /\ waiting' = received'
  BY <1>1 DEF waiting
<1> SUFFICES ASSUME well PROVE Accounts'
  BY <1>1 DEF Accounts
<1>0. Queued /\ OnItsWay /\ Ordered
  BY DEF Accounts
<1>t. Len(asked) \in Nat /\ Len(waiting) \in Nat
  BY AccountTypes
<1>3. PICK stray \in Strays : \E data \in Carried(stray.func) :
           received' = Append(received, Frame(stray, 0, stray.func, "answer", data))
  BY DEF Stray
<1>4. PICK data \in Carried(stray.func) :
           received' = Append(received, Frame(stray, 0, stray.func, "answer", data))
  BY <1>3
<1> DEFINE f == Frame(stray, 0, stray.func, "answer", data)
<1>5. f \in Frames /\ f.of = 0 /\ CallOf(f) \notin Calls
  <2>1. data \in Pairs /\ stray \in Calls \cup Strays /\ stray.func \in Nat
    BY CarriedIsPair, CallFields
  <2>2. f \in Frames /\ f.of = 0 /\ f.func = stray.func /\ f.address = stray.address
    BY <2>1, FrameIs DEF FrameKinds
  <2>3. [address |-> stray.address, func |-> Function(stray.func)] \notin Calls
    BY ModbusBufferAssumption
  <2> HIDE DEF f
  <2>4. QED
    BY <2>2, <2>3 DEF CallOf
<1>6. waiting' = Append(waiting, f)
  BY <1>2, <1>4
<1> HIDE DEF f
<1>7. /\ Len(waiting') = Len(waiting) + 1
      /\ \A i \in 1 .. Len(waiting) : waiting'[i] = waiting[i]
      /\ waiting'[Len(waiting) + 1] = f
  BY <1>5, <1>6, AppendIs, AccountTypes
<1>8. \A i \in 1 .. Len(waiting') : i \in 1 .. Len(waiting) \/ waiting'[i] = f
  BY <1>7, <1>t
<1>9. Queued'
  BY <1>0, <1>1 DEF Queued
<1>10. OnItsWay'
  BY <1>0, <1>1, <1>5, <1>7, <1>8 DEF OnItsWay
<1>11. Ordered'
  <2>1. ASSUME NEW i \in 1 .. Len(waiting'), NEW j \in 1 .. Len(sent)
        PROVE  waiting'[i].of < sent[j].of
    <3>1. CASE i \in 1 .. Len(waiting)
      BY <3>1, <1>0, <1>7 DEF Ordered
    <3>2. CASE waiting'[i] = f
      <4>1. sent[j].of \in 1 .. Len(asked)
        BY <1>0 DEF OnItsWay
      <4>2. QED
        BY <3>2, <4>1, <1>5, <1>t
    <3>3. QED
      BY <3>1, <3>2, <1>8
  <2>2. ASSUME NEW i \in 1 .. Len(waiting'), NEW j \in 1 .. Len(waiting'),
               i < j, waiting'[j].of # 0
        PROVE  waiting'[i].of < waiting'[j].of
    <3>1. j \in 1 .. Len(waiting)
      BY <2>2, <1>5, <1>8
    <3>2. i \in 1 .. Len(waiting)
      BY <2>2, <3>1, <1>t, <1>7
    <3>3. QED
      BY <2>2, <3>1, <3>2, <1>0, <1>7 DEF Ordered
  <2>3. QED
    BY <1>0, <1>1, <2>1, <2>2 DEF Ordered
<1>12. ASSUME NEW n, Later(n) PROVE Later(n)'
  BY <1>12, <1>1, <1>5, <1>7, <1>8 DEF Later
<1>13. (Ran => Ran') /\ (Strict => Strict')
  BY <1>1, <1>12 DEF Ran, Strict, Behind
<1>14. QED
  BY <1>1, <1>9, <1>10, <1>11, <1>13 DEF Accounts

LEMMA AnswersAccounts ==
  ASSUME Typed, Accounts, Answered, well
  PROVE  Accounts'
<1> DEFINE f == Head(buffer)
           n == Skipped(f.address)
<1>0. Queued /\ OnItsWay /\ Ordered
  BY DEF Accounts
<1>t. /\ Len(commanded) \in Nat /\ Len(asked) \in Nat /\ Len(sent) \in Nat
      /\ Len(ran) \in Nat /\ Len(waiting) \in Nat
      /\ \A i \in 1 .. Len(waiting) : waiting[i].of \in Nat
      /\ \A i \in 1 .. Len(ran) : ran[i] \in Nat
      /\ \A i \in 1 .. Len(asked) : asked[i] \in Calls
  BY AccountTypes
<1>1. /\ commanded # << >>
      /\ checkCommanded(f.address, Function(f.func))
      /\ commanded' = Left(f.address)
      /\ ran' = Append(ran, f.of)
      /\ missing' = missing \cup { commanded[i].of : i \in 1 .. n }
      /\ UNCHANGED << subclass, sent, asked, well, strayed >>
  BY DEF Answered
<1>2. waiting = buffer /\ waiting' = buffer' /\ waiting # << >> /\ waiting' = Tail(waiting)
  BY DEF Answered, waiting
<1>3. /\ f = waiting[1] /\ 1 \in 1 .. Len(waiting)
      /\ Len(waiting') = Len(waiting) - 1
      /\ \A i \in 1 .. Len(waiting') : i + 1 \in 1 .. Len(waiting) /\ waiting'[i] = waiting[i + 1]
  <2>1. waiting \in Seq(Frames)
    BY AccountTypes
  <2>2. QED
    BY <1>2, <2>1, TailIs
<1>4. f.of \in Nat
  BY <1>3, <1>t
<1>5. /\ subclass.reports \in BOOLEAN
      /\ n \in 0 .. Len(commanded)
      /\ Len(commanded') <= Len(commanded) /\ Len(commanded') \in Nat
      /\ \A i \in 1 .. Len(commanded') :
             commanded'[i] = commanded[Len(commanded) - Len(commanded') + i]
      /\ subclass.reports \/ n = 0 =>
             Len(commanded') = IF n = Len(commanded) THEN 0 ELSE Len(commanded) - n - 1
  <2>1. subclass.reports \in BOOLEAN /\ commanded \in Seq(Elements)
    BY DEF Typed
  <2> DEFINE left == Left(f.address)
  <2>2. /\ n \in 0 .. Len(commanded) /\ left \in Seq(Elements)
        /\ Len(left) <= Len(commanded)
        /\ \A i \in 1 .. Len(left) : left[i] = commanded[Len(commanded) - Len(left) + i]
        /\ subclass.reports \/ n = 0 =>
               Len(left) = IF n = Len(commanded) THEN 0 ELSE Len(commanded) - n - 1
    BY <1>1, <2>1, LeftIs
  <2>3. Len(left) \in Nat
    BY <2>2
  <2> HIDE DEF left, n
  <2>4. commanded' = left
    BY <1>1 DEF left
  <2>5. QED
    BY <2>1, <2>2, <2>3, <2>4
<1>6. /\ ~subclass.reports => n = 0
      /\ n < Len(commanded) => commanded[n + 1].call.func = Function(f.func)
  BY <1>1 DEF checkCommanded
<1>p. /\ Passed(f.address) \in 0 .. Len(commanded)
      /\ \A i \in 1 .. Passed(f.address) : commanded[i].call.address # f.address
      /\ Passed(f.address) < Len(commanded) =>
             commanded[Passed(f.address) + 1].call.address = f.address
  BY PassedIs DEF Typed
<1>s. n = IF subclass.reports THEN Passed(f.address) ELSE IF Passed(f.address) = 0 THEN 0 ELSE 1
  BY DEF Skipped
<1> HIDE DEF f, n
<1>7. Len(commanded) > 0
  BY <1>1, <1>t DEF Typed
<1>8. \A i \in 1 .. Len(commanded) : commanded[i].call \in Calls
  <2>1. ASSUME NEW i \in 1 .. Len(commanded) PROVE commanded[i].call \in Calls
    <3>1. commanded[i] \in Elements
      BY DEF Typed
    <3>2. QED
      BY <3>1 DEF Elements
  <2>2. QED
    BY <2>1
<1>9. ASSUME n < Len(commanded), Passed(f.address) = n
      PROVE  commanded[n + 1].call = CallOf(f)
  <2>1. /\ n + 1 \in 1 .. Len(commanded)
        /\ commanded[n + 1].call.address = f.address
        /\ commanded[n + 1].call.func = Function(f.func)
    BY <1>5, <1>6, <1>9, <1>p, <1>t
  <2>2. commanded[n + 1].call \in Calls \cup Strays
    BY <1>8, <2>1
  <2>3. QED
    BY <2>1, <2>2, CallFields DEF CallOf
<1>c. PICK c : c = f.of
  OBVIOUS
<1>d. /\ c \in Nat /\ c = waiting[1].of
      /\ ran' = Append(ran, c)
  BY <1>1, <1>3, <1>4, <1>c
<1>10. Queued'
  <2>1. Len(commanded') <= Len(asked')
    BY <1>0, <1>1, <1>5, <1>t DEF Queued
  <2>2. ASSUME NEW i \in 1 .. Len(commanded')
        PROVE  /\ commanded'[i].of = Len(asked) - Len(commanded') + i
               /\ commanded'[i].call = asked[Len(asked) - Len(commanded') + i]
    <3>1. Len(commanded) - Len(commanded') + i \in 1 .. Len(commanded)
          /\ Len(asked) - Len(commanded) + (Len(commanded) - Len(commanded') + i)
                = Len(asked) - Len(commanded') + i
      BY <1>5, <1>t
    <3>2. QED
      BY <3>1, <1>0, <1>5 DEF Queued
  <2>3. QED
    BY <1>1, <2>1, <2>2 DEF Queued
<1>11. OnItsWay'
  BY <1>0, <1>1, <1>3 DEF OnItsWay
<1>12. Ordered'
  <2>1. ASSUME NEW i \in 1 .. Len(waiting'), NEW j \in 1 .. Len(sent)
        PROVE  waiting'[i].of < sent[j].of
    BY <1>0, <1>3 DEF Ordered
  <2>2. ASSUME NEW i \in 1 .. Len(waiting'), NEW j \in 1 .. Len(waiting'),
               i < j, waiting'[j].of # 0
        PROVE  waiting'[i].of < waiting'[j].of
    <3>1. i + 1 < j + 1
      BY <2>2, <1>3, <1>t
    <3>2. i + 1 \in 1 .. Len(waiting) /\ j + 1 \in 1 .. Len(waiting)
          /\ waiting'[i] = waiting[i + 1] /\ waiting'[j] = waiting[j + 1]
      BY <1>3
    <3>3. QED
      BY <2>2, <3>1, <3>2, <1>0 DEF Ordered
  <2>3. QED
    BY <1>0, <1>1, <2>1, <2>2 DEF Ordered
<1>13. ASSUME NEW b, Later(b) PROVE Later(b)'
  BY <1>13, <1>1, <1>3 DEF Later
<1>14. Later(c)'
  <2>1. ASSUME NEW i \in 1 .. Len(waiting'), waiting'[i].of # 0 PROVE c < waiting'[i].of
    <3>1. 1 < i + 1
      BY <1>3, <1>t
    <3>2. QED
      BY <2>1, <3>1, <1>0, <1>3, <1>d DEF Ordered
  <2>2. ASSUME NEW i \in 1 .. Len(sent) PROVE c < sent[i].of
    BY <1>0, <1>3, <1>d DEF Ordered
  <2>3. QED
    BY <1>1, <2>1, <2>2 DEF Later
<1>15. /\ Len(ran') = Len(ran) + 1
       /\ \A i \in 1 .. Len(ran) : ran'[i] = ran[i]
       /\ ran'[Len(ran) + 1] = c
  BY <1>d, AppendIs DEF Typed
<1>16. ASSUME Ran, c \in 1 .. Len(asked) PROVE Ran'
  <2>1. \A i \in 1 .. Len(ran) : ran[i] < c
    BY <1>3, <1>d, <1>16 DEF Ran, Later
  <2>2. ASSUME NEW i \in 1 .. Len(ran') PROVE ran'[i] \in 1 .. Len(asked') /\ (Later(ran[i]))'
    <3>1. CASE i \in 1 .. Len(ran)
      <4>1. ran'[i] = ran[i] /\ ran[i] \in 1 .. Len(asked) /\ Later(ran[i])
        BY <3>1, <1>15, <1>16 DEF Ran
      <4>2. PICK y : y = ran[i]
        OBVIOUS
      <4>3. Later(y)'
        BY <4>1, <4>2, <1>13
      <4>4. y = ran'[i]
        BY <4>1, <4>2
      <4>5. QED
        BY <4>1, <4>3, <4>4, <1>1 DEF Later
    <3>2. CASE i = Len(ran) + 1
      BY <3>2, <1>1, <1>14, <1>15, <1>16 DEF Later
    <3>3. QED
      BY <3>1, <3>2, <1>15, <1>t
  <2>3. ASSUME NEW i \in 1 .. Len(ran'), NEW j \in 1 .. Len(ran'), i <= j
        PROVE  ran'[j] - ran'[i] >= j - i
    <3>1. CASE j \in 1 .. Len(ran)
      <4>1. i \in 1 .. Len(ran)
        BY <2>3, <3>1, <1>t
      <4>2. QED
        BY <2>3, <3>1, <4>1, <1>15, <1>16 DEF Ran
    <3>2. CASE i = j
      <4>1. ran'[i] \in Int
        BY <2>2
      <4>2. QED
        BY <3>2, <4>1
    <3>3. CASE j = Len(ran) + 1 /\ i \in 1 .. Len(ran)
      <4>1. Len(ran) \in 1 .. Len(ran) /\ i <= Len(ran)
        BY <3>3, <1>t
      <4>2. ran[Len(ran)] - ran[i] >= Len(ran) - i
        BY <3>3, <4>1, <1>16 DEF Ran
      <4>3. ran[Len(ran)] < c /\ ran[Len(ran)] \in Nat /\ ran[i] \in Nat
        BY <3>3, <4>1, <2>1, <1>t
      <4>4. c - ran[i] >= Len(ran) + 1 - i
        BY <4>2, <4>3, <1>d, <1>t, <3>3
      <4>5. QED
        BY <3>3, <4>4, <1>15
    <3>4. j \in 1 .. Len(ran) \/ (j = Len(ran) + 1 /\ i \in 1 .. Len(ran)) \/ i = j
      BY <2>3, <1>15, <1>t
    <3>5. QED
      BY <3>1, <3>2, <3>3, <3>4
  <2>4. QED
    BY <1>1, <2>2, <2>3 DEF Ran
<1>17. ASSUME ~subclass.reports PROVE Ran' /\ Strict'
  <2>1. Ran /\ Strict
    BY <1>17 DEF Accounts
  <2>2. n = 0 /\ Passed(f.address) = 0
    BY <1>17, <1>6, <1>s
  <2>3. CallOf(f) = commanded[1].call /\ CallOf(f) \in Calls
    BY <2>2, <1>7, <1>8, <1>9, <1>t
  <2>4. c \in 1 .. Len(asked)
    BY <2>3, <1>0, <1>3, <1>c DEF OnItsWay
  <2>5. Len(commanded') = Len(commanded) - 1
    BY <2>2, <1>5, <1>7
  <2>6. QED
    BY <2>1, <2>4, <2>5, <1>1, <1>15, <1>16, <1>t DEF Strict, Behind
<1>18. ASSUME subclass.reports, ~strayed, NoneRepeated PROVE Ran' /\ Noted'
  <2>1. Ran /\ Noted
    BY <1>18 DEF Accounts
  <2>2. c \in 1 .. Len(asked) /\ CallOf(f) = asked[c]
    BY <1>0, <1>3, <1>c, <1>18 DEF OnItsWay
  <2> DEFINE b == Behind
  <2>3. b \in Nat /\ b = Len(asked) - Len(commanded)
    BY <1>0, <1>t DEF Behind, Queued
  <2>4. c > b
    BY <2>1, <2>2, <1>3, <1>d DEF Noted, Later, b
  <2> HIDE DEF b
  <2>5. /\ c - b \in 1 .. Len(commanded)
        /\ commanded[c - b].call = asked[c]
    <3>1. c - b \in 1 .. Len(commanded) /\ Len(asked) - Len(commanded) + (c - b) = c
      BY <2>2, <2>3, <2>4, <1>t
    <3>2. QED
      BY <3>1, <1>0 DEF Queued
  <2>6. n < c - b /\ n < Len(commanded) /\ n = Passed(f.address)
    <3>1. n = Passed(f.address)
      BY <1>18, <1>s
    <3>2. commanded[c - b].call.address = f.address
      BY <2>2, <2>5 DEF CallOf
    <3>3. c - b \notin 1 .. n
      BY <3>1, <3>2, <1>p
    <3>4. QED
      BY <3>1, <3>3, <2>5, <1>5, <1>t
  <2>7. commanded[n + 1].call = asked[c]
    BY <2>2, <2>6, <1>9
  <2>8. c = b + n + 1
    <3>1. n + 1 \in 1 .. Len(commanded) /\ b + n + 1 \in 1 .. Len(asked)
      BY <2>2, <2>3, <2>6, <1>5, <1>t
    <3>2. commanded[n + 1].call = asked[b + n + 1]
      <4>1. Len(asked) - Len(commanded) + (n + 1) = b + n + 1
        BY <2>3, <1>5, <1>t
      <4>2. QED
        BY <4>1, <3>1, <1>0 DEF Queued
    <3>3. DOMAIN asked = 1 .. Len(asked)
      BY DEF Typed
    <3>4. QED
      BY <2>2, <2>7, <3>1, <3>2, <3>3, <1>18 DEF NoneRepeated
  <2>n. b \in Nat /\ n \in Nat
    BY <2>3, <1>5, <1>t
  <2>9. Behind' = c
    <3>1. Len(commanded') = Len(commanded) - n - 1
      BY <2>6, <1>5, <1>18
    <3>2. QED
      BY <3>1, <2>3, <2>8, <1>1, <1>5, <1>t DEF Behind
  <2>10. \A x : x \in missing' <=> x \in missing \/ x \in b + 1 .. b + n
    <3>1. \A i \in 1 .. n : commanded[i].of = b + i
      BY <2>3, <2>6, <1>0, <1>5, <1>t DEF Queued
    <3>2. ASSUME NEW x \in b + 1 .. b + n PROVE \E i \in 1 .. n : x = b + i
      <4>1. x - b \in 1 .. n /\ x = b + (x - b)
        BY <2>3, <1>5, <1>t
      <4>2. QED
        BY <4>1
    <3>3. \A i \in 1 .. n : b + i \in b + 1 .. b + n
      BY <2>3, <1>5, <1>t
    <3>4. QED
      BY <3>1, <3>2, <3>3, <1>1
  <2>11. /\ \A k \in 1 .. b : k \in missing \/ \E i \in 1 .. Len(ran) : ran[i] = k
         /\ missing \subseteq 1 .. b
         /\ \A i \in 1 .. Len(ran) : ran[i] <= b /\ ran[i] \notin missing
    BY <2>1 DEF Noted, b
  <2>12. ASSUME NEW k \in 1 .. c PROVE k \in missing' \/ \E i \in 1 .. Len(ran') : ran'[i] = k
    <3>1. CASE k \in 1 .. b
      BY <3>1, <2>10, <2>11, <1>15, <1>t
    <3>2. CASE k \in b + 1 .. b + n
      BY <3>2, <2>10
    <3>3. CASE k = c
      BY <3>3, <1>15, <1>t
    <3>4. QED
      BY <3>1, <3>2, <3>3, <2>8, <2>n
  <2>13. missing' \subseteq 1 .. c
    <3>1. ASSUME NEW x \in missing' PROVE x \in 1 .. c
      <4>1. CASE x \in missing
        BY <4>1, <2>8, <2>11, <2>n
      <4>2. CASE x \in b + 1 .. b + n
        BY <4>2, <2>8, <2>n
      <4>3. QED
        BY <3>1, <4>1, <4>2, <2>10
    <3>2. QED
      BY <3>1
  <2>14. ASSUME NEW i \in 1 .. Len(ran') PROVE ran'[i] <= c /\ ran'[i] \notin missing'
    <3>1. CASE i \in 1 .. Len(ran)
      BY <3>1, <2>3, <2>8, <2>10, <2>11, <1>5, <1>15, <1>t
    <3>2. CASE i = Len(ran) + 1
      <4>1. ran'[i] = c /\ c > b + n /\ c <= c
        BY <3>2, <2>8, <2>n, <1>15
      <4>2. c \notin missing /\ c \notin b + 1 .. b + n
        <5>1. c \notin 1 .. b /\ c \notin b + 1 .. b + n
          BY <2>8, <2>n
        <5>2. QED
          BY <5>1, <2>11
      <4>3. QED
        BY <4>1, <4>2, <2>10
    <3>3. QED
      BY <3>1, <3>2, <1>15, <1>t
  <2>15. Later(Behind)'
    BY <2>9, <1>14 DEF Later, Behind
  <2>16. Noted'
    BY <2>9, <2>12, <2>13, <2>14, <2>15 DEF Noted
  <2>17. QED
    BY <2>1, <2>2, <2>16, <1>16
<1>19. NoneRepeated' <=> NoneRepeated
  BY <1>1 DEF NoneRepeated
<1>20. QED
  BY <1>1, <1>10, <1>11, <1>12, <1>17, <1>18, <1>19 DEF Accounts

LEMMA AccountsStep ==
  ASSUME Typed, Accounts, [ModbusBufferNext]_modbusBuffer
  PROVE  Accounts'
<1>1. ASSUME NEW call \in Calls, callFunction(call) PROVE Accounts'
  BY <1>1, CallsAccounts
<1>2. ASSUME NEW onlyBuffers \in BOOLEAN, clear(onlyBuffers) PROVE Accounts'
  <2>1. CASE onlyBuffers
    <3>1. waiting' = waiting
      BY <1>2, <2>1 DEF clear, waiting, onLine
    <3>2. QED
      BY <1>2, <2>1, <3>1, AccountsSame DEF clear, onLine, accounts
  <2>2. CASE ~onlyBuffers
    <3>1. /\ commanded' = << >> /\ sent' = << >> /\ asked' = << >> /\ ran' = << >> /\ missing' = {}
          /\ waiting' = << >>
      BY <1>2, <2>2 DEF clear, waiting
    <3>2. Len(<< >>) = 0
      OBVIOUS
    <3>3. QED
      BY <3>1, <3>2 DEF Accounts, Queued, OnItsWay, Ordered, Ran, Strict, Noted, Later, Behind
  <2>3. QED
    BY <2>1, <2>2
<1>3. CASE checkCommandedEmpty
  <2>1. CASE EmptyPasses
    <3>1. commanded' = commanded /\ waiting' = waiting
      BY <1>3, <2>1 DEF checkCommandedEmpty, EmptyPasses, waiting, onLine
    <3>2. QED
      BY <1>3, <2>1, <3>1, AccountsSame DEF checkCommandedEmpty, onLine, accounts
  <2>2. CASE ~EmptyPasses
    BY <1>3, <2>2 DEF checkCommandedEmpty, Thrown, Accounts
  <2>3. QED
    BY <2>1, <2>2
<1>4. CASE processResponse
  <2>1. waiting' = waiting
    BY <1>4 DEF processResponse, waiting
  <2>2. QED
    BY <1>4, <2>1, AccountsSame DEF processResponse, accounts
<1>5. CASE Iterate
  BY <1>5, Iterates, AnswersAccounts DEF Breaks, Accounts
<1>6. CASE Processed
  <2>1. waiting' = waiting
    BY <1>6 DEF Processed, waiting, onLine, Typed
  <2>2. QED
    BY <1>6, <2>1, AccountsSame DEF Processed, onLine, accounts
<1>7. CASE Deliver
  BY <1>7, DeliversAccounts
<1>8. CASE Lose
  <2>1. waiting' = waiting
    BY <1>8 DEF Lose, waiting, buffers
  <2>2. QED
    BY <1>8, <2>1, SentShrinks DEF Lose, buffers, accounts
<1>9. CASE Stray
  BY <1>9, StraysAccounts
<1>10. CASE UNCHANGED modbusBuffer
  <2>1. waiting' = waiting
    BY <1>10 DEF waiting, modbusBuffer, buffers, onLine
  <2>2. QED
    BY <1>10, <2>1, AccountsSame DEF modbusBuffer, buffers, onLine, accounts
<1>11. QED
  BY <1>1, <1>2, <1>3, <1>4, <1>5, <1>6, <1>7, <1>8, <1>9, <1>10
  DEF ModbusBufferNext, Process

LEMMA BufferInvariance == ModbusBufferSpec => []BufferInv
<1>1. BufferInv /\ [ModbusBufferNext]_modbusBuffer => BufferInv'
  BY TypedStep, AccountsStep, WatchedStep DEF BufferInv
<1>2. QED
  BY <1>1, BufferInit, PTL DEF ModbusBufferSpec

(* Whoever takes checkCommandedEmpty's word that nothing is left to answer  *)
(* can rely on it: every call was answered in its order, and what was not   *)
(* answered was reported to a subclass that takes note of missing replies.  *)
THEOREM AllAreAccounted == ModbusBufferSpec => []AllAccounted
<1>1. ASSUME BufferInv PROVE AllAccounted
  <2> SUFFICES ASSUME well, commanded = << >>
               PROVE  /\ ~subclass.reports => InOrder(ran, DOMAIN asked)
                      /\ subclass.reports /\ ~strayed /\ NoneRepeated =>
                             InOrder(ran, DOMAIN asked \ missing)
    BY DEF AllAccounted
  <2>0. Typed /\ Accounts
    BY <1>1 DEF BufferInv
  <2>1. DOMAIN asked = 1 .. Len(asked) /\ DOMAIN ran = 1 .. Len(ran)
        /\ Len(asked) \in Nat /\ Len(ran) \in Nat
    BY <2>0 DEF Typed
  <2>2. Behind = Len(asked)
    BY <2>1 DEF Behind
  <2>3. ASSUME Ran
        PROVE  \A i, j \in 1 .. Len(ran) : i < j => ran[i] < ran[j]
    <3>1. ASSUME NEW i \in 1 .. Len(ran), NEW j \in 1 .. Len(ran), i < j PROVE ran[i] < ran[j]
      <4>1. ran[j] - ran[i] >= j - i /\ ran[i] \in Int /\ ran[j] \in Int
        BY <2>3, <3>1 DEF Ran
      <4>2. QED
        BY <3>1, <4>1
    <3>2. QED
      BY <3>1
  <2>4. ASSUME ~subclass.reports PROVE InOrder(ran, DOMAIN asked)
    <3>1. Ran /\ Len(ran) = Len(asked)
      BY <2>0, <2>2, <2>4 DEF Accounts, Strict
    <3>2. ASSUME NEW i \in 1 .. Len(asked) PROVE ran[i] = i
      <4>1. /\ 1 \in 1 .. Len(ran) /\ Len(ran) \in 1 .. Len(ran) /\ i \in 1 .. Len(ran)
            /\ 1 <= i /\ i <= Len(ran)
        BY <2>1, <3>1
      <4>2. /\ ran[i] - ran[1] >= i - 1 /\ ran[Len(ran)] - ran[i] >= Len(ran) - i
            /\ ran[1] \in 1 .. Len(asked) /\ ran[i] \in 1 .. Len(asked)
            /\ ran[Len(ran)] \in 1 .. Len(asked)
        BY <3>1, <4>1 DEF Ran
      <4>3. QED
        BY <2>1, <3>1, <4>1, <4>2
    <3>3. { ran[i] : i \in DOMAIN ran } = DOMAIN asked
      BY <2>1, <3>1, <3>2
    <3>4. QED
      BY <2>1, <2>3, <3>1, <3>3 DEF InOrder
  <2>5. ASSUME subclass.reports, ~strayed, NoneRepeated PROVE InOrder(ran, DOMAIN asked \ missing)
    <3>1. Ran /\ Noted
      BY <2>0, <2>5 DEF Accounts
    <3>2. { ran[i] : i \in DOMAIN ran } = DOMAIN asked \ missing
      <4>1. ASSUME NEW i \in 1 .. Len(ran) PROVE ran[i] \in DOMAIN asked \ missing
        BY <2>1, <3>1 DEF Ran, Noted
      <4>2. ASSUME NEW k \in DOMAIN asked \ missing PROVE \E i \in 1 .. Len(ran) : ran[i] = k
        BY <2>1, <2>2, <3>1 DEF Noted
      <4>3. QED
        BY <2>1, <4>1, <4>2
    <3>3. QED
      BY <2>1, <2>3, <3>1, <3>2 DEF InOrder
  <2>6. QED
    BY <2>4, <2>5
<1>2. QED
  BY <1>1, BufferInvariance, PTL

(* checkRecording never says that data are the same when they have changed, *)
(* whatever an exception has left in the recording before.                  *)
THEOREM ChangesAreNoticed == ModbusBufferSpec => []ChangeNoticed
<1>1. BufferInv => ChangeNoticed
  BY DEF BufferInv, Watched, ChangeNoticed
<1>2. QED
  BY <1>1, BufferInvariance, PTL
=============================================================================
