----------------------------- MODULE ILCReplies -----------------------------
(* The answers of ILCs byte by byte: what the FPGA's words are decoded to in  *)
(* FPGA::ilcCommands, how Modbus::Parser reads a frame, and what the actions  *)
(* of ILCBusList, ElectromechanicalPneumaticILC, ThermalILC and SensorMonitor *)
(* make of it. ILCCommands has the walk along the list, in which a frame here *)
(* goes to the first command that it fits.                                    *)
(*                                                                            *)
(* Outside: the ILCs, which answer as those of the tests do, as late as the   *)
(* timing of the command allows; the FPGA, which waits as long as it is told; *)
(* and the line, where bytes are spoiled or lost, or two frames run together. *)
EXTENDS Integers, Sequences, SequencesExt

CONSTANTS
    ILCLists,   \* lists of commands, [address, func]
    Names,      \* lengths of the firmware name
    Sensors,    \* numbers of sensor values
    Noise       \* what a byte may be read as that is not what was sent as one

\* The functions of ILCBusList; ILC_EM_CMD, ILC_THERMAL_CMD and
\* SENSOR_MONITOR_CMD, as far as answered
ILC_CMD == {17, 18, 65, 72, 107}
ILC_EM_CMD == {66, 67, 73, 74, 75, 76, 81, 110, 119, 122}
ILC_THERMAL_CMD == {88, 89, 92, 93}
SENSOR_VALUES == 84

Functions == ILC_CMD \cup ILC_EM_CMD \cup ILC_THERMAL_CMD \cup {SENSOR_VALUES}

\* the functions with an error action
ErrorsHandled == {65}

ASSUME ILCRepliesAssumption ==
    /\ \A cmds \in ILCLists : cmds \in Seq([address : 1 .. 255, func : Functions])
    /\ Names \subseteq Nat /\ Sensors \subseteq Nat
    /\ Noise \subseteq 0 .. 255

VARIABLES
    list,           \* the commands
    parsed,         \* _parsed_index
    step,           \* "bus", "decode", and how it ended: "normal" or "thrown"
    words,          \* what the FPGA has received and ilcCommands not decoded
    decoded,        \* the bytes of the frame so far
    stamps,         \* endTsShift, in bytes
    handed,         \* what the process... methods were called with
    told,           \* what became of each command: what its ILC has answered
    tail            \* what the FPGA puts after a frame

ilcReplies == << list, parsed, step, words, decoded, stamps, handed, told, tail >>

\* The order in a comment of ilcCommands, and that of TestFPGA
Tails == { << [is |-> "end"], [is |-> "stamp"] >>, << [is |-> "stamp"], [is |-> "end"] >> }

ILCRepliesInit ==
    /\ list = << >> /\ parsed = 0 /\ step = "normal"
    /\ words = << >> /\ decoded = << >> /\ stamps = 0
    /\ handed = << >> /\ told = << >>
    /\ tail \in Tails

----------------------------------------------------------------------------
(* Bytes: the k-th of the number v of so many, one of the checksum of a       *)
(* payload, or one that was spoiled.                                          *)

Field(v, n) == [k \in 1 .. n |-> [v |-> v, k |-> k, of |-> n]]
Spoilt == [spoilt |-> TRUE]

\* address() and func(): a byte by itself, which is a number if it was sent as
\* one. What was spoiled, or has come to this place from another, may be any of
\* Noise, the address and the function of another command, or of its refusal,
\* included.
Octet(byte) == IF "of" \in DOMAIN byte /\ byte.of = 1 THEN { byte.v } ELSE Noise

\* Modbus::CRC, as good as the payload it is of
Sealed(payload) == payload \o << [crc |-> payload, k |-> 1], [crc |-> payload, k |-> 2] >>

\* read<...>, of the n bytes after the first i; -1 for what nobody has sent, which
\* the checksum, if it is looked at, does not fit
Read(bytes, i, n) ==
    IF n = 0 THEN 0
    ELSE IF "v" \notin DOMAIN bytes[i + 1] THEN -1
    ELSE IF SubSeq(bytes, i + 1, i + n) = Field(bytes[i + 1].v, n) THEN bytes[i + 1].v
    ELSE -1

\* How far a parser has come, with address and function, after i fields
Reached(sizes) ==
    LET reached[i \in 0 .. Len(sizes)] == IF i = 0 THEN 2 ELSE reached[i - 1] + sizes[i]
    IN  reached

Fields(bytes, sizes) ==
    [i \in DOMAIN sizes |-> Read(bytes, Reached(sizes)[i - 1], sizes[i])]

Floats(n) == [i \in 1 .. n |-> 4]

----------------------------------------------------------------------------
(* The actions. What each reads, as the sizes of its fields, unless it throws *)
(* before the checksum.                                                       *)

NoLayout == << -1 >>

ILCBusListLayout(func, bytes) ==
    CASE func = 17 -> IF Read(bytes, 2, 1) < 12 THEN NoLayout
                      ELSE << 1, 6, 1, 1, 1, 1, 1, 1, Read(bytes, 2, 1) - 12 >>
      [] func = 18 -> << 1, 2, 2 >>
      [] func = 65 -> << 2 >>
      [] func = 72 -> << 1 >>
      [] func = 107 -> << >>

ElectromechanicalLayout(func, bytes) ==
    CASE func \in {66, 67} -> << 1, 4, 4 >>
      [] func \in {75, 76} -> CASE Len(bytes) = 9 -> << 1, 4 >>
                                [] Len(bytes) = 13 -> << 1, 4, 4 >>
                                [] OTHER -> NoLayout
      [] func \in {74, 122} -> Floats(2)
      [] func = 110 -> Floats(24)
      [] func = 119 -> Floats(4)
      [] func \in {73, 81} -> << >>

ThermalLayout(func) ==
    CASE func \in {88, 89} -> << 1, 4, 1, 4 >>
      [] func = 92 -> << >>
      [] func = 93 -> Floats(2)

SensorLayout(bytes) ==
    IF Len(bytes) % 4 = 0 THEN Floats(Len(bytes) \div 4 - 1) ELSE NoLayout

Layout(func, bytes) ==
    CASE func \in ILC_EM_CMD -> ElectromechanicalLayout(func, bytes)
      [] func \in ILC_THERMAL_CMD -> ThermalLayout(func)
      [] func = SENSOR_VALUES -> SensorLayout(bytes)
      [] OTHER -> ILCBusListLayout(func, bytes)

\* the functions of which no method is told
Silently == {73, 81, 92}

\* Mutant: bytes after the checksum are not minded.
SealedThere(bytes, n) ==
    /\ Len(bytes) >= n + 2
    /\ SubSeq(bytes, 1, n + 2) = Sealed(SubSeq(bytes, 1, n))

\* checkCRC, after n bytes; readBuffer throws at the end of the bytes.
checkCRC(bytes, n) == Len(bytes) >= n /\ bytes = Sealed(SubSeq(bytes, 1, n))

\* the action comes to its end; that of SENSOR_VALUES does without the checksum
Acts(func, bytes) ==
    /\ Layout(func, bytes) # NoLayout
    /\ func = SENSOR_VALUES \/ LET sizes == Layout(func, bytes) IN checkCRC(bytes, Reached(sizes)[Len(sizes)])

\* What its process... method is called with. That of the mezzanine pressures
\* takes the last two the other way round; that of the identification does not
\* get the length.
Swapped(fields) == << fields[1], fields[2], fields[4], fields[3] >>

ILCBusListArguments(func, fields) == IF func = 17 THEN Tail(fields) ELSE fields

ElectromechanicalArguments(func, fields) == IF func = 119 THEN Swapped(fields) ELSE fields

Arguments(func, bytes) ==
    LET fields == Fields(bytes, Layout(func, bytes))
    IN  IF func \in ILC_EM_CMD THEN ElectromechanicalArguments(func, fields)
        ELSE ILCBusListArguments(func, fields)

----------------------------------------------------------------------------
(* FPGA::ilcCommands.                                                         *)

\* The time a command is given, in us, by the methods that call it
ILCBusListTiming(func) ==
    CASE func = 17 -> 835
      [] func = 18 -> 270
      [] func = 65 -> 335
      [] func = 72 -> 250
      [] func = 107 -> 86840

ElectromechanicalTiming(func) ==
    CASE func \in {66, 67, 75, 76, 110, 119} -> 1800
      [] func = 73 -> 40000
      [] func = 74 -> 2000
      [] func = 81 -> 36500
      [] func = 122 -> 400

ThermalTiming(func) ==
    CASE func \in {88, 89} -> 500
      [] func = 92 -> 500000
      [] func = 93 -> 300

SensorTiming == 400

Timing(func) ==
    CASE func \in ILC_EM_CMD -> ElectromechanicalTiming(func)
      [] func \in ILC_THERMAL_CMD -> ThermalTiming(func)
      [] func = SENSOR_VALUES -> SensorTiming
      [] OTHER -> ILCBusListTiming(func)

\* What the FPGA is told to wait, in us
Wait(timing) ==
    IF timing > 4095 THEN 1000 * ((timing \div 1000 + 1) % 4096) ELSE timing

ilcCommands(cmds) ==
    /\ step \in {"normal", "thrown"}
    /\ cmds # << >>
    /\ list' = cmds
    /\ parsed' = 0
    /\ step' = "bus"
    /\ words' = << >> /\ decoded' = << >> /\ stamps' = 0
    /\ handed' = << >> /\ told' = << >>
    /\ UNCHANGED tail

Throw == step' = "thrown" /\ UNCHANGED << parsed, handed >>

\* The first command that the frame fits, none being past the end of the list
Fits(i, address, func) ==
    /\ i > parsed
    /\ address = list[i].address
    /\ func \in {list[i].func, list[i].func + 128}

\* parse, of a whole frame: the checksum is for an action to check, and an error
\* action does not.
parseAs(address, func) ==
    LET fit == { i \in DOMAIN list : Fits(i, address, func) }
    IN  IF fit = {} THEN Throw
        ELSE IF func > 128
        THEN IF func - 128 \in ErrorsHandled
             THEN parsed' = Min(fit) /\ UNCHANGED << step, handed >>
             ELSE Throw
        ELSE IF ~Acts(func, decoded) THEN Throw
        ELSE /\ parsed' = Min(fit)
             /\ handed' = IF func \in Silently THEN handed
                          ELSE Append(handed, [address |-> address, func |-> func,
                                               arguments |-> Arguments(func, decoded)])
             /\ UNCHANGED step

parse ==
    IF Len(decoded) < 4 THEN Throw
    ELSE \E address \in Octet(decoded[1]), func \in Octet(decoded[2]) : parseAs(address, func)

NumberOfWords ==
    FoldSeq(LAMBDA word, n : n + CASE word.is = "data" -> Len(word.bytes)
                                   [] word.is = "stamp" -> 8
                                   [] word.is = "end" -> 1, 0, words)

\* reading the response, less than four words of it being none
ReadResponse ==
    /\ step = "bus"
    /\ Len(told) = Len(list)
    /\ step' = IF NumberOfWords < 4 THEN "thrown" ELSE "decode"
    /\ UNCHANGED << list, parsed, words, decoded, stamps, handed, told, tail >>

DecodeData ==
    /\ step = "decode"
    /\ words # << >>
    /\ Head(words).is = "data"
    /\ decoded' = decoded \o Head(words).bytes
    /\ words' = Tail(words)
    /\ UNCHANGED << list, parsed, step, stamps, handed, told, tail >>

DecodeEnd ==
    /\ step = "decode"
    /\ words # << >>
    /\ Head(words).is = "end"
    /\ IF decoded = << >>
       THEN UNCHANGED << parsed, step, stamps, handed >>
       ELSE parse /\ stamps' = 0
    /\ decoded' = << >>
    /\ words' = Tail(words)
    /\ UNCHANGED << list, told, tail >>

\* The eight words of a timestamp: a frame ends with the first of them.
DecodeStamp ==
    /\ step = "decode"
    /\ words # << >>
    /\ Head(words).is = "stamp"
    /\ IF stamps = 8 \/ (decoded = << >> /\ stamps > 0)
       THEN Throw /\ UNCHANGED stamps
       ELSE IF decoded = << >>
       THEN stamps' = 8 /\ UNCHANGED << parsed, step, handed >>
       ELSE stamps' = 7 /\ parse
    /\ decoded' = << >>
    /\ words' = Tail(words)
    /\ UNCHANGED << list, told, tail >>

\* What is decoded and not ended is lost without a word.
Return ==
    /\ step = "decode"
    /\ words = << >>
    /\ step' = "normal"
    /\ UNCHANGED << list, parsed, words, decoded, stamps, handed, told, tail >>

----------------------------------------------------------------------------
(* The ILCs and the line.                                                     *)

\* The fields of an answer, as << value, size >>; bit tells two answers apart.
Floated(n, bit) == [i \in 1 .. n |-> << 2 * i + bit, 4 >>]

Identified(n, bit) ==
    << << 12 + n, 1 >>, << 2 + bit, 6 >> >> \o [i \in 1 .. 6 |-> << 2 * i + bit, 1 >>] \o
    << << IF n = 0 THEN 0 ELSE bit, n >> >>

Answers(func, bit) ==
    CASE func = 17 -> { Identified(n, bit) : n \in Names }
      [] func = 18 -> { << << bit, 1 >>, << 2 + bit, 2 >>, << 4 + bit, 2 >> >> }
      [] func = 65 -> { << << bit, 2 >> >> }
      [] func = 72 -> { << << bit, 1 >> >> }
      [] func \in {66, 67} -> { << << bit, 1 >> >> \o Floated(2, bit) }
      [] func \in {75, 76} -> { << << bit, 1 >> >> \o Floated(n, bit) : n \in 1 .. 2 }
      [] func \in {74, 93, 122} -> { Floated(2, bit) }
      [] func = 110 -> { Floated(24, bit) }
      [] func = 119 -> { Floated(4, bit) }
      [] func \in {88, 89} -> { << << bit, 1 >>, << 2 + bit, 4 >>, << 4 + bit, 1 >>, << 6 + bit, 4 >> >> }
      [] func = 84 -> { Floated(n, bit) : n \in Sensors }
      [] func \in {73, 81, 92, 107} -> { << >> }

Payload(address, func, fields) ==
    LET written[i \in 0 .. Len(fields)] ==
            IF i = 0 THEN Field(address, 1) \o Field(func, 1)
            ELSE written[i - 1] \o Field(fields[i][1], fields[i][2])
    IN  written[Len(fields)]

\* What the ILC has said with them
Meaning(func, fields) ==
    LET values == [i \in DOMAIN fields |-> fields[i][1]]
    IN  CASE func = 17 -> Tail(values)
          [] func = 119 -> << values[1], values[2], values[4], values[3] >>
          [] OTHER -> values

\* Bytes as the FPGA receives them: a byte spoiled or lost, or the end missing,
\* though in one frame of a list only
Received(bytes) ==
    { bytes } \cup
    IF \E i \in DOMAIN told : told[i].spoilt THEN {}
    ELSE UNION { { [bytes EXCEPT ![i] = Spoilt],
              RemoveAt(bytes, i), SubSeq(bytes, 1, i) } : i \in DOMAIN bytes }

\* The command on the bus, and the frame that comes for it: in time, if the
\* FPGA waits as long as the ILC may take; joined to the one before where the
\* FPGA does not see the gap between them.
OnBus == list[Len(told) + 1]

Sent(bytes, joined) ==
    IF Wait(Timing(OnBus.func)) < Timing(OnBus.func) THEN words
    ELSE IF joined THEN [words EXCEPT ![Len(words) - Len(tail)].bytes = @ \o bytes]
    ELSE words \o << [is |-> "data", bytes |-> bytes] >> \o tail

Say(said, bytes, meaning) ==
    \E received \in Received(bytes), joined \in BOOLEAN :
        /\ joined => words # << >>
        /\ words' = Sent(received, joined)
        /\ told' = Append(told, [said |-> said, address |-> OnBus.address,
                                 func |-> OnBus.func, arguments |-> meaning,
                                 spoilt |-> received # bytes, joined |-> joined])
        /\ UNCHANGED << list, parsed, step, decoded, stamps, handed, tail >>

ILCAnswers ==
    /\ step = "bus" /\ Len(told) < Len(list)
    /\ \E bit \in 0 .. 1 : \E fields \in Answers(OnBus.func, bit) :
          Say("answer", Sealed(Payload(OnBus.address, OnBus.func, fields)),
              Meaning(OnBus.func, fields))

ILCRefuses ==
    /\ step = "bus" /\ Len(told) < Len(list)
    /\ Say("error", Sealed(Payload(OnBus.address, OnBus.func + 128, << << 1, 1 >> >>)), << >>)

ILCIsSilent ==
    /\ step = "bus" /\ Len(told) < Len(list)
    /\ told' = Append(told, [said |-> "nothing", address |-> OnBus.address,
                             func |-> OnBus.func, arguments |-> << >>, spoilt |-> FALSE, joined |-> FALSE])
    /\ UNCHANGED << list, parsed, step, words, decoded, stamps, handed, tail >>

----------------------------------------------------------------------------

Decode == DecodeData \/ DecodeEnd \/ DecodeStamp

ILCRepliesNext ==
    \/ \E cmds \in ILCLists : ilcCommands(cmds)
    \/ ILCAnswers \/ ILCRefuses \/ ILCIsSilent
    \/ ReadResponse
    \/ Decode
    \/ Return

----------------------------------------------------------------------------
ILCRepliesSpec == ILCRepliesInit /\ [][ILCRepliesNext]_ilcReplies

----------------------------------------------------------------------------
Due == { i \in DOMAIN told : told[i].said = "answer" /\ told[i].func \notin Silently }

Called(answer) ==
    [address |-> answer.address, func |-> answer.func, arguments |-> answer.arguments]

\* Bytes were spoiled, lost or run together, and commands of such functions are
\* in the list.
Doubtful(funcs) ==
    /\ \E i \in DOMAIN told : told[i].spoilt \/ told[i].joined
    /\ \E i \in DOMAIN told : told[i].func \in funcs

\* Methods are called with what the ILCs have said and nothing else, whatever
\* of it was spoiled, lost or run together on the way, and a call of ilcCommands
\* that returns has called them for all that was said, in its order. Only in a
\* list with sensor values, whose checksum is not looked at, has all to arrive as
\* sent; and in one that changes a mode, so that the call has told everything,
\* for any frame may then have become a refusal, whose checksum is not looked at
\* either.
Delivered ==
    ~Doubtful({SENSOR_VALUES}) =>
        \E which \in [DOMAIN handed -> Due] :
            /\ \A i \in DOMAIN handed : handed[i] = Called(told[which[i]])
            /\ step = "normal" /\ ~Doubtful(ErrorsHandled) =>
                   /\ \A i, j \in DOMAIN handed : i < j => which[i] < which[j]
                   /\ \A d \in Due : \E i \in DOMAIN handed : which[i] = d
=============================================================================
