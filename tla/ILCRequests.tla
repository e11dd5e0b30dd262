----------------------------- MODULE ILCRequests -----------------------------
(* The requests to ILCs byte by byte: what the methods of ILCBusList,         *)
(* ElectromechanicalPneumaticILC and ThermalILC write into a Modbus::Buffer,  *)
(* and the words FPGA::ilcCommands makes of it. The older ModbusBuffer writes *)
(* and reads the same bytes.                                                  *)
(*                                                                            *)
(* Outside: the FPGA, which runs the words; the line, which may spoil a bit   *)
(* or a byte of a frame; and the ILCs, which check the CRC in their own way   *)
(* and read the arguments of the functions they know.                         *)
EXTENDS ILCReplies, FiniteSetsExt

CONSTANTS
    RequestLists,   \* what callers do, a sequence of lists of calls,
                    \* [method, address, args]
    NUM_TS_ILC,     \* thermal ILCs on the bus, addressed from 1
    TxCommand,      \* getTxCommand
    MaxSpoilt       \* bound: the line is quiet when the counter is above

ASSUME ILCRequestsAssumption ==
    /\ \A i \in DOMAIN RequestLists : RequestLists[i] # << >>
    /\ NUM_TS_ILC \in Nat
    /\ TxCommand \in 0 .. 65535

VARIABLES
    caller,             \* which of the RequestLists the methods are called for
    counter,            \* _broadcastCounter
    commands,           \* the list: buffers with their timings
    fifo,               \* what is in the command FIFO
    heard,              \* for each frame, what became of it
    trigger,            \* _modbusSoftwareTrigger
    lastCounter         \* the counter of the last broadcast on the line

ilcRequests == << caller, counter, commands, fifo, heard, trigger, lastCounter >>

ILCRequestsInit ==
    /\ caller \in DOMAIN RequestLists
    /\ commands = << >> /\ fifo = << >> /\ heard = << >>
    /\ counter = 0
    /\ trigger \in {252, 0}
    /\ lastCounter = -1

----------------------------------------------------------------------------
(* Bytes and checksums.                                                       *)

Width(type) ==
    CASE type \in {"int8", "uint8"} -> 1 [] type \in {"int16", "uint16"} -> 2
      [] type = "int24" -> 3 [] type \in {"int32", "float"} -> 4

\* Mutant: the least significant byte first.
write_little(type, v) == [k \in 1 .. Width(type) |-> (v \div 256 ^ (k - 1)) % 256]

\* Buffer::write and writeI24; a float by the number its bits are
write(type, v) == [k \in 1 .. Width(type) |-> (v \div 256 ^ (Width(type) - k)) % 256]

\* Parser::read, which extends the sign; of the signed types none is longer
\* than the number of TLC
read(type, bytes) ==
    LET first == IF type \in {"int8", "int16", "int24", "int32", "float"} /\ bytes[1] > 127
                 THEN bytes[1] - 256 ELSE bytes[1]
    IN  FoldLeft(LAMBDA v, byte : 256 * v + byte, first, Tail(bytes))

Bits(byte) == { i \in 0 .. 7 : (byte \div 2 ^ i) % 2 = 1 }
Byte(bits) == MapThenSumSet(LAMBDA i : 2 ^ i, bits)
Xor(a, b) == (a \ b) \cup (b \ a)

\* The register of Modbus::CRC as the set of the bits that are set
Polynomial == {0, 13, 15}
Right(register) == { i - 1 : i \in register \ {0} }

\* The register goes on by one; bit is what comes in then, if anything does.
Shift(register, bit) ==
    IF (0 \in register) # bit THEN Xor(Right(register), Polynomial) ELSE Right(register)

\* It goes on by eight. (That the register is taken from a set has TLC know it first.)
ShiftEight(register, in) ==
    UNION { Shift(Shift(Shift(Shift(Shift(Shift(Shift(Shift(r, 0 \in in), 1 \in in), 2 \in in),
                3 \in in), 4 \in in), 5 \in in), 6 \in in), 7 \in in) : r \in {register} }

\* CRC::add
add(register, byte) == ShiftEight(Xor(register, Bits(byte)), {})

\* CRC, of bytes
CRC(bytes) == FoldLeft(add, 0 .. 15, bytes)

writeCRC(bytes) ==
    LET crc == CRC(bytes)
    IN  bytes \o << Byte(crc \cap (0 .. 7)), Byte({ i - 8 : i \in crc \ (0 .. 7) }) >>

----------------------------------------------------------------------------
(* The methods.                                                               *)

int24(v) == << "int24", v >>
Slew(slewFlag) == << "uint8", IF slewFlag THEN 255 ELSE 0 >>

\* two of each ILC, one after the other
Interleaved(heaterPWM, fanRPM) ==
    [i \in 1 .. 2 * NUM_TS_ILC |->
        << "uint8", IF i % 2 = 1 THEN heaterPWM[(i + 1) \div 2] ELSE fanRPM[i \div 2] >>]

nextBroadcastCounter == IF counter + 1 > 15 THEN 0 ELSE counter + 1

\* [func, timing and parameters] of a call: those without parameters,
Plain(method) ==
    CASE method = "reportServerID" -> 17 [] method = "reportServerStatus" -> 18
      [] method = "resetServer" -> 107 [] method = "reportStepperForceStatus" -> 67
      [] method = "reportDCAGain" -> 74 [] method = "reportForceActuatorForceStatus" -> 76
      [] method = "reportCalibrationData" -> 110 [] method = "reportMezzaninePressure" -> 119
      [] method = "reportHardpointLVDT" -> 122 [] method = "reportThermalStatus" -> 89
      [] method = "reportReHeaterGains" -> 93 [] OTHER -> 0

\* those with,
Unicasting(method, args) ==
    CASE method = "changeILCMode" -> << 65, << "uint16", args[1] >> >>
      [] method = "setTempILCAddress" -> << 72, << "uint8", args[1] >> >>
      [] method = "setStepperSteps" -> << 66, << "int8", args[1] >> >>
      [] method = "setDCAGain" -> << 73, << "float", args[1] >>, << "float", args[2] >> >>
      [] method = "setSAAForceOffset" -> << 75, Slew(args[1]), int24(args[2]) >>
      [] method = "setDAAForceOffset" -> << 75, Slew(args[1]), int24(args[2]), int24(args[3]) >>
      [] method = "setOffsetAndSensitivity" ->
             << 81, << "uint8", args[1] >>, << "float", args[2] >>, << "float", args[3] >> >>
      [] method = "setThermalDemand" -> << 88, << "uint8", args[1] >>, << "uint8", args[2] >> >>
      [] method = "setReHeaterGains" -> << 92, << "float", args[1] >>, << "float", args[2] >> >>

\* and broadcasts, as [func, delay], the counter and the data.
Broadcasts == {"broadcastStepperSteps", "freezeSensor", "broadcastThermalDemand"}
Broadcasting(method, args) ==
    CASE method = "broadcastStepperSteps" ->
             << 66, 1800, << << "uint8", args[1] >> >> \o
                [i \in DOMAIN args[2] |-> << "int8", args[2][i] >>] >>
      [] method = "freezeSensor" -> << 68, 180, << << "uint8", args[1] >> >> >>
      [] method = "broadcastThermalDemand" ->
             << 88, 450, << << "uint8", nextBroadcastCounter >> >> \o Interleaved(args[1], args[2]) >>

\* BusList::callFunction
Command(address, func, timing, params) ==
    [buffer |-> writeCRC(FlattenSeq(
         << << address >>, << func >> >> \o [i \in DOMAIN params |-> write(params[i][1], params[i][2])])),
     timing |-> timing]

\* The mode of the ILC is not known to be Bootloader.
ModeTiming(mode) == IF mode = 3 THEN 100000 ELSE Timing(65)

CommandOf(call) ==
    IF call.method \in Broadcasts
    THEN LET b == Broadcasting(call.method, call.args) IN Command(call.address, b[1], b[2], b[3])
    ELSE IF Plain(call.method) # 0
    THEN Command(call.address, Plain(call.method), Timing(Plain(call.method)), << >>)
    ELSE LET u == Unicasting(call.method, call.args)
         IN  Command(call.address, u[1],
                     IF u[1] = 65 THEN ModeTiming(call.args[1]) ELSE Timing(u[1]), Tail(u))

called == SubSeq(RequestLists[caller], 1, Len(commands))

Call ==
    /\ fifo = << >>
    /\ Len(commands) < Len(RequestLists[caller])
    /\ LET call == RequestLists[caller][Len(commands) + 1]
       IN  /\ commands' = Append(commands, CommandOf(call))
           /\ counter' = IF call.method = "broadcastThermalDemand" THEN nextBroadcastCounter
                         ELSE counter
    /\ UNCHANGED << caller, fifo, heard, trigger, lastCounter >>

----------------------------------------------------------------------------
(* FPGA::ilcCommands.                                                         *)

TX_MASK == 4608             \* 0x1200
TX_FRAMEEND == 8410         \* 0x20DA
TX_TIMESTAMP == 12288       \* 0x3000
TX_WAIT_RX == 24576         \* 0x6000
TX_IRQTRIGGER == 28672      \* 0x7000
TX_WAIT_TRIGGER == 32768    \* 0x8000
TX_WAIT_LONG_RX == 36864    \* 0x9000

\* of disjoint bits, or is +
WaitWord(timing) ==
    IF timing > 4095 THEN ((timing \div 1000 + 1) % 4096) + TX_WAIT_LONG_RX
    ELSE timing + TX_WAIT_RX

Words(cmds) ==
    << TX_WAIT_TRIGGER, TX_TIMESTAMP >> \o
    FlattenSeq([i \in DOMAIN cmds |->
        [k \in DOMAIN cmds[i].buffer |-> TX_MASK + 2 * cmds[i].buffer[k]] \o
        << TX_FRAMEEND, WaitWord(cmds[i].timing) >>]) \o
    << TX_IRQTRIGGER >>

writeCommandFIFO ==
    /\ Len(commands) = Len(RequestLists[caller])
    /\ fifo = << >>
    /\ fifo' = << TxCommand, Len(Words(commands)) >> \o Words(commands) \o << trigger >>
    /\ UNCHANGED << caller, counter, commands, heard, trigger, lastCounter >>

\* The caller clears the list when ilcCommands has returned.
clearList ==
    /\ fifo # << >>
    /\ Len(heard) = Len(commands)
    /\ caller' \in DOMAIN RequestLists
    /\ commands' = << >> /\ fifo' = << >> /\ heard' = << >>
    /\ UNCHANGED << counter, trigger, lastCounter >>

----------------------------------------------------------------------------
(* The FPGA, the line and the ILCs.                                           *)

\* The words of a bus program, as many as the second word says; the word after
\* them is another command.
BusProgram == SubSeq(fifo, 3, fifo[2] + 2)

Ends == { i \in DOMAIN BusProgram : BusProgram[i] = TX_FRAMEEND }
Ended(n) == CHOOSE i \in Ends : Cardinality({ j \in Ends : j <= i }) = n
FrameWords(n) == SubSeq(BusProgram, IF n = 1 THEN 3 ELSE Ended(n - 1) + 2, Ended(n) - 1)
Transmitted(n) == [k \in DOMAIN FrameWords(n) |-> (FrameWords(n)[k] \div 2) % 256]

\* what a wait is, in us, as readDelay has it of delays
Delay(word) == IF word < TX_WAIT_LONG_RX THEN word % 4096 ELSE 1000 * (word % 4096)

\* The checksum as the bits come in: the one of a frame with its CRC is 0.
Serial(register, byte) == ShiftEight(register, Bits(byte))
Residue(bytes) == FoldLeft(Serial, 0 .. 15, bytes)

\* The types of the arguments of a function
Knows(address, func, n) ==
    CASE address = 248 -> << "uint8" >> \o [i \in 1 .. n - 1 |-> "int8"]
      [] address = 250 -> [i \in 1 .. n |-> "uint8"]
      [] func = 65 -> << "uint16" >> [] func = 72 -> << "uint8" >> [] func = 66 -> << "int8" >>
      [] func \in {73, 92} -> << "float", "float" >>
      [] func = 75 -> << "uint8", "int24" >> \o IF n > 4 THEN << "int24" >> ELSE << >>
      [] func = 81 -> << "uint8", "float", "float" >>
      [] func = 88 -> << "uint8", "uint8" >>
      [] OTHER -> << >>

Values(types, bytes) ==
    [i \in DOMAIN types |->
        LET before == FoldLeft(LAMBDA n, type : n + Width(type), 0, SubSeq(types, 1, i - 1))
        IN  read(types[i], SubSeq(bytes, before + 1, before + Width(types[i])))]

Heard(bytes) ==
    IF Len(bytes) < 4 \/ Residue(bytes) # {} THEN [address |-> -1]
    ELSE LET data == SubSeq(bytes, 3, Len(bytes) - 2)
         IN  [address |-> bytes[1], func |-> bytes[2],
              values |-> Values(Knows(bytes[1], bytes[2], Len(data)), data)]

\* A bit or a byte is changed on the line, in one frame of a list.
Spoilings(bytes) ==
    IF counter > MaxSpoilt \/ (\E i \in DOMAIN heard : heard[i].spoilt) THEN {}
    ELSE { [bytes EXCEPT ![k] = Byte(Xor(Bits(@), bits))] :
               k \in DOMAIN bytes, bits \in { {i} : i \in 0 .. 7 } \cup { 0 .. 7 } }

IsDemand(call) == call.method = "broadcastThermalDemand"

Transmit ==
    /\ fifo # << >>
    /\ Len(heard) < Len(commands)
    /\ LET n == Len(heard) + 1
           bytes == Transmitted(n)
       IN  /\ \E received \in { bytes } \cup Spoilings(bytes) :
                 heard' = Append(heard,
                     [by |-> Heard(received), spoilt |-> received # bytes,
                      again |-> IsDemand(called[n]) /\ bytes[3] = lastCounter,
                      wait |-> Delay(BusProgram[Ended(n) + 1])])
           /\ lastCounter' = IF IsDemand(called[n]) THEN bytes[3] ELSE lastCounter
    /\ UNCHANGED << caller, counter, commands, fifo, trigger >>

ILCRequestsNext ==
    \/ Call
    \/ writeCommandFIFO
    \/ Transmit
    \/ clearList

----------------------------------------------------------------------------
\* What a caller has meant: the function, by its number in LTS-646, and values.
Meant(call) ==
    LET a == call.args
    IN  CASE call.method = "changeILCMode" -> << 65, a >>
          [] call.method = "setTempILCAddress" -> << 72, a >>
          [] call.method = "setStepperSteps" -> << 66, a >>
          [] call.method = "setDCAGain" -> << 73, a >>
          [] call.method \in {"setSAAForceOffset", "setDAAForceOffset"} ->
                 << 75, << IF a[1] THEN 255 ELSE 0 >> \o Tail(a) >>
          [] call.method = "setOffsetAndSensitivity" -> << 81, a >>
          [] call.method = "setThermalDemand" -> << 88, a >>
          [] call.method = "setReHeaterGains" -> << 92, a >>
          [] call.method = "broadcastStepperSteps" -> << 66, << a[1] >> \o a[2] >>
          [] call.method = "freezeSensor" -> << 68, a >>
          [] OTHER -> << Plain(call.method), << >> >>

\* A demand of +-8388.607 N or more does not go into 24 bits.
InRange(call) ==
    call.method \in {"setSAAForceOffset", "setDAAForceOffset"} =>
        \A i \in 2 .. Len(call.args) : call.args[i] \in -8388608 .. 8388607

Takes(by, call) ==
    IF IsDemand(call)
    THEN /\ by.address = call.address /\ by.func = 88
         /\ \A n \in 1 .. NUM_TS_ILC :
               by.values[2 * n] = call.args[1][n] /\ by.values[2 * n + 1] = call.args[2][n]
    ELSE by = [address |-> call.address, func |-> Meant(call)[1], values |-> Meant(call)[2]]

\* An ILC understands what the method was called with, function, arguments and
\* signs, and nothing of a frame that has a changed bit or byte; a thermal ILC
\* finds its own demand in a broadcast, under a counter that is not that of the
\* broadcast before; the FPGA waits as long as the method asks for, and goes on
\* with the trigger after the last word of the list.
Understood ==
    /\ \A i \in DOMAIN heard :
          /\ IF heard[i].spoilt THEN heard[i].by = [address |-> -1]
             ELSE InRange(called[i]) => Takes(heard[i].by, called[i]) /\ ~heard[i].again
          /\ heard[i].wait >= commands[i].timing
    /\ fifo # << >> => SubSeq(fifo, fifo[2] + 3, Len(fifo)) = << trigger >>
=============================================================================
