-------------------------------- MODULE MPU --------------------------------
(* LSST::cRIO::MPU (MPU.h, MPU.cpp), a bus list of reads and writes of one  *)
(* device's registers, and the transport that executes it: commands and     *)
(* execute_command (Transport.cpp, FPGASerialDevice.cpp). Answers do not    *)
(* say which registers they are of; the MPU keeps that in a list, from      *)
(* which the action of an answer takes the first element.                   *)
(*                                                                          *)
(* Outside the repository: the device, which answers the commands one after *)
(* the other, or not, or not in full; the serial line, which delivers the   *)
(* bytes in order and in pieces of any size; and the caller, who after a    *)
(* failure clears the list before it fills it again.                        *)
EXTENDS BusList, Integers

CONSTANTS
    Node,           \* _node_address
    Requests,       \* the commands callers put in the list
    Faults,         \* how the device may answer besides "proper"
    Readings,       \* what the device may answer with
    MaxAddress,     \* bound: register and input addresses
    MaxCommands,    \* bound: length of a list
    MaxInfo,        \* bound: length of _commanded_info
    MaxLine         \* bound: bytes and commands on their way at that time

READ_INPUT_STATUS == 2
READ_HOLDING_REGISTERS == 3
PRESET_HOLDING_REGISTER == 6
PRESET_HOLDING_REGISTERS == 16
MODBUS_CMD == {READ_INPUT_STATUS, READ_HOLDING_REGISTERS,
               PRESET_HOLDING_REGISTER, PRESET_HOLDING_REGISTERS}
MODBUS_ERROR_MASK == 128

Uint16 == 0 .. 65535

\* A command: count is the number of registers or inputs, value what to preset
Request == [address : {Node}, func : MODBUS_CMD, start : 0 .. MaxAddress,
            count : 1 .. MaxAddress, value : Uint16]

ASSUME MPUAssumption ==
    /\ Functions = MODBUS_CMD
    /\ Actions = MODBUS_CMD
    /\ ErrorActions = {}
    /\ Node \in Addresses
    /\ Addresses \subseteq 1 .. 255
    /\ Requests \subseteq Request
    /\ \A request \in Requests : request.start + request.count <= MaxAddress + 1
    /\ Faults \subseteq {"refused", "garbled", "stray"}
    /\ Readings \subseteq 0 .. 255
    /\ {MaxAddress, MaxCommands, MaxInfo, MaxLine} \subseteq Nat

VARIABLES
    list,       \* the bus list
    info,       \* _commanded_info
    cache,      \* _inputStatus and _registers
    pc,         \* "idle", "execute", "read", "parse" or "failed"
    next,       \* commands: the iterator
    answer,     \* execute_command: the bytes read so far
    ended,      \* how the last call of commands ended
    order,      \* commands written that the device has not answered
    line        \* bytes from the device that were not read

\* Auxiliary variables, read by properties alone.
VARIABLES
    quiet,      \* nothing was left of earlier calls when this one began
    told,       \* what the device answered in this call, if it was quiet
    footing     \* of _commanded_info: "sound", "doubtful" once something
                \* happened that may leave an info behind, "lost" once a call
                \* began with one left by that, or with an earlier answer still
                \* to come, or once a byte was changed

mpu == << list, info, cache >>
transport == << pc, next, answer, ended >>
device == << order, line >>
ghosts == << quiet, told, footing >>
vars == << mpu, transport, device, ghosts >>

----------------------------------------------------------------------------
(* Bytes. Those of a checksum stand for the bytes it was computed from.     *)

Byte(b) == [b |-> b]
Number(byte) == IF "b" \in DOMAIN byte THEN byte.b ELSE 0
Checked(payload) == payload \o << [crc |-> payload], [crc |-> payload] >>

\* read<uint16_t> at index i, from 1
Word(bytes, i) == 256 * Number(bytes[i]) + Number(bytes[i + 1])

\* checkCRC, with n bytes read
ChecksOut(bytes, n) ==
    /\ Len(bytes) >= n
    /\ bytes = Checked(SubSeq(bytes, 1, n))

Tables == {"input", "register"}
Cells == Tables \X (0 .. 2 * MaxAddress)
None == 65536

----------------------------------------------------------------------------
(* The MPU.                                                                 *)

CommandedInfo == [address : 0 .. MaxAddress, length : 0 .. MaxAddress]

\* Mutant: presetHoldingRegister adds no info.
InfosUnlessPreset(cmds) ==
    LET others == SelectSeq(cmds, LAMBDA c : c.func # PRESET_HOLDING_REGISTER)
    IN  [i \in DOMAIN others |-> [address |-> others[i].start,
                                  length |-> others[i].count]]

\* What readInputStatus ... presetHoldingRegisters add to _commanded_info
Infos(cmds) ==
    [i \in DOMAIN cmds |->
        [address |-> cmds[i].start,
         length |-> IF cmds[i].func = PRESET_HOLDING_REGISTER THEN 0
                    ELSE cmds[i].count]]

\* Mutant: an action that leaves its info in the list.
pop_front_forgets(infos) == infos

\* What front and pop_front do with an empty list is not defined.
pop_front(infos) == IF infos = << >> THEN infos ELSE Tail(infos)

\* 0 stands for the exception
responseLength(response) ==
    IF Len(response) < 2 THEN -1
    ELSE LET func == Number(response[2])
         IN  CASE func \in {READ_INPUT_STATUS, READ_HOLDING_REGISTERS} ->
                     IF Len(response) < 3 THEN -1 ELSE 5 + Number(response[3])
               [] func \in {PRESET_HOLDING_REGISTER, PRESET_HOLDING_REGISTERS} -> 8
               [] func >= MODBUS_ERROR_MASK -> 5
               [] OTHER -> 0

\* The loops store one item after the other until one cannot be read.
Readable(count, there) == IF count <= there THEN count ELSE there

\* The actions: what each stores, and whether it comes to its end.
ReadInputStatus(commanded) ==
    LET count == commanded.length
        fits == /\ commanded.address # 0
                /\ count # 0
                /\ (count + 7) \div 8 = Number(answer[3])
        bit(i) == (Number(answer[4 + i \div 8]) \div 2 ^ (i % 8)) % 2
    IN  [stored |-> [cell \in {"input"} \X { commanded.address + i :
                        i \in 0 .. (IF fits THEN Readable(count, 8 * (Len(answer) - 3)) ELSE 0) - 1 }
                     |-> bit(cell[2] - commanded.address)],
         good |-> fits /\ ChecksOut(answer, 3 + Number(answer[3]))]

ReadHoldingRegisters(commanded) ==
    LET len == Number(answer[3]) \div 2
    IN  [stored |-> [cell \in {"register"} \X { commanded.address + i :
                        i \in 0 .. Readable(len, (Len(answer) - 3) \div 2) - 1 }
                     |-> Word(answer, 4 + 2 * (cell[2] - commanded.address))],
         good |-> ChecksOut(answer, 3 + 2 * len)]

PresetHoldingRegister(commanded) ==
    LET fits == Len(answer) >= 6 /\ Word(answer, 3) = commanded.address
    IN  [stored |-> [cell \in IF fits THEN {<< "register", commanded.address >>} ELSE {}
                     |-> Word(answer, 5)],
         good |-> fits /\ ChecksOut(answer, 6)]

PresetHoldingRegisters(commanded) ==
    [stored |-> << >>,
     good |-> /\ Len(answer) >= 6
              /\ Word(answer, 3) = commanded.address
              /\ Word(answer, 5) = commanded.length
              /\ ChecksOut(answer, 6)]

Action(func, commanded) ==
    CASE func = READ_INPUT_STATUS -> ReadInputStatus(commanded)
      [] func = READ_HOLDING_REGISTERS -> ReadHoldingRegisters(commanded)
      [] func = PRESET_HOLDING_REGISTER -> PresetHoldingRegister(commanded)
      [] func = PRESET_HOLDING_REGISTERS -> PresetHoldingRegisters(commanded)

\* Mutant: BusList's own missing_response.
missing_response_of_list ==
    /\ list' = [list EXCEPT !.parsed_index = @ + 1]
    /\ UNCHANGED info

missing_response ==
    /\ list' = [list EXCEPT !.parsed_index = @ + 1]
    /\ info' = pop_front(info)

----------------------------------------------------------------------------
(* The transport and its caller.                                            *)

Init ==
    /\ list = EmptyList
    /\ info = << >>
    /\ cache = [cell \in Cells |-> None]
    /\ pc = "idle"
    /\ next = 1
    /\ answer = << >>
    /\ ended = "none"
    /\ order = << >>
    /\ line = << >>
    /\ quiet = TRUE
    /\ told = [cell \in Cells |-> None]
    /\ footing = "sound"

\* Something happened in a call that need not take its info out of the list.
Doubt == footing' = IF footing = "lost" THEN "lost" ELSE "doubtful"

Lists == UNION { [1 .. n -> Requests] : n \in 1 .. MaxCommands }

\* The caller fills the list and calls commands.
Commands(cmds) ==
    /\ pc = "idle"
    /\ Len(info) + Len(cmds) <= MaxInfo
    /\ Len(order) + Len(line) <= MaxLine
    /\ list' = Fill(list, cmds)
    /\ info' = info \o Infos(cmds)
    /\ pc' = "execute"
    /\ next' = 1
    /\ answer' = << >>
    /\ ended' = "none"
    /\ quiet' = (order = << >> /\ line = << >> /\ info = << >>)
    /\ told' = [cell \in Cells |-> None]
    /\ footing' = IF \/ footing = "lost" \/ order # << >> \/ line # << >>
                     \/ footing = "doubtful" /\ info # << >>
                  THEN "lost"
                  ELSE IF Len(cmds) = 1 THEN "sound" ELSE "doubtful"
    /\ UNCHANGED << cache, device >>

Fail(what) ==
    /\ pc' = "failed"
    /\ ended' = what
    /\ UNCHANGED << next, answer >>

\* execute_command begins and writes, unless the time is over.
Write ==
    /\ pc = "execute"
    /\ next <= Len(list.commands)
    /\ order' = Append(order, list.commands[next])
    /\ pc' = "read"
    /\ answer' = << >>
    /\ UNCHANGED << mpu, next, ended, line, ghosts >>

\* now >= end, or the FPGA reports an error
GiveUp ==
    /\ \/ pc = "execute" /\ next <= Len(list.commands)
       \/ pc = "read"
    /\ Fail("transport")
    /\ Doubt
    /\ UNCHANGED << mpu, device, quiet, told >>

\* Some more bytes. The wait ends with as many as are expected, as far as that
\* is known.
Receive ==
    /\ pc = "read"
    /\ \E n \in 1 .. Len(line) :
          LET received == answer \o SubSeq(line, 1, n)
              expected == responseLength(received)
          IN  /\ line' = SubSeq(line, n + 1, Len(line))
              /\ IF expected = 0
                 THEN Fail("function") /\ Doubt
                 ELSE /\ answer' = received
                      /\ pc' = IF expected \in 1 .. Len(received) THEN "parse" ELSE "read"
                      /\ UNCHANGED << next, ended, footing >>
    /\ UNCHANGED << mpu, order, quiet, told >>

\* The time is over: what was read is parsed.
TimeOut ==
    /\ pc = "read"
    /\ IF answer = << >>
       THEN /\ missing_response
            /\ Fail("missing")
       ELSE /\ pc' = "parse"
            /\ UNCHANGED << list, info, next, answer, ended >>
    /\ IF Len(answer) \in 1 .. 3 THEN Doubt ELSE UNCHANGED footing
    /\ UNCHANGED << cache, device, quiet, told >>

\* The frame as BusList sees it, given how its action would end
AsFrame(good) ==
    IF Len(answer) < 4
    THEN [address |-> Node, func |-> 0, kind |-> "short"]
    ELSE LET func == Number(answer[2])
         IN  [address |-> Number(answer[1]),
              func |-> func % MODBUS_ERROR_MASK,
              kind |-> IF func >= MODBUS_ERROR_MASK THEN "error"
                       ELSE IF good THEN "answer" ELSE "bad"]

\* What parse makes of the answer, with commanded the first info
Effect(commanded) == Action(Number(answer[2]), commanded)

Parsed(commanded) ==
    AsFrame(/\ Len(answer) >= 4
            /\ Number(answer[2]) \in MODBUS_CMD
            /\ Effect(commanded).good)

Ends(commanded) == Outcome(list, Parsed(commanded))

Parse ==
    /\ pc = "parse"
    /\ \E commanded \in IF info = << >> THEN CommandedInfo ELSE {Head(info)} :
          LET acts == Ends(commanded) \in {"handled", "bad"}
          IN  /\ info' = IF acts THEN pop_front(info) ELSE info
              /\ cache' = [cell \in Cells |->
                              IF acts /\ cell \in DOMAIN Effect(commanded).stored
                              THEN Effect(commanded).stored[cell] ELSE cache[cell]]
              /\ IF Ends(commanded) = "handled"
                 THEN /\ list' = next_message(parse(list, Parsed(commanded)))
                      /\ pc' = "execute"
                      /\ next' = next + 1
                      /\ UNCHANGED << answer, ended >>
                 ELSE /\ list' = parse(list, Parsed(commanded))
                      /\ Fail(Ends(commanded))
    /\ UNCHANGED << device, ghosts >>

\* All commands are executed: the list is cleared.
Return ==
    /\ pc = "execute"
    /\ next > Len(list.commands)
    /\ list' = Fill(list, << >>)
    /\ pc' = "idle"
    /\ ended' = "normal"
    /\ UNCHANGED << info, cache, next, answer, device, ghosts >>

\* After an exception the caller clears the list and sets its index back.
Recover ==
    /\ pc = "failed"
    /\ list' = next_message(Fill(list, << >>))
    /\ pc' = "idle"
    /\ UNCHANGED << info, cache, next, answer, ended, device, ghosts >>

\* The caller has the line flushed,
Flush ==
    /\ pc = "idle"
    /\ line' = << >>
    /\ UNCHANGED << mpu, transport, order, ghosts >>

\* or goes on with a new MPU.
Renew ==
    /\ pc = "idle"
    /\ list' = EmptyList
    /\ info' = << >>
    /\ cache' = [cell \in Cells |-> None]
    /\ ended' = "none"
    /\ footing' = "sound"
    /\ UNCHANGED << pc, next, answer, device, quiet, told >>

----------------------------------------------------------------------------
(* The device. What it reads as the word of a register has the register's   *)
(* address in its high byte.                                                *)

Octets(n) == (n + 7) \div 8

\* the inputs, eight in a byte, and the words of the registers
InputData(request, reading) ==
    [i \in 1 .. Octets(request.count) |-> Byte(reading)]

RegisterData(request, reading) ==
    [i \in 1 .. 2 * request.count |->
        Byte(IF i % 2 = 1 THEN request.start + i \div 2 ELSE reading)]

Payload(request, reading) ==
    << Byte(Node), Byte(request.func) >> \o
    CASE request.func = READ_INPUT_STATUS ->
            << Byte(Octets(request.count)) >> \o InputData(request, reading)
      [] request.func = READ_HOLDING_REGISTERS ->
            << Byte(2 * request.count) >> \o RegisterData(request, reading)
      [] request.func = PRESET_HOLDING_REGISTER ->
            << Byte(0), Byte(request.start),
               Byte(request.value \div 256), Byte(request.value % 256) >>
      [] request.func = PRESET_HOLDING_REGISTERS ->
            << Byte(0), Byte(request.start), Byte(0), Byte(request.count) >>

Reply(request, reading, how) ==
    LET payload == Payload(request, reading)
    IN  CASE how = "proper" -> Checked(payload)
          [] how = "garbled" -> [Checked(payload) EXCEPT ![4] = Byte(255)]
          [] how = "stray" -> Checked([payload EXCEPT ![1] = Byte(0)])
          [] how = "refused" ->
                Checked(<< Byte(Node), Byte(request.func + MODBUS_ERROR_MASK), Byte(2) >>)

\* What the caller learns from a proper answer
InputContent(request, reading) ==
    [cell \in {"input"} \X (request.start .. request.start + request.count - 1)
     |-> (reading \div 2 ^ ((cell[2] - request.start) % 8)) % 2]

RegisterContent(request, reading) ==
    [cell \in {"register"} \X (request.start .. request.start + request.count - 1)
     |-> 256 * cell[2] + reading]

Content(request, reading) ==
    CASE request.func = READ_INPUT_STATUS -> InputContent(request, reading)
      [] request.func = READ_HOLDING_REGISTERS -> RegisterContent(request, reading)
      [] request.func = PRESET_HOLDING_REGISTER ->
            [cell \in {<< "register", request.start >>} |-> request.value]
      [] request.func = PRESET_HOLDING_REGISTERS -> << >>

\* It answers the next command, or only begins to, or does not.
DeviceAnswers ==
    /\ order # << >>
    /\ \E reading \in Readings, how \in {"proper"} \cup Faults :
          LET content == Content(Head(order), reading)
              reply == Reply(Head(order), reading, how)
          IN  /\ \E n \in 0 .. Len(reply) : line' = line \o SubSeq(reply, 1, n)
              /\ told' = [cell \in Cells |->
                             IF quiet /\ cell \in DOMAIN content
                             THEN content[cell] ELSE told[cell]]
              /\ CASE how = "proper" -> UNCHANGED footing
                   [] how = "garbled" -> footing' = "lost"
                   [] OTHER -> Doubt
    /\ order' = Tail(order)
    /\ UNCHANGED << mpu, transport, quiet >>

----------------------------------------------------------------------------

CallerStep ==
    \/ \E cmds \in Lists : Commands(cmds)
    \/ Recover
    \/ Flush
    \/ Renew

TransportStep == Write \/ GiveUp \/ Receive \/ TimeOut \/ Parse \/ Return

Next == CallerStep \/ TransportStep \/ DeviceAnswers

Spec == Init /\ [][Next]_vars

\* Properties.

\* Types; the index stays within what a list can have.
TypeOK ==
    /\ list.commands \in Seq(Request)
    /\ list.parsed_index \in 0 .. MaxCommands
    /\ list.errors \in [Addresses -> 0 .. MaxErrors]
    /\ info \in Seq(CommandedInfo)
    /\ cache \in [Cells -> 0 .. None]
    /\ pc \in {"idle", "execute", "read", "parse", "failed"}
    /\ next \in 1 .. MaxCommands + 1
    /\ order \in Seq(Request)
    /\ quiet \in BOOLEAN
    /\ footing \in {"sound", "doubtful", "lost"}

\* An action never takes the first element of an empty _commanded_info, which
\* is undefined, whatever went wrong before.
FrontThere == pc \in {"read", "parse"} => info # << >>

\* A call of commands that began with nothing left of earlier ones and ends
\* normally has stored everything the device answered where it belongs, in
\* whatever pieces the answers came.
ReadsTrue ==
    pc = "idle" /\ ended = "normal" /\ quiet =>
        \A cell \in Cells : told[cell] # None => cache[cell] = told[cell]

\* The comment of _commanded_info: what is stored for a register was read at
\* its address. Words have the address they were read at in their high byte.
AddressWillBeRead ==
    \A cell \in Cells :
        cell[1] = "register" /\ cache[cell] # None => cache[cell] \div 256 = cell[2]

\* It is so in every call that begins with nothing left of earlier ones, on
\* which the line changes no byte: what is stored before an action fails is
\* right, too. And single commands leave nothing to the next call when they are
\* answered in full, not at all, or with at least the four bytes a frame must
\* have to reach its action. A shorter answer, an error response, a frame of
\* another device or an error of the FPGA may leave an info; if one does, the
\* calls that follow are lost, until there is a new MPU.
StoredWhereRead == footing # "lost" => AddressWillBeRead
=============================================================================
