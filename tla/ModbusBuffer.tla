---------------------------- MODULE ModbusBuffer ----------------------------
(* LSST::cRIO::ModbusBuffer: the older master of a Modbus line. A subclass   *)
(* calls functions, whose answers are matched with the queue of functions    *)
(* commanded, and registers an action for each; the action reads the data of *)
(* its answer, and may record them to see whether they have changed.         *)
(*                                                                           *)
(* Outside: the line, which delivers answers in the order of the calls, or   *)
(* loses, spoils or cuts them, and frames nobody has asked for; and the      *)
(* subclass, whose actions record as those of test_ModbusBuffer.cpp do.      *)
EXTENDS Integers, Sequences, FiniteSetsExt

CONSTANTS
    Calls,      \* [address, func] the subclass calls
    ErrorFunc,  \* error responses, and the function each is one of
    Handled,    \* error responses that have an action of their own
    Strays,     \* [address, func] of frames nobody has asked for: no answers
    Subclasses, \* [reports, watched, most]: see the variables
    Data,       \* what an answer that is watched may carry: pairs of values
    MaxRecords  \* bound: records left when a call or a response begins

Funcs == { call.func : call \in Calls }
Devices == { call.address : call \in Calls \cup Strays }

\* the function an answer or error response is of
Function(func) == IF func \in DOMAIN ErrorFunc THEN ErrorFunc[func] ELSE func

ASSUME ModbusBufferAssumption ==
    /\ Calls \cup Strays \subseteq [address : 0 .. 255, func : 0 .. 255]
    /\ DOMAIN ErrorFunc \subseteq (0 .. 255) \ Funcs
    /\ \A func \in DOMAIN ErrorFunc : ErrorFunc[func] \in Funcs
    /\ Handled \subseteq DOMAIN ErrorFunc
    /\ \A stray \in Strays :
          [address |-> stray.address, func |-> Function(stray.func)] \notin Calls
    /\ Subclasses \subseteq [reports : BOOLEAN, watched : SUBSET Funcs, most : Nat]
    /\ \A data \in Data : data \in Seq(Nat) /\ Len(data) = 2
    /\ MaxRecords \in Nat

VARIABLES
    subclass,       \* reports: handleMissingReply is overridden, and only
                    \* takes note; watched: the functions whose actions
                    \* record; most: bound, calls before the next clear
    commanded,      \* _commanded, each with the number of its call
    buffer,         \* the frames that processResponse has yet to come to
    processing,     \* processResponse is in its loop
    recordChanges,  \* _recordChanges
    records,        \* _records
    cached          \* what a subclass gives to checkRecording

\* The line, and what properties look at.
VARIABLES
    sent,           \* calls the line has not come to
    received,       \* frames that wait for processResponse
    asked,          \* the calls that expect an answer, since the last clear
    well,           \* since then nothing was thrown,
    strayed,        \* and since then there was a frame nobody has asked for
    ran,            \* the calls whose answers were given to actions, in order
    missing,        \* those that were reported missing
    last,           \* the data that were given last to an action that watches
    missed          \* checkRecording has found data the same that were not

buffers == << subclass, commanded, buffer, processing >>
recording == << recordChanges, records, cached >>
onLine == << sent, received >>
accounts == << asked, well, strayed, ran, missing >>
watch == << recording, last, missed >>
modbusBuffer == << buffers, watch, onLine, accounts >>

ModbusBufferInit ==
    /\ subclass \in Subclasses
    /\ commanded = << >> /\ buffer = << >> /\ processing = FALSE
    /\ recordChanges = FALSE /\ records = << >>
    /\ cached = [a \in Devices |-> << >>]
    /\ sent = << >> /\ received = << >>
    /\ asked = << >> /\ well = TRUE /\ strayed = FALSE /\ ran = << >> /\ missing = {}
    /\ last = [a \in Devices |-> << >>]
    /\ missed = FALSE

----------------------------------------------------------------------------
(* Calls.                                                                    *)

\* the addresses of which pushCommanded expects an answer
Unicast(address) == (address > 0 /\ address < 248) \/ address = 255

\* The bytes of a call, as processDataCRC gets them; zeros stand for the checksum.
Written(call) == << call.address, call.func, 0, 0 >>

\* callFunction; broadcastFunction, which never expects an answer, is the same
\* for its addresses, but for the counter and the data it writes, too. What is
\* written is recorded where an exception has left a recording on.
callFunction(call) ==
    /\ ~processing
    /\ Len(records) <= MaxRecords
    /\ records' = IF recordChanges THEN records \o Written(call) ELSE records
    /\ Len(sent) + Len(received) < subclass.most
    /\ Len(asked) < subclass.most /\ Len(commanded) < subclass.most
    /\ IF Unicast(call.address)
       THEN /\ commanded' = Append(commanded, [call |-> call, of |-> Len(asked) + 1])
            /\ sent' = Append(sent, [call |-> call, of |-> Len(asked) + 1])
            /\ asked' = IF well THEN Append(asked, call) ELSE asked
       ELSE UNCHANGED << commanded, sent, asked >>
    /\ UNCHANGED << subclass, buffer, processing, recordChanges, cached, last, missed,
                    received, well, strayed, ran, missing >>

\* Once something was thrown, the accounts are closed until the next clear.
Thrown ==
    /\ well' = FALSE
    /\ asked' = << >> /\ ran' = << >> /\ missing' = {}
    /\ UNCHANGED strayed

\* start_next_message, of _recordChanges and _records
StartRecording == recordChanges' = FALSE /\ records' = << >>

\* clear; the line is made quiet too.
clear(onlyBuffers) ==
    /\ ~processing
    /\ StartRecording
    /\ buffer' = << >>
    /\ IF onlyBuffers
       THEN UNCHANGED << commanded, onLine, accounts >>
       ELSE /\ commanded' = << >> /\ sent' = << >> /\ received' = << >>
            /\ asked' = << >> /\ well' = TRUE /\ strayed' = FALSE /\ ran' = << >> /\ missing' = {}
    /\ UNCHANGED << subclass, processing, cached, last, missed >>

\* Mutant: what is not answered is forgotten.
EmptyReturns == TRUE

\* checkCommandedEmpty throws unless this holds.
EmptyPasses == commanded = << >>

\* checkCommandedEmpty
checkCommandedEmpty ==
    /\ ~processing
    /\ IF EmptyPasses THEN UNCHANGED accounts ELSE Thrown
    /\ commanded' = << >>
    /\ UNCHANGED << subclass, buffer, processing, watch, onLine >>

----------------------------------------------------------------------------
(* Answers.                                                                  *)

\* How many elements at the head of the queue are of other addresses: the loop
\* of checkCommanded goes past them as long as handleMissingReply returns.
Passed(address) ==
    LET ofAddress == { i \in DOMAIN commanded : commanded[i].call.address = address }
    IN  IF ofAddress = {} THEN Len(commanded) ELSE Min(ofAddress) - 1

Skipped(address) ==
    IF subclass.reports THEN Passed(address)
    ELSE IF Passed(address) = 0 THEN 0 ELSE 1

\* The queue that checkCommanded leaves
Left(address) ==
    LET rest == SubSeq(commanded, Skipped(address) + 1, Len(commanded))
    IN  IF rest = << >> \/ (~subclass.reports /\ Skipped(address) > 0) THEN rest ELSE Tail(rest)

\* checkCommanded returns: not with an empty queue (EmptyCommanded), not for
\* the base class when the first element is of another device (MissingReply),
\* not for another function (UnmatchedFunction); but when handleMissingReply
\* has been told of all of the queue.
checkCommanded(address, func) ==
    /\ commanded # << >>
    /\ ~subclass.reports => Skipped(address) = 0
    /\ Skipped(address) < Len(commanded) =>
           commanded[Skipped(address) + 1].call.func = func

\* "spoiled": the CRC is wrong, or cut off; "cut": so are data.
FrameKinds == {"answer", "spoiled", "cut"}

\* How the rest of the iteration ends. Where a frame that is cut is not the
\* last, the next one is read for its data, and the CRC is wrong.
Result(frame) ==
    IF ~checkCommanded(frame.address, Function(frame.func)) THEN "unexpected"
    ELSE IF frame.func \notin Funcs \cup DOMAIN ErrorFunc THEN "unknown"
    ELSE CASE frame.kind = "answer" ->
                 IF frame.func \in DOMAIN ErrorFunc \ Handled THEN "exception" ELSE "good"
           [] frame.kind = "spoiled" -> "crc"
           [] frame.kind = "cut" -> IF Len(buffer) = 1 THEN "end" ELSE "crc"

\* What is in _records after the address and function are read,
Heading(frame) ==
    IF recordChanges THEN records \o << frame.address, frame.func >> ELSE records

\* and after the data, where an error response has but one.
Recording(frame) == recordChanges \/ frame.func \in subclass.watched

Recorded(frame) ==
    IF ~Recording(frame) THEN records
    ELSE IF frame.func \in DOMAIN ErrorFunc
    THEN Heading(frame) \o IF Result(frame) = "end" THEN << >> ELSE << frame.data[1] >>
    ELSE Heading(frame) \o IF Result(frame) = "end" THEN << frame.data[1] >> ELSE frame.data

\* Mutant: the cached values stay as they are.
CachedOnce(old, new) == IF old = << >> THEN new ELSE old

\* what checkRecording leaves in its argument
Cached(old, new) == new

\* checkRecording, at the end of an action that watches
checkRecording(frame) ==
    /\ cached' = [cached EXCEPT ![frame.address] =
                     IF @ = Recorded(frame) THEN @ ELSE Cached(@, Recorded(frame))]
    /\ missed' = \/ missed
                  \/ /\ cached[frame.address] = Recorded(frame)
                     /\ last[frame.address] # frame.data
    /\ last' = [last EXCEPT ![frame.address] = frame.data]
    /\ StartRecording

\* What the iteration does to the recording, which goes on where checkCRC was
\* not reached.
Records(frame) ==
    IF Result(frame) = "good" /\ frame.func \in subclass.watched THEN checkRecording(frame)
    ELSE /\ IF Result(frame) \in {"unexpected", "unknown"}
            THEN /\ records' = Heading(frame)
                 /\ UNCHANGED recordChanges
            ELSE /\ records' = Recorded(frame)
                 /\ recordChanges' = (Result(frame) = "end" /\ Recording(frame))
         /\ UNCHANGED << cached, last, missed >>

\* processResponse: setBuffer,
processResponse ==
    /\ ~processing
    /\ received # << >>
    /\ Len(records) <= MaxRecords
    /\ buffer' = received
    /\ received' = << >>
    /\ processing' = TRUE
    /\ UNCHANGED << subclass, commanded, watch, sent, accounts >>

\* the loop, which an exception leaves,
Iterate ==
    /\ processing
    /\ buffer # << >>
    /\ LET frame == Head(buffer)
           good == Result(frame) = "good"
       IN  /\ commanded' = IF commanded = << >> THEN << >> ELSE Left(frame.address)
           /\ Records(frame)
           /\ IF good /\ well
              THEN /\ ran' = Append(ran, frame.of)
                   /\ missing' = missing \cup
                        { commanded[i].of : i \in 1 .. Skipped(frame.address) }
                   /\ UNCHANGED << asked, well, strayed >>
              ELSE Thrown
           /\ buffer' = IF good THEN Tail(buffer) ELSE << >>
           /\ processing' = good
    /\ UNCHANGED << subclass, onLine >>

\* and its end.
Processed ==
    /\ processing
    /\ buffer = << >>
    /\ processing' = FALSE
    /\ UNCHANGED << subclass, commanded, buffer, watch, onLine, accounts >>

----------------------------------------------------------------------------
(* The line. What it does while a response is processed is of no importance  *)
(* to it. One stray frame is enough until the next clear.                    *)

Frame(call, of, func, kind, data) ==
    [address |-> call.address, func |-> func, kind |-> kind, data |-> data, of |-> of]

\* Data nobody watches are all alike.
Carried(func) == IF func \in subclass.watched THEN Data ELSE {<< 0, 0 >>}

Deliver ==
    /\ ~processing
    /\ sent # << >>
    /\ LET next == Head(sent)
       IN  \E data \in Carried(next.call.func), kind \in FrameKinds,
              func \in {next.call.func} \cup
                       { error \in DOMAIN ErrorFunc : ErrorFunc[error] = next.call.func } :
              received' = Append(received, Frame(next.call, next.of, func, kind, data))
    /\ sent' = Tail(sent)
    /\ UNCHANGED << buffers, watch, accounts >>

Lose ==
    /\ ~processing
    /\ sent # << >>
    /\ sent' = Tail(sent)
    /\ UNCHANGED << buffers, watch, received, accounts >>

Stray ==
    /\ ~processing /\ ~strayed
    /\ Len(sent) + Len(received) < subclass.most
    /\ \E stray \in Strays : \E data \in Carried(stray.func) :
          received' = Append(received, Frame(stray, 0, stray.func, "answer", data))
    /\ strayed' = TRUE
    /\ UNCHANGED << buffers, watch, sent, asked, well, ran, missing >>

----------------------------------------------------------------------------

Process == processResponse \/ Iterate \/ Processed

ModbusBufferNext ==
    \/ \E call \in Calls : callFunction(call)
    \/ \E onlyBuffers \in BOOLEAN : clear(onlyBuffers)
    \/ checkCommandedEmpty
    \/ Process
    \/ Deliver \/ Lose \/ Stray

ModbusBufferSpec == ModbusBufferInit /\ [][ModbusBufferNext]_modbusBuffer

----------------------------------------------------------------------------
\* s lists S, the numbers of calls, in their order.
InOrder(s, S) ==
    /\ { s[i] : i \in DOMAIN s } = S
    /\ \A i, j \in DOMAIN s : i < j => s[i] < s[j]

NoneRepeated == \A i, j \in DOMAIN asked : i # j => asked[i] # asked[j]

\* When nothing was thrown and checkCommandedEmpty passes, every call has been
\* answered, and the actions were given the answers of all calls in their order;
\* where the subclass only takes note of missing replies, no call is repeated
\* and no frame stray, it was told of all calls that were not answered.
AllAccounted ==
    well /\ commanded = << >> =>
        /\ ~subclass.reports => InOrder(ran, DOMAIN asked)
        /\ subclass.reports /\ ~strayed /\ NoneRepeated =>
               InOrder(ran, DOMAIN asked \ missing)

\* A change is never missed: when checkRecording says that the data of a device
\* are the same, they are those its action was given before, whatever answers
\* were spoiled, cut or lost in between.
ChangeNoticed == ~missed
=============================================================================
