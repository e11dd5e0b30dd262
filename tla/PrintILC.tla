------------------------------ MODULE PrintILC ------------------------------
(* PrintILC::programILC (PrintILC.cpp): the update of an ILC's firmware, a  *)
(* sequence of exchanges each of which may fail, with decisions taken from  *)
(* the mode the ILC reported last. One PrintILC serves the ILCs of one bus. *)
(*                                                                          *)
(* The exchange itself, FPGA::ilcCommands, is modelled in ILCCommands; here *)
(* the ILCs get the commands of a list in order, answer, refuse or are      *)
(* silent, and what came back is parsed in order. An answer that a command  *)
(* did not get is not noticed unless the list got none at all. A spoilt one *)
(* is noticed where its checksum is checked; the actions of the firmware's  *)
(* commands do not check it.                                                *)
(*                                                                          *)
(* The ILCs are outside the repository. What they do on a command is taken  *)
(* from how programILC uses them: they change mode as it expects them to,   *)
(* or not, and change it by themselves too.                                 *)
EXTENDS IntelHex, FiniteSets

CONSTANTS
    Buses,
    Units,          \* the ILCs
    BusOf,          \* [Units -> Buses]
    Unruly,         \* those that may fail: not hear, refuse, be silent or
                    \* not understood, change mode by themselves
    Unknown,        \* no mode was ever reported
    PageSize        \* bytes of image in a page: 256 in the code

ASSUME ProgramAssumption ==
    /\ Unruly \subseteq Units
    /\ BusOf \in [Units -> Buses]
    /\ PageSize \in Nat \ {0}
    /\ PageSize % 4 = 0

\* ILC::Mode. ClearFaults is a mode to ask for, and none to be in.
Mode == {"Standby", "Disabled", "Enabled", "Bootloader", "Fault"}

APPLICATION_PAGE_LENGTH == 3 * (PageSize \div 4)

VARIABLES
    list,       \* the bus lists, sequences of commands
    lastMode,   \* ILCBusList::_lastMode
    wire,       \* what the FPGA still has to send of the list in execution
    replies,    \* what came back and is not parsed yet
    exchange,   \* "none", "sending" or "parsing", in ilcCommands
    stage,      \* where programILC is, see Wanted
    unit,       \* its argument address
    records,    \* its argument hex
    pages,      \* pages _writeHex has still to write
    stats       \* _crc, _startAddress, _dataLength, set before they are read

\* What the ILCs are and have, and auxiliary variables for the properties.
VARIABLES
    mode,       \* the mode an ILC is in
    flash,      \* its pages, by address; an old application is not looked at
    written,    \* the statistics it got last
    verified,   \* ILCs whose application is the old one or was verified
    upset,      \* those that changed mode by themselves since programILC began
    refusals,   \* those that refused to change mode since then, or seemed to
    misled      \* of "written" and "verified", what failed since then and was
                \* taken to be done

fpga == << wire, replies, exchange >>
program == << stage, unit, records, pages, stats >>
ilcs == << mode, flash, written, verified, upset, refusals, misled >>
vars == << list, lastMode, fpga, program, ilcs >>

Stages == {"status", "leave", "enter", "recover", "recover_clear",
           "recover_status", "recover_check", "clear", "check", "erase",
           "prepare", "pages", "stats", "verify", "standby", "unfault", "disable"}

\* programILC is being executed
Programming == stage \in Stages

NoStats == [crc |-> << >>, start |-> 0, length |-> 0]

Init ==
    /\ list = [b \in Buses |-> << >>]
    /\ lastMode = [u \in Units |-> Unknown]
    /\ wire = << >>
    /\ replies = << >>
    /\ exchange = "none"
    /\ stage = "idle"
    /\ unit \in Units
    /\ records = << >>
    /\ pages = << >>
    /\ stats = NoStats
    /\ mode = [u \in Units |-> "Enabled"]
    /\ flash = [u \in Units |-> << >>]
    /\ written = [u \in Units |-> NoStats]
    /\ verified = Units
    /\ upset = {}
    /\ refusals = {}
    /\ misled = {}

----------------------------------------------------------------------------
(* Commands.                                                                *)

\* long: the ILC is given the time that a change of its program takes
Command(u, what, arg) == [unit |-> u, what |-> what, arg |-> arg, long |-> FALSE]

\* Mutant: only the way into the bootloader takes long.
LongOneWay(u, m) == m = "Bootloader"

\* The timeout of changeILCMode, from the mode last reported, if any was
Long(u, m) ==
    m = "Bootloader" \/ (m = "Standby" /\ lastMode[u] = "Bootloader")

reportServerStatus(u) == Command(u, "SERVER_STATUS", << >>)
changeILCMode(u, m) == [Command(u, "CHANGE_MODE", m) EXCEPT !.long = Long(u, m)]
eraseILCApplication(u) == Command(u, "ERASE_APPLICATION", << >>)
writeApplicationPage(u, page) == Command(u, "WRITE_APPLICATION_PAGE", page)
writeApplicationStats(u, s) == Command(u, "WRITE_APPLICATION_STATS", s)
writeVerifyApplication(u) == Command(u, "WRITE_VERIFY_APPLICATION", << >>)

\* commands that only a bootloader understands
Firmware == {"ERASE_APPLICATION", "WRITE_APPLICATION_PAGE",
             "WRITE_APPLICATION_STATS", "WRITE_VERIFY_APPLICATION"}

ClearIfFault ==
    IF lastMode[unit] = "Fault" THEN << changeILCMode(unit, "ClearFaults") >>
    ELSE << >>

\* The switch on the mode, the first case of which falls through.
Leave ==
    CASE lastMode[unit] = "Enabled" -> << changeILCMode(unit, "Disabled"),
                                          changeILCMode(unit, "Standby") >>
      [] lastMode[unit] = "Disabled" -> << changeILCMode(unit, "Standby") >>
      [] lastMode[unit] = "Fault" -> << changeILCMode(unit, "ClearFaults") >>
      [] OTHER -> << >>

\* The commands that programILC puts in its list at a stage
Wanted ==
    CASE stage \in {"status", "recover", "recover_status"} ->
            << reportServerStatus(unit) >>
      [] stage = "leave" -> Leave
      [] stage = "enter" -> IF lastMode[unit] = "Bootloader" THEN << >>
                            ELSE << changeILCMode(unit, "Bootloader") >>
      [] stage \in {"recover_clear", "clear", "unfault"} -> ClearIfFault
      [] stage = "erase" -> << eraseILCApplication(unit) >>
      [] stage = "pages" -> IF pages = << >> THEN << >>
                            ELSE << writeApplicationPage(unit, Head(pages)) >>
      [] stage = "stats" -> << writeApplicationStats(unit, stats) >>
      [] stage = "verify" -> << writeVerifyApplication(unit) >>
      [] stage = "standby" -> << changeILCMode(unit, "Standby") >>
      [] stage = "disable" -> << changeILCMode(unit, "Disabled") >>

\* The stage that follows when an exchange was needed and is over
Following ==
    CASE stage = "status" -> "leave"
      [] stage = "leave" -> "enter"
      [] stage = "enter" -> "clear"
      [] stage = "recover" -> "recover_clear"
      [] stage = "recover_clear" -> "recover_status"
      [] stage = "recover_status" -> "recover_check"
      [] stage = "clear" -> "check"
      [] stage = "erase" -> "prepare"
      [] stage = "pages" -> "pages"
      [] stage = "stats" -> "verify"
      [] stage = "verify" -> "standby"
      [] stage = "standby" -> "unfault"
      [] stage = "unfault" -> "disable"
      [] stage = "disable" -> "done"

\* and the one when there was nothing to send
Skipped ==
    CASE stage = "recover_clear" -> "recover_check"
      [] stage = "pages" -> "stats"
      [] OTHER -> Following

----------------------------------------------------------------------------
(* programILC.                                                              *)

\* Entry: clear(). The list may hold what an exception left in it.
Start(u, hex) ==
    /\ ~Programming
    /\ exchange = "none"
    /\ stage' = "status"
    /\ unit' = u
    /\ records' = hex
    /\ pages' = << >>
    /\ list' = [list EXCEPT ![BusOf[u]] = << >>]
    /\ upset' = {}
    /\ refusals' = {}
    /\ misled' = {}
    /\ UNCHANGED << lastMode, fpga, stats, mode, flash, written, verified >>

AtExchange == Programming /\ stage \notin {"recover_check", "check", "prepare"}

\* The list is filled and ilcCommands called, which returns at once when there
\* is nothing in it.
Request ==
    /\ AtExchange
    /\ exchange = "none"
    /\ IF Wanted = << >>
       THEN /\ stage' = Skipped
            /\ UNCHANGED << list, fpga >>
       ELSE /\ list' = [list EXCEPT ![BusOf[unit]] = @ \o Wanted]
            /\ wire' = list'[BusOf[unit]]
            /\ replies' = << >>
            /\ exchange' = "sending"
            /\ UNCHANGED stage
    /\ UNCHANGED << lastMode, unit, records, pages, stats, ilcs >>

\* Mutant: the mode is not looked at before the application is erased.
CheckNothing ==
    /\ stage \in {"recover_check", "check"}
    /\ stage' = IF stage = "check" THEN "erase" ELSE "clear"
    /\ UNCHANGED << list, lastMode, fpga, unit, records, pages, stats, ilcs >>

\* Cannot enter bootloader mode, cannot transition to Bootloader mode
Check ==
    /\ stage \in {"recover_check", "check"}
    /\ stage' = IF lastMode[unit] # "Bootloader" THEN "failed"
                ELSE IF stage = "check" THEN "erase" ELSE "clear"
    /\ UNCHANGED << list, lastMode, fpga, unit, records, pages, stats, ilcs >>

\* Bytes up to the end of the last page. A page that is full is not filled.
Padding(size) ==
    LET mod == IF size % PageSize = 0 THEN PageSize ELSE size % PageSize
    IN  [i \in 1 .. PageSize - mod |-> Filler(mod + i - 1)]

\* Page n, from 0, of the data, without every fourth byte
Page(data, n) ==
    [i \in 1 .. APPLICATION_PAGE_LENGTH |->
        data[n * PageSize + 4 * ((i - 1) \div 3) + ((i - 1) % 3) + 1]]

\* What _crc, _startAddress and _dataLength are set to
Statistics(hex) ==
    LET data == getData(hex)
    IN  [crc |-> data, start |-> StartAddress(hex), length |-> Len(data) % AddressSpace]

\* The pages that _writeHex cuts out of the data
Pages(hex) ==
    LET data == getData(hex)
        padded == data \o Padding(Len(data))
    IN  [n \in 1 .. Len(padded) \div PageSize |->
            [address |-> (StartAddress(hex) + (n - 1) * PageSize) % AddressSpace,
             bytes |-> Page(padded, n - 1)]]

\* _crc is reset and fed, and _writeHex makes its pages. getData reads front()
\* of a vector that is empty if the file has no data: the program crashes.
Prepare ==
    /\ stage = "prepare"
    /\ IF records = << >>
       THEN stage' = "crashed" /\ UNCHANGED << pages, stats >>
       ELSE /\ stage' = "pages"
            /\ stats' = Statistics(records)
            /\ pages' = Pages(records)
    /\ UNCHANGED << list, lastMode, fpga, unit, records, ilcs >>

----------------------------------------------------------------------------
(* The end of an exchange. Failed and Succeeded are what programILC does;   *)
(* who calls ilcCommands from elsewhere has its own.                        *)

\* A response that ends early, or that fits none of the commands: out_of_range,
\* all other exceptions are a runtime_error
OutOfRange == replies # << >> /\ Head(replies).kind = "unfit"

\* An exception: a runtime_error is caught when the Bootloader was asked for, any
\* other is the end of programILC, which leaves its commands in the list.
Failed ==
    IF stage = "enter" /\ ~OutOfRange
    THEN /\ stage' = "recover"
         /\ list' = [list EXCEPT ![BusOf[unit]] = << >>]
    ELSE /\ stage' = "failed"
         /\ UNCHANGED list

\* clear(), and on with the next
Succeeded ==
    /\ stage' = Following
    /\ list' = [list EXCEPT ![BusOf[unit]] = << >>]

\* The FPGA received nothing at all: MissingResponse
Missing ==
    /\ exchange = "sending"
    /\ wire = << >>
    /\ replies = << >>

\* Mutant: the status of the verification is only printed.
ThrowsNotOnStatus(reply) ==
    \/ reply.kind \in {"bad", "unfit"}
    \/ reply.kind = "refused" /\ reply.what # "CHANGE_MODE"

\* CHANGE_MODE has an error action, that only warns; no other command has one.
\* The action of the verification throws when the status is not zero. A reply is
\* what it looks like: one that is "mistaken" looks like an answer and does not throw.
Throws(reply) ==
    \/ reply.kind \in {"bad", "unfit"}
    \/ reply.kind = "refused" /\ reply.what # "CHANGE_MODE"
    \/ reply.kind = "answer" /\ reply.what = "WRITE_VERIFY_APPLICATION" /\ reply.arg # "done"

TellsMode(reply) ==
    reply.kind = "answer" /\ reply.what \in {"SERVER_STATUS", "CHANGE_MODE"}

ExchangeFails == Missing \/ (exchange = "parsing" /\ replies # << >> /\ Throws(Head(replies)))

EndFailed ==
    /\ ExchangeFails
    /\ exchange' = "none"
    /\ wire' = << >>
    /\ replies' = << >>
    /\ UNCHANGED lastMode

BeginParse ==
    /\ exchange = "sending"
    /\ wire = << >>
    /\ replies # << >>
    /\ exchange' = "parsing"
    /\ UNCHANGED << list, lastMode, wire, replies, program, ilcs >>

Parse ==
    /\ exchange = "parsing"
    /\ replies # << >>
    /\ LET reply == Head(replies)
       IN  /\ ~Throws(reply)
           /\ lastMode' = IF TellsMode(reply)
                          THEN [lastMode EXCEPT ![reply.unit] = reply.arg]
                          ELSE lastMode
    /\ replies' = Tail(replies)
    /\ UNCHANGED << list, wire, exchange, program, ilcs >>

EndParsed ==
    /\ exchange = "parsing"
    /\ replies = << >>
    /\ exchange' = "none"
    /\ UNCHANGED << lastMode, wire, replies >>

ProgramFails ==
    /\ Programming
    /\ EndFailed
    /\ Failed
    /\ UNCHANGED << unit, records, pages, stats, ilcs >>

ProgramGoesOn ==
    /\ Programming
    /\ EndParsed
    /\ Succeeded
    /\ pages' = IF stage = "pages" THEN Tail(pages) ELSE pages
    /\ UNCHANGED << unit, records, stats, ilcs >>

----------------------------------------------------------------------------
(* The ILCs.                                                                *)

OnBus == Head(wire)

\* The modes a command to change it may bring an ILC to. The bootloader may
\* report a fault when it begins, the application when it begins.
Reached(m, asked) ==
    CASE asked = "Disabled" /\ m \in {"Standby", "Enabled"} -> {"Disabled"}
      [] asked = "Standby" /\ m = "Disabled" -> {"Standby"}
      [] asked = "Standby" /\ m = "Bootloader" -> {"Standby", "Fault"}
      [] asked = "Enabled" /\ m = "Disabled" -> {"Enabled"}
      [] asked = "Bootloader" /\ m = "Standby" -> {"Bootloader", "Fault"}
      [] asked = "ClearFaults" /\ m = "Fault" -> {"Standby", "Bootloader"}
      [] OTHER -> {}

\* Flash with a page in it that replaces the one at its address
Overwritten(old, page) ==
    [a \in DOMAIN old \cup {page.address} |->
        IF a = page.address THEN page.bytes ELSE old[a]]

\* It did what it was told to; arg is what it would answer
Obeys(arg) ==
    LET u == OnBus.unit
    IN  CASE OnBus.what = "SERVER_STATUS" ->
                arg = mode[u] /\ UNCHANGED << mode, flash, written, verified >>
          [] OnBus.what = "CHANGE_MODE" ->
                /\ arg \in Reached(mode[u], OnBus.arg)
                /\ mode' = [mode EXCEPT ![u] = arg]
                /\ UNCHANGED << flash, written, verified >>
          [] OnBus.what = "ERASE_APPLICATION" ->
                /\ mode[u] = "Bootloader" /\ arg = "done"
                /\ flash' = [flash EXCEPT ![u] = << >>]
                /\ verified' = verified \ {u}
                /\ UNCHANGED << mode, written >>
          [] OnBus.what = "WRITE_APPLICATION_PAGE" ->
                /\ mode[u] = "Bootloader" /\ arg = "done"
                /\ flash' = [flash EXCEPT ![u] = Overwritten(@, OnBus.arg)]
                /\ verified' = verified \ {u}
                /\ UNCHANGED << mode, written >>
          [] OnBus.what = "WRITE_APPLICATION_STATS" ->
                /\ mode[u] = "Bootloader" /\ arg = "done"
                /\ written' = [written EXCEPT ![u] = OnBus.arg]
                /\ UNCHANGED << mode, flash, verified >>
          [] OnBus.what = "WRITE_VERIFY_APPLICATION" ->
                /\ mode[u] = "Bootloader" /\ arg \in {"done", "invalid"}
                /\ verified' = IF arg = "done" THEN verified \cup {u} ELSE verified
                /\ UNCHANGED << mode, flash, written >>

Reply(kind, arg) ==
    [unit |-> OnBus.unit, what |-> OnBus.what, kind |-> kind,
     arg |-> IF kind = "answer" THEN arg ELSE << >>]

Args == Mode \cup {"done", "invalid"}

\* What a reply looks like to programILC, if there is one
Kinds == {"answer", "refused", "bad", "unfit", "mistaken", "silent"}

\* What the reply to a command may look like once it is spoilt: the error bit
\* makes an answer to CHANGE_MODE a refusal, and the replies to the firmware's
\* commands may look like any other
Spoilt ==
    {"bad", "unfit"} \cup (IF OnBus.what = "CHANGE_MODE" THEN {"refused"} ELSE {})
                    \cup (IF OnBus.what \in Firmware THEN {"mistaken"} ELSE {})

\* What is wrong with the application when the command on the bus, one of the
\* firmware's, has failed
Amiss == IF OnBus.what = "WRITE_VERIFY_APPLICATION" THEN {"verified"} ELSE {"written"}

\* What came back of the command on the bus, if anything, and what that is to
\* programILC; done: the ILC has done what it was told to
Back(kind, arg, done) ==
    /\ wire' = Tail(wire)
    /\ replies' = IF kind = "silent" THEN replies ELSE Append(replies, Reply(kind, arg))
    /\ refusals' = IF stage # "idle" /\ kind = "refused" /\ OnBus.what = "CHANGE_MODE"
                   THEN refusals \cup {OnBus.unit} ELSE refusals
    /\ misled' = IF kind = "mistaken" /\ ~done THEN misled \cup Amiss ELSE misled

\* Answered, or done and the answer is lost or spoilt
Answer(kind, arg) ==
    /\ exchange = "sending"
    /\ wire # << >>
    /\ kind = "answer" \/ (OnBus.unit \in Unruly /\ kind \in {"silent"} \cup Spoilt)
    /\ Obeys(arg)
    /\ Back(kind, arg, arg # "invalid")
    /\ UNCHANGED << list, lastMode, exchange, program, upset >>

\* What an ILC cannot do in the mode it is in
Incapable ==
    CASE OnBus.what = "CHANGE_MODE" -> Reached(mode[OnBus.unit], OnBus.arg) = {}
      [] OnBus.what \in Firmware -> mode[OnBus.unit] # "Bootloader"
      [] OTHER -> FALSE

\* Not received, or an error response, which may be spoilt too
Decline(kind) ==
    /\ exchange = "sending"
    /\ wire # << >>
    /\ \/ Incapable /\ kind \in {"refused", "silent"}
       \/ OnBus.unit \in Unruly /\ kind \in {"refused", "silent"} \cup Spoilt
    /\ Back(kind, << >>, FALSE)
    /\ UNCHANGED << list, lastMode, exchange, program, mode, flash, written,
                    verified, upset >>

\* A fault, or a reset, at any time
Upset(u) ==
    /\ u \in Unruly \ upset
    /\ mode' = [mode EXCEPT ![u] = IF @ = "Bootloader" THEN "Standby" ELSE "Fault"]
    /\ upset' = IF stage # "idle" THEN upset \cup {u} ELSE upset
    /\ UNCHANGED << list, lastMode, fpga, program, flash, written, verified,
                    refusals, misled >>

----------------------------------------------------------------------------
ProgramStep ==
    Request \/ Check \/ Prepare \/ ProgramFails \/ ProgramGoesOn

ExchangeStep == BeginParse \/ Parse

ILCStep ==
    \E kind \in Kinds : Decline(kind) \/ \E arg \in Args : Answer(kind, arg)

----------------------------------------------------------------------------
(* Properties.                                                              *)

Byte == 0 .. 255
Stats == [crc : Seq(Byte), start : Nat, length : Nat]
PageData == [address : Nat, bytes : [1 .. APPLICATION_PAGE_LENGTH -> Byte]]
CommandOK(c) == c.unit \in Units /\ (c.what = "CHANGE_MODE" => c.arg \in Mode \cup {"ClearFaults"})
ReplyOK(r) ==
    /\ r.unit \in Units
    /\ r.kind \in Kinds \ {"silent"}
    /\ TellsMode(r) => r.arg \in Mode

TypeOK ==
    /\ \A b \in Buses : \A i \in DOMAIN list[b] : CommandOK(list[b][i])
    /\ lastMode \in [Units -> Mode \cup {Unknown}]
    /\ \A i \in DOMAIN wire : CommandOK(wire[i])
    /\ \A i \in DOMAIN replies : ReplyOK(replies[i])
    /\ exchange \in {"none", "sending", "parsing"}
    /\ stage \in Stages \cup {"idle", "done", "failed", "crashed"}
    /\ unit \in Units
    /\ pages \in Seq(PageData)
    /\ stats \in Stats
    /\ mode \in [Units -> Mode]
    /\ written \in [Units -> Stats]
    /\ verified \subseteq Units
    /\ upset \subseteq Units
    /\ refusals \subseteq Units
    /\ misled \subseteq {"written", "verified"}

\* The address a record of the file has a byte for
Covers(record, a) == record.address <= a /\ a < record.address + Len(record.data)

\* What the file says of an address; where it says nothing, the filler
Meant(a) ==
    IF \E i \in DOMAIN records : Covers(records[i], a)
    THEN LET i == CHOOSE i \in DOMAIN records : Covers(records[i], a)
         IN  records[i].data[a - records[i].address + 1]
    ELSE Filler(a)

Covered == UNION { records[i].address .. (records[i].address + Len(records[i].data) - 1) :
                   i \in DOMAIN records }

First == CHOOSE a \in Covered : \A b \in Covered : a <= b
Final == CHOOSE a \in Covered : \A b \in Covered : b <= a

\* A file for an ILC: its records have data and do not overlap, it begins with an
\* instruction and the fourth byte of each instruction is not used. (A record
\* without data within another makes getData fill the rest of that one again.)
Sane ==
    /\ \A i \in DOMAIN records : records[i].data # << >>
    /\ Covered # {} /\ Covered \subseteq 0 .. AddressSpace - 2
    /\ \A i, j \in DOMAIN records : \A a \in Covered :
          Covers(records[i], a) /\ Covers(records[j], a) => i = j
    /\ First % 4 = 0
    /\ \A a \in Covered : a % 4 = 3 => Meant(a) = 0

\* The byte of the application at an address: the bootloader puts a zero behind
\* every third byte of a page
FlashByte(u, a) ==
    LET page == CHOOSE p \in DOMAIN flash[u] : p <= a /\ a < p + PageSize
        offset == a - page
    IN  IF offset % 4 = 3 THEN 0
        ELSE flash[u][page][3 * (offset \div 4) + (offset % 4) + 1]

InFlash(u, a) == \E p \in DOMAIN flash[u] : p <= a /\ a < p + PageSize

\* The ILC was verified, unless a failed verification looked like a good one, and
\* is in Disabled mode, unless it refused, or seemed to refuse, to get there or went
\* elsewhere by itself.
Updated ==
    /\ "verified" \notin misled => unit \in verified
    /\ unit \notin upset \cup refusals => mode[unit] = "Disabled"

\* It has, byte for byte, what the file says, and the statistics an ILC can check
\* it with, unless erasing or writing failed and looked as if it had not.
Copied ==
    Sane /\ "written" \notin misled =>
        /\ \A a \in First .. Final :
              InFlash(unit, a) /\ FlashByte(unit, a) = Meant(a)
        /\ written[unit] = [crc |-> [i \in 1 .. Final - First + 1 |->
                                       Meant(First + i - 1)],
                            start |-> First, length |-> Final - First + 1]

\* After a normal end of programILC the ILC is verified and disabled, as far as it
\* lets itself be, and has the application of the file, with its statistics. The
\* replies to the firmware's commands are not checked: each of these holds but for
\* a failure of the very command it rests on that came back, spoilt, as a success.
Programmed == stage = "done" => Updated /\ Copied

\* The next command for an ILC that programILC sends
Sends == Programming /\ exchange = "sending" /\ wire # << >>

\* An ILC is told to erase or to write its application only when it is in
\* Bootloader mode, whatever answers were lost, spoilt or refused before, unless
\* it left that mode by itself.
OnlyInBootloader ==
    Sends /\ OnBus.what \in Firmware /\ unit \notin upset =>
        mode[unit] = "Bootloader"

\* An ILC that has to change between bootloader and application is given the
\* time for it, though all that is known of its mode is what it reported last.
TimeEnough ==
    Sends /\ unit \notin upset /\ OnBus.what = "CHANGE_MODE"
    /\ (OnBus.arg = "Bootloader" \/ (OnBus.arg = "Standby" /\ mode[unit] = "Bootloader"))
        => OnBus.long

\* An ILC whose application is erased or incomplete is not told to leave the
\* bootloader, in this update or in one that follows a failed one, unless its
\* verification failed and the reply, which is not checked, came back as a success.
NeverRunsUnverified ==
    Sends /\ OnBus.what = "CHANGE_MODE" /\ OnBus.arg \notin {"Bootloader", "ClearFaults"}
    /\ mode[unit] = "Bootloader" /\ unit \notin upset =>
        unit \in verified \/ "verified" \in misled

=============================================================================
