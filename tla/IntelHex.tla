------------------------------ MODULE IntelHex ------------------------------
(* IntelHex (IntelHex.h, IntelHex.cpp): the lines of a firmware file become *)
(* the bytes of an application. Pure operators. A line is a record          *)
(*                                                                          *)
(*   type      "data", "extended" (linear address), "end" or "other"        *)
(*   address   where its bytes go                                           *)
(*   data      its bytes                                                    *)
(*   valid     start code, fields and checksum are right                    *)
EXTENDS Naturals, Sequences, SequencesExt

CONSTANTS AddressSpace      \* addresses there are: 65536 in the code

ASSUME AddressAssumption == AddressSpace \in Nat \ {0}

Types == {"data", "extended", "end", "other"}

IntelHexLine == [type : Types, address : 0 .. AddressSpace - 1, data : Seq(0 .. 255),
                 valid : BOOLEAN]

----------------------------------------------------------------------------
(* Loading a file.                                                          *)

\* LoadError of _processLine, or of load for an extended address that is not
\* two bytes long
Rejected(line) ==
    \/ ~line.valid
    \/ line.type = "extended" /\ Len(line.data) # 2

\* load's loop over the lines. Data after an extended address that is not
\* zero are ignored.
NextLine(state, line) ==
    IF state.over THEN state
    ELSE IF Rejected(line) THEN [state EXCEPT !.over = TRUE, !.failed = TRUE]
    ELSE CASE line.type = "data" /\ ~state.extension ->
                  [state EXCEPT !.records = Append(@, line)]
           [] line.type = "extended" ->
                  [state EXCEPT !.extension = line.data # << 0, 0 >>]
           [] line.type = "end" -> [state EXCEPT !.over = TRUE]
           [] OTHER -> state

load(lines) ==
    LET read[n \in 0 .. Len(lines)] ==
            IF n = 0 THEN [records |-> << >>, extension |-> FALSE,
                           over |-> FALSE, failed |-> FALSE]
            ELSE NextLine(read[n - 1], lines[n])
    IN  read[Len(lines)]

----------------------------------------------------------------------------
(* The bytes of an application.                                             *)

\* std::sort by address. Where records share one their order is not told.
_sortByAddress(records) ==
    LET places == DOMAIN records
        order == CHOOSE order \in Bijection(places, places) :
            \A i, j \in places :
                i < j => records[order[i]].address <= records[order[j]].address
    IN  [i \in places |-> records[order[i]]]

Filler(address) == IF address % 4 = 3 THEN 0 ELSE 255

Gap(from, to) == [i \in 1 .. (IF from < to THEN to - from ELSE 0) |->
                     Filler(from + i - 1)]

\* Mutant: what lies between two records is not filled.
AddWithoutGap(copied, record) ==
    [bytes |-> copied.bytes \o record.data,
     last  |-> (record.address + Len(record.data)) % AddressSpace]

\* getData's loop: a record is put behind the gap before it
Add(copied, record) ==
    [bytes |-> copied.bytes \o Gap(copied.last, record.address) \o record.data,
     last  |-> (record.address + Len(record.data)) % AddressSpace]

\* The address of front(), which an empty file does not have
StartAddress(records) == _sortByAddress(records)[1].address

getData(records) ==
    LET sorted == _sortByAddress(records)
        copied[n \in 0 .. Len(sorted)] ==
            IF n = 0 THEN [bytes |-> << >>, last |-> StartAddress(records)]
            ELSE Add(copied[n - 1], sorted[n])
    IN  copied[Len(sorted)].bytes
=============================================================================
