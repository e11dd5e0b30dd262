------------------------------ MODULE BusList ------------------------------
(* Modbus::BusList (BusList.h, BusList.cpp): the list of commands sent to   *)
(* the devices of a bus, and the walk along it that finds, for every frame  *)
(* received, the command it answers. The module has no state of its own: a  *)
(* list is a record                                                         *)
(*                                                                          *)
(*   commands       the vector of CommandRecord, without arguments, timing  *)
(*   parsed_index   the command whose answer is expected next, from 0       *)
(*   errors         how many errors are recorded for an address             *)
(*                                                                          *)
(* A frame received is a record with the fields address and func, without   *)
(* the error bit, and what happened to it, kind:                            *)
(*                                                                          *)
(*   "answer"  the answer to func, its data read and its CRC correct        *)
(*   "error"   the answer with MODBUS_ERROR_MASK set                        *)
(*   "bad"     right address and function, but its action throws            *)
(*   "noise"   address or function are those of no command                  *)
(*   "short"   less than the four bytes Parser needs                        *)
EXTENDS Naturals, Sequences

CONSTANTS
    Addresses,      \* device addresses, the broadcast ones among them
    Functions,      \* function codes
    Actions,        \* those that add_response registered an action for
    ErrorActions,   \* those of them that have an error action too
    MaxErrors       \* bound: an error counter stays there

ASSUME BusAssumption ==
    /\ Actions \subseteq Functions
    /\ ErrorActions \subseteq Actions
    /\ MaxErrors \in Nat \ {0}

Kinds == {"answer", "error", "bad", "noise", "short"}

Command == [address : Addresses, func : Functions]

List == [commands : Seq(Command), parsed_index : Nat,
         errors : [Addresses -> 0 .. MaxErrors]]

EmptyList == [commands |-> << >>, parsed_index |-> 0,
              errors |-> [a \in Addresses |-> 0]]

\* std::vector::clear, which leaves _parsed_index alone, and a callFunction for
\* each command
Fill(list, cmds) == [list EXCEPT !.commands = cmds]

\* Mutant: the walk is not taken back to the first command.
next_message_forgets(list) == list

next_message(list) == [list EXCEPT !.parsed_index = 0]

----------------------------------------------------------------------------
(* parse.                                                                   *)

\* at(_parsed_index) throws std::out_of_range
Exhausted(list) == list.parsed_index >= Len(list.commands)

Expected(list) == list.commands[list.parsed_index + 1]

Matches(list, frame) ==
    /\ frame.kind # "noise"
    /\ frame.address = Expected(list).address
    /\ frame.func = Expected(list).func

\* How the parse ends. Only after "handled" and "error_handled" it returns,
\* otherwise it throws: WrongResponse after "wrong", ErrorResponse after
\* "error", std::out_of_range after "exhausted" and "unregistered".
Outcome(list, frame) ==
    IF frame.kind = "short" THEN "short"
    ELSE IF Exhausted(list) THEN "exhausted"
    ELSE IF ~Matches(list, frame) THEN "wrong"
    ELSE IF frame.func \notin Actions THEN "unregistered"
    ELSE CASE frame.kind = "answer" -> "handled"
           [] frame.kind = "bad" -> "bad"
           [] frame.kind = "error" /\ frame.func \in ErrorActions -> "error_handled"
           [] frame.kind = "error" /\ frame.func \notin ErrorActions -> "error"

\* _functions.at throws before an error frame has moved the index
Advances(list, frame) ==
    /\ Outcome(list, frame) \notin {"short", "exhausted"}
    /\ Outcome(list, frame) = "unregistered" => frame.kind # "error"

\* ErrorRecord::record
Record(list, address) ==
    [list EXCEPT !.errors[address] = IF @ < MaxErrors THEN @ + 1 ELSE @]

\* Mutants: the sender of a wrong frame gets the blame, and the index stays when
\* an answer is wrong.
parse_blames_sender(list, frame) ==
    LET noted == IF Outcome(list, frame) = "wrong"
                 THEN Record(list, frame.address) ELSE list
    IN  [noted EXCEPT !.parsed_index =
            IF Advances(list, frame) THEN @ + 1 ELSE @]

parse_stays(list, frame) ==
    [list EXCEPT !.parsed_index =
        IF Outcome(list, frame) # "wrong" /\ Advances(list, frame)
        THEN @ + 1 ELSE @]

parse(list, frame) ==
    LET noted == IF Outcome(list, frame) = "wrong"
                 THEN Record(list, Expected(list).address) ELSE list
    IN  [noted EXCEPT !.parsed_index =
            IF Advances(list, frame) THEN @ + 1 ELSE @]
=============================================================================
