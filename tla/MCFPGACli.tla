----------------------------- MODULE MCFPGACli -----------------------------
(* A small instance of FPGACli for TLC: two ILCs, each on a bus of its own, *)
(* of which the first is programmed; pages of eight bytes; files with two   *)
(* pages, with no data and with a line that is not valid. Names of commands *)
(* are cut down to what tells them apart.                                   *)
EXTENDS FPGACli

CONSTANTS u1, u2, b1, b2

MCBusOf == [u \in Units |-> IF u = u1 THEN b1 ELSE b2]
MCOrder == << u1, u2 >>
MCBusOrder == << b1, b2 >>

\* Two characters tell the commands apart, one does not
MCAct == (<< "c" >> :> "close") @@ (<< "o" >> :> "open")
         @@ (<< "@", "d" >> :> "exempt") @@ (<< "@", "e" >> :> "include")
         @@ (<< "s", "s" >> :> "status") @@ (<< "s", "b" >> :> "standby")
         @@ (<< "p" >> :> "program")
MCNames == DOMAIN MCAct
MCMap == [name \in MCNames |->
             CASE MCAct[name] \in {"open", "close"} -> << >>
               [] MCAct[name] = "program" -> << "F", "S", "?" >>
               [] OTHER -> << "s", "?" >>]

MCPasses == (<< "f" >> :> {"F", "S", "s"}) @@ (<< "e" >> :> {"F", "S", "s"})
            @@ (<< "x" >> :> {"F", "S", "s"})
            @@ (<< "1" >> :> {"S", "s", "I", "i"}) @@ (<< "2" >> :> {"S", "s", "I", "i"})
            @@ (<< >> :> {"S", "s"}) @@ (<< "o" >> :> {"S", "s"})
MCNamed == [token \in DOMAIN MCPasses |->
               CASE token = << "1" >> -> {u1} [] token = << "2" >> -> {u2} [] OTHER -> {}]

Data(address, bytes) ==
    [type |-> "data", address |-> address, data |-> bytes, valid |-> TRUE]
Other(type, bytes) ==
    [type |-> type, address |-> 0, data |-> bytes, valid |-> TRUE]

\* The second record first, a gap, and data above the address space
MCFile == (<< "f" >> :> << Data(10, << 5, 0, 6 >>), Other("extended", << 0, 0 >>),
                           Data(4, << 1, 2, 3, 0 >>), Other("other", << 7 >>),
                           Other("extended", << 1, 0 >>), Data(16, << 8 >>),
                           Other("end", << >>), Data(20, << 9 >>) >>)
          @@ (<< "e" >> :> << Other("end", << >>) >>)
          @@ (<< "x" >> :> << Data(0, << 1 >>), [Data(4, << 1 >>) EXCEPT !.valid = FALSE] >>)

MCLines ==
    { << "o" >>, << "c" >>, << "p", " ", "f", " ", "1" >>, << "p", " ", "f", " ", "1", " ", "2" >>, << "p", " ", "e", " ", "1" >>,
      << "p", " ", "x", " ", "1" >>, << "p", " ", "f" >>, << "s" >>, << " ", "o" >>,
      << "o", " ", "1" >>, << "s", "s" >>, << "s", "b", " ", "1" >>,
      << "@", "d", " ", "2" >>, << "@", "e", " ", "2" >> }
=============================================================================
