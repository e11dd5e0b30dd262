------------------------- MODULE ILCCommands_proofs -------------------------
(* Theorems about ILCCommands, for any lists of commands, any answers and   *)
(* disturbances, and any number of calls pending in the FPGA.               *)
EXTENDS ILCCommands, TLAPS

(* A function on 1 .. n is a sequence.                                      *)
LEMMA FunctionIsSeq ==
  ASSUME NEW T, NEW n \in Nat, NEW f \in [1 .. n -> T]
  PROVE  f \in Seq(T) /\ Len(f) = n
  OBVIOUS

(* Taking the only element away, and putting an element before nothing.     *)
LEMMA TailOfOne ==
  ASSUME NEW T, NEW s \in Seq(T), s # << >>, Len(s) = 1
  PROVE  Tail(s) = << >>
<1>1. Tail(s) \in Seq(T)
  OBVIOUS
<1>2. Len(Tail(s)) = 0
  OBVIOUS
<1>3. \A t \in Seq(T) : Len(t) = 0 => t = << >>
  OBVIOUS
<1>4. QED
  BY <1>1, <1>2, <1>3

LEMMA OneAlone ==
  ASSUME NEW T, NEW x \in T
  PROVE  << x >> \o << >> = << x >>
OBVIOUS

(* What parse returns and how it ends.                                      *)
LEMMA ParseType ==
  ASSUME NEW list \in List, NEW frame \in Frame
  PROVE  /\ parse(list, frame) \in List
         /\ parse(list, frame).commands = list.commands
         /\ parse(list, frame).parsed_index =
               IF Advances(list, frame) THEN list.parsed_index + 1
                                        ELSE list.parsed_index
         /\ Outcome(list, frame) \in {"short", "exhausted", "wrong",
               "unregistered", "handled", "bad", "error_handled", "error"}
         /\ Advances(list, frame) => list.parsed_index < Len(list.commands)
<1>1. Outcome(list, frame) \in {"short", "exhausted", "wrong",
               "unregistered", "handled", "bad", "error_handled", "error"}
  BY DEF Outcome, Frame, Kinds, Matches
<1>2. ~Exhausted(list) => Expected(list) \in Command
  BY DEF Exhausted, Expected, List
<1>3. Advances(list, frame) => list.parsed_index < Len(list.commands)
  BY DEF Advances, Outcome, Exhausted, List
<1>4. Outcome(list, frame) = "wrong" => ~Exhausted(list)
  BY DEF Outcome
<1>5. ASSUME NEW a \in Addresses
      PROVE  /\ Record(list, a) \in List
             /\ Record(list, a).commands = list.commands
             /\ Record(list, a).parsed_index = list.parsed_index
  <2>1. list.errors \in [Addresses -> 0 .. MaxErrors]
    BY DEF List
  <2>2. MaxErrors \in Nat
    BY BusAssumption
  <2> DEFINE e == [list.errors EXCEPT ![a] = IF @ < MaxErrors THEN @ + 1 ELSE @]
  <2>3. e \in [Addresses -> 0 .. MaxErrors]
    BY <2>1, <2>2
  <2>4. Record(list, a) = [list EXCEPT !.errors = e]
    BY DEF Record, List
  <2> HIDE DEF e
  <2>5. QED
    BY <2>3, <2>4 DEF List
<1>6. DEFINE noted == IF Outcome(list, frame) = "wrong"
                      THEN Record(list, Expected(list).address) ELSE list
<1>7. noted \in List /\ noted.commands = list.commands
      /\ noted.parsed_index = list.parsed_index
  BY <1>2, <1>4, <1>5 DEF Command
<1>8. parse(list, frame) = [noted EXCEPT !.parsed_index =
                               IF Advances(list, frame) THEN @ + 1 ELSE @]
  BY DEF parse
<1> HIDE DEF noted
<1> DEFINE p == IF Advances(list, frame) THEN list.parsed_index + 1
                                         ELSE list.parsed_index
<1>9. p \in Nat
  BY DEF List
<1>10. parse(list, frame) = [noted EXCEPT !.parsed_index = p]
  BY <1>7, <1>8
<1> HIDE DEF p
<1>11. /\ parse(list, frame) \in List
       /\ parse(list, frame).commands = list.commands
       /\ parse(list, frame).parsed_index = p
  BY <1>7, <1>9, <1>10 DEF List
<1>12. QED
  BY <1>1, <1>3, <1>11 DEF p

(* Every variable keeps its type, and _parsed_index never points further    *)
(* than behind the last command a list can have.                            *)
THEOREM ExchangeTypes == Spec => []TypeOK
<1>1. Init => TypeOK
  <2>1. EmptyList \in List /\ Len(EmptyList.commands) = 0 /\ EmptyList.parsed_index = 0
    BY BusAssumption DEF EmptyList, List
  <2>2. << >> \in Seq(Frame) /\ << >> \in Seq(Seq(Command \X (0 .. MaxCommands)))
    OBVIOUS
  <2>3. [a \in Addresses |-> Unknown] \in [Addresses -> Modes \cup {Unknown}]
    OBVIOUS
  <2> SUFFICES ASSUME Init PROVE TypeOK
    OBVIOUS
  <2>4. /\ ilc \in List
        /\ Len(ilc.commands) <= MaxCommands
        /\ ilc.parsed_index <= MaxCommands
    BY <2>1, ExchangeAssumption DEF Init
  <2>5. /\ irq \in BOOLEAN
        /\ clean \in BOOLEAN
    BY DEF Init
  <2>6. QED
    BY <2>2, <2>3, <2>4, <2>5, ExchangeAssumption DEF Init, TypeOK
<1>2. TypeOK /\ [Next]_vars => TypeOK'
  <2> SUFFICES ASSUME TypeOK, [Next]_vars PROVE TypeOK'
    OBVIOUS
  <2> USE ExchangeAssumption, BusAssumption DEF TypeOK
  <2>1. ASSUME NEW cmds \in Lists, Call(cmds) PROVE TypeOK'
    <3> USE <2>1 DEF Call
    <3>1. cmds \in Seq(Command) /\ Len(cmds) <= MaxCommands /\ Len(cmds) \in Nat
      <4>1. PICK n \in 1 .. MaxCommands : cmds \in [1 .. n -> Commands]
        BY DEF Lists
      <4>2. cmds \in [1 .. n -> Command]
        BY <4>1
      <4>3. QED
        BY <4>1, <4>2, FunctionIsSeq
    <3>2. ilc' \in List /\ Len(ilc'.commands) <= MaxCommands
          /\ ilc'.parsed_index <= MaxCommands
      BY <3>1 DEF Fill, List
    <3>3. rx' \in Seq(Frame)
      <4>1. DOMAIN rx = 1 .. Len(rx) /\ Len(rx) \in Nat
        OBVIOUS
      <4>2. ASSUME NEW i \in 1 .. Len(rx) PROVE [rx[i] EXCEPT !.of = 0] \in Frame
        <5>1. rx[i] \in Frame /\ 0 \in 0 .. MaxCommands
          BY <4>1
        <5>2. QED
          BY <5>1 DEF Frame
      <4>3. [i \in 1 .. Len(rx) |-> [rx[i] EXCEPT !.of = 0]] \in [1 .. Len(rx) -> Frame]
        BY <4>2
      <4>4. Forget(rx) = [i \in 1 .. Len(rx) |-> [rx[i] EXCEPT !.of = 0]]
        BY <4>1 DEF Forget
      <4>5. Forget(rx) \in Seq(Frame)
        BY <4>1, <4>3, <4>4, FunctionIsSeq
      <4>6. QED
        BY <4>5
    <3>4. ASSUME NEW i \in DOMAIN tx
          PROVE  ForgetTx(tx[i]) \in Seq(Command \X (0 .. MaxCommands))
      <4> DEFINE call == tx[i]
      <4>1. call \in Seq(Command \X (0 .. MaxCommands))
        OBVIOUS
      <4> HIDE DEF call
      <4>2. DOMAIN call = 1 .. Len(call) /\ Len(call) \in Nat
        BY <4>1
      <4>3. \A j \in 1 .. Len(call) : << call[j][1], 0 >> \in Command \X (0 .. MaxCommands)
        BY <4>1, <4>2
      <4>4. [j \in 1 .. Len(call) |-> << call[j][1], 0 >>]
               \in [1 .. Len(call) -> Command \X (0 .. MaxCommands)]
        BY <4>3
      <4>5. ForgetTx(call) \in Seq(Command \X (0 .. MaxCommands))
        BY <4>2, <4>4, FunctionIsSeq DEF ForgetTx
      <4>6. QED
        BY <4>5 DEF call
    <3>5. [i \in DOMAIN cmds |-> << cmds[i], i >>] \in Seq(Command \X (0 .. MaxCommands))
      <4>1. DOMAIN cmds = 1 .. Len(cmds)
        BY <3>1
      <4>2. \A i \in 1 .. Len(cmds) : << cmds[i], i >> \in Command \X (0 .. MaxCommands)
        BY <3>1
      <4>3. [i \in 1 .. Len(cmds) |-> << cmds[i], i >>]
               \in [1 .. Len(cmds) -> Command \X (0 .. MaxCommands)]
        BY <4>2
      <4>4. QED
        BY <3>1, <4>1, <4>3, FunctionIsSeq
    <3>6. [i \in DOMAIN tx |-> ForgetTx(tx[i])] \in Seq(Seq(Command \X (0 .. MaxCommands)))
      <4>1. DOMAIN tx = 1 .. Len(tx) /\ Len(tx) \in Nat
        OBVIOUS
      <4>2. [i \in 1 .. Len(tx) |-> ForgetTx(tx[i])]
               \in [1 .. Len(tx) -> Seq(Command \X (0 .. MaxCommands))]
        BY <3>4, <4>1
      <4>3. QED
        BY <4>1, <4>2, FunctionIsSeq
    <3>7. tx' \in Seq(Seq(Command \X (0 .. MaxCommands)))
      BY <3>5, <3>6
    <3>8. QED
      BY <3>2, <3>3, <3>7
  <2>2. CASE Read
    <3>1. next_message(ilc) \in List /\ next_message(ilc).commands = ilc.commands
          /\ next_message(ilc).parsed_index = 0
      BY DEF next_message, List
    <3>2. << >> \in Seq(Frame)
      OBVIOUS
    <3>3. irq' \in BOOLEAN /\ clean' \in BOOLEAN
      BY <2>2 DEF Read
    <3>4. suspects' \subseteq Addresses
      BY <2>2 DEF Read
    <3>5. /\ ilc' \in List
          /\ Len(ilc'.commands) <= MaxCommands
          /\ ilc'.parsed_index <= MaxCommands
          /\ frames' \in Seq(Frame)
          /\ rx' \in Seq(Frame)
          /\ pc' \in {"idle", "wait", "parse"}
          /\ ended' \in {"none", "normal", "missing", "short", "exhausted",
                  "unregistered", "error", "bad"}
      BY <2>2, <3>1, <3>2 DEF Read
    <3>6. QED
      BY <2>2, <3>3, <3>4, <3>5 DEF Read
  <2>3. CASE ParseFrame
    <3> USE <2>3 DEF ParseFrame
    <3>1. Head(frames) \in Frame /\ Tail(frames) \in Seq(Frame)
      OBVIOUS
    <3>2. ilc' \in List /\ Len(ilc'.commands) <= MaxCommands
          /\ ilc'.parsed_index <= MaxCommands
      <4>1. ilc' = parse(ilc, Head(frames))
        OBVIOUS
      <4>2. ilc \in List /\ ilc.parsed_index \in Nat /\ Len(ilc.commands) \in Nat
        BY DEF List
      <4>3. ilc' \in List /\ ilc'.commands = ilc.commands
        BY <3>1, <4>1, <4>2, ParseType
      <4>4. ilc'.parsed_index <= MaxCommands
        <5>1. CASE Advances(ilc, Head(frames))
          <6>1. parse(ilc, Head(frames)).parsed_index = ilc.parsed_index + 1
                /\ ilc.parsed_index < Len(ilc.commands)
            BY <3>1, <4>2, <5>1, ParseType
          <6>2. QED
            BY <4>1, <4>2, <6>1
        <5>2. CASE ~Advances(ilc, Head(frames))
          BY <3>1, <4>1, <4>2, <5>2, ParseType
        <5>3. QED
          BY <5>1, <5>2
      <4>5. QED
        BY <4>3, <4>4
    <3>3. lastMode' \in [Addresses -> Modes \cup {Unknown}]
      BY <3>1 DEF StoreMode, Frame
    <3>4. handled' \subseteq 0 .. MaxCommands
      BY <3>1 DEF Frame
    <3>5. /\ pc' \in {"idle", "wait", "parse"}
          /\ frames' \in Seq(Frame)
          /\ ended' \in {"none", "normal", "missing", "short", "exhausted",
                  "unregistered", "error", "bad"}
      <4> DEFINE outcome == Outcome(ilc, Head(frames))
      <4>1. AfterParse(outcome)
        OBVIOUS
      <4>2. outcome \in {"short", "exhausted", "wrong",
               "unregistered", "handled", "bad", "error_handled", "error"}
        BY <3>1, ParseType
      <4> HIDE DEF outcome
      <4>3. CASE outcome = "wrong"
        BY <4>1, <4>3 DEF AfterParse, caller
      <4>4. CASE outcome \in {"handled", "error_handled"}
        BY <3>1, <4>1, <4>4 DEF AfterParse
      <4>5. CASE outcome \notin {"wrong", "handled", "error_handled"}
        <5>1. Throw(outcome)
          BY <4>1, <4>5 DEF AfterParse
        <5>2. << >> \in Seq(Frame)
          OBVIOUS
        <5>3. QED
          BY <4>2, <4>5, <5>1, <5>2 DEF Throw
      <4>6. QED
        BY <4>3, <4>4, <4>5
    <3>6. QED
      BY <3>2, <3>3, <3>4, <3>5 DEF fpga
  <2>4. CASE Finish
    BY <2>4 DEF Finish, fpga, ghosts
  <2>s. ASSUME Sending
        PROVE  /\ OnBus \in Command \X (0 .. MaxCommands)
               /\ Sent \in Seq(Seq(Command \X (0 .. MaxCommands)))
    BY <2>s DEF Sending, OnBus, Sent
  <2>5. ASSUME NEW kind \in {"answer", "error"} \cup Disturbances,
               NEW mode \in Modes \cup {Unknown}, Answer(kind, mode)
        PROVE TypeOK'
    <3> USE <2>5 DEF Answer
    <3>1. OnBus[1] \in Command /\ OnBus[2] \in 0 .. MaxCommands
      BY <2>s
    <3>2. [address |-> OnBus[1].address, func |-> OnBus[1].func, kind |-> kind,
           mode |-> mode, of |-> OnBus[2]] \in Frame
      BY <3>1 DEF Frame, Command, Kinds
    <3>3. rx' \in Seq(Frame) /\ tx' \in Seq(Seq(Command \X (0 .. MaxCommands)))
      BY <3>2, <2>s
    <3>4. reported' \in [Addresses -> Modes \cup {Unknown}]
      OBVIOUS
    <3>5. answered' \subseteq 0 .. MaxCommands /\ suspects' \subseteq Addresses
      BY <3>1
    <3>6. QED
      BY <3>3, <3>4, <3>5 DEF caller
  <2>6. CASE Silence
    BY <2>6, <2>s DEF Silence, caller, Command
  <2>7. CASE RaiseIrq
    BY <2>7 DEF RaiseIrq, caller, ghosts
  <2>8. CASE UNCHANGED vars
    BY <2>8 DEF vars, caller, fpga, ghosts
  <2>9. QED
    BY <2>1, <2>2, <2>3, <2>4, <2>5, <2>6, <2>7, <2>8
    DEF Next, CallerStep, BusStep
<1>3. QED
  BY <1>1, <1>2, PTL DEF Spec

----------------------------------------------------------------------------
(* The walk along the list keeps in step with the frames. While the frames  *)
(* of a clean call come in, they are those of commands on the bus already,  *)
(* in their order; while they are parsed, _parsed_index has not passed the  *)
(* command of the first one left, so that it is found. A command is passed  *)
(* over only if nobody answered it, or if its answer was taken for that of  *)
(* an equal command before, which then was not answered: "suspects" has the *)
(* address in both cases.                                                   *)

Last == Len(ilc.commands)
OnLine == IF tx = << >> THEN 0 ELSE Len(tx[1])

Own(frame) ==
    /\ frame.of \in 1 .. Last
    /\ frame.address = ilc.commands[frame.of].address
    /\ frame.func = ilc.commands[frame.of].func
    /\ frame.kind \notin {"noise", "short"}

Ordered(s) == \A i, j \in 1 .. Len(s) : i < j => s[i].of < s[j].of

Indices(s) == { s[i].of : i \in 1 .. Len(s) }

Suspect(j) == ilc.commands[j].address \in suspects

ToSend ==
    tx # << >> =>
        /\ Len(tx) = 1
        /\ ~irq
        /\ OnLine <= Last
        /\ \A i \in 1 .. OnLine :
              tx[1][i] = << ilc.commands[Last - OnLine + i], Last - OnLine + i >>

Waiting ==
    /\ ToSend
    /\ \A i \in 1 .. Len(rx) : Own(rx[i]) /\ rx[i].of <= Last - OnLine
    /\ Ordered(rx)
    /\ answered = Indices(rx)
    /\ handled = {}
    /\ \A j \in 1 .. (Last - OnLine) : j \notin answered => Suspect(j)

Walking ==
    /\ tx = << >>
    /\ \A i \in 1 .. Len(frames) : Own(frames[i])
    /\ Ordered(frames)
    /\ frames # << >> => ilc.parsed_index < frames[1].of
    /\ answered = handled \cup Indices(frames)
    /\ \A h \in handled, i \in 1 .. Len(frames) : h < frames[i].of
    /\ \A j \in 1 .. Last : j \notin answered => Suspect(j)
    /\ \A j \in handled : j \in 1 .. Last /\ (j > ilc.parsed_index => Suspect(j))

Home ==
    /\ tx = << >>
    /\ ended # "exhausted"
    /\ ended = "normal" => handled = answered

InStep ==
    /\ clean /\ pc = "wait" => Waiting
    /\ clean /\ pc = "parse" => Walking
    /\ clean /\ pc = "idle" => Home
    /\ ~clean /\ pc = "parse" => suspects = Addresses

(* What a frame of a clean call finds: its command has not been passed.     *)
LEMMA FrameInStep ==
  ASSUME TypeOK, Walking, frames # << >>
  PROVE  /\ Head(frames) = frames[1]
         /\ frames[1] \in Frame
         /\ Own(frames[1])
         /\ ilc.parsed_index + 1 \in 1 .. frames[1].of
         /\ ~Exhausted(ilc)
         /\ Outcome(ilc, frames[1]) \notin {"short", "exhausted"}
<1>1. /\ Head(frames) = frames[1]
      /\ frames[1] \in Frame
      /\ 1 \in 1 .. Len(frames)
  BY DEF TypeOK
<1>2. Own(frames[1])
  BY <1>1 DEF Walking
<1>3. ilc.parsed_index \in Nat /\ Last \in Nat
  BY DEF TypeOK, List, Last
<1>4. ilc.parsed_index < frames[1].of /\ frames[1].of \in 1 .. Last
  BY <1>2 DEF Walking, Own
<1>5. ilc.parsed_index + 1 \in 1 .. frames[1].of
  BY <1>3, <1>4
<1>6. ~Exhausted(ilc)
  BY <1>3, <1>4 DEF Exhausted, Last
<1>7. Outcome(ilc, frames[1]) \notin {"short", "exhausted"}
  BY <1>1, <1>2, <1>6 DEF Outcome, Own, Frame, Kinds
<1>8. QED
  BY <1>1, <1>2, <1>5, <1>6, <1>7

(* The command that the index points at belongs to a suspect unless it is   *)
(* the one the frame answers.                                               *)
LEMMA PassedIsSuspect ==
  ASSUME TypeOK, Walking, frames # << >>, ilc.parsed_index + 1 # frames[1].of
  PROVE  Suspect(ilc.parsed_index + 1)
<1> DEFINE p == ilc.parsed_index + 1
<1>1. ilc.parsed_index \in Nat /\ Last \in Nat /\ Len(frames) \in Nat
      /\ frames \in Seq(Frame) /\ 1 \in 1 .. Len(frames)
  BY DEF TypeOK, List, Last
<1>2. p < frames[1].of /\ p \in 1 .. Last
  BY <1>1, FrameInStep DEF Own
<1>3. p \notin Indices(frames)
  <2> SUFFICES ASSUME NEW i \in 1 .. Len(frames), p = frames[i].of PROVE FALSE
    BY DEF Indices
  <2>1. frames[1].of \in Nat /\ frames[i].of \in Nat
    <3>1. frames[1] \in Frame /\ frames[i] \in Frame
      BY <1>1
    <3>2. 0 .. MaxCommands \subseteq Nat
      OBVIOUS
    <3>3. QED
      BY <3>1, <3>2 DEF Frame
  <2>2. CASE i = 1
    BY <1>2, <2>1, <2>2
  <2>3. CASE i # 1
    <3>1. 1 < i
      BY <1>1, <2>3
    <3>2. frames[1].of < frames[i].of
      BY <1>1, <3>1 DEF Walking, Ordered
    <3>3. QED
      BY <1>2, <2>1, <3>2
  <2>4. QED
    BY <2>2, <2>3
<1>4. p \in handled \/ p \notin answered
  BY <1>3 DEF Walking
<1>5. p > ilc.parsed_index
  BY <1>1
<1>6. QED
  BY <1>2, <1>4, <1>5 DEF Walking

(* Each action keeps the walk in step.                                      *)
LEMMA CallInStep ==
  ASSUME TypeOK, InStep, NEW cmds \in Lists, Call(cmds)
  PROVE  InStep'
<1> USE DEF Call
<1>1. PICK n \in 1 .. MaxCommands : cmds \in [1 .. n -> Commands]
  BY DEF Lists
<1>2. Len(cmds) = n /\ DOMAIN cmds = 1 .. n /\ n \in Nat
  BY <1>1, FunctionIsSeq
<1>3. pc' = "wait"
  OBVIOUS
<1>4. ASSUME clean' PROVE Waiting'
  <2>1. tx = << >> /\ rx = << >> /\ ~irq /\ ~irq'
    BY <1>4
  <2>2. ilc'.commands = cmds
    BY DEF Fill, TypeOK, List
  <2> DEFINE new == [i \in 1 .. n |-> << cmds[i], i >>]
  <2>3. new \in Seq(Commands \X (1 .. n)) /\ Len(new) = n
    BY <1>1, <1>2, FunctionIsSeq
  <2>4. tx' = << new >>
    <3> DEFINE old == [i \in DOMAIN tx |-> ForgetTx(tx[i])]
    <3>1. old \in [1 .. 0 -> {}]
      BY <2>1
    <3>2. old \in Seq({}) /\ Len(old) = 0
      BY <3>1, FunctionIsSeq
    <3>3. old = << >>
      BY <3>2
    <3>4. tx' = Append(old, new)
      BY <1>2
    <3>5. QED
      BY <3>3, <3>4
  <2>5. rx' = << >>
    BY <2>1 DEF Forget
  <2>6. Last' = n /\ OnLine' = n /\ Len(tx') = 1 /\ tx'[1] = new
    <3> HIDE DEF new
    <3>0. \A x : Len(<< x >>) = 1 /\ << x >>[1] = x /\ << x >> # << >>
      OBVIOUS
    <3>1. Len(tx') = 1 /\ tx'[1] = new /\ tx' # << >>
      BY ONLY <2>4, <3>0
    <3>2. Last' = n
      BY <1>2, <2>2 DEF Last
    <3>3. OnLine' = n
      BY <2>3, <3>1 DEF OnLine
    <3>4. QED
      BY <3>1, <3>2, <3>3
  <2>7. \A i \in 1 .. n : new[i] = << cmds[i], i >> /\ n - n + i = i
    BY <1>2
  <2> HIDE DEF new
  <2>8. ToSend'
    BY <1>2, <2>1, <2>2, <2>6, <2>7 DEF ToSend
  <2>9. Ordered(rx)' /\ Indices(rx)' = {} /\ Len(rx') = 0
    BY <2>5 DEF Ordered, Indices
  <2>10. 1 .. (Last - OnLine)' = {}
    BY <1>2, <2>6
  <2>11. QED
    BY <2>8, <2>9, <2>10 DEF Waiting
<1>5. QED
  BY <1>3, <1>4 DEF InStep

LEMMA ReadInStep ==
  ASSUME TypeOK, InStep, Read
  PROVE  InStep'
<1> USE DEF Read
<1>1. ASSUME clean' PROVE clean /\ irq /\ Waiting /\ tx = << >>
  BY <1>1 DEF InStep, Waiting, ToSend
<1>2. tx' = tx /\ answered' = answered /\ handled' = handled
  OBVIOUS
<1>3. CASE rx = << >>
  <2>1. pc' = "idle" /\ ended' = "missing"
    BY <1>3
  <2>2. QED
    BY <1>1, <1>2, <2>1 DEF InStep, Home
<1>4. CASE rx # << >>
  <2>1. pc' = "parse" /\ frames' = rx /\ ilc' = next_message(ilc)
    BY <1>4
  <2>2. ilc'.commands = ilc.commands /\ ilc'.parsed_index = 0
    BY <2>1 DEF next_message, TypeOK, List
  <2>3. ASSUME clean' PROVE Walking'
    <3>1. clean /\ irq /\ Waiting /\ tx = << >>
      BY <1>1, <2>3
    <3>2. suspects' = suspects
      BY <3>1
    <3>3. Last' = Last /\ Last \in Nat /\ Last - OnLine = Last
      BY <2>2, <3>1 DEF Last, OnLine, TypeOK, List
    <3>4. (\A i \in 1 .. Len(frames) : Own(frames[i]))'
      BY <2>1, <2>2, <3>1, <3>3 DEF Waiting, Own
    <3>5. Ordered(frames)' /\ Indices(frames)' = Indices(rx)
      BY <2>1, <3>1 DEF Waiting, Ordered, Indices
    <3>6. ilc'.parsed_index < frames'[1].of
      <4>1. 1 \in 1 .. Len(rx)
        BY <1>4 DEF TypeOK
      <4>2. rx[1].of \in 1 .. Last
        BY <3>1, <4>1 DEF Waiting, Own
      <4>3. QED
        BY <2>1, <2>2, <3>3, <4>2
    <3>7. answered' = handled' \cup Indices(frames)' /\ handled' = {}
      BY <1>2, <3>1, <3>5 DEF Waiting
    <3>8. (\A j \in 1 .. Last : j \notin answered => Suspect(j))'
      BY <1>2, <2>2, <3>1, <3>2, <3>3 DEF Waiting, Suspect
    <3>9. tx' = << >>
      BY <1>2, <3>1
    <3>10. QED
      BY <3>4, <3>5, <3>6, <3>7, <3>8, <3>9 DEF Walking, Waiting
  <2>4. ASSUME ~clean' PROVE suspects' = Addresses
    BY <2>4
  <2>5. QED
    BY <2>1, <2>3, <2>4 DEF InStep
<1>5. QED
  BY <1>3, <1>4

LEMMA FinishInStep ==
  ASSUME TypeOK, InStep, Finish
  PROVE  InStep'
<1> USE DEF Finish, fpga, ghosts
<1>1. pc' = "idle" /\ pc = "parse" /\ ended' = "normal"
  OBVIOUS
<1>2. ASSUME clean' PROVE Home'
  <2>1. Walking
    BY <1>1, <1>2 DEF InStep
  <2>2. Indices(frames) = {}
    BY DEF Indices
  <2>3. QED
    BY <2>1, <2>2, <1>1 DEF Walking, Home
<1>3. QED
  BY <1>1, <1>2 DEF InStep

LEMMA ParseFrameInStep ==
  ASSUME TypeOK, InStep, ParseFrame
  PROVE  InStep'
<1> USE DEF ParseFrame
<1> DEFINE f == frames[1]
           p == ilc.parsed_index + 1
           outcome == Outcome(ilc, f)
<1>1. /\ pc = "parse"
      /\ frames # << >>
      /\ clean' = clean
      /\ suspects' = suspects
      /\ answered' = answered
      /\ tx' = tx
  BY DEF fpga
<1>2. Head(frames) = f /\ f \in Frame /\ ilc \in List
      /\ ilc' = parse(ilc, f) /\ AfterParse(outcome)
  <2>1. Head(frames) = f /\ f \in Frame
    BY DEF TypeOK
  <2>2. QED
    BY <2>1 DEF TypeOK
<1>3. Len(frames) \in Nat /\ 1 \in 1 .. Len(frames) /\ frames \in Seq(Frame)
  BY <1>1 DEF TypeOK
<1>4. ilc'.commands = ilc.commands /\ Last' = Last /\ Last \in Nat
  BY <1>2, ParseType DEF Last, List
<1>5. \/ outcome = "wrong" /\ UNCHANGED << pc, frames, ended >>
      \/ /\ outcome \in {"handled", "error_handled"}
         /\ frames' = Tail(frames)
         /\ UNCHANGED << pc, ended >>
      \/ /\ outcome \in {"short", "exhausted", "unregistered", "bad", "error"}
         /\ pc' = "idle" /\ frames' = << >> /\ ended' = outcome
  <2>1. outcome \in {"short", "exhausted", "wrong",
               "unregistered", "handled", "bad", "error_handled", "error"}
    BY <1>2, ParseType
  <2> HIDE DEF outcome
  <2>2. QED
    BY <1>2, <2>1 DEF AfterParse, Throw, caller
<1>6. ASSUME ~clean, pc' = "parse" PROVE suspects' = Addresses
  BY <1>1, <1>6 DEF InStep
<1>7. ASSUME clean PROVE (pc = "parse" => Walking)' /\ (pc = "idle" => Home)'
                         /\ pc' # "wait"
  <2>1. Walking
    BY <1>1, <1>7 DEF InStep
  <2>2. /\ Own(f)
        /\ p \in 1 .. f.of
        /\ outcome \notin {"short", "exhausted"}
        /\ ~Exhausted(ilc)
    BY <1>1, <2>1, FrameInStep
  <2>3. p # f.of => Suspect(p)
    BY <1>1, <2>1, PassedIsSuspect
  <2>4. f.of \in 1 .. Last /\ ilc.parsed_index \in Nat
    BY <1>2, <2>2 DEF Own, List
  <2>5. \A j : Suspect(j)' <=> Suspect(j)
    BY <1>1, <1>4 DEF Suspect
  <2>6. \A frame : Own(frame) <=> Own(frame)'
    BY <1>4 DEF Own
  <2>7. CASE outcome = "wrong"
    <3>1. handled' = handled /\ frames' = frames /\ pc' = pc
      BY <1>2, <1>5, <2>7
    <3>2. ilc'.parsed_index = p
      BY <1>2, <2>7, ParseType DEF Advances
    <3>3. p # f.of
      BY <2>2, <2>7, <1>2, <2>4 DEF Outcome, Matches, Own, Expected, Kinds, Frame
    <3>4. ilc'.parsed_index < frames'[1].of
      BY <2>2, <2>4, <3>1, <3>2, <3>3
    <3>5. \A j \in handled' : j \in 1 .. Last'
                              /\ (j > ilc'.parsed_index => Suspect(j)')
      BY <1>4, <2>1, <2>4, <2>5, <3>1, <3>2 DEF Walking
    <3>6. Walking'
      BY <1>1, <1>4, <2>1, <2>5, <2>6, <3>1, <3>4, <3>5
      DEF Walking, Ordered, Indices
    <3>7. QED
      BY <1>1, <3>1, <3>6
  <2>8. CASE outcome \in {"handled", "error_handled"}
    <3>1. handled' = handled \cup {f.of} /\ frames' = Tail(frames) /\ pc' = pc
      BY <1>2, <1>5, <1>7, <2>8
    <3>2. ilc'.parsed_index = p
      BY <1>2, <2>8, ParseType DEF Advances
    <3>3. /\ Len(frames') = Len(frames) - 1
          /\ \A i \in 1 .. Len(frames') :
                /\ frames'[i] = frames[i + 1]
                /\ i + 1 \in 1 .. Len(frames)
                /\ 1 < i + 1
          /\ \A k \in 1 .. Len(frames) : k = 1 \/ k - 1 \in 1 .. Len(frames')
      BY <1>1, <1>3, <3>1
    <3>4. \A i \in 1 .. Len(frames') : f.of < frames'[i].of
      BY <1>3, <2>1, <3>3 DEF Walking, Ordered
    <3>5. Ordered(frames)'
      <4> SUFFICES ASSUME NEW i \in 1 .. Len(frames'), NEW j \in 1 .. Len(frames'), i < j
                   PROVE  frames'[i].of < frames'[j].of
        BY DEF Ordered
      <4>1. i + 1 < j + 1
        BY <1>3, <3>3
      <4>2. QED
        BY <2>1, <3>3, <4>1 DEF Walking, Ordered
    <3>6. Indices(frames) = {f.of} \cup Indices(frames)'
      <4>1. ASSUME NEW k \in 1 .. Len(frames)
            PROVE  frames[k].of = f.of \/ frames[k].of \in Indices(frames)'
        <5>1. CASE k = 1
          BY <5>1
        <5>2. CASE k # 1
          <6>1. k - 1 \in 1 .. Len(frames') /\ frames'[k - 1] = frames[k]
            BY <1>3, <3>3, <5>2
          <6>2. QED
            BY <6>1 DEF Indices
        <5>3. QED
          BY <5>1, <5>2
      <4>2. ASSUME NEW i \in 1 .. Len(frames') PROVE frames'[i].of \in Indices(frames)
        BY <3>3 DEF Indices
      <4>3. f.of \in Indices(frames)
        BY <1>3 DEF Indices
      <4>4. Indices(frames) \subseteq {f.of} \cup Indices(frames)'
        BY <4>1 DEF Indices
      <4>5. Indices(frames)' \subseteq Indices(frames)
        BY <4>2 DEF Indices
      <4>6. QED
        BY <4>3, <4>4, <4>5
    <3>7. answered' = handled' \cup Indices(frames)'
      BY <1>1, <2>1, <3>1, <3>6 DEF Walking
    <3>8. \A i \in 1 .. Len(frames') : Own(frames'[i])
      BY <2>1, <3>3 DEF Walking
    <3>9. ASSUME NEW h \in handled', NEW i \in 1 .. Len(frames') PROVE h < frames'[i].of
      <4>1. CASE h = f.of
        BY <3>4, <4>1
      <4>2. CASE h \in handled
        BY <2>1, <3>3, <4>2 DEF Walking
      <4>3. QED
        BY <3>1, <4>1, <4>2
    <3>10. frames' # << >> => ilc'.parsed_index < frames'[1].of
      <4> SUFFICES ASSUME frames' # << >> PROVE p < frames'[1].of
        BY <3>2
      <4>1. 1 \in 1 .. Len(frames')
        BY <1>1, <1>3, <3>1
      <4>2. f.of < frames'[1].of /\ Own(frames'[1])
        BY <3>4, <3>8, <4>1
      <4>3. QED
        BY <2>2, <2>4, <4>2 DEF Own
    <3>11. ASSUME NEW j \in handled', j > p PROVE Suspect(j)
      <4>1. CASE j \in handled
        <5>1. j \in 1 .. Last
          BY <2>1, <4>1 DEF Walking
        <5>2. j > ilc.parsed_index
          BY <2>4, <3>11, <5>1
        <5>3. QED
          BY <2>1, <4>1, <5>2 DEF Walking
      <4>2. CASE j = f.of
        <5>1. Suspect(p)
          BY <2>3, <2>2, <2>4, <3>11, <4>2
        <5>2. Matches(ilc, f)
          BY <2>8 DEF Outcome
        <5>3. ilc.commands[p].address = f.address
          BY <5>2 DEF Matches, Expected
        <5>4. ilc.commands[j].address = f.address
          BY <2>2, <4>2 DEF Own
        <5>5. QED
          BY <5>1, <5>3, <5>4 DEF Suspect
      <4>3. QED
        BY <3>1, <4>1, <4>2
    <3>12. \A j \in handled' : j \in 1 .. Last' /\ (j > ilc'.parsed_index => Suspect(j)')
      BY <1>4, <2>1, <2>4, <2>5, <3>1, <3>2, <3>11 DEF Walking
    <3>13. Walking'
      BY <1>1, <1>4, <2>1, <2>5, <2>6, <3>5, <3>7, <3>8, <3>9, <3>10, <3>12
      DEF Walking
    <3>14. QED
      BY <1>1, <3>1, <3>13
  <2>9. CASE outcome \in {"short", "exhausted", "unregistered", "bad", "error"}
    <3>1. pc' = "idle" /\ ended' = outcome
      BY <1>5, <2>9
    <3>2. ended' # "exhausted" /\ ended' # "normal"
      BY <2>2, <2>9, <3>1
    <3>3. QED
      BY <1>1, <2>1, <3>1, <3>2 DEF Home, Walking
  <2>10. QED
    BY <1>5, <2>7, <2>8, <2>9
<1>8. QED
  BY <1>1, <1>6, <1>7 DEF InStep

(* Putting one more command of a clean call on the bus.                     *)
LEMMA SentInStep ==
  ASSUME TypeOK, InStep, Sending, clean
  PROVE  /\ pc = "wait" /\ Waiting
         /\ Last \in Nat /\ OnLine \in 1 .. Last
         /\ OnBus = << ilc.commands[Last - OnLine + 1], Last - OnLine + 1 >>
         /\ tx' = Sent /\ ilc' = ilc =>
               /\ Last' = Last
               /\ OnLine' = OnLine - 1
               /\ irq' = irq => ToSend'
<1>1. tx # << >> /\ Head(tx) # << >> /\ Head(tx) = tx[1]
      /\ tx \in Seq(Seq(Command \X (0 .. MaxCommands)))
  BY DEF Sending, TypeOK
<1>2. pc = "wait" /\ Waiting
  BY <1>1 DEF InStep, Walking, Home, TypeOK
<1>3. Len(tx) = 1 /\ ~irq /\ OnLine <= Last
      /\ \A i \in 1 .. OnLine :
            tx[1][i] = << ilc.commands[Last - OnLine + i], Last - OnLine + i >>
  BY <1>1, <1>2 DEF Waiting, ToSend
<1> DEFINE call == tx[1]
<1>4. call \in Seq(Command \X (0 .. MaxCommands)) /\ call # << >>
  BY <1>1, <1>3
<1>5. Last \in Nat /\ OnLine = Len(call)
  BY <1>1 DEF Last, OnLine, TypeOK, List
<1> HIDE DEF call
<1>6. OnLine \in 1 .. Last
  BY <1>3, <1>4, <1>5
<1>7. OnBus = << ilc.commands[Last - OnLine + 1], Last - OnLine + 1 >>
  <2>1. OnBus = call[1]
    BY <1>1, <1>4 DEF OnBus, call
  <2>2. QED
    BY <1>3, <1>6, <2>1 DEF call
<1>8. ASSUME tx' = Sent, ilc' = ilc
      PROVE  /\ Last' = Last
             /\ OnLine' = OnLine - 1
             /\ irq' = irq => ToSend'
  <2>1. Last' = Last
    BY <1>8 DEF Last
  <2>2. Tail(tx) = << >>
    BY <1>1, <1>3, TailOfOne
  <2>3. Tail(call) \in Seq(Command \X (0 .. MaxCommands))
        /\ Len(Tail(call)) = OnLine - 1
        /\ \A i \in 1 .. (OnLine - 1) : Tail(call)[i] = call[i + 1]
    BY <1>4, <1>5
  <2>4. tx' = << Tail(call) >>
    BY <1>1, <1>8, <2>2, <2>3, OneAlone DEF Sent, call
  <2>5. Len(tx') = 1 /\ tx'[1] = Tail(call) /\ tx' # << >>
    <3>1. \A x : Len(<< x >>) = 1 /\ << x >>[1] = x /\ << x >> # << >>
      OBVIOUS
    <3>2. QED
      BY ONLY <2>4, <3>1
  <2>6. OnLine' = OnLine - 1
    BY <2>3, <2>5 DEF OnLine
  <2>7. ASSUME irq' = irq PROVE ToSend'
    <3>1. ASSUME NEW i \in 1 .. (OnLine - 1)
          PROVE  tx'[1][i] = << ilc.commands[Last - (OnLine - 1) + i],
                                Last - (OnLine - 1) + i >>
      <4>1. i + 1 \in 1 .. OnLine /\ Last - OnLine + (i + 1) = Last - (OnLine - 1) + i
        BY <1>5, <1>6
      <4>2. tx'[1][i] = call[i + 1]
        BY <2>3, <2>5
      <4>3. QED
        BY <1>3, <4>1, <4>2 DEF call
    <3>2. OnLine - 1 <= Last
      BY <1>5, <1>6
    <3>3. QED
      BY <1>3, <1>8, <2>1, <2>5, <2>6, <2>7, <3>1, <3>2 DEF ToSend
  <2>8. QED
    BY <2>1, <2>6, <2>7
<1>9. QED
  BY <1>2, <1>5, <1>6, <1>7, <1>8

LEMMA AnswerInStep ==
  ASSUME TypeOK, InStep, NEW kind \in {"answer", "error"} \cup Disturbances,
         NEW mode \in Modes \cup {Unknown}, Answer(kind, mode)
  PROVE  InStep'
<1> USE DEF Answer
<1>1. pc' = pc /\ ilc' = ilc /\ tx' = Sent /\ irq' = irq /\ handled' = handled
      /\ Sending
  BY DEF caller
<1>2. ASSUME ~clean', pc' = "parse" PROVE suspects' = Addresses
  <2>1. CASE clean
    BY <1>2, <2>1
  <2>2. CASE ~clean
    BY <1>1, <1>2, <2>2 DEF InStep
  <2>3. QED
    BY <2>1, <2>2
<1>3. ASSUME clean' PROVE pc' = "wait" /\ Waiting'
  <2>1. clean /\ kind \notin {"noise", "short"} /\ suspects' = suspects
    BY <1>3
  <2>2. /\ pc = "wait" /\ Waiting
        /\ Last \in Nat /\ OnLine \in 1 .. Last
        /\ OnBus = << ilc.commands[Last - OnLine + 1], Last - OnLine + 1 >>
        /\ Last' = Last /\ OnLine' = OnLine - 1 /\ ToSend'
    BY <1>1, <2>1, SentInStep
  <2> DEFINE n == Last - OnLine + 1
             frame == [address |-> OnBus[1].address, func |-> OnBus[1].func,
                       kind |-> kind, mode |-> mode, of |-> OnBus[2]]
  <2>3. n \in 1 .. Last /\ Last' - OnLine' = n /\ Last - OnLine = n - 1
    BY <2>2
  <2>4. Own(frame) /\ frame.of = n
    BY <2>1, <2>2, <2>3 DEF Own
  <2>5. rx' = Append(rx, frame) /\ answered' = answered \cup {n}
    BY <2>1, <2>2
  <2> HIDE DEF frame, n
  <2>6. /\ Len(rx') = Len(rx) + 1 /\ Len(rx) \in Nat
        /\ rx'[Len(rx) + 1] = frame
        /\ \A i \in 1 .. Len(rx) : rx'[i] = rx[i]
    BY <2>5 DEF TypeOK
  <2>7. \A i \in 1 .. Len(rx) : Own(rx[i]) /\ rx[i].of <= n - 1 /\ rx[i].of \in Nat
    BY <2>2, <2>3 DEF Waiting, Own
  <2>8. \A i \in 1 .. Len(rx') : i \in 1 .. Len(rx) \/ i = Len(rx) + 1
    BY <2>6
  <2>9. \A i \in 1 .. Len(rx') : Own(rx'[i]) /\ rx'[i].of <= n
    BY <2>3, <2>4, <2>6, <2>7, <2>8
  <2>10. \A fr : Own(fr)' <=> Own(fr)
    BY <1>1 DEF Own, Last
  <2>11. Ordered(rx)'
    <3> SUFFICES ASSUME NEW i \in 1 .. Len(rx'), NEW j \in 1 .. Len(rx'), i < j
                 PROVE  rx'[i].of < rx'[j].of
      BY DEF Ordered
    <3>1. i \in 1 .. Len(rx)
      BY <2>6, <2>8
    <3>2. CASE j \in 1 .. Len(rx)
      BY <2>2, <2>6, <3>1, <3>2 DEF Waiting, Ordered
    <3>3. CASE j = Len(rx) + 1
      BY <2>3, <2>4, <2>6, <2>7, <3>1, <3>3
    <3>4. QED
      BY <2>8, <3>2, <3>3
  <2>12. answered' = Indices(rx)'
    <3>1. Indices(rx)' = Indices(rx) \cup {n}
      <4>1. ASSUME NEW i \in 1 .. Len(rx') PROVE rx'[i].of \in Indices(rx) \cup {n}
        BY <2>4, <2>6, <2>8 DEF Indices
      <4>2. ASSUME NEW i \in 1 .. Len(rx) PROVE rx[i].of \in Indices(rx)'
        <5>1. i \in 1 .. Len(rx') /\ rx'[i] = rx[i]
          BY <2>6
        <5>2. QED
          BY <5>1 DEF Indices
      <4>3. n \in Indices(rx)'
        <5>1. Len(rx) + 1 \in 1 .. Len(rx')
          BY <2>6
        <5>2. QED
          BY <2>4, <2>6, <5>1 DEF Indices
      <4>4. Indices(rx)' \subseteq Indices(rx) \cup {n}
        BY <4>1 DEF Indices
      <4>5. Indices(rx) \subseteq Indices(rx)'
        BY <4>2 DEF Indices
      <4>6. QED
        BY <4>3, <4>4, <4>5
    <3>2. QED
      BY <2>2, <2>5, <3>1 DEF Waiting
  <2>13. \A j \in 1 .. n : j \notin answered' => Suspect(j)'
    <3> SUFFICES ASSUME NEW j \in 1 .. n, j \notin answered' PROVE Suspect(j)'
      OBVIOUS
    <3>1. j \in 1 .. (n - 1) /\ j \notin answered
      BY <2>3, <2>5
    <3>2. QED
      BY <1>1, <2>1, <2>2, <2>3, <3>1 DEF Waiting, Suspect
  <2>14. Waiting'
    <3>1. (\A i \in 1 .. Len(rx) : Own(rx[i]) /\ rx[i].of <= Last - OnLine)'
      BY <2>3, <2>9, <2>10
    <3>2. handled' = {}
      BY <1>1, <2>2 DEF Waiting
    <3>3. (\A j \in 1 .. (Last - OnLine) : j \notin answered => Suspect(j))'
      BY <2>3, <2>13
    <3>4. QED
      BY <2>2, <2>11, <2>12, <3>1, <3>2, <3>3 DEF Waiting
  <2>15. QED
    BY <1>1, <2>2, <2>14
<1>4. QED
  BY <1>2, <1>3 DEF InStep

LEMMA SilenceInStep ==
  ASSUME TypeOK, InStep, Silence
  PROVE  InStep'
<1> USE DEF Silence
<1>1. pc' = pc /\ ilc' = ilc /\ tx' = Sent /\ irq' = irq /\ rx' = rx
      /\ clean' = clean /\ answered' = answered /\ handled' = handled /\ Sending
  BY DEF caller
<1>2. ASSUME ~clean', pc' = "parse" PROVE suspects' = Addresses
  <2>1. suspects = Addresses
    BY <1>1, <1>2 DEF InStep
  <2>2. OnBus[1].address \in Addresses
    <3>1. tx \in Seq(Seq(Command \X (0 .. MaxCommands))) /\ tx # << >> /\ Head(tx) # << >>
      BY DEF Sending, TypeOK
    <3>2. Head(tx) \in Seq(Command \X (0 .. MaxCommands))
      BY <3>1
    <3>3. OnBus \in Command \X (0 .. MaxCommands)
      BY <3>1, <3>2 DEF OnBus
    <3>4. QED
      BY <3>3 DEF Command
  <2>3. QED
    BY <2>1, <2>2
<1>3. ASSUME clean' PROVE pc' = "wait" /\ Waiting'
  <2>1. /\ pc = "wait" /\ Waiting
        /\ Last \in Nat /\ OnLine \in 1 .. Last
        /\ OnBus = << ilc.commands[Last - OnLine + 1], Last - OnLine + 1 >>
        /\ Last' = Last /\ OnLine' = OnLine - 1 /\ ToSend'
    BY <1>1, <1>3, SentInStep
  <2>2. (\A i \in 1 .. Len(rx) : Own(rx[i]) /\ rx[i].of <= Last - OnLine)'
    <3> SUFFICES ASSUME NEW i \in 1 .. Len(rx)
                 PROVE  Own(rx[i])' /\ rx[i].of <= Last - (OnLine - 1)
      BY <1>1, <2>1
    <3>1. Own(rx[i]) /\ rx[i].of <= Last - OnLine /\ rx[i].of \in 1 .. Last
      BY <2>1 DEF Waiting, Own
    <3>2. QED
      BY <1>1, <2>1, <3>1 DEF Own
  <2>3. Ordered(rx)' /\ answered' = Indices(rx)' /\ handled' = {}
    BY <1>1, <2>1 DEF Waiting, Ordered, Indices
  <2>4. ASSUME NEW j \in 1 .. (Last - (OnLine - 1)), j \notin answered
        PROVE  Suspect(j)'
    <3>1. CASE j \in 1 .. (Last - OnLine)
      BY <1>1, <2>1, <2>4, <3>1 DEF Waiting, Suspect
    <3>2. CASE j = Last - OnLine + 1
      <4>1. OnBus[1] = ilc.commands[j]
        BY <2>1, <3>2
      <4>2. QED
        BY <1>1, <4>1 DEF Suspect
    <3>3. QED
      BY <2>1, <3>1, <3>2
  <2>5. QED
    BY <1>1, <2>1, <2>2, <2>3, <2>4 DEF Waiting
<1>4. QED
  BY <1>2, <1>3 DEF InStep

LEMMA RaiseIrqInStep ==
  ASSUME TypeOK, InStep, RaiseIrq
  PROVE  InStep'
<1> USE DEF RaiseIrq
<1>1. /\ ilc' = ilc /\ pc' = pc /\ frames' = frames /\ ended' = ended /\ rx' = rx
      /\ clean' = clean /\ answered' = answered /\ handled' = handled
      /\ suspects' = suspects /\ tx' = Tail(tx)
      /\ tx # << >> /\ Head(tx) = << >>
  BY DEF caller, ghosts
<1>2. ASSUME clean PROVE pc = "wait" /\ Waiting /\ Waiting'
  <2>1. pc = "wait" /\ Waiting
    BY <1>1, <1>2 DEF InStep, Walking, Home, TypeOK
  <2>2. Len(tx) = 1 /\ tx[1] = << >>
    BY <1>1, <2>1 DEF Waiting, ToSend, TypeOK
  <2>3. tx' = << >>
    BY <1>1, <2>2, TailOfOne DEF TypeOK
  <2>4. OnLine = 0 /\ OnLine' = 0 /\ Last' = Last
    BY <1>1, <2>2, <2>3 DEF OnLine, Last
  <2>5. ToSend'
    BY <2>3 DEF ToSend
  <2>6. \A fr : Own(fr)' <=> Own(fr)
    BY <1>1 DEF Own, Last
  <2>7. QED
    BY <1>1, <2>1, <2>4, <2>5, <2>6 DEF Waiting, Ordered, Indices, Suspect
<1>3. QED
  BY <1>1, <1>2 DEF InStep

(* Every call that begins clean is in step with the bus from then on.       *)
LEMMA AlwaysInStep == Spec => []InStep
<1>1. Init => InStep
  <2> SUFFICES ASSUME Init PROVE InStep
    OBVIOUS
  <2>1. clean
    BY DEF Init
  <2>2. QED
    BY <2>1 DEF Init, InStep, Home
<1>2. TypeOK /\ InStep /\ [Next]_vars => InStep'
  <2> SUFFICES ASSUME TypeOK, InStep, [Next]_vars PROVE InStep'
    OBVIOUS
  <2>1. ASSUME NEW cmds \in Lists, Call(cmds) PROVE InStep'
    BY <2>1, CallInStep
  <2>2. CASE Read
    BY <2>2, ReadInStep
  <2>3. CASE ParseFrame
    BY <2>3, ParseFrameInStep
  <2>4. CASE Finish
    BY <2>4, FinishInStep
  <2>5. ASSUME NEW kind \in {"answer", "error"} \cup Disturbances,
               NEW mode \in Modes \cup {Unknown}, Answer(kind, mode)
        PROVE  InStep'
    BY <2>5, AnswerInStep
  <2>6. CASE Silence
    BY <2>6, SilenceInStep
  <2>7. CASE RaiseIrq
    BY <2>7, RaiseIrqInStep
  <2>8. CASE UNCHANGED vars
    <3>1. /\ ilc' = ilc /\ pc' = pc /\ frames' = frames /\ ended' = ended
          /\ tx' = tx /\ rx' = rx /\ irq' = irq
          /\ answered' = answered /\ handled' = handled /\ suspects' = suspects
      BY <2>8 DEF vars, caller, fpga, ghosts
    <3>2. clean' = clean
      BY <2>8 DEF vars, ghosts
    <3>3. Waiting' = Waiting /\ Walking' = Walking /\ Home' = Home
      BY <3>1 DEF Waiting, Walking, Home, ToSend, Own, Ordered, Indices,
                  Suspect, OnLine, Last
    <3>4. QED
      BY <3>1, <3>2, <3>3 DEF InStep
  <2>9. QED
    BY <2>1, <2>2, <2>3, <2>4, <2>5, <2>6, <2>7, <2>8
    DEF Next, CallerStep, BusStep
<1>3. QED
  BY <1>1, <1>2, ExchangeTypes, PTL DEF Spec

(* A call that ends normally after an exchange of its own has given every   *)
(* answer to the action of its command: FPGA.cpp 138-153, BusList.cpp 48-77.*)
THEOREM AnswersAreHandled == Spec => []AnswersHandled
<1>1. InStep => AnswersHandled
  BY DEF InStep, Home, AnswersHandled, Returned
<1>2. QED
  BY <1>1, AlwaysInStep, PTL

(* _commands.at(_parsed_index) does not throw in such a call.               *)
THEOREM NeverOverrun == Spec => []NoOverrun
<1>1. InStep => NoOverrun
  BY DEF InStep, Home, NoOverrun, Returned
<1>2. QED
  BY <1>1, AlwaysInStep, PTL

----------------------------------------------------------------------------
(* Whom the errors are recorded for.                                        *)

(* Only parse records errors, and only for the command that the frame       *)
(* passes over.                                                             *)
LEMMA ParseBlames ==
  ASSUME TypeOK, frames # << >>,
         NEW a \in Addresses,
         parse(ilc, Head(frames)).errors[a] # ilc.errors[a]
  PROVE  /\ ilc.parsed_index + 1 \in 1 .. Last
         /\ a = ilc.commands[ilc.parsed_index + 1].address
         /\ ~Matches(ilc, Head(frames))
<1> DEFINE frame == Head(frames)
<1>1. frame \in Frame /\ ilc \in List
  BY DEF TypeOK
<1>2. ilc.parsed_index \in Nat /\ Last \in Nat
  BY <1>1 DEF List, Last
<1> HIDE DEF frame
<1> DEFINE noted == IF Outcome(ilc, frame) = "wrong"
                    THEN Record(ilc, Expected(ilc).address) ELSE ilc
<1>3. parse(ilc, frame).errors = noted.errors
  <2>1. noted = [noted EXCEPT !.errors = noted.errors]
    BY <1>1 DEF List, Record
  <2>2. QED
    BY <1>1 DEF parse, List, Record
<1>4. Outcome(ilc, frame) = "wrong" /\ a = Expected(ilc).address
  <2>1. noted.errors[a] # ilc.errors[a]
    BY <1>3 DEF frame
  <2>2. QED
    BY <1>1, <2>1 DEF List, Record
<1>5. ~Exhausted(ilc) /\ ~Matches(ilc, frame)
  BY <1>1, <1>4 DEF Outcome, Frame, Kinds, Matches
<1>6. QED
  BY <1>2, <1>4, <1>5 DEF Exhausted, Expected, Last, frame

(* An error is recorded only for an address that failed to answer once:     *)
(* BusList.cpp 33-37 and 55-67.                                             *)
THEOREM OnlySuspectsBlamed == Spec => []Blameless
<1>1. Init => Blameless
  BY DEF Init, Blameless, EmptyList
<1>2. TypeOK /\ InStep /\ Blameless /\ [Next]_vars => Blameless'
  <2> SUFFICES ASSUME TypeOK, InStep, Blameless, [Next]_vars,
                      NEW a \in Addresses, ilc'.errors[a] > 0
               PROVE  a \in suspects'
    BY DEF Blameless
  <2>1. suspects \subseteq suspects'
    <3>1. ASSUME NEW kind, NEW mode, Answer(kind, mode) PROVE suspects \subseteq suspects'
      BY <3>1 DEF Answer, TypeOK
    <3>2. CASE BusStep
      BY <3>1, <3>2 DEF BusStep, Silence, RaiseIrq, ghosts
    <3>3. CASE CallerStep
      BY <3>3 DEF CallerStep, Read, ParseFrame, Finish, ghosts, TypeOK
    <3>4. QED
      BY <3>2, <3>3 DEF Next, Call, vars, ghosts
  <2>2. CASE ilc'.errors = ilc.errors
    BY <2>1, <2>2 DEF Blameless
  <2>3. CASE ilc'.errors # ilc.errors
    <3>1. ParseFrame
      <4>1. ASSUME NEW cmds, Call(cmds) PROVE ilc'.errors = ilc.errors
        BY <4>1 DEF Call, Fill, TypeOK, List
      <4>2. Read => ilc'.errors = ilc.errors
        BY DEF Read, next_message, TypeOK, List
      <4>3. ASSUME NEW kind, NEW mode, Answer(kind, mode) PROVE ilc' = ilc
        BY <4>3 DEF Answer
      <4>4. QED
        BY <2>3, <4>1, <4>2, <4>3
        DEF Next, CallerStep, BusStep, Finish, Silence, RaiseIrq, vars
    <3>2. pc = "parse" /\ frames # << >> /\ ilc' = parse(ilc, Head(frames))
          /\ suspects' = suspects
      BY <3>1 DEF ParseFrame, ghosts
    <3>3. CASE ilc'.errors[a] = ilc.errors[a]
      BY <3>2, <3>3 DEF Blameless
    <3>4. CASE ilc'.errors[a] # ilc.errors[a]
      <4>1. a = ilc.commands[ilc.parsed_index + 1].address
            /\ ~Matches(ilc, Head(frames))
        BY <3>2, <3>4, ParseBlames
      <4>2. CASE clean
        <5>1. Walking
          BY <3>2, <4>2 DEF InStep
        <5>2. ilc.parsed_index + 1 # frames[1].of
          BY <3>2, <4>1, <5>1, FrameInStep DEF Own, Matches, Expected
        <5>3. QED
          BY <3>2, <4>1, <5>1, <5>2, PassedIsSuspect DEF Suspect
      <4>3. CASE ~clean
        BY <3>2, <4>3 DEF InStep
      <4>4. QED
        BY <4>2, <4>3
    <3>5. QED
      BY <3>3, <3>4
  <2>4. QED
    BY <2>2, <2>3
<1>3. QED
  BY <1>1, <1>2, ExchangeTypes, AlwaysInStep, PTL DEF Spec
----------------------------------------------------------------------------
(* The modes.  Of the answers of an ILC that tell its mode, the last one    *)
(* counts: it is in the response of the FPGA, then among the frames that    *)
(* are left, until its action has stored it.                                *)

Tells(frame, a) ==
    frame.kind = "answer" /\ frame.func \in ModeFunctions /\ frame.address = a

NoneTells(s, a) == \A i \in 1 .. Len(s) : ~Tells(s[i], a)

LastTells(s, a, mode) ==
    \E i \in 1 .. Len(s) :
        /\ Tells(s[i], a) /\ s[i].mode = mode
        /\ \A j \in 1 .. Len(s) : j > i => ~Tells(s[j], a)

Stored(a) == lastMode[a] = reported[a]

ModesInStep ==
    \A a \in Addresses : clean /\ reported[a] # Unknown =>
        /\ pc = "wait" => LastTells(rx, a, reported[a])
        /\ pc = "parse" => \/ NoneTells(frames, a) /\ Stored(a)
                           \/ LastTells(frames, a, reported[a])
        /\ pc = "idle" /\ ended = "normal" => Stored(a)

LEMMA AnswerKeepsModes ==
  ASSUME TypeOK, InStep, ModesInStep,
         NEW kind \in {"answer", "error"} \cup Disturbances,
         NEW mode \in Modes \cup {Unknown}, Answer(kind, mode)
  PROVE  ModesInStep'
<1> SUFFICES ASSUME NEW a \in Addresses, clean', reported'[a] # Unknown
             PROVE  pc = "wait" /\ LastTells(rx', a, reported'[a])
  BY DEF ModesInStep, Answer, caller
<1>1. clean /\ Sending
  BY DEF Answer
<1>2. pc = "wait"
  BY <1>1, SentInStep
<1> DEFINE f == [address |-> OnBus[1].address, func |-> OnBus[1].func,
                 kind |-> kind, mode |-> mode, of |-> OnBus[2]]
<1>3. rx' = Append(rx, f) /\ rx \in Seq(Frame)
  BY DEF Answer, TypeOK
<1>4. /\ Len(rx) \in Nat /\ Len(rx') = Len(rx) + 1
      /\ rx'[Len(rx) + 1] = f
      /\ \A i \in 1 .. Len(rx) : rx'[i] = rx[i]
  <2> HIDE DEF f
  <2>1. QED
    BY <1>3
<1>5. Tells(f, a) <=> TellsMode(kind) /\ OnBus[1].address = a
  BY DEF Tells, TellsMode
<1>6. reported \in [Addresses -> Modes \cup {Unknown}]
  BY DEF TypeOK
<1>7. CASE Tells(f, a)
  <2>1. reported'[a] = mode /\ f.mode = mode
    BY <1>1, <1>5, <1>6, <1>7 DEF Answer
  <2>2. QED
    BY <1>2, <1>4, <1>7, <2>1 DEF LastTells
<1>8. CASE ~Tells(f, a)
  <2>1. reported'[a] = reported[a]
    BY <1>5, <1>6, <1>8 DEF Answer
  <2>2. PICK i \in 1 .. Len(rx) :
            /\ Tells(rx[i], a) /\ rx[i].mode = reported[a]
            /\ \A j \in 1 .. Len(rx) : j > i => ~Tells(rx[j], a)
    BY <1>1, <1>2, <2>1 DEF ModesInStep, LastTells
  <2>3. /\ i \in 1 .. Len(rx') /\ Tells(rx'[i], a) /\ rx'[i].mode = reported'[a]
        /\ \A j \in 1 .. Len(rx') : j > i => ~Tells(rx'[j], a)
    BY <1>4, <1>8, <2>1, <2>2
  <2>4. QED
    BY <1>2, <2>3 DEF LastTells
<1>9. QED
  BY <1>7, <1>8

(* Taking the first frame away, when its mode is stored or it tells none.   *)
LEMMA TailKeepsModes ==
  ASSUME TypeOK, frames # << >>, NEW a \in Addresses, NEW stored,
         \/ NoneTells(frames, a) /\ Stored(a)
         \/ LastTells(frames, a, reported[a]),
         stored = IF Tells(Head(frames), a) THEN Head(frames).mode ELSE lastMode[a]
  PROVE  \/ NoneTells(Tail(frames), a) /\ stored = reported[a]
         \/ LastTells(Tail(frames), a, reported[a])
<1>1. /\ Len(frames) \in Nat /\ Len(frames) >= 1 /\ Head(frames) = frames[1]
      /\ Len(Tail(frames)) = Len(frames) - 1
      /\ \A i \in 1 .. Len(frames) - 1 : Tail(frames)[i] = frames[i + 1]
  BY DEF TypeOK
<1>2. CASE NoneTells(frames, a) /\ Stored(a)
  <2>1. ~Tells(Head(frames), a)
    BY <1>1, <1>2 DEF NoneTells
  <2>2. NoneTells(Tail(frames), a)
    BY <1>1, <1>2 DEF NoneTells
  <2>3. QED
    BY <1>2, <2>1, <2>2 DEF Stored
<1>3. CASE LastTells(frames, a, reported[a])
  <2>1. PICK i \in 1 .. Len(frames) :
            /\ Tells(frames[i], a) /\ frames[i].mode = reported[a]
            /\ \A j \in 1 .. Len(frames) : j > i => ~Tells(frames[j], a)
    BY <1>3 DEF LastTells
  <2>2. CASE i = 1
    <3>1. stored = reported[a]
      BY <1>1, <2>1, <2>2
    <3>2. NoneTells(Tail(frames), a)
      BY <1>1, <2>1, <2>2 DEF NoneTells
    <3>3. QED
      BY <3>1, <3>2
  <2>3. CASE i # 1
    <3>1. /\ i - 1 \in 1 .. Len(Tail(frames))
          /\ Tells(Tail(frames)[i - 1], a) /\ Tail(frames)[i - 1].mode = reported[a]
      BY <1>1, <2>1, <2>3
    <3>2. ASSUME NEW j \in 1 .. Len(Tail(frames)), j > i - 1
          PROVE  ~Tells(Tail(frames)[j], a)
      <4>1. j + 1 \in 1 .. Len(frames) /\ j + 1 > i /\ Tail(frames)[j] = frames[j + 1]
        BY <1>1, <3>2
      <4>2. QED
        BY <2>1, <4>1
    <3>3. QED
      BY <3>1, <3>2 DEF LastTells
  <2>4. QED
    BY <2>2, <2>3
<1>4. QED
  BY <1>2, <1>3

LEMMA ParseKeepsModes ==
  ASSUME TypeOK, ModesInStep, ParseFrame
  PROVE  ModesInStep'
<1> DEFINE frame == Head(frames)
           outcome == Outcome(ilc, frame)
<1>1. /\ pc = "parse" /\ frames # << >> /\ AfterParse(outcome)
      /\ lastMode' = StoreMode(outcome, frame)
      /\ clean' = clean /\ reported' = reported
  BY DEF ParseFrame
<1>2. frame \in Frame /\ ilc \in List
  BY <1>1 DEF TypeOK
<1>3. /\ outcome = "handled" => frame.kind = "answer"
      /\ outcome = "error_handled" => frame.kind = "error"
      /\ outcome \in {"short", "exhausted", "wrong", "unregistered", "handled",
                      "bad", "error_handled", "error"}
  <2>1. frame.kind \in Kinds
    BY <1>2 DEF Frame
  <2>2. /\ outcome = "handled" => frame.kind = "answer"
        /\ outcome = "error_handled" => frame.kind = "error"
    <3>1. CASE frame.kind = "answer"
      BY <3>1 DEF Outcome
    <3>2. CASE frame.kind = "error"
      BY <3>2 DEF Outcome
    <3>3. CASE frame.kind = "bad"
      BY <3>3 DEF Outcome
    <3>4. CASE frame.kind = "noise"
      BY <3>4 DEF Outcome, Matches
    <3>5. CASE frame.kind = "short"
      BY <3>5 DEF Outcome
    <3>6. QED
      BY <2>1, <3>1, <3>2, <3>3, <3>4, <3>5 DEF Kinds
  <2>3. QED
    BY <1>2, <2>2, ParseType
<1> SUFFICES ASSUME NEW a \in Addresses, clean, reported[a] # Unknown
             PROVE  /\ pc' = "wait" => LastTells(rx', a, reported[a])
                    /\ pc' = "parse" => \/ NoneTells(frames', a) /\ Stored(a)'
                                        \/ LastTells(frames', a, reported[a])
                    /\ pc' = "idle" /\ ended' = "normal" => Stored(a)'
  BY <1>1 DEF ModesInStep
<1>4. \/ NoneTells(frames, a) /\ Stored(a)
      \/ LastTells(frames, a, reported[a])
  BY <1>1 DEF ModesInStep
<1> HIDE DEF outcome
<1>5. CASE outcome = "wrong"
  <2>1. UNCHANGED << caller, lastMode >>
    BY <1>1, <1>5 DEF AfterParse, StoreMode
  <2>2. QED
    BY <1>1, <1>4, <2>1 DEF caller, Stored
<1>6. CASE outcome \in {"handled", "error_handled"}
  <2>1. frames' = Tail(frames) /\ pc' = pc
    BY <1>1, <1>6 DEF AfterParse
  <2>2. lastMode'[a] = IF Tells(frame, a) THEN frame.mode ELSE lastMode[a]
    BY <1>1, <1>2, <1>3, <1>6 DEF StoreMode, Tells, TypeOK, Frame
  <2>3. \/ NoneTells(Tail(frames), a) /\ lastMode'[a] = reported[a]
        \/ LastTells(Tail(frames), a, reported[a])
    BY <1>1, <1>4, <2>2, TailKeepsModes
  <2>4. QED
    BY <1>1, <2>1, <2>3 DEF Stored
<1>7. CASE outcome \in {"short", "exhausted", "unregistered", "bad", "error"}
  <2>1. pc' = "idle" /\ ended' = outcome
    BY <1>1, <1>7 DEF AfterParse, Throw
  <2>2. QED
    BY <1>7, <2>1
<1>8. QED
  BY <1>3, <1>5, <1>6, <1>7

LEMMA ModesNext == TypeOK /\ InStep /\ ModesInStep /\ [Next]_vars => ModesInStep'
<1> SUFFICES ASSUME TypeOK, InStep, ModesInStep, [Next]_vars PROVE ModesInStep'
  OBVIOUS
<1>1. ASSUME NEW cmds \in Lists, Call(cmds) PROVE ModesInStep'
  BY <1>1 DEF Call, ModesInStep
<1>2. CASE Read
  <2>1. CASE rx = << >>
    BY <1>2, <2>1 DEF Read, ModesInStep
  <2>2. CASE rx # << >>
    BY <1>2, <2>2 DEF Read, ModesInStep
  <2>3. QED
    BY <2>1, <2>2
<1>3. CASE ParseFrame
  BY <1>3, ParseKeepsModes
<1>4. CASE Finish
  <2>1. \A a \in Addresses : ~LastTells(<< >>, a, reported[a])
    BY DEF LastTells
  <2>2. QED
    BY <1>4, <2>1 DEF Finish, ModesInStep, Stored, fpga, ghosts
<1>5. ASSUME NEW kind \in {"answer", "error"} \cup Disturbances,
             NEW mode \in Modes \cup {Unknown}, Answer(kind, mode)
      PROVE  ModesInStep'
  BY <1>5, AnswerKeepsModes
<1>6. CASE Silence \/ RaiseIrq
  BY <1>6 DEF Silence, RaiseIrq, ModesInStep, Stored, caller, ghosts
<1>7. CASE UNCHANGED vars
  BY <1>7 DEF ModesInStep, Stored, vars, caller, fpga, ghosts
<1>8. QED
  BY <1>1, <1>2, <1>3, <1>4, <1>5, <1>6, <1>7 DEF Next, CallerStep, BusStep

(* After a call that ends normally after an exchange of its own, _lastMode  *)
(* of every ILC that has told its mode is the one it told last, whichever   *)
(* others were silent or repeated: ILCBusList.cpp 51-67.                    *)
THEOREM LastModeIsTrue == Spec => []LastModeTrue
<1>1. Init => ModesInStep
  BY DEF Init, ModesInStep
<1>2. ModesInStep => LastModeTrue
  BY DEF ModesInStep, LastModeTrue, Returned, Stored
<1>3. QED
  BY <1>1, <1>2, ModesNext, AlwaysInStep, ExchangeTypes, PTL DEF Spec
=============================================================================
