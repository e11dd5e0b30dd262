---------------------------- MODULE ILCCommands ----------------------------
(* FPGA::ilcCommands (FPGA.cpp) with an ILCBusList: the commands of a list  *)
(* are written to the FPGA, which puts them on the bus one after the other, *)
(* collects what the ILCs answer and raises an interrupt at the end of the  *)
(* list. The caller waits for the interrupt or a timeout, takes whatever    *)
(* the FPGA has received and walks along the list with it.                  *)
(*                                                                          *)
(* The FPGA and the ILCs are outside the repository: the FPGA keeps the     *)
(* order of what it is given, goes on after the caller's timeout, and       *)
(* latches its interrupt until it is acknowledged; ILCs answer, answer with *)
(* an error, or are silent, and the line may spoil what they say.           *)
EXTENDS BusList

CONSTANTS
    Commands,       \* the commands callers put in the list
    Broadcast,      \* addresses nobody answers for
    Modes,          \* ILC modes
    Unknown,        \* and what stands for none
    MayTimeOut,     \* BOOLEAN: waitOnIrqs may return before the interrupt
    Disturbances,   \* what can become of an answer, besides "answer", "error"
    MaxCommands,    \* bound: length of a list
    MaxPending      \* bound: calls whose commands the FPGA still has to send

\* the functions whose answer carries the mode: _lastMode is set by them
ModeFunctions == {"SERVER_STATUS", "CHANGE_MODE"}

ASSUME ExchangeAssumption ==
    /\ Commands \subseteq Command
    /\ Broadcast \subseteq Addresses
    /\ Unknown \notin Modes
    /\ MayTimeOut \in BOOLEAN
    /\ Disturbances \subseteq {"bad", "noise", "short"}
    /\ MaxCommands \in Nat
    /\ MaxPending \in Nat

VARIABLES
    ilc,        \* the bus list
    lastMode,   \* ILCBusList::_lastMode
    pc,         \* the caller: "idle", "wait" (waitOnIrqs) or "parse"
    frames,     \* what it read and has not parsed yet
    ended,      \* how the last call ended: "none", "normal" or the exception
    tx,         \* calls in the FPGA: for each the indices still to be sent
    rx,         \* frames received by the FPGA and not read
    irq         \* interrupt raised and not acknowledged

\* Auxiliary variables, read by properties alone.
VARIABLES
    clean,      \* the exchange of this call is its own and undisturbed
    answered,   \* commands of this call that were answered
    handled,    \* those whose answer got to its action, or error action
    reported,   \* the mode an ILC reported last in this call
    suspects    \* addresses that once failed to answer

caller == << pc, frames, ended >>
fpga == << tx, rx, irq >>
ghosts == << clean, answered, handled, reported, suspects >>
vars == << ilc, lastMode, caller, fpga, ghosts >>

Frame == [address : Addresses, func : Functions, kind : Kinds,
          mode : Modes \cup {Unknown}, of : 0 .. MaxCommands]

TypeOK ==
    /\ ilc \in List
    /\ Len(ilc.commands) <= MaxCommands
    /\ ilc.parsed_index <= MaxCommands
    /\ lastMode \in [Addresses -> Modes \cup {Unknown}]
    /\ pc \in {"idle", "wait", "parse"}
    /\ frames \in Seq(Frame)
    /\ ended \in {"none", "normal", "missing", "short", "exhausted",
                  "unregistered", "error", "bad"}
    /\ tx \in Seq(Seq(Command \X (0 .. MaxCommands)))
    /\ rx \in Seq(Frame)
    /\ irq \in BOOLEAN
    /\ clean \in BOOLEAN
    /\ answered \subseteq 0 .. MaxCommands
    /\ handled \subseteq 0 .. MaxCommands
    /\ reported \in [Addresses -> Modes \cup {Unknown}]
    /\ suspects \subseteq Addresses

Init ==
    /\ ilc = EmptyList
    /\ lastMode = [a \in Addresses |-> Unknown]
    /\ pc = "idle"
    /\ frames = << >>
    /\ ended = "none"
    /\ tx = << >>
    /\ rx = << >>
    /\ irq = FALSE
    /\ clean = TRUE
    /\ answered = {}
    /\ handled = {}
    /\ reported = [a \in Addresses |-> Unknown]
    /\ suspects = Broadcast

----------------------------------------------------------------------------
(* The caller.                                                              *)

Lists == UNION { [1 .. n -> Commands] : n \in 1 .. MaxCommands }

\* Frames of an earlier call keep no index in this one's list: their "of" is 0.
Forget(received) == [i \in DOMAIN received |-> [received[i] EXCEPT !.of = 0]]
ForgetTx(call) == [i \in DOMAIN call |-> << call[i][1], 0 >>]

\* The caller keeps the list of its last call or clears it and makes another,
\* whose data are then written to the command FIFO, and the wait begins. With
\* an empty list the call returns at once, and nothing has changed.
Call(cmds) ==
    /\ pc = "idle"
    /\ cmds # << >>
    /\ Len(tx) < MaxPending
    /\ ilc' = Fill(ilc, cmds)
    /\ pc' = "wait"
    /\ ended' = "none"
    /\ tx' = Append([i \in DOMAIN tx |-> ForgetTx(tx[i])],
                    [i \in DOMAIN cmds |-> << cmds[i], i >>])
    /\ rx' = Forget(rx)
    /\ clean' = (tx = << >> /\ rx = << >> /\ ~irq)
    /\ answered' = {}
    /\ handled' = {}
    /\ reported' = [a \in Addresses |-> Unknown]
    /\ UNCHANGED << lastMode, frames, irq, suspects >>

\* waitOnIrqs, ackIrqs, and reading the response
Read ==
    /\ pc = "wait"
    /\ irq \/ MayTimeOut
    /\ irq' = FALSE
    /\ rx' = << >>
    /\ clean' = (clean /\ irq)
    /\ suspects' = IF clean /\ irq THEN suspects ELSE Addresses
    /\ IF rx = << >>
       THEN /\ pc' = "idle"
            /\ ended' = "missing"
            /\ UNCHANGED << ilc, frames >>
       ELSE /\ pc' = "parse"
            /\ frames' = rx
            /\ ilc' = next_message(ilc)
            /\ UNCHANGED ended
    /\ UNCHANGED << lastMode, tx, answered, handled, reported >>

\* Leave by an exception: what is left of the response is lost.
Throw(what) ==
    /\ pc' = "idle"
    /\ frames' = << >>
    /\ ended' = what

\* Mutant: a frame is given up with the first command it does not answer.
AfterParseOnce(outcome) ==
    IF outcome \in {"wrong", "handled", "error_handled"}
    THEN /\ frames' = Tail(frames)
         /\ UNCHANGED << pc, ended >>
    ELSE Throw(outcome)

\* Only WrongResponse is caught, and the same frame is tried with the next
\* command.
AfterParse(outcome) ==
    CASE outcome = "wrong" -> UNCHANGED caller
      [] outcome \in {"handled", "error_handled"} ->
            /\ frames' = Tail(frames)
            /\ UNCHANGED << pc, ended >>
      [] OTHER -> Throw(outcome)

\* Mutant: std::map::emplace, which leaves an entry that exists.
StoreModeOnce(outcome, frame) ==
    IF outcome = "handled" /\ frame.func \in ModeFunctions
    THEN [lastMode EXCEPT ![frame.address] = IF @ = Unknown THEN frame.mode ELSE @]
    ELSE lastMode

\* What the actions of SERVER_STATUS and CHANGE_MODE store.
StoreMode(outcome, frame) ==
    IF outcome = "handled" /\ frame.func \in ModeFunctions
    THEN [lastMode EXCEPT ![frame.address] = frame.mode]
    ELSE lastMode

\* One call of parse.
ParseFrame ==
    /\ pc = "parse"
    /\ frames # << >>
    /\ LET frame == Head(frames)
           outcome == Outcome(ilc, frame)
       IN  /\ ilc' = parse(ilc, frame)
           /\ AfterParse(outcome)
           /\ lastMode' = StoreMode(outcome, frame)
           /\ handled' = IF clean /\ outcome \in {"handled", "error_handled"}
                         THEN handled \cup {frame.of} ELSE handled
    /\ UNCHANGED << fpga, clean, answered, reported, suspects >>

Finish ==
    /\ pc = "parse"
    /\ frames = << >>
    /\ pc' = "idle"
    /\ ended' = "normal"
    /\ UNCHANGED << ilc, lastMode, frames, fpga, ghosts >>

----------------------------------------------------------------------------
(* The FPGA and the ILCs.                                                   *)

OnBus == Head(Head(tx))
Sending == tx # << >> /\ Head(tx) # << >>
Sent == << Tail(Head(tx)) >> \o Tail(tx)

TellsMode(kind) == kind = "answer" /\ OnBus[1].func \in ModeFunctions

\* An ILC answers the command on the bus
Answer(kind, mode) ==
    /\ Sending
    /\ OnBus[1].address \notin Broadcast
    /\ mode \in IF TellsMode(kind) THEN Modes ELSE {Unknown}
    /\ rx' = Append(rx, [address |-> OnBus[1].address, func |-> OnBus[1].func,
                         kind |-> kind, mode |-> mode, of |-> OnBus[2]])
    /\ tx' = Sent
    /\ clean' = (clean /\ kind \notin {"noise", "short"})
    /\ answered' = IF clean THEN answered \cup {OnBus[2]} ELSE answered
    /\ reported' = IF clean /\ TellsMode(kind)
                   THEN [reported EXCEPT ![OnBus[1].address] = mode]
                   ELSE reported
    /\ suspects' = IF kind \in {"noise", "short"} THEN Addresses ELSE suspects
    /\ UNCHANGED << ilc, lastMode, caller, irq, handled >>

Silence ==
    /\ Sending
    /\ tx' = Sent
    /\ suspects' = suspects \cup {OnBus[1].address}
    /\ UNCHANGED << ilc, lastMode, caller, rx, irq, clean, answered, handled,
                    reported >>

RaiseIrq ==
    /\ tx # << >>
    /\ Head(tx) = << >>
    /\ tx' = Tail(tx)
    /\ irq' = TRUE
    /\ UNCHANGED << ilc, lastMode, caller, rx, ghosts >>

----------------------------------------------------------------------------

CallerStep == Read \/ ParseFrame \/ Finish

BusStep ==
    \/ \E kind \in {"answer", "error"} \cup Disturbances, mode \in Modes \cup {Unknown} :
          Answer(kind, mode)
    \/ Silence
    \/ RaiseIrq

Next ==
    \/ \E cmds \in Lists : Call(cmds)
    \/ CallerStep
    \/ BusStep

Fairness ==
    /\ WF_vars(Read)
    /\ WF_vars(ParseFrame)
    /\ WF_vars(Finish)
    /\ WF_vars(BusStep)

Spec ==
    /\ Init
    /\ [][Next]_vars
    /\ Fairness

\* Properties.

Returned == pc = "idle" /\ clean

\* A call that comes to its normal end has given the answer of every command
\* that was answered to its action: the walk passes over the commands left
\* unanswered and over no other, also when commands are repeated in the list,
\* when the list is used again and after calls that ended by an exception.
AnswersHandled ==
    Returned /\ ended = "normal" => handled = answered

\* The walk does not run off the end of the list unless frames are noise or
\* belong to an earlier call: out_of_range never ends an undisturbed call.
NoOverrun == Returned => ended # "exhausted"

\* After a normal call _lastMode, on which changeILCMode and programILC base
\* what they do, is the mode that the ILC reported last.
LastModeTrue ==
    Returned /\ ended = "normal" =>
        \A a \in Addresses : reported[a] # Unknown => lastMode[a] = reported[a]

\* Errors are recorded only for addresses that failed to answer some command,
\* however many others are silent, answer with errors or end the parse.
Blameless == \A a \in Addresses : ilc.errors[a] > 0 => a \in suspects

\* The loop that tries a frame with one command after the other ends, and so
\* does every call, if the interrupt comes or the wait times out.
CallEnds == pc # "idle" ~> pc = "idle"
=============================================================================
