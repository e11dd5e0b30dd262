------------------------------ MODULE FPGACli ------------------------------
(* An FPGACliApp (FPGACliApp.cpp, SimpleFPGACliApp.h): somebody types lines *)
(* that open and close the FPGA, send commands to ILCs, exempt ILCs from    *)
(* such commands, and program them. The session may end, or crash, with     *)
(* ILCs in any state, and another one be started.                           *)
(*                                                                          *)
(* How a line becomes the call of a command is CliApp, what program-ilc     *)
(* does with one ILC is PrintILC.                                           *)
EXTENDS PrintILC, CliApp

CONSTANTS
    Lines,          \* what may be typed
    Names,          \* the commands there are
    Act,            \* [Names -> what each does]
    Map,            \* [Names -> its argument map]
    Passes,         \* [tokens -> letters of argument maps they pass for]
    File,           \* [tokens -> lines of the file of that name]
    Named,          \* [tokens -> the ILCs that getILCs finds for it]
    Order,          \* the ILCs in the order getILCs gives them
    BusOrder        \* and the buses in that of _ilcs

Acts == {"open", "close", "exempt", "include", "status", "standby", "enable", "program"}

ASSUME CliAssumption ==
    /\ Act \in [Names -> Acts]
    /\ \A name \in Names : Act[name] = "program" => Map[name] = << "F", "S", "?" >>
    /\ \A line \in Lines : tokenize(line) # << >> => Tail(tokenize(line)) \in Seq(DOMAIN Passes)
    /\ \A token \in DOMAIN Passes : "F" \in Passes[token] => File[token] \in Seq(IntelHexLine)
    /\ Order \in Seq(Units)
    /\ BusOrder \in Seq(Buses)

VARIABLES
    process,    \* "off", or "up": an interactive session
    fpga_,      \* _fpga: "null" or "made", opened or not
    disabled,   \* _disabledILCs
    running,    \* the command being executed, or "none"
    todo,       \* ILCs left for program-ilc, buses left for runILCCommands
    intended    \* auxiliary: the lists the command has filled

session == << process, fpga_, disabled, running, todo, intended >>
allVars == << vars, session >>

NeedsFpga == {"close", "exempt", "include", "status", "standby", "enable", "program"}

NoLists == [b \in Buses |-> << >>]

CliInit ==
    /\ Init
    /\ process = "off"
    /\ fpga_ = "null"
    /\ disabled = {}
    /\ running = "none"
    /\ todo = << >>
    /\ intended = NoLists

----------------------------------------------------------------------------
(* The process.                                                             *)

\* Nothing the process knew is left. The ILCs are what they were.
Forget ==
    /\ list' = NoLists
    /\ lastMode' = [u \in Units |-> Unknown]
    /\ stats' = NoStats
    /\ wire' = << >>
    /\ replies' = << >>
    /\ exchange' = "none"
    /\ stage' = "idle"
    /\ records' = << >>
    /\ pages' = << >>
    /\ disabled' = {}
    /\ running' = "none"
    /\ todo' = << >>
    /\ intended' = NoLists
    /\ upset' = {}
    /\ refusals' = {}
    /\ misled' = {}
    /\ UNCHANGED << unit, mode, flash, written, verified >>

\* run: the FPGA is opened unless the arguments say not to. If that throws the
\* process ends.
Launch(auto) ==
    /\ process = "off"
    /\ process' = "up"
    /\ fpga_' = IF auto THEN "made" ELSE "null"
    /\ UNCHANGED << vars, disabled, running, todo, intended >>

AtPrompt == process = "up" /\ running = "none"

\* exit, and the end of input, which closes the FPGA and crashes when there is
\* none to close. Either way the process is gone.
Quit ==
    /\ AtPrompt
    /\ process' = "off"
    /\ fpga_' = "null"
    /\ Forget

\* The program crashes. To be killed in the middle of a command leaves no more
\* behind than an exception there and the end of the session.
Die ==
    /\ stage = "crashed"
    /\ process' = "off"
    /\ fpga_' = "null"
    /\ Forget

----------------------------------------------------------------------------
(* Commands that take one step.                                             *)

Returns == UNCHANGED << process, running, todo >>

\* initialize or open may throw: _fpga is set all the same
Open ==
    /\ fpga_' = "made"
    /\ Returns
    /\ UNCHANGED << vars, disabled, intended >>

Close ==
    /\ fpga_' = "null"
    /\ Returns
    /\ UNCHANGED << vars, disabled, intended >>

Refuse ==
    /\ Returns
    /\ UNCHANGED << vars, fpga_, disabled, intended >>

----------------------------------------------------------------------------
(* Commands for ILCs.                                                       *)

\* A loop that leaves out what is not in the set (TLAPS cannot expand SelectSeq)
Among(sequence, set) ==
    LET kept[n \in 0 .. Len(sequence)] ==
            IF n = 0 THEN << >>
            ELSE IF sequence[n] \in set THEN Append(kept[n - 1], sequence[n]) ELSE kept[n - 1]
    IN  kept[Len(sequence)]

\* getILCs, which is external: all ILCs if no one is named
Chosen(args) ==
    IF args = << >> THEN Order
    ELSE Among(Order, UNION { Named[args[i]] : i \in DOMAIN args })

Asked(act, u) ==
    CASE act = "status" -> reportServerStatus(u)
      [] act = "standby" -> changeILCMode(u, "Standby")
      [] act = "enable" -> changeILCMode(u, "Enabled")

\* What an ILC command puts in the list of a bus, for the ILCs not exempted
Filled(act, units, b) ==
    LET mine == Among(units, { u \in Units : BusOf[u] = b /\ u \notin disabled })
    IN  [i \in DOMAIN mine |-> Asked(act, mine[i])]

\* Mutant: the lists keep what a command that failed left in them.
ClearNothing(lists) == lists

Clear(lists) == NoLists

\* @disable and @enable: the lists stay empty and nothing is sent
Exempt(act, units) ==
    /\ disabled' = IF act = "exempt" THEN disabled \cup Range(units)
                   ELSE disabled \ Range(units)
    /\ list' = Clear(list)
    /\ intended' = NoLists
    /\ Returns
    /\ UNCHANGED << lastMode, fpga, program, ilcs, fpga_ >>

\* clearILCs, the action for every ILC, and into runILCCommands
Fill(act, units) ==
    LET lists == Clear(list)
    IN  /\ intended' = [b \in Buses |-> Filled(act, units, b)]
        /\ list' = [b \in Buses |-> lists[b] \o Filled(act, units, b)]
        /\ running' = "ilc"
        /\ todo' = Among(BusOrder, { b \in Buses : list'[b] # << >> })
        /\ UNCHANGED << lastMode, fpga, program, ilcs, process, fpga_, disabled >>

\* runILCCommands: the next bus with something in its list
Send ==
    /\ running = "ilc"
    /\ exchange = "none"
    /\ todo # << >>
    /\ wire' = list[Head(todo)]
    /\ replies' = << >>
    /\ exchange' = "sending"
    /\ UNCHANGED << list, lastMode, program, ilcs, session >>

\* An exception ends the command, the lists stay as they are.
SendFails ==
    /\ running = "ilc"
    /\ EndFailed
    /\ running' = "none"
    /\ todo' = << >>
    /\ intended' = NoLists
    /\ UNCHANGED << list, program, ilcs, process, fpga_, disabled >>

Sent ==
    /\ running = "ilc"
    /\ EndParsed
    /\ todo' = Tail(todo)
    /\ UNCHANGED << list, program, ilcs, process, fpga_, disabled, running, intended >>

Done ==
    /\ running = "ilc"
    /\ exchange = "none"
    /\ todo = << >>
    /\ running' = "none"
    /\ intended' = NoLists
    /\ UNCHANGED << vars, process, fpga_, disabled, todo >>

\* program-ilc: the file is loaded, and one ILC after the other gets it
LoadAndProgram(args) ==
    LET loaded == load(File[args[1]])
        units == Chosen(Tail(args))
    IN  IF loaded.failed \/ units = << >> THEN Refuse
        ELSE /\ running' = "program"
             /\ todo' = Tail(units)
             /\ Start(Head(units), loaded.records)
             /\ UNCHANGED << process, fpga_, disabled, intended >>

Leaves ==
    /\ stage' = "idle"
    /\ records' = << >>
    /\ pages' = << >>
    /\ upset' = {}
    /\ refusals' = {}
    /\ misled' = {}
    /\ stats' = NoStats
    /\ UNCHANGED << list, lastMode, fpga, unit, mode, flash, written, verified >>

ProgramNext ==
    /\ running = "program"
    /\ stage = "done"
    /\ IF todo = << >>
       THEN /\ running' = "none"
            /\ Leaves
            /\ UNCHANGED todo
       ELSE /\ todo' = Tail(todo)
            /\ Start(Head(todo), records)
            /\ UNCHANGED running
    /\ UNCHANGED << process, fpga_, disabled, intended >>

\* An exception: the ILCs that were to follow are not programmed.
ProgramEnds ==
    /\ running = "program"
    /\ stage = "failed"
    /\ Leaves
    /\ running' = "none"
    /\ todo' = << >>
    /\ UNCHANGED << process, fpga_, disabled, intended >>

----------------------------------------------------------------------------
(* A line is typed.                                                         *)

Do(act, args) ==
    LET units == Chosen(args)
    IN  CASE act = "open" -> Open
          [] act = "close" -> Close
          [] act = "program" -> LoadAndProgram(args)
          [] act \in {"exempt", "include"} /\ units # << >> -> Exempt(act, units)
          [] act \in {"status", "standby", "enable"} /\ units # << >> -> Fill(act, units)
          [] OTHER -> Refuse

\* processBuffer, processCmdVector, processCommand
Type(line) ==
    LET tokens == tokenize(line)
        name == findCommand(Names, tokens[1])
        args == Tail(tokens)
    IN  /\ AtPrompt
        /\ tokens # << >>
        /\ IF /\ Found(Names, tokens[1])
              /\ Act[name] \in NeedsFpga => fpga_ # "null"
              /\ verifyArguments([i \in DOMAIN args |-> Passes[args[i]]], Map[name])
           THEN Do(Act[name], args)
           ELSE Refuse

CliStep ==
    \/ \E line \in Lines : Type(line)
    \/ Send \/ SendFails \/ Sent \/ Done
    \/ ProgramNext \/ ProgramEnds
    \/ Quit \/ Die
    \/ \E auto \in BOOLEAN : Launch(auto)

CliNext ==
    \/ CliStep
    \/ (ProgramStep \/ ExchangeStep \/ ILCStep) /\ UNCHANGED session
    \/ \E u \in Units : Upset(u) /\ UNCHANGED session

----------------------------------------------------------------------------
(* Properties.                                                              *)

\* What is sent belongs to the command in execution: lists that exceptions have
\* left filled, on this bus or another, are never sent by a later command; and
\* an ILC that was exempted gets none, on its own or with all others, until it
\* is included again. Only program-ilc does not ask for that.
OnlyWhatWasAsked ==
    exchange = "sending" =>
        /\ IsSuffix(wire, IF Programming THEN Wanted ELSE intended[Head(todo)])
        /\ \A i \in DOMAIN wire : wire[i].unit \in disabled => Programming

CliSpec == CliInit /\ [][CliNext]_allVars
=============================================================================
