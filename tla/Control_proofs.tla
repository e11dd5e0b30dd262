---------------------------- MODULE Control_proofs ----------------------------
(* Theorems about what is around a ControllerThread. PID, for any parameters, *)
(* errors, limits and step of thawing: it does not wind up, and thawing is    *)
(* smooth. Commands, for any commands and events: no second answer. Settings, *)
(* for any files, nodes and labels: nothing is left of an earlier load.       *)
(* Arguments, for any letters and lines: the options are processed as given.  *)
EXTENDS PID, Commands, Settings, Arguments, SequenceTheorems, WellFoundedInduction,
        TLAPS

-----------------------------------------------------------------------------
(* PID.                                                                      *)

Triples == Int \X Int \X Int

TypeOK ==
    /\ limited \in BOOLEAN
    /\ initial \in PIDParameters
    /\ current \in PIDParameters
    /\ history \in [error : Triples, control : Triples]
    /\ frozen \in BOOLEAN
    /\ offset \in Int
    /\ output \in Int

\* The products of the coefficients are integers.
LEMMA ProductInt == ASSUME NEW a \in Int, NEW b \in Int PROVE a * b \in Int
  OBVIOUS

LEMMA ControlInt ==
  ASSUME TypeOK, NEW p \in PIDParameters, NEW error \in Errors
  PROVE  Control(p, error) \in Int
<1>1. /\ p.P \in Int /\ p.I \in Int /\ p.D \in Int
      /\ p.N \in Int /\ p.timestep \in Int /\ error \in Int
  BY PIDAssumption
<1>2. /\ p.D * p.N \in Int /\ p.P * p.N \in Int /\ p.I * p.timestep \in Int
      /\ p.I * p.N \in Int /\ p.N * p.timestep \in Int
  BY <1>1, ProductInt
<1>3. /\ p.P * p.N * p.timestep \in Int /\ p.I * p.N * p.timestep \in Int
      /\ 2 * p.D * p.N \in Int
  BY <1>1, <1>2, ProductInt
<1>4. p.I * p.N * p.timestep * p.timestep \in Int
  BY <1>1, <1>3, ProductInt
<1>5. A(p) \in Int /\ B(p) \in Int /\ C(p) \in Int /\ D(p) \in Int /\ E(p) \in Int
  BY <1>1, <1>2, <1>3, <1>4 DEF A, B, C, D, E
<1>6. /\ history.control[1] \in Int /\ history.control[2] \in Int
      /\ history.error[1] \in Int /\ history.error[2] \in Int
  BY DEF TypeOK, Triples
<1>7. /\ D(p) * history.control[1] \in Int /\ E(p) * history.control[2] \in Int
      /\ A(p) * error \in Int /\ B(p) * history.error[1] \in Int
      /\ C(p) * history.error[2] \in Int
  BY <1>1, <1>5, <1>6, ProductInt
<1>8. QED
  BY <1>7 DEF Control

\* Thawing ends up at an integer no further from zero, at most a step away.
LEMMA ThawedOffset ==
  ASSUME TypeOK
  PROVE  /\ Thawed \in Int
         /\ Abs(Thawed) <= Abs(offset)
         /\ Abs(offset - Thawed) <= ThawStep
         /\ (Thawed >= 0 /\ offset >= 0) \/ (Thawed <= 0 /\ offset <= 0)
         /\ frozen => Thawed = offset
<1>1. offset \in Int /\ ThawStep \in Int /\ ThawStep > 0
  BY PIDAssumption DEF TypeOK
<1>2. CASE frozen \/ offset = 0
  <2>1. Thawed = offset
    BY <1>2 DEF Thawed
  <2>2. QED
    BY <1>1, <2>1 DEF Abs
<1>3. CASE ~(frozen \/ offset = 0) /\ Abs(offset) < ThawStep + 1
  <2>1. Thawed = 0
    BY <1>3 DEF Thawed
  <2>2. QED
    BY <1>1, <1>3, <2>1 DEF Abs
<1>4. CASE ~(frozen \/ offset = 0) /\ ~(Abs(offset) < ThawStep + 1) /\ offset > 0
  <2>1. Thawed = offset - ThawStep
    BY <1>4 DEF Thawed
  <2>2. QED
    BY <1>1, <1>4, <2>1 DEF Abs
<1>5. CASE ~(frozen \/ offset = 0) /\ ~(Abs(offset) < ThawStep + 1) /\ ~(offset > 0)
  <2>1. Thawed = offset + ThawStep
    BY <1>5 DEF Thawed
  <2>2. QED
    BY <1>1, <1>5, <2>1 DEF Abs
<1>6. QED
  BY <1>2, <1>3, <1>4, <1>5

\* A limited value is within the limits.
LEMMA LimitedWithin ==
  ASSUME NEW c \in Int
  PROVE  /\ Limited(c) \in Int
         /\ limited => Limited(c) \in ActionMin .. ActionMax
  BY PIDAssumption DEF Limited

LEMMA TypeInit == Init => TypeOK
<1>1. Previous \in [error : Triples, control : Triples]
  BY DEF Previous, Triples
<1>2. 0 \in Int /\ FALSE \in BOOLEAN
  OBVIOUS
<1>3. QED
  BY <1>1, <1>2, Zenon DEF Init, TypeOK

LEMMA TypeNext == TypeOK /\ [Next]_vars => TypeOK'
<1> SUFFICES ASSUME TypeOK, [Next]_vars PROVE TypeOK'
  OBVIOUS
<1>1. ASSUME NEW error \in Errors, process(error) PROVE TypeOK'
  <2> DEFINE c == Control(current, error)
  <2>1. c \in Int /\ Kept(c) \in Int /\ Limited(c) \in Int
    BY ControlInt, LimitedWithin DEF TypeOK, Kept
  <2>2. error \in Int /\ Thawed \in Int
    BY PIDAssumption, ThawedOffset
  <2>3. history' \in [error : Triples, control : Triples]
    BY <1>1, <2>1, <2>2 DEF process, TypeOK, Triples
  <2>4. QED
    BY <1>1, <2>1, <2>2, <2>3 DEF process, TypeOK
<1>2. CASE get_offset
  BY <1>2, ThawedOffset DEF get_offset, TypeOK
<1>3. CASE freeze
  BY <1>3 DEF freeze, TypeOK, Triples
<1>4. CASE thaw
  BY <1>4 DEF thaw, TypeOK
<1>5. ASSUME NEW p \in PIDParameters, update_parameters(p) PROVE TypeOK'
  BY <1>5 DEF update_parameters, TypeOK, Previous, Triples
<1>6. CASE restore_initial_parameters
  BY <1>6, <1>5 DEF restore_initial_parameters, TypeOK
<1>7. CASE UNCHANGED vars
  BY <1>7 DEF vars, TypeOK
<1>8. QED
  BY <1>1, <1>2, <1>3, <1>4, <1>5, <1>6, <1>7 DEF Next, Process

LEMMA TypeCorrect == Spec => []TypeOK
  BY TypeInit, TypeNext, PTL DEF Spec

-----------------------------------------------------------------------------
(* The output a limited controller returns and the three it remembers are    *)
(* within its limits, whatever its coefficients make of them.                *)
THEOREM NeverWindsUp == Spec => []NoWindup
<1>1. Init => NoWindup
  BY PIDAssumption DEF Init, NoWindup, Previous
<1>2. TypeOK /\ NoWindup /\ [Next]_vars => NoWindup'
  <2> SUFFICES ASSUME TypeOK, NoWindup, [Next]_vars, limited' PROVE NoWindup'
    BY DEF NoWindup
  <2>1. ASSUME NEW error \in Errors, process(error) PROVE NoWindup'
    <3> DEFINE c == Control(current, error)
    <3>1. Limited(c) \in ActionMin .. ActionMax
      BY <2>1, ControlInt, LimitedWithin DEF TypeOK, process
    <3>2. output' = Limited(c) /\ history'.control = << Limited(c), history.control[1], history.control[2] >>
      BY <2>1 DEF process, Kept
    <3>3. QED
      BY <2>1, <3>1, <3>2 DEF NoWindup, process
  <2>2. ASSUME NEW p \in PIDParameters, update_parameters(p) PROVE NoWindup'
    BY <2>2, PIDAssumption DEF update_parameters, NoWindup, Previous
  <2>3. CASE restore_initial_parameters
    BY <2>2, <2>3 DEF restore_initial_parameters, TypeOK
  <2>4. CASE get_offset \/ freeze \/ thaw \/ UNCHANGED vars
    BY <2>4 DEF get_offset, freeze, thaw, vars, NoWindup
  <2>5. QED
    BY <2>1, <2>2, <2>3, <2>4 DEF Next, Process
<1>3. QED
  BY <1>1, <1>2, TypeCorrect, PTL DEF Spec

(* No step but a freeze moves the offset by more than ThawStep, away from    *)
(* zero or past it, or at all while the output is frozen.                    *)
THEOREM OffsetThaws == Spec => ThawsSmoothly
<1> DEFINE Smooth ==
        /\ frozen => offset' = offset
        /\ Abs(offset - offset') <= ThawStep
        /\ Abs(offset') <= Abs(offset)
        /\ offset' * offset >= 0
<1>1. ASSUME TypeOK, offset' = Thawed \/ offset' = offset PROVE Smooth
  <2>1. /\ offset \in Int /\ offset' \in Int
        /\ (offset' >= 0 /\ offset >= 0) \/ (offset' <= 0 /\ offset <= 0)
    BY <1>1, ThawedOffset DEF TypeOK
  <2>2. \A a, b \in Int : (a >= 0 /\ b >= 0) \/ (a <= 0 /\ b <= 0) => a * b >= 0
    OBVIOUS
  <2>3. offset' * offset >= 0
    BY <2>1, <2>2
  <2>4. CASE offset' = Thawed
    BY <1>1, <2>3, <2>4, ThawedOffset
  <2>5. CASE offset' = offset
    BY <2>1, <2>3, <2>5, PIDAssumption DEF Abs
  <2>6. QED
    BY <1>1, <2>4, <2>5
<1>2. TypeOK /\ [Next]_vars =>
        [offset' # history.control[1] \/ ~frozen' => Smooth]_vars
  <2> SUFFICES ASSUME TypeOK, [Next]_vars,
                      offset' # history.control[1] \/ ~frozen'
               PROVE  Smooth
    OBVIOUS
  <2>1. ~freeze
    BY DEF freeze
  <2>2. offset' = Thawed \/ offset' = offset
    BY <2>1 DEF Next, Process, process, get_offset, thaw, restore_initial_parameters,
                update_parameters, vars
  <2>3. QED
    BY <1>1, <2>2
<1>3. QED
  BY <1>2, TypeCorrect, PTL DEF Spec, ThawsSmoothly

----------------------------------------------------------------------------
(* Commands.                                                                *)

(* What the sender of a command has heard, by where the command is          *)
Heard(c) ==
    CASE place[c] \in {"SAL", "queued"} -> acks[c] = << >> /\ outcome[c] = "none"
      [] place[c] = "running" -> acks[c] = << "INPROGRESS" >> /\ outcome[c] = "none"
      [] place[c] = "executed" -> acks[c] = << "INPROGRESS" >> /\ outcome[c] = "done"
      [] place[c] = "finished" ->
            \/ acks[c] = << "INPROGRESS", "COMPLETE" >> /\ outcome[c] = "done"
            \/ acks[c] = << "INPROGRESS", "FAILED" >> /\ outcome[c] = "thrown"
      [] place[c] = "refused" ->
            acks[c] \in {<< >>, << "FAILED" >>} /\ outcome[c] = "invalid"

CommandsInv ==
    /\ place \in [Received -> {"SAL", "refused", "queued", "running", "executed", "finished"}]
    /\ acks = [c \in SALCommands |-> acks[c]]
    /\ outcome = [c \in SALCommands |-> outcome[c]]
    /\ \A c \in SALCommands : Heard(c)

(* The effect of an action on one command, if it is not of another task     *)
LEMMA Touched ==
  ASSUME CommandsInv, NEW t \in Received, NEW where, NEW c \in SALCommands,
         Put(t, where)
  PROVE  /\ place'[c] = IF c = t THEN where ELSE place[c]
         /\ \A ack : Ack(t, ack) => acks'[c] = IF c = t THEN Append(acks[c], ack) ELSE acks[c]
         /\ \A how : Ended(t, how) => outcome'[c] = IF c = t THEN how ELSE outcome[c]
<1>1. c \in Received /\ c \notin Events
  BY CommandsAssumption DEF Received
<1>2. QED
  BY <1>1 DEF Put, Ack, Ended, CommandsInv, Received

LEMMA PutTypes ==
  ASSUME CommandsInv, NEW t \in Received, NEW how,
         NEW where \in {"SAL", "refused", "queued", "running", "executed", "finished"}
  PROVE  /\ Put(t, where) =>
              place' \in [Received -> {"SAL", "refused", "queued", "running", "executed", "finished"}]
         /\ \A ack : Ack(t, ack) => acks' = [c \in SALCommands |-> acks'[c]]
         /\ Ended(t, how) => outcome' = [c \in SALCommands |-> outcome'[c]]
BY DEF Put, Ack, Ended, CommandsInv

LEMMA AppendsOne ==
  ASSUME NEW a, NEW b
  PROVE  Append(<< >>, a) = << a >> /\ Append(<< a >>, b) = << a, b >>
<1> DEFINE T == {a, b}
<1>1. << >> \in Seq(T) /\ << a >> \in Seq(T) /\ << a, b >> \in Seq(T) /\ a \in T /\ b \in T
  OBVIOUS
<1>2. /\ Len(<< >>) = 0 /\ Len(<< a >>) = 1 /\ << a >>[1] = a
      /\ Len(<< a, b >>) = 2 /\ << a, b >>[1] = a /\ << a, b >>[2] = b
  OBVIOUS
<1> HIDE DEF T
<1>3. Append(<< >>, a) = << a >>
  <2>1. /\ Append(<< >>, a) \in Seq(T) /\ Len(Append(<< >>, a)) = 1
        /\ Append(<< >>, a)[1] = a
    BY <1>1, <1>2, AppendProperties
  <2>2. \A i \in 1 .. 1 : Append(<< >>, a)[i] = << a >>[i]
    BY <1>2, <2>1
  <2>3. QED
    BY <1>1, <1>2, <2>1, <2>2, SeqEqual
<1>4. Append(<< a >>, b) = << a, b >>
  <2>1. /\ Append(<< a >>, b) \in Seq(T) /\ Len(Append(<< a >>, b)) = 2
        /\ Append(<< a >>, b)[1] = << a >>[1] /\ Append(<< a >>, b)[2] = b
    BY <1>1, <1>2, AppendProperties
  <2>2. \A i \in 1 .. 2 : Append(<< a >>, b)[i] = << a, b >>[i]
    BY <1>2, <2>1
  <2>3. QED
    BY <1>1, <1>2, <2>1, <2>2, SeqEqual
<1>5. QED
  BY <1>3, <1>4

(* Every action keeps the invariant: first for the command it is about and  *)
(* the others, then for the types.                                          *)
LEMMA HeardStep ==
  ASSUME CommandsInv, NEW t \in Received, NEW c \in SALCommands,
         \/ enqueue(t) \/ refuse(t)
         \/ Run(t) \/ Execute(t) \/ ExecuteThrows(t) \/ Complete(t)
  PROVE  Heard(c)'
<1>0. Heard(c)
  BY DEF CommandsInv
<1>e. c \notin Events
  BY CommandsAssumption
<1>1. CASE enqueue(t)
  <2>1. /\ place'[c] = IF c = t THEN "queued" ELSE place[c]
        /\ acks' = acks /\ outcome' = outcome /\ place[t] = "SAL"
    BY <1>1, Touched DEF enqueue
  <2>2. QED
    BY <1>0, <2>1 DEF Heard
<1>2. CASE refuse(t)
  <2>1. /\ place'[c] = IF c = t THEN "refused" ELSE place[c]
        /\ outcome'[c] = IF c = t THEN "invalid" ELSE outcome[c]
        /\ place[t] = "SAL"
    BY <1>2, Touched DEF refuse
  <2>2. CASE acks' = acks
    BY <1>0, <2>1, <2>2 DEF Heard
  <2>3. CASE reportException(t)
    <3>1. acks'[c] = IF c = t THEN Append(acks[c], "FAILED") ELSE acks[c]
      BY <1>2, <2>3, Touched DEF refuse, reportException
    <3>2. QED
      BY <1>0, <2>1, <3>1, AppendsOne DEF Heard
  <2>4. QED
    BY <1>2, <2>2, <2>3 DEF refuse
<1>3. CASE Run(t)
  <2>1. /\ place'[c] = IF c = t THEN "running" ELSE place[c]
        /\ acks'[c] = IF c = t THEN Append(acks[c], "INPROGRESS") ELSE acks[c]
        /\ outcome' = outcome /\ place[t] = "queued"
    BY <1>3, Touched DEF Run
  <2>2. QED
    BY <1>0, <2>1, AppendsOne DEF Heard
<1>4. CASE Execute(t)
  <2>1. /\ place'[c] = IF c = t THEN "executed" ELSE place[c]
        /\ outcome'[c] = IF c = t THEN "done" ELSE outcome[c]
        /\ acks' = acks /\ place[t] = "running"
    BY <1>4, Touched DEF Execute
  <2>2. QED
    BY <1>0, <2>1 DEF Heard
<1>5. CASE ExecuteThrows(t)
  <2>1. /\ place'[c] = IF c = t THEN "finished" ELSE place[c]
        /\ outcome'[c] = IF c = t THEN "thrown" ELSE outcome[c]
        /\ acks'[c] = IF c = t THEN Append(acks[c], "FAILED") ELSE acks[c]
        /\ place[t] = "running"
    BY <1>5, Touched DEF ExecuteThrows, reportException
  <2>2. QED
    BY <1>0, <2>1, AppendsOne DEF Heard
<1>6. CASE Complete(t)
  <2>1. /\ place'[c] = IF c = t THEN "finished" ELSE place[c]
        /\ acks'[c] = IF c = t THEN Append(acks[c], "COMPLETE") ELSE acks[c]
        /\ outcome' = outcome /\ place[t] = "executed"
    BY <1>6, Touched DEF Complete
  <2>2. QED
    BY <1>0, <2>1, AppendsOne DEF Heard
<1>7. QED
  BY <1>1, <1>2, <1>3, <1>4, <1>5, <1>6

LEMMA CommandsStep == CommandsInv /\ [CommandsNext]_commands => CommandsInv'
<1> SUFFICES ASSUME CommandsInv, [CommandsNext]_commands PROVE CommandsInv'
  OBVIOUS
<1>1. ASSUME NEW t \in Received,
             \/ enqueue(t) \/ refuse(t)
             \/ Run(t) \/ Execute(t) \/ ExecuteThrows(t) \/ Complete(t)
      PROVE  CommandsInv'
  <2>1. place' \in [Received -> {"SAL", "refused", "queued", "running", "executed", "finished"}]
    BY <1>1, PutTypes DEF enqueue, refuse, Run, Execute, ExecuteThrows, Complete
  <2>2. acks' = [c \in SALCommands |-> acks'[c]]
    <3>1. CASE acks' = acks
      BY <3>1 DEF CommandsInv
    <3>2. CASE acks' # acks
      BY <1>1, <3>2, PutTypes
      DEF enqueue, refuse, Run, Execute, ExecuteThrows, Complete, reportException
    <3>3. QED
      BY <3>1, <3>2
  <2>3. outcome' = [c \in SALCommands |-> outcome'[c]]
    <3>1. CASE outcome' = outcome
      BY <3>1 DEF CommandsInv
    <3>2. CASE outcome' # outcome
      BY <1>1, <3>2, PutTypes DEF enqueue, refuse, Run, Execute, ExecuteThrows, Complete
    <3>3. QED
      BY <3>1, <3>2
  <2>4. \A c \in SALCommands : Heard(c)'
    BY <1>1, HeardStep
  <2>5. QED
    BY <2>1, <2>2, <2>3, <2>4 DEF CommandsInv
<1>2. ASSUME UNCHANGED << place, acks, outcome >> PROVE CommandsInv'
  BY <1>2 DEF CommandsInv, Heard
<1>3. QED
  BY <1>1, <1>2 DEF CommandsNext, ControllerStep, Wait, LoopEnds, stop, commands

(* The sender of a command is told one end of it, and the true one, however *)
(* tasks throw and commands are refused.                                    *)
THEOREM OneAnswerOnly == CommandsSpec => []OneAnswer
<1>1. CommandsInit => CommandsInv
  BY DEF CommandsInit, CommandsInv, Heard, Received
<1>2. CommandsInv => OneAnswer
  <2> SUFFICES ASSUME CommandsInv, NEW c \in SALCommands, NEW i \in DOMAIN acks[c]
               PROVE  /\ acks[c][i] \in Final => i = Len(acks[c])
                      /\ acks[c][i] = "COMPLETE" => outcome[c] = "done"
                      /\ acks[c][i] = "FAILED" => outcome[c] \in {"thrown", "invalid"}
    BY DEF OneAnswer
  <2>1. Heard(c) /\ place[c] \in {"SAL", "refused", "queued", "running", "executed", "finished"}
    BY DEF CommandsInv, Received
  <2>2. \/ acks[c] = << >>
        \/ acks[c] = << "INPROGRESS" >>
        \/ acks[c] = << "FAILED" >> /\ outcome[c] = "invalid"
        \/ acks[c] = << "INPROGRESS", "COMPLETE" >> /\ outcome[c] = "done"
        \/ acks[c] = << "INPROGRESS", "FAILED" >> /\ outcome[c] = "thrown"
    BY <2>1 DEF Heard
  <2>3. CASE acks[c] = << >>
    BY <2>3
  <2>4. CASE acks[c] = << "INPROGRESS" >>
    <3>1. i = 1 /\ acks[c][i] = "INPROGRESS"
      BY <2>4
    <3>2. QED
      BY <3>1 DEF Final
  <2>5. CASE acks[c] = << "FAILED" >> /\ outcome[c] = "invalid"
    <3>1. i = 1 /\ acks[c][i] = "FAILED" /\ Len(acks[c]) = 1
      BY <2>5
    <3>2. QED
      BY <2>5, <3>1
  <2>6. CASE acks[c] = << "INPROGRESS", "COMPLETE" >> /\ outcome[c] = "done"
    <3>1. /\ Len(acks[c]) = 2
          /\ (i = 1 /\ acks[c][i] = "INPROGRESS") \/ (i = 2 /\ acks[c][i] = "COMPLETE")
      BY <2>6
    <3>2. QED
      BY <2>6, <3>1 DEF Final
  <2>7. CASE acks[c] = << "INPROGRESS", "FAILED" >> /\ outcome[c] = "thrown"
    <3>1. /\ Len(acks[c]) = 2
          /\ (i = 1 /\ acks[c][i] = "INPROGRESS") \/ (i = 2 /\ acks[c][i] = "FAILED")
      BY <2>7
    <3>2. QED
      BY <2>7, <3>1 DEF Final
  <2>8. QED
    BY <2>2, <2>3, <2>4, <2>5, <2>6, <2>7
<1>3. QED
  BY <1>1, <1>2, CommandsStep, PTL DEF CommandsSpec

----------------------------------------------------------------------------
(* Settings.                                                                *)

LEMMA GreatestPlace ==
  ASSUME NEW n \in Nat, NEW V \in SUBSET (1 .. n), V # {}
  PROVE  Max(V) \in V /\ \A v \in V : v <= Max(V)
<1> DEFINE W == { n - v : v \in V }
<1>1. W \in SUBSET Nat /\ W # {}
  <2>1. \A v \in V : n - v \in Nat /\ v \in Nat
    OBVIOUS
  <2>2. QED
    BY <2>1
<1>2. PICK x \in W : \A y \in W : ~(<<y, x>> \in OpToRel(<, Nat))
  BY <1>1, NatLessThanWellFounded, WFMin
<1>3. ASSUME NEW y \in W, ~(x <= y) PROVE FALSE
  <2>1. <<y, x>> \in OpToRel(<, Nat)
    BY <1>1, <1>3 DEF OpToRel
  <2>2. QED
    BY <2>1, <1>2
<1>4. PICK m \in V : x = n - m
  OBVIOUS
<1>5. ASSUME NEW v \in V PROVE m >= v
  <2>1. n - m <= n - v
    BY <1>3, <1>4
  <2>2. m \in Nat /\ v \in Nat
    OBVIOUS
  <2>3. QED
    BY <2>1, <2>2
<1>6. \E x1 \in V : \A y \in V : x1 >= y
  BY <1>5
<1>7. Max(V) \in V /\ \A y \in V : Max(V) >= y
  BY <1>6 DEF Max
<1>8. QED
  BY <1>7

(* What a load makes of a file                                              *)
LEMMA LoadedIs ==
  ASSUME NEW entries \in Files \cup {<< >>}
  PROVE  /\ DOMAIN Loaded(entries) = { entries[i].name : i \in Good(entries) }
         /\ \A name \in DOMAIN Loaded(entries) : \E i \in Good(entries) :
               /\ entries[i] = [name |-> name, value |-> Loaded(entries)[name]]
               /\ \A j \in Good(entries) : entries[j].name = name => j <= i
<1>1. /\ Len(entries) \in Nat /\ DOMAIN entries = 1 .. Len(entries)
      /\ \A i \in DOMAIN entries :
            entries[i] = [name |-> entries[i].name, value |-> entries[i].value]
  BY SettingsAssumption
<1>2. Good(entries) \in SUBSET (1 .. Len(entries))
  BY <1>1 DEF Good
<1>3. DOMAIN << >> = {}
  OBVIOUS
<1>4. DOMAIN Loaded(entries) = { entries[i].name : i \in Good(entries) }
  BY <1>3 DEF Loaded, Filled
<1>5. ASSUME NEW name \in DOMAIN Loaded(entries)
      PROVE  \E i \in Good(entries) :
               /\ entries[i] = [name |-> name, value |-> Loaded(entries)[name]]
               /\ \A j \in Good(entries) : entries[j].name = name => j <= i
  <2> DEFINE of == { i \in Good(entries) : entries[i].name = name }
  <2>1. of # {} /\ of \in SUBSET (1 .. Len(entries))
    BY <1>2, <1>4
  <2>2. Max(of) \in of /\ \A j \in of : j <= Max(of)
    BY <1>1, <2>1, GreatestPlace
  <2>3. Loaded(entries)[name] = IF of = {} THEN << >>[name] ELSE entries[Max(of)].value
    BY <1>4 DEF Loaded, Filled
  <2>4. QED
    BY <1>1, <1>2, <2>1, <2>2, <2>3
<1>6. QED
  BY <1>4, <1>5

SettingsInv ==
    /\ file \in Files \cup {<< >>}
    /\ DOMAIN aliases = DOMAIN Loaded(file)
    /\ \A name \in DOMAIN aliases : aliases[name] = Loaded(file)[name]
    /\ Len(label) = 1 /\ path # << >> => label[1] \in DOMAIN aliases /\ path = aliases[label[1]]
    /\ loaded = [aliases |-> loaded.aliases, parameters |-> loaded.parameters]
    /\ loaded.aliases => Good(file) = DOMAIN file
    /\ loaded.parameters => \A k \in 1 .. 5 : parameters[k] \in {node[1][k], node[2][k]}

LEMMA SettingsStep == SettingsInv /\ [SettingsNext]_settings => SettingsInv'
<1> SUFFICES ASSUME SettingsInv, [SettingsNext]_settings PROVE SettingsInv'
  OBVIOUS
<1>1. ASSUME NEW entries \in Files \cup {<< >>}, NEW there \in BOOLEAN, load(entries, there)
      PROVE  SettingsInv'
  <2>1. /\ file' = entries /\ aliases' = Loaded(entries) /\ label' = << >>
        /\ loaded' = [loaded EXCEPT !.aliases = there /\ Good(entries) = DOMAIN entries]
        /\ UNCHANGED << parameters, node >>
    BY <1>1 DEF load
  <2>2. /\ loaded' = [aliases |-> loaded'.aliases, parameters |-> loaded'.parameters]
        /\ loaded'.aliases => Good(entries) = DOMAIN entries
        /\ loaded'.parameters <=> loaded.parameters
    BY <2>1 DEF SettingsInv
  <2>3. Len(label') # 1
    BY <2>1
  <2>4. QED
    BY <2>1, <2>2, <2>3 DEF SettingsInv
<1>2. ASSUME NEW l \in Labels, getPath(l) PROVE SettingsInv'
  BY <1>2 DEF getPath, SettingsInv
<1>3. ASSUME NEW n \in Nodes, loadParameters(n) PROVE SettingsInv'
  <2> DEFINE thrown == { k \in 2 .. 5 : ~IsNumber(n[k]) }
             stored == IF thrown = {} THEN 5 ELSE Min(thrown) - 1
  <2>1. /\ parameters' = [k \in 1 .. 5 |->
               IF k > stored THEN parameters[k] ELSE IF IsNumber(n[k]) THEN n[k] ELSE 1]
        /\ node' = << n, [Unset EXCEPT ![1] = 1] >>
        /\ loaded' = [loaded EXCEPT !.parameters = (thrown = {})]
        /\ UNCHANGED << aliases, file, path, label >>
    BY <1>3 DEF loadParameters
  <2>2. ASSUME thrown = {}, NEW k \in 1 .. 5
        PROVE  parameters'[k] \in {n[k], [Unset EXCEPT ![1] = 1][k]}
    <3>1. stored = 5
      BY <2>2
    <3>2. k = 1 \/ IsNumber(n[k])
      BY <2>2
    <3>3. [Unset EXCEPT ![1] = 1][1] = 1
      BY DEF Unset
    <3> HIDE DEF thrown, stored
    <3>4. parameters'[k] = IF IsNumber(n[k]) THEN n[k] ELSE 1
      BY <2>1, <3>1
    <3>5. QED
      BY <3>2, <3>3, <3>4
  <2>3. /\ loaded' = [aliases |-> loaded'.aliases, parameters |-> loaded'.parameters]
        /\ loaded'.parameters => thrown = {}
        /\ loaded'.aliases <=> loaded.aliases
    BY <2>1 DEF SettingsInv
  <2>4. node'[1] = n /\ node'[2] = [Unset EXCEPT ![1] = 1]
    BY <2>1
  <2>5. loaded'.parameters => \A k \in 1 .. 5 : parameters'[k] \in {node'[1][k], node'[2][k]}
    BY <2>2, <2>3, <2>4
  <2> HIDE DEF thrown, stored
  <2>6. QED
    BY <2>1, <2>3, <2>5 DEF SettingsInv
<1>4. ASSUME NEW n \in Nodes, loadWithDefault(n, parameters) PROVE SettingsInv'
  BY <1>4 DEF loadWithDefault, SettingsInv
<1>5. CASE UNCHANGED settings
  BY <1>5 DEF settings, SettingsInv
<1>6. QED
  BY <1>1, <1>2, <1>3, <1>4, <1>5 DEF SettingsNext

(* Whatever was loaded before and however loads have thrown, a label stands *)
(* for its last entry in the last file, and parameters are those of the     *)
(* last node or its defaults.                                               *)
THEOREM LastLoadOnly == SettingsSpec => []OfLastLoad
<1>1. SettingsInit => SettingsInv
  <2> SUFFICES ASSUME SettingsInit PROVE SettingsInv
    OBVIOUS
  <2>1. DOMAIN << >> = {} /\ Len(<< >>) = 0
    OBVIOUS
  <2>2. Good(<< >>) = {}
    BY <2>1 DEF Good
  <2>3. DOMAIN Loaded(<< >>) = {}
    BY <2>2, LoadedIs
  <2>4. \A k \in 1 .. 5 : parameters[k] \in {node[1][k], node[2][k]}
    BY DEF SettingsInit
  <2>5. loaded = [aliases |-> TRUE, parameters |-> TRUE]
    BY DEF SettingsInit
  <2>6. QED
    BY <2>1, <2>2, <2>3, <2>4, <2>5 DEF SettingsInit, SettingsInv
<1>2. SettingsInv => OfLastLoad
  <2> SUFFICES ASSUME SettingsInv PROVE OfLastLoad
    OBVIOUS
  <2>1. /\ Len(file) \in Nat /\ DOMAIN file = 1 .. Len(file)
        /\ Good(file) \subseteq DOMAIN file
    BY SettingsAssumption DEF SettingsInv, Good
  <2>2. ASSUME Len(label) = 1, path # << >>
        PROVE  \E i \in DOMAIN file :
                  /\ file[i] = [name |-> label[1], value |-> path]
                  /\ \A j \in i + 1 .. Len(file) :
                        file[j].name = label[1] => \E k \in 1 .. j : file[k].value = << >>
    <3>1. /\ label[1] \in DOMAIN Loaded(file) /\ path = Loaded(file)[label[1]]
          /\ file \in Files \cup {<< >>}
      BY <2>2 DEF SettingsInv
    <3>2. PICK i \in Good(file) :
             /\ file[i] = [name |-> label[1], value |-> path]
             /\ \A j \in Good(file) : file[j].name = label[1] => j <= i
      BY <3>1, LoadedIs
    <3>3. ASSUME NEW j \in i + 1 .. Len(file), file[j].name = label[1]
          PROVE  \E k \in 1 .. j : file[k].value = << >>
      <4>1. j \notin Good(file)
        BY <2>1, <3>2, <3>3
      <4>2. j \in DOMAIN file
        BY <2>1
      <4>3. QED
        BY <4>1, <4>2 DEF Good
    <3>4. QED
      BY <2>1, <3>2, <3>3
  <2>3. ASSUME loaded.aliases PROVE { file[i].name : i \in DOMAIN file } = DOMAIN aliases
    <3>1. Good(file) = DOMAIN file /\ DOMAIN aliases = DOMAIN Loaded(file)
          /\ file \in Files \cup {<< >>}
      BY <2>3 DEF SettingsInv
    <3>2. QED
      BY <3>1, LoadedIs
  <2>4. loaded.parameters => \A k \in 1 .. 5 : parameters[k] \in {node[1][k], node[2][k]}
    BY DEF SettingsInv
  <2>5. QED
    BY <2>2, <2>3, <2>4 DEF OfLastLoad
<1>3. QED
  BY <1>1, <1>2, SettingsStep, PTL DEF SettingsSpec

-----------------------------------------------------------------------------
(* Arguments.                                                                *)

(* What holds of 0, and of n + 1 when it holds of n, holds of all naturals. *)
LEMMA SetInduction ==
  ASSUME NEW S, 0 \in S, \A n \in Nat : n \in S => n + 1 \in S
  PROVE  Nat \subseteq S
<1>1. SUFFICES ASSUME Nat \ S # {} PROVE FALSE
  OBVIOUS
<1>2. PICK n \in Nat \ S : \A m \in Nat \ S : ~(<<m, n>> \in OpToRel(<, Nat))
  <2>1. Nat \ S \subseteq Nat
    OBVIOUS
  <2>2. QED
    BY <1>1, <2>1, NatLessThanWellFounded, WFMin
<1>3. \A m \in Nat \ S : ~(m < n)
  BY <1>2 DEF OpToRel
<1>4. n - 1 \in Nat /\ n - 1 \in S
  BY <1>3
<1>5. QED
  BY <1>4

(* f is what a step, a function of the place and of what there was before,  *)
(* makes of x in m iterations.                                              *)
Iterates(f, m, X, x, step) ==
  /\ f \in [0..m -> X]
  /\ f[0] = x
  /\ \A n \in 1..m : f[n] = step[n][f[n - 1]]

(* TLAPS expands a recursive function by a CHOOSE: this is what there is to *)
(* choose.                                                                  *)
LEMMA IterationExists ==
  ASSUME NEW X, NEW x \in X, NEW N \in Nat,
         NEW step, \A n \in Nat, q \in X : step[n][q] \in X
  PROVE  \E f : Iterates(f, N, X, x, step)
<1> DEFINE S == {m \in Nat : \E f : Iterates(f, m, X, x, step)}
<1>1. 0 \in S
  <2>1. Iterates([n \in 0..0 |-> x], 0, X, x, step)
    BY DEF Iterates
  <2>2. QED
    BY <2>1
<1>2. ASSUME NEW m \in Nat, m \in S PROVE m + 1 \in S
  <2>1. PICK f : Iterates(f, m, X, x, step)
    BY <1>2
  <2> SUFFICES \E g : Iterates(g, m + 1, X, x, step)
    OBVIOUS
  <2> HIDE DEF S
  <2> DEFINE g == [n \in 0..m + 1 |-> IF n = m + 1 THEN step[n][f[m]] ELSE f[n]]
  <2>2. g \in [0..m + 1 -> X]
    <3>1. m \in 0..m /\ \A n \in 0..m + 1 : n = m + 1 \/ n \in 0..m
      OBVIOUS
    <3>2. \A n \in 0..m : f[n] \in X
      BY <2>1 DEF Iterates
    <3>3. step[m + 1][f[m]] \in X
      BY <3>1, <3>2
    <3>4. QED
      BY <3>1, <3>2, <3>3
  <2>3. g[0] = x
    <3>1. 0 # m + 1 /\ 0 \in 0..m + 1
      OBVIOUS
    <3>2. f[0] = x
      BY <2>1 DEF Iterates
    <3>3. QED
      BY <3>1, <3>2
  <2>4. ASSUME NEW n \in 1..m + 1 PROVE g[n] = step[n][g[n - 1]]
    <3>1. CASE n = m + 1
      <4>1. n - 1 = m /\ m # m + 1 /\ m \in 0..m + 1 /\ n \in 0..m + 1
        BY <3>1
      <4>2. g[n] = step[n][f[m]] /\ g[m] = f[m]
        BY <3>1, <4>1
      <4>3. QED
        BY <4>1, <4>2
    <3>2. CASE n # m + 1
      <4>1. n \in 1..m /\ n - 1 # m + 1 /\ n - 1 \in 0..m + 1 /\ n \in 0..m + 1
        BY <3>2
      <4>2. g[n] = f[n] /\ g[n - 1] = f[n - 1]
        BY <3>2, <4>1
      <4> HIDE DEF g
      <4>3. QED
        BY <2>1, <4>1, <4>2 DEF Iterates
    <3>3. QED
      BY <3>1, <3>2
  <2> HIDE DEF g
  <2>5. Iterates(g, m + 1, X, x, step)
    BY <2>2, <2>3, <2>4 DEF Iterates
  <2>6. QED
    BY <2>5
<1> HIDE DEF S
<1>3. Nat \subseteq S
  BY <1>1, <1>2, SetInduction
<1>4. QED
  BY <1>3 DEF S

(* What is put behind each other in turn.                                    *)
Flattens(f, seqs, T) ==
    /\ f \in [0 .. Len(seqs) -> Seq(T)]
    /\ f[0] = << >>
    /\ \A n \in 1 .. Len(seqs) : f[n] = f[n - 1] \o seqs[n]

(* The recursion of FlattenSeq, which begins with the first.                 *)
Recurs(g, seqs) ==
    g = [i \in 1 .. Len(seqs) |-> IF i = 1 THEN seqs[i] ELSE g[i - 1] \o seqs[i]]

(* FlattenSeq is such a loop.                                                *)
LEMMA FlattenIs ==
  ASSUME NEW T, NEW seqs \in Seq(Seq(T))
  PROVE  \E f : Flattens(f, seqs, T) /\ FlattenSeq(seqs) = f[Len(seqs)]
<1>1. PICK N \in Nat : N = Len(seqs)
  OBVIOUS
<1>2. PICK X : X = Seq(T)
  OBVIOUS
<1>3. \A n \in 1 .. N : seqs[n] \in X
  BY <1>1, <1>2
<1>4. PICK step : step = [n \in Nat |-> [q \in X |-> IF n \in 1 .. N THEN q \o seqs[n] ELSE q]]
  OBVIOUS
<1>5. ASSUME NEW n \in Nat, NEW q \in X PROVE step[n][q] \in X
  BY <1>2, <1>3, <1>4, <1>5
<1>6. << >> \in X
  BY <1>2
<1>7. PICK f : Iterates(f, N, X, << >>, step)
  BY <1>5, <1>6, IterationExists
<1>8. f \in [0 .. N -> X] /\ f[0] = << >> /\ \A n \in 1 .. N : f[n] = f[n - 1] \o seqs[n]
  <2>1. f \in [0 .. N -> X] /\ f[0] = << >>
    BY <1>7 DEF Iterates
  <2>2. ASSUME NEW n \in 1 .. N PROVE f[n] = f[n - 1] \o seqs[n]
    <3>1. n \in Nat /\ n - 1 \in 0 .. N
      OBVIOUS
    <3>2. f[n - 1] \in X /\ f[n] = step[n][f[n - 1]]
      BY <1>7, <2>1, <3>1 DEF Iterates
    <3>3. QED
      BY <1>4, <3>1, <3>2
  <2>3. QED
    BY <2>1, <2>2
<1>9. Flattens(f, seqs, T)
  BY <1>1, <1>2, <1>8 DEF Flattens
<1>10. CASE N = 0
  <2>1. FlattenSeq(seqs) = seqs /\ seqs = << >>
    <3>1. Len(seqs) = 0
      BY <1>1, <1>10
    <3>2. seqs = << >>
      BY <3>1, EmptySeq
    <3>3. FlattenSeq(seqs) = seqs
      BY <3>1 DEF FlattenSeq
    <3>4. QED
      BY <3>2, <3>3
  <2>2. QED
    BY <1>1, <1>8, <1>9, <1>10, <2>1
<1>11. CASE N # 0
  <2>1. Recurs([i \in 1 .. N |-> f[i]], seqs)
    <3>1. PICK g : g = [i \in 1 .. N |-> f[i]]
      OBVIOUS
    <3>2. ASSUME NEW i \in 1 .. N
          PROVE  g[i] = IF i = 1 THEN seqs[i] ELSE g[i - 1] \o seqs[i]
      <4>1. g[i] = f[i] /\ f[i] = f[i - 1] \o seqs[i] /\ seqs[i] \in Seq(T)
        BY <1>2, <1>3, <1>8, <3>1
      <4>2. CASE i = 1
        <5>1. f[i - 1] = << >>
          BY <1>8, <4>2
        <5>2. QED
          BY <4>1, <4>2, <5>1, ConcatEmptySeq
      <4>3. CASE i # 1
        <5>1. i - 1 \in 1 .. N
          BY <4>3
        <5>2. g[i - 1] = f[i - 1]
          BY <3>1, <5>1
        <5>3. QED
          BY <4>1, <4>3, <5>2
      <4>4. QED
        BY <4>2, <4>3
    <3>3. g = [i \in 1 .. N |-> IF i = 1 THEN seqs[i] ELSE g[i - 1] \o seqs[i]]
      BY <3>1, <3>2
    <3>4. QED
      BY <1>1, <3>1, <3>3 DEF Recurs
  <2>2. PICK g : Recurs(g, seqs) /\ FlattenSeq(seqs) = g[Len(seqs)]
    <3>1. Len(seqs) # 0
      BY <1>1, <1>11
    <3>2. QED
      BY <2>1, <3>1 DEF Recurs, FlattenSeq
  <2>3. \A i \in 1 .. N : g[i] = IF i = 1 THEN seqs[i] ELSE g[i - 1] \o seqs[i]
    BY <1>1, <2>2 DEF Recurs
  <2>4. PICK S : S = {n \in Nat : n + 1 \in 1 .. N => g[n + 1] = f[n + 1]}
    OBVIOUS
  <2>5. 0 \in S
    <3>1. 1 \in 1 .. N
      BY <1>11
    <3>2. g[1] = seqs[1] /\ f[1] = f[1 - 1] \o seqs[1] /\ f[0] = << >> /\ seqs[1] \in Seq(T)
      BY <1>2, <1>3, <1>8, <2>3, <3>1
    <3>3. f[1 - 1] = << >>
      BY <3>2
    <3>4. g[1] = f[1]
      BY <3>2, <3>3, ConcatEmptySeq
    <3>5. QED
      BY <2>4, <3>4
  <2>6. ASSUME NEW n \in Nat, n \in S PROVE n + 1 \in S
    <3>1. CASE (n + 1) + 1 \in 1 .. N
      <4>1. PICK k : k = n + 2
        OBVIOUS
      <4>2. k \in 1 .. N /\ k # 1 /\ k - 1 = n + 1 /\ n + 1 \in 1 .. N /\ (n + 1) + 1 = k
        BY <3>1, <4>1
      <4>3. g[k] = g[k - 1] \o seqs[k] /\ f[k] = f[k - 1] \o seqs[k]
        BY <1>8, <2>3, <4>2
      <4>4. g[n + 1] = f[n + 1]
        BY <2>4, <2>6, <4>2
      <4>5. g[k] = f[k]
        BY <4>2, <4>3, <4>4
      <4>6. QED
        BY <2>4, <4>2, <4>5
    <3>2. QED
      BY <2>4, <3>1
  <2>7. Nat \subseteq S
    BY <2>5, <2>6, SetInduction
  <2>8. N - 1 \in Nat /\ (N - 1) + 1 = N /\ N \in 1 .. N
    BY <1>11
  <2>9. g[N] = f[N]
    BY <2>4, <2>7, <2>8
  <2>10. QED
    BY <1>1, <1>9, <2>2, <2>9
<1>12. QED
  BY <1>10, <1>11

(* One sequence more.                                                        *)
OneMore(s, t, k, T) ==
    /\ s \in Seq(Seq(T)) /\ Len(s) = k + 1
    /\ t \in Seq(Seq(T)) /\ Len(t) = k
    /\ \A i \in 1 .. k : t[i] = s[i]

(* It is put behind what the others are, put behind each other.             *)
LEMMA FlattenMore ==
  ASSUME NEW T, NEW k \in Nat, NEW s, NEW t, OneMore(s, t, k, T)
  PROVE  /\ FlattenSeq(t) \in Seq(T)
         /\ FlattenSeq(s) = FlattenSeq(t) \o s[k + 1]
<1>0. /\ s \in Seq(Seq(T)) /\ Len(s) = k + 1
      /\ t \in Seq(Seq(T)) /\ Len(t) = k
      /\ \A i \in 1 .. k : t[i] = s[i]
  BY DEF OneMore
<1>1. PICK f : Flattens(f, s, T) /\ FlattenSeq(s) = f[k + 1]
  BY <1>0, FlattenIs
<1>2. PICK g : Flattens(g, t, T) /\ FlattenSeq(t) = g[k]
  BY <1>0, FlattenIs
<1>3. PICK S : S = {n \in Nat : n \in 0 .. k => f[n] = g[n]}
  OBVIOUS
<1>4. 0 \in S
  BY <1>0, <1>1, <1>2, <1>3 DEF Flattens
<1>5. ASSUME NEW n \in Nat, n \in S PROVE n + 1 \in S
  <2>1. CASE n + 1 \in 0 .. k
    <3>1. PICK m : m = n + 1
      OBVIOUS
    <3>2. m \in 1 .. k /\ m \in 1 .. k + 1 /\ m - 1 = n /\ n \in 0 .. k
      BY <2>1, <3>1
    <3>3. f[m] = f[m - 1] \o s[m] /\ g[m] = g[m - 1] \o t[m] /\ s[m] = t[m]
      BY <1>0, <1>1, <1>2, <3>2 DEF Flattens
    <3>4. f[n] = g[n]
      BY <1>3, <1>5, <3>2
    <3>5. f[m] = g[m]
      BY <3>2, <3>3, <3>4
    <3>6. QED
      BY <1>3, <3>1, <3>5
  <2>2. QED
    BY <1>3, <2>1
<1>6. Nat \subseteq S
  BY <1>4, <1>5, SetInduction
<1>7. f[k] = g[k] /\ k \in 0 .. k
  BY <1>3, <1>6
<1>8. k + 1 \in 1 .. k + 1 /\ (k + 1) - 1 = k
  OBVIOUS
<1>9. f[k + 1] = f[k] \o s[k + 1]
  BY <1>0, <1>1, <1>8 DEF Flattens
<1>10. g[k] \in Seq(T)
  BY <1>0, <1>2, <1>7 DEF Flattens
<1>11. QED
  BY <1>0, <1>1, <1>2, <1>7, <1>9, <1>10

(* What is put behind a sequence is found there.                             *)
LEMMA Behind ==
  ASSUME NEW T, NEW s \in Seq(T), NEW t \in Seq(T)
  PROVE  SubSeq(s \o t, Len(s) + 1, Len(s) + Len(t)) = t
<1>1. PICK m, n \in Nat : m = Len(s) /\ n = Len(t)
  OBVIOUS
<1>2. CASE n = 0
  <2>1. t = << >> /\ m + n < m + 1
    <3>1. Len(t) = 0
      BY <1>1, <1>2
    <3>2. t = << >>
      BY <3>1, EmptySeq
    <3>3. QED
      BY <1>2, <3>2
  <2>2. SubSeq(s \o t, m + 1, m + n) = << >>
    BY <2>1, SubSeqEmpty
  <2>3. QED
    BY <1>1, <2>1, <2>2
<1>3. CASE n # 0
  <2>1. m + 1 \in m + 1 .. m + n /\ m + n \in m + 1 .. m + n
    BY <1>3
  <2>2. SubSeq(s \o t, m + 1, m + n) = SubSeq(t, (m + 1) - m, (m + n) - m)
    BY <1>1, <2>1, SubSeqOfConcat2
  <2>3. (m + 1) - m = 1 /\ (m + n) - m = n
    OBVIOUS
  <2>4. SubSeq(t, 1, n) = t
    BY <1>1, SubSeqFull
  <2>5. QED
    BY <1>1, <2>2, <2>3, <2>4
<1>4. QED
  BY <1>2, <1>3

Call == Letters \X Text

(* The arguments an option is written in: the first, and its value.          *)
Spelled(o, a) ==
    /\ Written(o) \in Seq(Text) /\ a = Written(o)[1] /\ a \in Text
    /\ Len(Written(o)) = IF o.takes # "none" /\ o.apart THEN 2 ELSE 1
    /\ Len(a) = Len(o.flags) + (IF o.takes = "none" THEN 1
                                ELSE IF o.apart THEN 2 ELSE 2 + Len(o.value))
    /\ a[1] = "-"
    /\ \A i \in 1 .. Len(o.flags) : a[i + 1] = o.flags[i]
    /\ o.takes # "none" => a[Len(o.flags) + 2] = o.takes
    /\ o.takes # "none" /\ o.apart => Written(o)[2] = o.value
    /\ o.takes # "none" /\ ~o.apart => SubSeq(a, Len(o.flags) + 3, Len(a)) = o.value

(* Every option is written so.                                              *)
LEMMA Spelling ==
  ASSUME NEW o \in Options
  PROVE  \E a : Spelled(o, a)
<1>1. /\ o.flags \in Text /\ o.value \in Text /\ o.apart \in BOOLEAN
      /\ o.takes \in Taking \cup {"none"} /\ (o.takes # "none" => o.takes \in Letters)
  BY ArgumentsAssumption DEF Options
<1>2. PICK first : first = << "-" >> \o o.flags
  OBVIOUS
<1>3. PICK n \in Nat : n = Len(o.flags)
  BY <1>1 DEF Text
<1>4. << "-" >> \in Text /\ Len(<< "-" >>) = 1
  BY ArgumentsAssumption DEF Text
<1>5. /\ first \in Text /\ Len(first) = n + 1 /\ first[1] = "-"
      /\ \A i \in 1 .. n : first[i + 1] = o.flags[i]
  <2>1. /\ first \in Text /\ Len(first) = 1 + n
        /\ \A i \in 1 .. 1 + n : first[i] = IF i <= 1 THEN << "-" >>[i] ELSE o.flags[i - 1]
    BY <1>1, <1>2, <1>3, <1>4, ConcatProperties DEF Text
  <2>2. first[1] = << "-" >>[1] /\ << "-" >>[1] = "-"
    BY <2>1
  <2>3. ASSUME NEW i \in 1 .. n PROVE first[i + 1] = o.flags[i]
    <3>1. i + 1 \in 1 .. 1 + n /\ ~(i + 1 <= 1) /\ (i + 1) - 1 = i
      OBVIOUS
    <3>2. QED
      BY <2>1, <3>1
  <2>4. QED
    BY <2>1, <2>2, <2>3
<1>6. CASE o.takes = "none"
  <2>1. Written(o) = << first >>
    BY <1>2, <1>6 DEF Written
  <2>2. /\ Written(o) \in Seq(Text) /\ Len(Written(o)) = 1 /\ Written(o)[1] = first
    BY <1>5, <2>1
  <2>3. Spelled(o, first)
    BY <1>3, <1>5, <1>6, <2>2 DEF Spelled
  <2>4. QED
    BY <2>3
<1>7. PICK a : a = Append(first, o.takes)
  OBVIOUS
<1>8. o.takes # "none" =>
      /\ a \in Text /\ Len(a) = n + 2 /\ a[1] = "-" /\ a[n + 2] = o.takes
      /\ \A i \in 1 .. n : a[i + 1] = o.flags[i]
  <2> HAVE o.takes # "none"
  <2>1. /\ a \in Text /\ Len(a) = Len(first) + 1
        /\ \A i \in 1 .. Len(first) : a[i] = first[i]
        /\ a[Len(first) + 1] = o.takes
    BY <1>1, <1>5, <1>7, AppendProperties DEF Text
  <2>2. Len(first) + 1 = n + 2 /\ 1 \in 1 .. Len(first)
        /\ \A i \in 1 .. n : i + 1 \in 1 .. Len(first)
    BY <1>5
  <2>3. a[n + 2] = o.takes
    BY <2>1, <2>2
  <2>4. QED
    BY <1>5, <2>1, <2>2, <2>3
<1>9. CASE o.takes # "none" /\ o.apart
  <2>0. /\ a \in Text /\ Len(a) = n + 2 /\ a[1] = "-" /\ a[n + 2] = o.takes
        /\ \A i \in 1 .. n : a[i + 1] = o.flags[i]
    BY <1>8, <1>9
  <2>1. Written(o) = << a, o.value >>
    BY <1>2, <1>7, <1>9 DEF Written
  <2>2. /\ Written(o) \in Seq(Text) /\ Len(Written(o)) = 2
        /\ Written(o)[1] = a /\ Written(o)[2] = o.value
    BY <1>1, <2>0, <2>1
  <2>3. Spelled(o, a)
    BY <1>3, <2>0, <1>9, <2>2 DEF Spelled
  <2>4. QED
    BY <2>3
<1>10. CASE o.takes # "none" /\ ~o.apart
  <2>0. /\ a \in Text /\ Len(a) = n + 2 /\ a[1] = "-" /\ a[n + 2] = o.takes
        /\ \A i \in 1 .. n : a[i + 1] = o.flags[i]
    BY <1>8, <1>10
  <2>1. PICK b : b = a \o o.value
    OBVIOUS
  <2>2. PICK m \in Nat : m = Len(o.value)
    BY <1>1 DEF Text
  <2>3. Written(o) = << b >>
    BY <1>2, <1>7, <1>10, <2>1 DEF Written
  <2>4. /\ b \in Text /\ Len(b) = (n + 2) + m
        /\ \A i \in 1 .. (n + 2) + m : b[i] = IF i <= n + 2 THEN a[i] ELSE o.value[i - (n + 2)]
    <3>1. /\ b \in Text /\ Len(b) = Len(a) + Len(o.value)
          /\ \A i \in 1 .. Len(a) + Len(o.value) :
                b[i] = IF i <= Len(a) THEN a[i] ELSE o.value[i - Len(a)]
      BY <1>1, <2>0, <2>1, ConcatProperties DEF Text
    <3>2. Len(a) = n + 2 /\ Len(o.value) = m
      BY <2>0, <2>2
    <3>3. QED
      BY <3>1, <3>2
  <2>5. /\ Written(o) \in Seq(Text) /\ Len(Written(o)) = 1 /\ Written(o)[1] = b
    BY <2>3, <2>4
  <2>6. b[1] = "-" /\ b[n + 2] = o.takes
    <3>1. 1 \in 1 .. (n + 2) + m /\ n + 2 \in 1 .. (n + 2) + m /\ 1 <= n + 2
      OBVIOUS
    <3>2. b[1] = a[1] /\ b[n + 2] = a[n + 2]
      BY <2>4, <3>1
    <3>3. QED
      BY <2>0, <3>2
  <2>7. ASSUME NEW i \in 1 .. n PROVE b[i + 1] = o.flags[i]
    <3>1. i + 1 \in 1 .. (n + 2) + m /\ i + 1 <= n + 2
      OBVIOUS
    <3>2. QED
      BY <2>0, <2>4, <3>1
  <2>8. SubSeq(b, n + 3, Len(b)) = o.value
    <3>1. SubSeq(b, Len(a) + 1, Len(a) + Len(o.value)) = o.value
      BY <1>1, <2>0, <2>1, Behind DEF Text
    <3>2. Len(a) + 1 = n + 3 /\ Len(a) + Len(o.value) = Len(b)
      BY <2>0, <2>2, <2>4
    <3>3. QED
      BY <3>1, <3>2
  <2>9. Len(b) = n + (2 + m)
    BY <2>4
  <2>10. Spelled(o, b)
    BY <1>3, <1>10, <2>2, <2>4, <2>5, <2>6, <2>7, <2>8, <2>9 DEF Spelled
  <2>11. QED
    BY <2>10
<1>11. QED
  BY <1>6, <1>9, <1>10

(* And what processArg is to be called with.                                 *)
Called(o) ==
    /\ Calls(o) \in Seq(Call)
    /\ Len(Calls(o)) = Len(o.flags) + IF o.takes = "none" THEN 0 ELSE 1
    /\ \A i \in 1 .. Len(o.flags) : Calls(o)[i] = << o.flags[i], << >> >>
    /\ o.takes # "none" => Calls(o)[Len(o.flags) + 1] = << o.takes, o.value >>

(* Every option is to be called so.                                         *)
LEMMA Calling ==
  ASSUME NEW o \in Options
  PROVE  Called(o)
<1>1. /\ o.flags \in Text /\ o.value \in Text /\ (o.takes # "none" => o.takes \in Letters)
  BY ArgumentsAssumption DEF Options
<1>2. PICK n \in Nat : n = Len(o.flags)
  BY <1>1 DEF Text
<1>3. PICK single : single = [i \in DOMAIN o.flags |-> << o.flags[i], << >> >>]
  OBVIOUS
<1>4. PICK taken : taken = IF o.takes = "none" THEN << >> ELSE << << o.takes, o.value >> >>
  OBVIOUS
<1>5. Calls(o) = single \o taken
  BY <1>3, <1>4 DEF Calls
<1>6. /\ single \in Seq(Call) /\ Len(single) = n
      /\ \A i \in 1 .. n : single[i] = << o.flags[i], << >> >>
  <2>1. DOMAIN o.flags = 1 .. n /\ \A i \in 1 .. n : o.flags[i] \in Letters
    BY <1>1, <1>2 DEF Text
  <2>2. << >> \in Text
    BY DEF Text
  <2>3. single = [i \in 1 .. n |-> << o.flags[i], << >> >>]
    BY <1>3, <2>1
  <2>4. \A i \in 1 .. n : << o.flags[i], << >> >> \in Call
    BY <2>1, <2>2 DEF Call
  <2>5. QED
    BY <2>3, <2>4
<1>7. /\ taken \in Seq(Call) /\ Len(taken) = (IF o.takes = "none" THEN 0 ELSE 1)
      /\ o.takes # "none" => taken[1] = << o.takes, o.value >>
  <2>1. o.takes # "none" => << o.takes, o.value >> \in Call
    BY <1>1 DEF Call
  <2>2. QED
    BY <1>4, <2>1
<1>8. PICK m \in {0, 1} : m = Len(taken) /\ (m = 0 <=> o.takes = "none")
  BY <1>7
<1>9. /\ Calls(o) \in Seq(Call) /\ Len(Calls(o)) = n + m
      /\ \A i \in 1 .. n + m : Calls(o)[i] = IF i <= n THEN single[i] ELSE taken[i - n]
  BY <1>5, <1>6, <1>7, <1>8, ConcatProperties
<1>10. ASSUME NEW i \in 1 .. n PROVE Calls(o)[i] = << o.flags[i], << >> >>
  <2>1. i \in 1 .. n + m /\ i <= n
    BY <1>8
  <2>2. QED
    BY <1>6, <1>9, <2>1
<1>11. ASSUME o.takes # "none" PROVE Calls(o)[n + 1] = << o.takes, o.value >>
  <2>1. m = 1
    BY <1>8, <1>11
  <2>2. n + 1 \in 1 .. n + m /\ ~(n + 1 <= n) /\ (n + 1) - n = 1
    BY <2>1
  <2>3. Calls(o)[n + 1] = taken[1]
    BY <1>9, <2>2
  <2>4. QED
    BY <1>7, <1>11, <2>3
<1>12. QED
  BY <1>2, <1>8, <1>9, <1>10, <1>11 DEF Called

(* The first k of some sequences behind each other.                          *)
UpTo(x, k) == FlattenSeq([i \in 1 .. k |-> x[i]])

Growing(x, T) ==
    /\ UpTo(x, 0) = << >>
    /\ \A k \in 0 .. Len(x) : UpTo(x, k) \in Seq(T)
    /\ \A k \in 1 .. Len(x) : UpTo(x, k) = UpTo(x, k - 1) \o x[k]
    /\ FlattenSeq(x) = UpTo(x, Len(x))

(* UpTo makes the whole of them, one by one.                                *)
LEMMA Grows ==
  ASSUME NEW T, NEW x \in Seq(Seq(T))
  PROVE  Growing(x, T)
<1>1. PICK N \in Nat : N = Len(x)
  OBVIOUS
<1>2. x = [i \in 1 .. N |-> x[i]] /\ \A i \in 1 .. N : x[i] \in Seq(T)
  BY <1>1
<1>3. ASSUME NEW k \in 0 .. N
      PROVE  \E s : s = [i \in 1 .. k |-> x[i]] /\ s \in Seq(Seq(T)) /\ Len(s) = k
  <2>1. PICK X : X = Seq(T)
    OBVIOUS
  <2>2. k \in Nat /\ \A i \in 1 .. k : x[i] \in X
    BY <1>2, <2>1
  <2>3. [i \in 1 .. k |-> x[i]] \in Seq(X) /\ Len([i \in 1 .. k |-> x[i]]) = k
    BY <2>2
  <2>4. QED
    BY <2>1, <2>3
<1>4. UpTo(x, 0) = << >>
  <2>1. 0 \in 0 .. N
    OBVIOUS
  <2>2. PICK s : s = [i \in 1 .. 0 |-> x[i]] /\ s \in Seq(Seq(T)) /\ Len(s) = 0
    BY <1>3, <2>1
  <2>3. PICK f : Flattens(f, s, T) /\ FlattenSeq(s) = f[Len(s)]
    BY <2>2, FlattenIs
  <2>4. QED
    BY <2>2, <2>3 DEF UpTo, Flattens
<1>5. ASSUME NEW k \in 1 .. N
      PROVE  UpTo(x, k) = UpTo(x, k - 1) \o x[k] /\ UpTo(x, k - 1) \in Seq(T)
  <2>1. PICK m \in Nat : m = k - 1
    OBVIOUS
  <2>2. m \in 0 .. N /\ k \in 0 .. N /\ k = m + 1
    BY <2>1
  <2>3. PICK s : s = [i \in 1 .. k |-> x[i]] /\ s \in Seq(Seq(T)) /\ Len(s) = k
    BY <1>3, <2>2
  <2>4. PICK t : t = [i \in 1 .. m |-> x[i]] /\ t \in Seq(Seq(T)) /\ Len(t) = m
    BY <1>3, <2>2
  <2>5. \A i \in 1 .. m : t[i] = s[i]
    BY <2>2, <2>3, <2>4
  <2>6. FlattenSeq(t) \in Seq(T) /\ FlattenSeq(s) = FlattenSeq(t) \o s[m + 1]
    <3>1. Len(s) = m + 1
      BY <2>2, <2>3
    <3>2. OneMore(s, t, m, T)
      BY <2>3, <2>4, <2>5, <3>1 DEF OneMore
    <3>3. QED
      BY <3>2, FlattenMore
  <2>7. s[m + 1] = x[k]
    BY <2>2, <2>3
  <2>8. UpTo(x, k) = FlattenSeq(s) /\ UpTo(x, m) = FlattenSeq(t)
    BY <2>3, <2>4 DEF UpTo
  <2>9. QED
    BY <2>1, <2>6, <2>7, <2>8
<1>6. ASSUME NEW k \in 0 .. N PROVE UpTo(x, k) \in Seq(T)
  <2>1. CASE k = 0
    <3>1. << >> \in Seq(T)
      OBVIOUS
    <3>2. QED
      BY <1>4, <2>1, <3>1
  <2>2. CASE k # 0
    <3>1. k \in 1 .. N
      BY <2>2
    <3>2. PICK s, t : s = UpTo(x, k - 1) /\ t = x[k]
      OBVIOUS
    <3>3. s \in Seq(T) /\ t \in Seq(T) /\ UpTo(x, k) = s \o t
      BY <1>2, <1>5, <3>1, <3>2
    <3>4. QED
      BY <3>3
  <2>3. QED
    BY <2>1, <2>2
<1>7. FlattenSeq(x) = UpTo(x, N)
  BY <1>2 DEF UpTo
<1>8. QED
  BY <1>1, <1>4, <1>5, <1>6, <1>7 DEF Growing

(* The first are the beginning of the first and some more.                   *)
Begins(s, t, T) == \E r \in Seq(T) : t = s \o r

(* A sequence begins itself.                                                *)
LEMMA BeginsItself ==
  ASSUME NEW T, NEW s \in Seq(T)
  PROVE  Begins(s, s, T)
<1>1. << >> \in Seq(T) /\ s = s \o << >>
  BY ConcatEmptySeq
<1>2. QED
  BY <1>1 DEF Begins

(* What begins a sequence begins it when there is more behind it.           *)
LEMMA BeginsOn ==
  ASSUME NEW T, NEW s \in Seq(T), NEW t, NEW q \in Seq(T), Begins(s, t, T)
  PROVE  Begins(s, t \o q, T)
<1>1. PICK r \in Seq(T) : t = s \o r
  BY DEF Begins
<1>2. t \o q = s \o (r \o q)
  BY <1>1, ConcatAssociative
<1>3. r \o q \in Seq(T)
  BY ConcatProperties
<1>4. QED
  BY <1>2, <1>3 DEF Begins

(* The first k begin the first m, when there are more of these.             *)
LEMMA Reaches ==
  ASSUME NEW T, NEW x \in Seq(Seq(T)), NEW k \in 0 .. Len(x), NEW m \in k .. Len(x)
  PROVE  Begins(UpTo(x, k), UpTo(x, m), T)
<1>1. PICK N \in Nat : N = Len(x)
  OBVIOUS
<1>2. Growing(x, T)
  BY Grows
<1>3. PICK s : s = UpTo(x, k)
  OBVIOUS
<1>4. s \in Seq(T)
  BY <1>2, <1>3 DEF Growing
<1>5. PICK S : S = {n \in Nat : k + n \in 0 .. N => Begins(s, UpTo(x, k + n), T)}
  OBVIOUS
<1>6. 0 \in S
  <2>1. k + 0 = k
    OBVIOUS
  <2>2. Begins(s, UpTo(x, k + 0), T)
    BY <1>3, <1>4, <2>1, BeginsItself
  <2>3. QED
    BY <1>5, <2>2
<1>7. ASSUME NEW n \in Nat, n \in S PROVE n + 1 \in S
  <2>1. SUFFICES ASSUME k + (n + 1) \in 0 .. N
                 PROVE  Begins(s, UpTo(x, k + (n + 1)), T)
    BY <1>5
  <2>2. PICK p : p = k + (n + 1)
    OBVIOUS
  <2>3. p \in 1 .. N /\ p - 1 = k + n /\ k + n \in 0 .. N
    BY <1>1, <2>1, <2>2
  <2>4. PICK t : t = UpTo(x, p - 1)
    OBVIOUS
  <2>5. Begins(s, t, T)
    BY <1>5, <1>7, <2>3, <2>4
  <2>6. UpTo(x, p) = t \o x[p] /\ x[p] \in Seq(T)
    <3>1. p \in 1 .. Len(x)
      BY <1>1, <2>3
    <3>2. UpTo(x, p) = UpTo(x, p - 1) \o x[p]
      BY <1>2, <3>1 DEF Growing
    <3>3. QED
      BY <2>4, <3>1, <3>2
  <2>7. Begins(s, t \o x[p], T)
    BY <1>4, <2>5, <2>6, BeginsOn
  <2>8. QED
    BY <2>2, <2>6, <2>7
<1>8. Nat \subseteq S
  BY <1>6, <1>7, SetInduction
<1>9. m - k \in Nat /\ k + (m - k) = m /\ m \in 0 .. N
  BY <1>1
<1>10. QED
  BY <1>3, <1>5, <1>8, <1>9

(* What is found in a sequence is found at the same place where it goes on.  *)
LEMMA BeginsPlaces ==
  ASSUME NEW T, NEW s \in Seq(T), NEW t, Begins(s, t, T)
  PROVE  /\ t \in Seq(T) /\ Len(s) <= Len(t)
         /\ \A i \in 1 .. Len(s) : t[i] = s[i]
<1>1. PICK r \in Seq(T) : t = s \o r
  BY DEF Begins
<1>2. PICK m, n \in Nat : m = Len(s) /\ n = Len(r)
  OBVIOUS
<1>3. /\ t \in Seq(T) /\ Len(t) = Len(s) + Len(r)
      /\ \A i \in 1 .. Len(s) + Len(r) : t[i] = IF i <= Len(s) THEN s[i] ELSE r[i - Len(s)]
  BY <1>1, ConcatProperties
<1>4. Len(s) <= Len(t)
  BY <1>2, <1>3
<1>5. ASSUME NEW i \in 1 .. m PROVE t[i] = s[i]
  <2>1. i \in 1 .. m + n /\ i <= m
    OBVIOUS
  <2>2. QED
    BY <1>2, <1>3, <2>1
<1>6. QED
  BY <1>2, <1>3, <1>4, <1>5

(* A sequence that agrees with another as far as it goes is a prefix of it.  *)
Agrees(s, t, T) ==
    /\ s \in Seq(T) /\ t \in Seq(T) /\ Len(s) <= Len(t)
    /\ \A i \in 1 .. Len(s) : s[i] = t[i]

(* So IsPrefix, which is about SubSeq, has it.                              *)
LEMMA AgreesPrefix ==
  ASSUME NEW T, NEW s, NEW t, Agrees(s, t, T)
  PROVE  IsPrefix(s, t)
<1>1. s \in Seq(T) /\ t \in Seq(T) /\ Len(s) <= Len(t)
  BY DEF Agrees
<1>2. PICK m, n \in Nat : m = Len(s) /\ n = Len(t)
  BY <1>1
<1>3. m <= n /\ \A i \in 1 .. m : s[i] = t[i] /\ s[i] \in T /\ t[i] \in T
  BY <1>1, <1>2 DEF Agrees
<1>4. SubSeq(s, 1, m) = SubSeq(t, 1, m)
  <2>1. PICK u, v : u = SubSeq(s, 1, m) /\ v = SubSeq(t, 1, m)
    OBVIOUS
  <2>2. \A i \in 1 .. m : s[i] \in T /\ t[i] \in T
    BY <1>3
  <2>3. /\ u \in Seq(T) /\ Len(u) = (IF 1 <= m THEN m - 1 + 1 ELSE 0)
        /\ \A i \in 1 .. m - 1 + 1 : u[i] = s[1 + i - 1]
    BY <2>1, <2>2, SubSeqProperties
  <2>4. /\ v \in Seq(T) /\ Len(v) = (IF 1 <= m THEN m - 1 + 1 ELSE 0)
        /\ \A i \in 1 .. m - 1 + 1 : v[i] = t[1 + i - 1]
    BY <2>1, <2>2, SubSeqProperties
  <2>5. Len(u) = m /\ Len(v) = m /\ m - 1 + 1 = m /\ \A i \in 1 .. m : 1 + i - 1 = i
    BY <2>3, <2>4
  <2>6. ASSUME NEW i \in 1 .. m PROVE u[i] = v[i]
    <3>1. u[i] = s[i] /\ v[i] = t[i]
      BY <2>3, <2>4, <2>5
    <3>2. QED
      BY <1>3, <3>1
  <2>7. u = v
    BY <2>3, <2>4, <2>5, <2>6, SeqEqual
  <2>8. QED
    BY <2>1, <2>7
<1>5. QED
  BY <1>1, <1>2, <1>3, <1>4 DEF IsPrefix

(* Where the first k of some sequences end, and what is found behind them.   *)
EndOf(x, k) == Len(UpTo(x, k))

Placed(x, T) ==
    /\ FlattenSeq(x) \in Seq(T) /\ Len(FlattenSeq(x)) = EndOf(x, Len(x))
    /\ EndOf(x, 0) = 0
    /\ \A k \in 0 .. Len(x) : EndOf(x, k) \in Nat /\ EndOf(x, k) <= EndOf(x, Len(x))
    /\ \A k \in 1 .. Len(x) : EndOf(x, k) = EndOf(x, k - 1) + Len(x[k])
    /\ \A k \in 1 .. Len(x) : \A i \in 1 .. Len(x[k]) :
          FlattenSeq(x)[EndOf(x, k - 1) + i] = x[k][i]

(* Each is found behind those in front of it.                               *)
LEMMA Placing ==
  ASSUME NEW T, NEW x \in Seq(Seq(T))
  PROVE  Placed(x, T)
<1>1. PICK N \in Nat : N = Len(x)
  OBVIOUS
<1>2. Growing(x, T)
  BY Grows
<1>3. PICK whole : whole = FlattenSeq(x)
  OBVIOUS
<1>4. whole \in Seq(T) /\ whole = UpTo(x, N)
  <2>1. N \in 0 .. Len(x)
    BY <1>1
  <2>2. QED
    BY <1>1, <1>2, <1>3, <2>1 DEF Growing
<1>5. UpTo(x, 0) = << >> /\ Len(<< >>) = 0
  BY <1>2 DEF Growing
<1>6. ASSUME NEW k \in 0 .. N
      PROVE  /\ UpTo(x, k) \in Seq(T) /\ Len(UpTo(x, k)) <= Len(whole)
             /\ \A i \in 1 .. Len(UpTo(x, k)) : whole[i] = UpTo(x, k)[i]
  <2>1. k \in 0 .. Len(x) /\ N \in k .. Len(x)
    BY <1>1
  <2>2. UpTo(x, k) \in Seq(T)
    BY <1>2, <2>1 DEF Growing
  <2>3. Begins(UpTo(x, k), UpTo(x, N), T)
    BY <2>1, Reaches
  <2>4. Begins(UpTo(x, k), whole, T)
    BY <1>4, <2>3
  <2>5. QED
    BY <2>2, <2>4, BeginsPlaces
<1>7. ASSUME NEW k \in 1 .. N
      PROVE  /\ Len(UpTo(x, k)) = Len(UpTo(x, k - 1)) + Len(x[k])
             /\ \A i \in 1 .. Len(x[k]) : whole[Len(UpTo(x, k - 1)) + i] = x[k][i]
  <2>1. k \in 1 .. Len(x) /\ k \in 0 .. N /\ k - 1 \in 0 .. N
    BY <1>1
  <2>2. PICK s, t, u : s = UpTo(x, k - 1) /\ t = x[k] /\ u = UpTo(x, k)
    OBVIOUS
  <2>3. s \in Seq(T)
    BY <1>6, <2>1, <2>2
  <2>4. t \in Seq(T)
    BY <2>1, <2>2
  <2>5. u = s \o t
    BY <1>2, <2>1, <2>2 DEF Growing
  <2>6. PICK m, n \in Nat : m = Len(s) /\ n = Len(t)
    BY <2>3, <2>4
  <2>7. /\ Len(u) = m + n
        /\ \A i \in 1 .. m + n : u[i] = IF i <= m THEN s[i] ELSE t[i - m]
    BY <2>3, <2>4, <2>5, <2>6, ConcatProperties
  <2>8. \A i \in 1 .. m + n : whole[i] = u[i]
    <3>1. \A i \in 1 .. Len(u) : whole[i] = u[i]
      BY <1>6, <2>1, <2>2
    <3>2. QED
      BY <2>7, <3>1
  <2>9. ASSUME NEW i \in 1 .. n PROVE whole[m + i] = t[i]
    <3>1. m + i \in 1 .. m + n /\ ~(m + i <= m) /\ (m + i) - m = i
      OBVIOUS
    <3>2. QED
      BY <2>7, <2>8, <3>1
  <2>10. QED
    BY <2>2, <2>6, <2>7, <2>9
<1>8. \A k \in 0 .. N : Len(UpTo(x, k)) \in Nat
  BY <1>6
<1>9. /\ \A k \in 0 .. N : Len(UpTo(x, k)) <= Len(whole)
      /\ \A k \in 1 .. N : Len(UpTo(x, k)) = Len(UpTo(x, k - 1)) + Len(x[k])
      /\ \A k \in 1 .. N : \A i \in 1 .. Len(x[k]) : whole[Len(UpTo(x, k - 1)) + i] = x[k][i]
  BY <1>6, <1>7
<1>10. /\ whole \in Seq(T) /\ Len(whole) = EndOf(x, N) /\ EndOf(x, 0) = 0
       /\ \A k \in 0 .. N : EndOf(x, k) \in Nat /\ EndOf(x, k) <= EndOf(x, N)
  BY <1>4, <1>5, <1>8, <1>9 DEF EndOf
<1>11. /\ \A k \in 1 .. N : EndOf(x, k) = EndOf(x, k - 1) + Len(x[k])
       /\ \A k \in 1 .. N : \A i \in 1 .. Len(x[k]) : whole[EndOf(x, k - 1) + i] = x[k][i]
  BY <1>9 DEF EndOf
<1>12. QED
  BY <1>1, <1>3, <1>10, <1>11 DEF Placed

(* The options of a line.                                                    *)
Number(l) == Len(l.options)
Spell(l) == [o \in DOMAIN l.options |-> Written(l.options[o])]
Ask(l) == [o \in DOMAIN l.options |-> Calls(l.options[o])]

(* A value in the argument of its letter has something to it.                *)
HasValue(o) == o.takes = "none" \/ o.apart \/ o.value # << >>

LineTyped(l) ==
    /\ l.commands \in Seq(Text) /\ Number(l) \in Nat
    /\ DOMAIN l.options = 1 .. Number(l)
    /\ \A k \in 1 .. Number(l) :
          /\ l.options[k] \in Options
          /\ HasValue(l.options[k])
    /\ Spell(l) \in Seq(Seq(Text)) /\ Len(Spell(l)) = Number(l)
    /\ \A k \in 1 .. Number(l) : Spell(l)[k] = Written(l.options[k])
    /\ Ask(l) \in Seq(Seq(Call)) /\ Len(Ask(l)) = Number(l)
    /\ \A k \in 1 .. Number(l) : Ask(l)[k] = Calls(l.options[k])

(* The types of what is made of a line, its options and their writing.      *)
LEMMA LineType ==
  ASSUME NEW l \in CommandLines
  PROVE  LineTyped(l)
<1>1. /\ l.commands \in Seq(Text) /\ l.options \in Seq(Options)
      /\ \A o \in DOMAIN l.options :
            HasValue(l.options[o])
  BY ArgumentsAssumption DEF HasValue
<1>2. PICK N \in Nat : N = Number(l)
  BY <1>1 DEF Number
<1>3. DOMAIN l.options = 1 .. N /\ \A k \in 1 .. N : l.options[k] \in Options
  BY <1>1, <1>2 DEF Number
<1>4. /\ Spell(l) \in Seq(Seq(Text)) /\ Len(Spell(l)) = N
      /\ \A k \in 1 .. N : Spell(l)[k] = Written(l.options[k])
  <2>1. PICK X : X = Seq(Text)
    OBVIOUS
  <2>2. \A k \in 1 .. N : Written(l.options[k]) \in X
    BY <1>3, <2>1, Spelling DEF Spelled
  <2>3. PICK w : w = [k \in 1 .. N |-> Written(l.options[k])]
    OBVIOUS
  <2>4. w \in Seq(X) /\ Len(w) = N /\ \A k \in 1 .. N : w[k] = Written(l.options[k])
    BY <2>2, <2>3
  <2>5. Spell(l) = w
    BY <1>3, <2>3 DEF Spell
  <2>6. QED
    BY <2>1, <2>4, <2>5
<1>5. /\ Ask(l) \in Seq(Seq(Call)) /\ Len(Ask(l)) = N
      /\ \A k \in 1 .. N : Ask(l)[k] = Calls(l.options[k])
  <2>1. PICK X : X = Seq(Call)
    OBVIOUS
  <2>2. \A k \in 1 .. N : Calls(l.options[k]) \in X
    BY <1>3, <2>1, Calling DEF Called
  <2>3. PICK w : w = [k \in 1 .. N |-> Calls(l.options[k])]
    OBVIOUS
  <2>4. w \in Seq(X) /\ Len(w) = N /\ \A k \in 1 .. N : w[k] = Calls(l.options[k])
    BY <2>2, <2>3
  <2>5. Ask(l) = w
    BY <1>3, <2>3 DEF Ask
  <2>6. QED
    BY <2>1, <2>4, <2>5
<1>6. \A k \in 1 .. N : HasValue(l.options[k])
  BY <1>1, <1>3
<1>7. QED
  BY <1>1, <1>2, <1>3, <1>4, <1>5, <1>6 DEF LineTyped

(* The arguments of a line: where the first k options end, how the next one  *)
(* begins, and where the command is.                                         *)
Place(l, k) == EndOf(Spell(l), k)

(* The options take as many arguments as are in their writing.               *)
Width(o) == IF o.takes # "none" /\ o.apart THEN 2 ELSE 1

Laid(l, a) ==
    /\ a \in Seq(Text) /\ Len(a) = Place(l, Number(l)) + Len(l.commands)
    /\ Place(l, 0) = 0
    /\ \A k \in 0 .. Number(l) :
          Place(l, k) \in Nat /\ Place(l, k) <= Place(l, Number(l))
    /\ \A k \in 1 .. Number(l) :
          /\ Place(l, k) = Place(l, k - 1) + Width(l.options[k])
          /\ Spelled(l.options[k], a[Place(l, k - 1) + 1])
          /\ l.options[k].takes # "none" /\ l.options[k].apart
                => a[Place(l, k - 1) + 2] = l.options[k].value
    /\ SubSeq(a, Place(l, Number(l)) + 1, Len(a)) = l.commands
    /\ l.commands # << >> => a[Place(l, Number(l)) + 1] = l.commands[1]

(* argv is laid out so.                                                     *)
LEMMA Laying ==
  ASSUME NEW l \in CommandLines
  PROVE  Laid(l, AsWritten(l))
<1>0. LineTyped(l)
  BY LineType
<1>1. PICK N \in Nat : N = Number(l)
  BY <1>0 DEF LineTyped
<1>2. PICK x : x = Spell(l)
  OBVIOUS
<1>3. x \in Seq(Seq(Text)) /\ Len(x) = N /\ \A k \in 1 .. N : x[k] = Written(l.options[k])
  BY <1>0, <1>1, <1>2 DEF LineTyped
<1>4. Placed(x, Text)
  BY <1>3, Placing
<1>5. PICK w : w = FlattenSeq(x)
  OBVIOUS
<1>6. /\ w \in Seq(Text) /\ Len(w) = Place(l, N) /\ Place(l, 0) = 0
      /\ \A k \in 0 .. N : Place(l, k) \in Nat /\ Place(l, k) <= Place(l, N)
      /\ \A k \in 1 .. N : Place(l, k) = Place(l, k - 1) + Len(x[k])
      /\ \A k \in 1 .. N : \A i \in 1 .. Len(x[k]) : w[Place(l, k - 1) + i] = x[k][i]
  BY <1>2, <1>3, <1>4, <1>5 DEF Placed, Place
<1>7. PICK a, c : a = AsWritten(l) /\ c = l.commands
  OBVIOUS
<1>8. a = w \o c
  BY <1>2, <1>5, <1>7 DEF AsWritten, Spell
<1>9. c \in Seq(Text)
  BY <1>0, <1>7 DEF LineTyped
<1>10. PICK m, n \in Nat : m = Place(l, N) /\ n = Len(c)
  BY <1>6, <1>9
<1>11. /\ a \in Seq(Text) /\ Len(a) = m + n
       /\ \A i \in 1 .. m + n : a[i] = IF i <= m THEN w[i] ELSE c[i - m]
  <2>1. /\ a \in Seq(Text) /\ Len(a) = Len(w) + Len(c)
        /\ \A i \in 1 .. Len(w) + Len(c) : a[i] = IF i <= Len(w) THEN w[i] ELSE c[i - Len(w)]
    BY <1>6, <1>8, <1>9, ConcatProperties
  <2>2. Len(w) = m /\ Len(c) = n
    BY <1>6, <1>10
  <2>3. QED
    BY <2>1, <2>2
<1>12. SubSeq(a, m + 1, Len(a)) = c
  <2>1. SubSeq(w \o c, Len(w) + 1, Len(w) + Len(c)) = c
    BY <1>6, <1>9, Behind
  <2>2. QED
    BY <1>6, <1>8, <1>10, <1>11, <2>1
<1>13. c # << >> => a[m + 1] = c[1]
  <2> HAVE c # << >>
  <2>1. n # 0
    BY <1>9, <1>10, EmptySeq
  <2>2. m + 1 \in 1 .. m + n /\ ~(m + 1 <= m) /\ (m + 1) - m = 1
    BY <2>1
  <2>3. QED
    BY <1>11, <2>2
<1>14. ASSUME NEW k \in 1 .. N
       PROVE  /\ Place(l, k) = Place(l, k - 1) + Width(l.options[k])
              /\ Spelled(l.options[k], a[Place(l, k - 1) + 1])
              /\ l.options[k].takes # "none" /\ l.options[k].apart
                    => a[Place(l, k - 1) + 2] = l.options[k].value
  <2>1. PICK o : o = l.options[k]
    OBVIOUS
  <2>2. o \in Options
    BY <1>0, <1>1, <2>1 DEF LineTyped
  <2>3. PICK f : Spelled(o, f)
    BY <2>2, Spelling
  <2>4. x[k] = Written(o) /\ Len(x[k]) = Width(o) /\ x[k][1] = f
    <3>1. x[k] = Written(o)
      BY <1>3, <2>1
    <3>2. Len(Written(o)) = Width(o) /\ f = Written(o)[1]
      BY <2>3 DEF Spelled, Width
    <3>3. QED
      BY <3>1, <3>2
  <2>5. PICK p, q : p = Place(l, k - 1) /\ q = Place(l, k)
    OBVIOUS
  <2>6. p \in Nat /\ q \in Nat /\ q = p + Width(o) /\ q <= m
    <3>1. k - 1 \in 0 .. N /\ k \in 0 .. N
      OBVIOUS
    <3>2. QED
      BY <1>6, <1>10, <2>4, <2>5, <3>1
  <2>7. Width(o) \in {1, 2} /\ (o.takes # "none" /\ o.apart => Width(o) = 2)
    BY DEF Width
  <2>8. \A i \in 1 .. Width(o) : w[p + i] = x[k][i]
    BY <1>6, <2>4, <2>5
  <2>9. \A i \in 1 .. Width(o) : a[p + i] = x[k][i]
    <3>1. \A i \in 1 .. Width(o) : p + i \in 1 .. m + n /\ p + i <= m
      BY <2>6, <2>7
    <3>2. QED
      BY <1>11, <2>8, <3>1
  <2>10. a[p + 1] = f
    <3>1. 1 \in 1 .. Width(o)
      BY <2>7
    <3>2. QED
      BY <2>4, <2>9, <3>1
  <2>11. o.takes # "none" /\ o.apart => a[p + 2] = o.value
    <3> HAVE o.takes # "none" /\ o.apart
    <3>1. 2 \in 1 .. Width(o)
      BY <2>7
    <3>2. Written(o)[2] = o.value
      BY <2>3 DEF Spelled
    <3>3. QED
      BY <2>4, <2>9, <3>1, <3>2
  <2>12. QED
    BY <2>1, <2>3, <2>5, <2>6, <2>10, <2>11
<1>15. QED
  BY <1>1, <1>6, <1>7, <1>10, <1>11, <1>12, <1>13, <1>14 DEF Laid

(* The letters that take a value, as addArgument's colons have them.         *)
LEMMA Colons ==
  /\ \A letter \in Flags : ~TakesValue(letter) /\ letter \notin Taking /\ letter # "-"
  /\ \A letter \in Taking : TakesValue(letter) /\ letter \notin Flags /\ letter # "-"
<1>1. Len(pargs) = 12
  BY DEF pargs
<1>2. /\ pargs[1] = "c" /\ pargs[2] = ":" /\ pargs[3] = "d" /\ pargs[4] = "f"
      /\ pargs[5] = "h" /\ pargs[6] = "p" /\ pargs[7] = ":" /\ pargs[8] = "s"
      /\ pargs[9] = "x" /\ pargs[10] = ":" /\ pargs[11] = "u" /\ pargs[12] = ":"
  BY DEF pargs
<1>3. ASSUME NEW letter \in Flags PROVE ~TakesValue(letter)
  <2>1. ASSUME NEW i \in 1 .. 11, pargs[i] = letter, pargs[i + 1] = ":" PROVE FALSE
    <3>1. i \in {3, 4, 5, 8}
      BY <1>2, <2>1 DEF Flags
    <3>2. QED
      BY <1>2, <2>1, <3>1
  <2>2. QED
    BY <1>1, <2>1 DEF TakesValue
<1>4. ASSUME NEW letter \in Taking PROVE TakesValue(letter)
  <2>1. PICK i \in {1, 6, 9, 11} : pargs[i] = letter /\ pargs[i + 1] = ":"
    BY <1>2 DEF Taking
  <2>2. ASSUME NEW j \in 1 .. i - 1 PROVE pargs[j] # letter
    <3>1. j \in 1 .. 10 /\ j < i
      OBVIOUS
    <3>2. QED
      BY <1>2, <2>1, <3>1 DEF Taking
  <2>3. i \in 1 .. Len(pargs) - 1
    BY <1>1
  <2>4. QED
    BY <2>1, <2>2, <2>3 DEF TakesValue
<1>5. \A letter \in Flags : letter \notin Taking /\ letter # "-"
  BY DEF Flags, Taking
<1>6. \A letter \in Taking : letter \notin Flags /\ letter # "-"
  BY DEF Flags, Taking
<1>7. QED
  BY <1>3, <1>4, <1>5, <1>6

(* An option of a plain line.                                                *)
PlainOption(o) ==
    /\ o.flags # << >> => o.takes = "none" \/ ~o.apart
    /\ o.flags # << >> \/ o.takes # "none"
    /\ \A i \in DOMAIN o.flags : o.flags[i] \in Flags

(* Its first argument is neither a command nor one of getopt's own, and      *)
(* processArgs skips the next exactly when it is the value.                  *)
LEMMA FirstOf ==
  ASSUME NEW o \in Options, NEW f, Spelled(o, f), PlainOption(o),
         HasValue(o)
  PROVE  /\ ~IsCommand(f) /\ IsOption(f) /\ f # << "-", "-" >>
         /\ SkipsNext(f) <=> o.takes # "none" /\ o.apart
<1>1. /\ o.flags \in Text /\ o.value \in Text /\ o.takes \in Taking \cup {"none"}
  BY DEF Options
<1>2. PICK n, m \in Nat : n = Len(o.flags) /\ m = Len(o.value)
  BY <1>1 DEF Text
<1>3. /\ f \in Text /\ f[1] = "-"
      /\ Len(f) = n + (IF o.takes = "none" THEN 1 ELSE IF o.apart THEN 2 ELSE 2 + m)
      /\ \A i \in 1 .. n : f[i + 1] = o.flags[i]
      /\ o.takes # "none" => f[n + 2] = o.takes
  BY <1>2 DEF Spelled
<1>4. /\ n # 0 => o.takes = "none" \/ ~o.apart
      /\ n # 0 \/ o.takes # "none"
      /\ \A i \in 1 .. n : o.flags[i] \in Flags
  <2>1. DOMAIN o.flags = 1 .. n
    BY <1>1, <1>2 DEF Text
  <2>2. n = 0 <=> o.flags = << >>
    BY <1>1, <1>2, EmptySeq DEF Text
  <2>3. QED
    BY <2>1, <2>2 DEF PlainOption
<1>5. o.takes = "none" \/ o.apart \/ m # 0
  <2> SUFFICES ASSUME o.takes # "none", ~o.apart PROVE m # 0
    OBVIOUS
  <2>1. o.value # << >> /\ o.value \in Seq(Letters)
    BY <1>1 DEF Text, HasValue
  <2>2. Len(o.value) # 0
    BY <2>1, EmptySeq
  <2>3. QED
    BY <1>2, <2>2
<1>6. PICK len \in Nat : len = Len(f)
  BY <1>3 DEF Text
<1>7. len > 1
  BY <1>3, <1>4, <1>6
<1>8. f # << >>
  <2>1. Len(<< >>) = 0
    OBVIOUS
  <2>2. QED
    BY <1>6, <1>7, <2>1
<1>9. CASE n # 0
  <2>1. f[2] \in Flags
    <3>1. 1 \in 1 .. n /\ 1 + 1 = 2
      BY <1>9
    <3>2. QED
      BY <1>3, <1>4, <3>1
  <2>2. f[2] # "-" /\ ~TakesValue(f[2])
    BY <2>1, Colons
  <2>3. ~SkipsNext(f)
    BY <2>2 DEF SkipsNext
  <2>4. << "-", "-" >>[2] = "-"
    OBVIOUS
  <2>5. f # << "-", "-" >>
    BY <2>2, <2>4
  <2>6. QED
    BY <1>3, <1>4, <1>6, <1>7, <1>8, <1>9, <2>3, <2>5 DEF IsCommand, IsOption
<1>10. CASE n = 0
  <2>1. f[2] = o.takes /\ o.takes \in Taking
    <3>1. n + 2 = 2 /\ o.takes # "none"
      BY <1>4, <1>10
    <3>2. QED
      BY <1>1, <1>3, <3>1
  <2>2. f[2] # "-" /\ TakesValue(f[2])
    BY <2>1, Colons
  <2>3. o.takes # "none" /\ (o.apart \/ m # 0)
    BY <1>4, <1>5, <1>10
  <2>4. len = (IF o.apart THEN 2 ELSE 2 + m)
    BY <1>3, <1>6, <1>10, <2>3
  <2>5. len = 2 <=> o.apart
    BY <2>3, <2>4
  <2>6. SkipsNext(f) <=> o.apart
    BY <1>6, <2>2, <2>5 DEF SkipsNext
  <2>7. << "-", "-" >>[2] = "-"
    OBVIOUS
  <2>8. f # << "-", "-" >>
    BY <2>2, <2>7
  <2>9. QED
    BY <1>3, <1>6, <1>7, <1>8, <2>3, <2>6, <2>8 DEF IsCommand, IsOption
<1>11. QED
  BY <1>9, <1>10

(* How a plain line is read: what is known of it, once.                      *)
Reading ==
    /\ line \in CommandLines /\ argv = AsWritten(line) /\ Plain

(* The facts about a plain line that the steps need.                        *)
LEMMA Readings ==
  ASSUME Reading
  PROVE  /\ LineTyped(line) /\ Laid(line, argv)
         /\ \A k \in 1 .. Number(line) :
               PlainOption(line.options[k])
         /\ line.commands # << >> => IsCommand(line.commands[1])
<1>1. LineTyped(line) /\ Laid(line, argv)
  BY LineType, Laying DEF Reading
<1>2. ASSUME NEW k \in 1 .. Number(line) PROVE PlainOption(line.options[k])
  <2>1. k \in DOMAIN line.options
    BY <1>1 DEF LineTyped
  <2>2. QED
    BY <2>1 DEF Reading, Plain, PlainOption
<1>3. line.commands # << >> => IsCommand(line.commands[1])
  BY DEF Reading, Plain
<1>4. QED
  BY <1>1, <1>2, <1>3

(* A turn of the first loop passes an option, and stays at the command.      *)
LEMMA TurnsAt ==
  ASSUME Reading
  PROVE  /\ \A k \in 1 .. Number(line) :
               Turn(Place(line, k - 1) + 1) = Place(line, k) + 1
         /\ Turn(Place(line, Number(line)) + 1) = Place(line, Number(line)) + 1
<1>1. /\ LineTyped(line) /\ Laid(line, argv)
      /\ \A k \in 1 .. Number(line) : PlainOption(line.options[k])
      /\ line.commands # << >> => IsCommand(line.commands[1])
  BY Readings
<1>2. PICK N \in Nat : N = Number(line)
  BY <1>1 DEF LineTyped
<1>3. PICK len, end \in Nat : len = Len(argv) /\ end = Place(line, N)
  <2>1. N \in 0 .. N
    OBVIOUS
  <2>2. QED
    BY <1>1, <1>2, <2>1 DEF Laid
<1>4. len = end + Len(line.commands)
  BY <1>1, <1>2, <1>3 DEF Laid
<1>5. ASSUME NEW k \in 1 .. N PROVE Turn(Place(line, k - 1) + 1) = Place(line, k) + 1
  <2>1. PICK o, p, q, f : /\ o = line.options[k] /\ p = Place(line, k - 1)
                          /\ q = Place(line, k) /\ f = argv[Place(line, k - 1) + 1]
    OBVIOUS
  <2>2. k - 1 \in 0 .. N /\ k \in 0 .. N
    OBVIOUS
  <2>3. p \in Nat /\ q \in Nat /\ q <= end /\ q = p + Width(o) /\ Spelled(o, f)
    BY <1>1, <1>2, <1>3, <2>1, <2>2 DEF Laid
  <2>4. o \in Options /\ HasValue(o) /\ PlainOption(o)
    BY <1>1, <1>2, <2>1 DEF LineTyped
  <2>5. ~IsCommand(f) /\ (SkipsNext(f) <=> o.takes # "none" /\ o.apart)
    BY <2>3, <2>4, FirstOf
  <2>6. Width(o) = (IF SkipsNext(f) THEN 2 ELSE 1)
    BY <2>5 DEF Width
  <2>7. Len(line.commands) \in Nat
    BY <1>1 DEF LineTyped
  <2>8. ~(p + 1 > len)
    BY <1>4, <2>3, <2>6, <2>7
  <2>9. Turn(p + 1) = IF SkipsNext(f) THEN p + 1 + 2 ELSE p + 1 + 1
    BY <1>3, <2>1, <2>5, <2>8 DEF Turn
  <2>10. QED
    BY <2>1, <2>3, <2>6, <2>9
<1>6. Turn(end + 1) = end + 1
  <2>1. CASE line.commands = << >>
    <3>1. Len(line.commands) = 0
      BY <2>1
    <3>2. end + 1 > len
      BY <1>4, <3>1
    <3>3. QED
      BY <1>3, <3>2 DEF Turn
  <2>2. CASE line.commands # << >>
    <3>1. argv[end + 1] = line.commands[1]
      BY <1>1, <1>2, <1>3, <2>2 DEF Laid
    <3>2. IsCommand(argv[end + 1])
      BY <1>1, <2>2, <3>1
    <3>3. QED
      BY <3>2 DEF Turn
  <2>3. QED
    BY <2>1, <2>2
<1>7. QED
  BY <1>2, <1>3, <1>5, <1>6

(* The first loop of processArgs ends where the options do, and what it      *)
(* returns is the command.                                                   *)
Goes(f) == f = [n \in 0 .. Len(argv) |-> IF n = 0 THEN 1 ELSE Turn(f[n - 1])]

LEMMA Starting ==
  ASSUME Reading
  PROVE  /\ StartFrom = Place(line, Number(line)) + 1
         /\ SubSeq(argv, StartFrom, Len(argv)) = line.commands
<1>1. LineTyped(line) /\ Laid(line, argv)
  BY Readings
<1>2. PICK N \in Nat : N = Number(line)
  BY <1>1 DEF LineTyped
<1>3. PICK len, end \in Nat : len = Len(argv) /\ end = Place(line, N)
  <2>1. N \in 0 .. N
    OBVIOUS
  <2>2. QED
    BY <1>1, <1>2, <2>1 DEF Laid
<1>4. len = end + Len(line.commands) /\ Len(line.commands) \in Nat
  BY <1>1, <1>2, <1>3 DEF Laid, LineTyped
<1>5. /\ \A k \in 1 .. N : Turn(Place(line, k - 1) + 1) = Place(line, k) + 1
      /\ Turn(end + 1) = end + 1
  BY <1>2, <1>3, TurnsAt
<1>6. PICK step : step = [n \in Nat |-> [q \in Nat |-> Turn(q)]]
  OBVIOUS
<1>7. ASSUME NEW n \in Nat, NEW q \in Nat PROVE step[n][q] \in Nat
  BY <1>6, <1>7 DEF Turn
<1>8. PICK f : Iterates(f, len, Nat, 1, step)
  BY <1>7, IterationExists
<1>9. f \in [0 .. len -> Nat] /\ f[0] = 1 /\ \A n \in 1 .. len : f[n] = Turn(f[n - 1])
  <2>1. f \in [0 .. len -> Nat] /\ f[0] = 1
    BY <1>8 DEF Iterates
  <2>2. ASSUME NEW n \in 1 .. len PROVE f[n] = Turn(f[n - 1])
    <3>1. n \in Nat /\ n - 1 \in 0 .. len
      OBVIOUS
    <3>2. f[n - 1] \in Nat /\ f[n] = step[n][f[n - 1]]
      BY <1>8, <2>1, <3>1 DEF Iterates
    <3>3. QED
      BY <1>6, <3>1, <3>2
  <2>3. QED
    BY <2>1, <2>2
<1>10. Goes(f)
  <2>1. f = [n \in 0 .. len |-> IF n = 0 THEN 1 ELSE Turn(f[n - 1])]
    <3>1. \A n \in 0 .. len : f[n] = IF n = 0 THEN 1 ELSE Turn(f[n - 1])
      <4>1. ASSUME NEW n \in 0 .. len PROVE f[n] = IF n = 0 THEN 1 ELSE Turn(f[n - 1])
        <5>1. n # 0 => n \in 1 .. len
          OBVIOUS
        <5>2. QED
          BY <1>9, <5>1
      <4>2. QED
        BY <4>1
    <3>2. QED
      BY <1>9, <3>1
  <2>2. QED
    BY <1>3, <2>1 DEF Goes
<1>11. PICK g : Goes(g) /\ StartFrom = IF g[len] > len THEN len + 1 ELSE g[len]
  BY <1>3, <1>10 DEF Goes, StartFrom
<1>12. g[0] = 1 /\ \A n \in 1 .. len : g[n] = Turn(g[n - 1])
  <2>1. g = [n \in 0 .. len |-> IF n = 0 THEN 1 ELSE Turn(g[n - 1])]
    BY <1>3, <1>11 DEF Goes
  <2>2. 0 \in 0 .. len /\ \A n \in 1 .. len : n \in 0 .. len /\ n # 0
    OBVIOUS
  <2>3. QED
    BY <2>1, <2>2
<1>13. PICK reached : reached = [k \in Nat |-> (IF k <= N THEN Place(line, k) ELSE end) + 1]
  OBVIOUS
<1>14. PICK S : S = {k \in Nat : /\ (k <= len => g[k] = reached[k])
                                 /\ (k <= N => k <= Place(line, k))}
  OBVIOUS
<1>15. 0 \in S
  <2>1. Place(line, 0) = 0
    BY <1>1 DEF Laid
  <2>2. reached[0] = 1
    BY <1>13, <2>1
  <2>3. QED
    BY <1>12, <1>14, <2>1, <2>2
<1>16. ASSUME NEW k \in Nat, k \in S PROVE k + 1 \in S
  <2>1. PICK m : m = k + 1
    OBVIOUS
  <2>2. m \in Nat /\ k = m - 1 /\ m > 0
    BY <2>1
  <2>3. m <= len => g[m] = reached[m]
    <3> HAVE m <= len
    <3>1. m \in 1 .. len /\ k <= len
      BY <2>2
    <3>2. g[m] = Turn(reached[k])
      BY <1>12, <1>14, <1>16, <2>2, <3>1
    <3>3. CASE m <= N
      <4>1. m \in 1 .. N /\ k <= N
        BY <2>2, <3>3
      <4>2. reached[k] = Place(line, k) + 1 /\ reached[m] = Place(line, m) + 1
        BY <1>13, <2>2, <4>1
      <4>3. Turn(Place(line, k) + 1) = Place(line, m) + 1
        BY <1>5, <2>2, <4>1
      <4>4. QED
        BY <3>2, <4>2, <4>3
    <3>4. CASE ~(m <= N)
      <4>1. reached[m] = end + 1
        BY <1>13, <2>2, <3>4
      <4>2. reached[k] = end + 1
        <5>1. k = N \/ ~(k <= N)
          BY <2>2, <3>4
        <5>2. QED
          BY <1>3, <1>13, <5>1
      <4>3. QED
        BY <1>5, <3>2, <4>1, <4>2
    <3>5. QED
      BY <3>3, <3>4
  <2>4. m <= N => m <= Place(line, m)
    <3> HAVE m <= N
    <3>1. m \in 1 .. N /\ m \in 0 .. N /\ k \in 0 .. N /\ k <= N
      BY <2>2
    <3>2. PICK p, q \in Nat : p = Place(line, k) /\ q = Place(line, m)
      BY <1>1, <1>2, <3>1 DEF Laid
    <3>3. Place(line, m) = Place(line, m - 1) + Width(line.options[m])
      BY <1>1, <1>2, <3>1 DEF Laid
    <3>4. Width(line.options[m]) \in {1, 2}
      BY DEF Width
    <3>5. k <= p
      BY <1>14, <1>16, <3>1, <3>2
    <3>6. QED
      BY <2>2, <3>2, <3>3, <3>4, <3>5
  <2>5. QED
    BY <1>14, <2>1, <2>2, <2>3, <2>4
<1>17. Nat \subseteq S
  BY <1>15, <1>16, SetInduction
<1>18. N <= end
  BY <1>3, <1>14, <1>17
<1>19. g[len] = end + 1
  <2>1. g[len] = reached[len]
    BY <1>14, <1>17
  <2>2. N <= len
    BY <1>4, <1>18
  <2>3. len = N => end = len
    BY <1>4, <1>18
  <2>4. CASE len = N
    <3>1. reached[len] = Place(line, N) + 1
      BY <1>13, <2>4
    <3>2. QED
      BY <1>3, <2>1, <3>1
  <2>5. CASE len # N
    <3>1. ~(len <= N)
      BY <2>2, <2>5
    <3>2. QED
      BY <1>13, <2>1, <3>1
  <2>6. QED
    BY <2>4, <2>5
<1>20. StartFrom = end + 1
  BY <1>4, <1>11, <1>19
<1>21. SubSeq(argv, end + 1, Len(argv)) = line.commands
  BY <1>1, <1>2, <1>3 DEF Laid
<1>22. QED
  BY <1>2, <1>3, <1>20, <1>21

(* What processArg is called with for the first k options of a line.         *)
CallPlace(l, k) == EndOf(Ask(l), k)

Asked(l, all) ==
    /\ all \in Seq(Call) /\ Len(all) = CallPlace(l, Number(l))
    /\ CallPlace(l, 0) = 0
    /\ \A k \in 0 .. Number(l) :
          CallPlace(l, k) \in Nat /\ CallPlace(l, k) <= CallPlace(l, Number(l))
    /\ \A k \in 1 .. Number(l) :
          /\ Called(l.options[k])
          /\ CallPlace(l, k) = CallPlace(l, k - 1) + Len(Calls(l.options[k]))
          /\ \A i \in 1 .. Len(Calls(l.options[k])) :
                all[CallPlace(l, k - 1) + i] = Calls(l.options[k])[i]

(* And what processArg is to be called with is, too.                        *)
LEMMA Asking ==
  ASSUME NEW l \in CommandLines
  PROVE  Asked(l, FlattenSeq(Ask(l)))
<1>1. LineTyped(l)
  BY LineType
<1>2. PICK x : x = Ask(l)
  OBVIOUS
<1>3. PICK N \in Nat : N = Number(l)
  BY <1>1 DEF LineTyped
<1>4. x \in Seq(Seq(Call)) /\ Len(x) = N /\ \A k \in 1 .. N : x[k] = Calls(l.options[k])
  BY <1>1, <1>2, <1>3 DEF LineTyped
<1>5. Placed(x, Call)
  BY <1>4, Placing
<1>6. PICK all : all = FlattenSeq(x)
  OBVIOUS
<1>7. /\ all \in Seq(Call) /\ Len(all) = CallPlace(l, N) /\ CallPlace(l, 0) = 0
      /\ \A k \in 0 .. N : CallPlace(l, k) \in Nat /\ CallPlace(l, k) <= CallPlace(l, N)
      /\ \A k \in 1 .. N : CallPlace(l, k) = CallPlace(l, k - 1) + Len(x[k])
      /\ \A k \in 1 .. N : \A i \in 1 .. Len(x[k]) : all[CallPlace(l, k - 1) + i] = x[k][i]
  BY <1>2, <1>4, <1>5, <1>6 DEF Placed, CallPlace
<1>8. ASSUME NEW k \in 1 .. N PROVE Called(l.options[k])
  <2>1. l.options[k] \in Options
    BY <1>1, <1>3 DEF LineTyped
  <2>2. QED
    BY <2>1, Calling
<1>9. ASSUME NEW k \in 1 .. N
      PROVE  /\ CallPlace(l, k) = CallPlace(l, k - 1) + Len(Calls(l.options[k]))
             /\ \A i \in 1 .. Len(Calls(l.options[k])) :
                   all[CallPlace(l, k - 1) + i] = Calls(l.options[k])[i]
  BY <1>4, <1>7
<1>10. QED
  BY <1>2, <1>3, <1>6, <1>7, <1>8, <1>9 DEF Asked

(* getopt has read the first k options and j letters of the next.            *)
Standing(k, j) ==
    /\ k \in 0 .. Number(line) /\ j \in Nat
    /\ IF k = Number(line) THEN j = 0 ELSE j < Len(Calls(line.options[k + 1]))
    /\ optind = Place(line, k) + 1 /\ nextchar = j + 2
    /\ Len(processed) = CallPlace(line, k) + j

(* getopt goes on where it is while there are options, and stops at the      *)
(* command.                                                                  *)
LEMMA GoesOn ==
  ASSUME Reading, NEW k, NEW j, Standing(k, j),
         commandStart = Place(line, Number(line)) + 1
  PROVE  /\ k = Number(line) => NothingLeft
         /\ k # Number(line) => ~NothingLeft /\ Here = optind
<1>1. /\ LineTyped(line) /\ Laid(line, argv)
      /\ \A i \in 1 .. Number(line) : PlainOption(line.options[i])
  BY Readings
<1>2. PICK N \in Nat : N = Number(line)
  BY <1>1 DEF LineTyped
<1>3. k \in 0 .. N /\ optind = Place(line, k) + 1
  BY <1>2 DEF Standing
<1>4. PICK p, end \in Nat : p = Place(line, k) /\ end = Place(line, N) /\ p <= end
  <2>1. N \in 0 .. N
    OBVIOUS
  <2>2. QED
    BY <1>1, <1>2, <1>3, <2>1 DEF Laid
<1>5. optind = p + 1 /\ commandStart = end + 1
  BY <1>2, <1>3, <1>4
<1>6. CASE k = N
  <2>1. ~\E i \in optind .. commandStart - 1 : TRUE
    BY <1>4, <1>5, <1>6
  <2>2. Remaining = {}
    BY <2>1 DEF Remaining
  <2>3. QED
    BY <1>2, <1>6, <2>2 DEF NothingLeft
<1>7. CASE k # N
  <2>1. PICK m : m = k + 1
    OBVIOUS
  <2>2. m \in 1 .. N /\ m - 1 = k /\ m \in 0 .. N
    BY <1>3, <1>7, <2>1
  <2>3. PICK o, f : o = line.options[m] /\ f = argv[p + 1]
    OBVIOUS
  <2>4. /\ Place(line, m) = p + Width(o) /\ Spelled(o, f)
        /\ Place(line, m) \in Nat /\ Place(line, m) <= end
    BY <1>1, <1>2, <1>4, <2>2, <2>3 DEF Laid
  <2>5. o \in Options /\ HasValue(o) /\ PlainOption(o)
    BY <1>1, <1>2, <2>2, <2>3 DEF LineTyped
  <2>6. IsOption(f) /\ f # << "-", "-" >>
    BY <2>4, <2>5, FirstOf
  <2>7. Width(o) \in {1, 2}
    BY DEF Width
  <2>8. p + 1 <= end
    BY <1>4, <2>4, <2>7
  <2>9. p + 1 \in Remaining /\ \A i \in Remaining : i \in Nat /\ p + 1 <= i
    BY <1>4, <1>5, <2>3, <2>6, <2>8 DEF Remaining
  <2>10. Here = p + 1
    <3>1. Here \in Remaining /\ \A i \in Remaining : Here <= i
      BY <2>9 DEF Here
    <3>2. Here \in Nat /\ p + 1 <= Here /\ Here <= p + 1
      BY <2>9, <3>1
    <3>3. QED
      BY <1>4, <3>2
  <2>11. ~NothingLeft
    <3>1. Remaining # {}
      BY <2>9
    <3>2. argv[Here] # << "-", "-" >>
      BY <2>3, <2>6, <2>10
    <3>3. QED
      BY <3>1, <3>2 DEF NothingLeft
  <2>12. QED
    BY <1>2, <1>5, <1>7, <2>10, <2>11
<1>8. QED
  BY <1>6, <1>7

(* A step of getopt in an option, whichever its letters are: processArg is   *)
(* called as the option wants next, and getopt goes on behind that.          *)
Follows(o, k, j) ==
    \E letter \in Flags \cup Taking : \E optarg :
        /\ processArg(letter, optarg)
        /\ << letter, optarg >> = Calls(o)[j + 1]
        /\ letter = "p" => o.takes = "p"
        /\ IF j + 1 = Len(Calls(o)) THEN MovesTo(Place(line, k + 1) + 1, 2)
           ELSE MovesTo(Place(line, k) + 1, j + 3)

LEMMA Letter ==
  ASSUME Reading, NEW k, NEW j, Standing(k, j), k # Number(line),
         commandStart = Place(line, Number(line)) + 1, getopt
  PROVE  Follows(line.options[k + 1], k, j)
<1>1. /\ LineTyped(line) /\ Laid(line, argv) /\ line \in CommandLines
      /\ \A i \in 1 .. Number(line) : PlainOption(line.options[i])
  BY Readings DEF Reading
<1>2. PICK N \in Nat : N = Number(line)
  BY <1>1 DEF LineTyped
<1>3. PICK m : m = k + 1
  OBVIOUS
<1>4. k \in 0 .. N /\ m \in 1 .. N /\ m - 1 = k /\ m \in 0 .. N /\ N \in 0 .. N
  BY <1>2, <1>3 DEF Standing
<1>5. PICK o, f, c : /\ o = line.options[m] /\ f = argv[Place(line, k) + 1] /\ c = Calls(o)
  OBVIOUS
<1>6. PICK p, q, end \in Nat : /\ p = Place(line, k) /\ q = Place(line, m)
                               /\ end = Place(line, N)
  BY <1>1, <1>2, <1>4 DEF Laid
<1>7. /\ q = p + Width(o) /\ Spelled(o, f) /\ q <= end
      /\ o.takes # "none" /\ o.apart => argv[p + 2] = o.value
  BY <1>1, <1>2, <1>4, <1>5, <1>6 DEF Laid
<1>8. o \in Options /\ HasValue(o) /\ PlainOption(o)
  BY <1>1, <1>2, <1>4, <1>5 DEF LineTyped
<1>9. /\ o.flags \in Text /\ o.value \in Text /\ o.takes \in Taking \cup {"none"}
      /\ DOMAIN o.flags = 1 .. Len(o.flags)
  BY <1>8 DEF Options, Text
<1>10. PICK n, v \in Nat : n = Len(o.flags) /\ v = Len(o.value)
  BY <1>9 DEF Text
<1>11. /\ f \in Text
       /\ Len(f) = n + (IF o.takes = "none" THEN 1 ELSE IF o.apart THEN 2 ELSE 2 + v)
       /\ \A i \in 1 .. n : f[i + 1] = o.flags[i]
       /\ o.takes # "none" => f[n + 2] = o.takes
       /\ o.takes # "none" /\ ~o.apart => SubSeq(f, n + 3, Len(f)) = o.value
  BY <1>7, <1>10 DEF Spelled
<1>12. \A i \in 1 .. n : o.flags[i] \in Flags
  BY <1>8, <1>9, <1>10 DEF PlainOption
<1>13. /\ Len(c) = n + IF o.takes = "none" THEN 0 ELSE 1
       /\ \A i \in 1 .. n : c[i] = << o.flags[i], << >> >>
       /\ o.takes # "none" => c[n + 1] = << o.takes, o.value >>
  BY <1>5, <1>8, <1>10, Calling DEF Called
<1>14. j \in Nat /\ j < Len(c) /\ optind = p + 1 /\ nextchar = j + 2
  BY <1>2, <1>3, <1>5, <1>6 DEF Standing
<1>15. Here = p + 1 /\ argv[Here] = f
  BY <1>5, <1>6, <1>14, GoesOn
<1>16. PICK letter : letter = f[j + 2]
  OBVIOUS
<1>17. IF letter \in Taking
       THEN IF j + 2 # Len(f)
            THEN processArg(letter, SubSeq(f, j + 3, Len(f))) /\ MovesTo(p + 2, 2)
            ELSE IF p + 2 < commandStart
            THEN processArg(letter, argv[p + 2]) /\ MovesTo(p + 3, 2)
            ELSE processArg("?", << >>) /\ MovesTo(p + 2, 2)
       ELSE /\ processArg(IF letter \in Flags THEN letter ELSE "?", << >>)
            /\ IF j + 2 = Len(f) THEN MovesTo(p + 2, 2) ELSE MovesTo(p + 1, j + 3)
  <2>1. p + 1 + 1 = p + 2 /\ p + 1 + 2 = p + 3 /\ j + 2 + 1 = j + 3
    BY <1>14
  <2>2. QED
    BY <1>14, <1>15, <1>16, <2>1 DEF getopt
<1>18. CASE j < n
  <2>1. j + 1 \in 1 .. n /\ (j + 1) + 1 = j + 2
    BY <1>14, <1>18
  <2>2. letter = o.flags[j + 1] /\ letter \in Flags /\ c[j + 1] = << letter, << >> >>
    BY <1>11, <1>12, <1>13, <1>16, <2>1
  <2>3. letter \notin Taking /\ letter # "p"
    BY <2>2, Colons DEF Taking
  <2>4. processArg(letter, << >>)
    BY <1>17, <2>2, <2>3
  <2>5. IF j + 2 = Len(f) THEN MovesTo(p + 2, 2) ELSE MovesTo(p + 1, j + 3)
    BY <1>17, <2>3
  <2>6. j + 2 = Len(f) <=> j + 1 = Len(c)
    BY <1>11, <1>13, <1>14, <1>18
  <2>7. j + 1 = Len(c) => q + 1 = p + 2
    BY <1>7, <1>13, <1>14, <1>18 DEF Width
  <2>8. IF j + 1 = Len(c) THEN MovesTo(q + 1, 2) ELSE MovesTo(p + 1, j + 3)
    BY <2>5, <2>6, <2>7
  <2>9. QED
    BY <1>3, <1>5, <1>6, <2>2, <2>3, <2>4, <2>8 DEF Follows
<1>19. CASE ~(j < n)
  <2>1. o.takes # "none" /\ o.takes \in Taking /\ j = n /\ j + 1 = Len(c)
    BY <1>9, <1>13, <1>14, <1>19
  <2>2. letter = o.takes /\ c[j + 1] = << letter, o.value >>
    BY <1>11, <1>13, <1>16, <2>1
  <2>3. processArg(letter, o.value) /\ MovesTo(q + 1, 2)
    <3>1. CASE o.apart
      <4>1. j + 2 = Len(f)
        BY <1>11, <2>1, <3>1
      <4>2. q + 1 = p + 3 /\ argv[p + 2] = o.value
        BY <1>7, <2>1, <3>1 DEF Width
      <4>3. p + 2 < commandStart
        BY <1>2, <1>6, <1>7, <4>2
      <4>4. QED
        BY <1>17, <2>1, <2>2, <4>1, <4>2, <4>3
    <3>2. CASE ~o.apart
      <4>1. v # 0
        <5>1. o.value # << >> /\ o.value \in Seq(Letters)
          BY <1>8, <1>9, <2>1, <3>2 DEF Text, HasValue
        <5>2. Len(o.value) # 0
          BY <5>1, EmptySeq
        <5>3. QED
          BY <1>10, <5>2
      <4>2. j + 2 # Len(f)
        BY <1>11, <2>1, <3>2, <4>1
      <4>3. q + 1 = p + 2
        BY <1>7, <3>2 DEF Width
      <4>4. SubSeq(f, j + 3, Len(f)) = o.value
        BY <1>11, <2>1, <3>2
      <4>5. QED
        BY <1>17, <2>1, <2>2, <4>2, <4>3, <4>4
    <3>3. QED
      BY <1>8, <3>1, <3>2 DEF Options
  <2>4. QED
    BY <1>3, <1>5, <1>6, <2>1, <2>2, <2>3 DEF Follows
<1>20. QED
  BY <1>3, <1>5, <1>18, <1>19

(* processArg changes members of a CSC only: of them, -p the file for the    *)
(* process, and the sinks with it.                                           *)
Members == {"configRoot", "debugLevel", "debugLevelSAL", "enabledSinks",
            "pidfile", "fpgaDebugPath", "user", "group"}

Sunk ==
    /\ DOMAIN csc = Members
    /\ csc.pidfile # << >> => "SYSLOG" \in csc.enabledSinks

(* processArg keeps that, and only -p sets the file.                        *)
LEMMA Processing ==
  ASSUME NEW opt, NEW optarg, Sunk, processArg(opt, optarg)
  PROVE  /\ Sunk'
         /\ csc'.pidfile # << >> => csc.pidfile # << >> \/ opt = "p"
<1>1. DOMAIN csc = Members /\ (csc.pidfile # << >> => "SYSLOG" \in csc.enabledSinks)
  BY DEF Sunk
<1>2. CASE opt = "p"
  <2>1. csc' = [csc EXCEPT !.pidfile = optarg, !.enabledSinks = @ \cup {"SYSLOG"}]
    BY <1>2 DEF processArg
  <2>2. DOMAIN csc' = Members /\ "SYSLOG" \in csc'.enabledSinks
    BY <1>1, <2>1 DEF Members
  <2>3. QED
    BY <1>2, <2>2 DEF Sunk
<1>3. CASE opt = "f"
  <2>1. csc' = [csc EXCEPT !.enabledSinks = @ \cup {"STDOUT"}]
    BY <1>3 DEF processArg
  <2>2. /\ DOMAIN csc' = Members /\ csc'.pidfile = csc.pidfile
        /\ csc'.enabledSinks = csc.enabledSinks \cup {"STDOUT"}
    BY <1>1, <2>1 DEF Members
  <2>3. QED
    BY <1>1, <2>2 DEF Sunk
<1>4. CASE opt \notin {"f", "p"}
  <2>1. /\ DOMAIN csc' = Members /\ csc'.pidfile = csc.pidfile
        /\ csc'.enabledSinks = csc.enabledSinks
    <3>1. CASE opt = "c"
      <4>1. csc' = [csc EXCEPT !.configRoot = optarg]
        BY <3>1 DEF processArg
      <4>2. QED
        BY <1>1, <4>1 DEF Members
    <3>2. CASE opt = "d"
      <4>1. csc' = [csc EXCEPT !.debugLevel = csc.debugLevel + 1]
        BY <3>2 DEF processArg
      <4>2. QED
        BY <1>1, <4>1 DEF Members
    <3>3. CASE opt = "s"
      <4>1. csc' = [csc EXCEPT !.debugLevelSAL = csc.debugLevelSAL + 1]
        BY <3>3 DEF processArg
      <4>2. QED
        BY <1>1, <4>1 DEF Members
    <3>4. CASE opt = "x"
      <4>1. csc' = [csc EXCEPT !.fpgaDebugPath = optarg]
        BY <3>4 DEF processArg
      <4>2. QED
        BY <1>1, <4>1 DEF Members
    <3>5. CASE opt = "u"
      <4>1. \E user, group : csc' = [csc EXCEPT !.user = user, !.group = group]
        BY <3>5 DEF processArg
      <4>2. PICK user, group : csc' = [csc EXCEPT !.user = user, !.group = group]
        BY <4>1
      <4>3. QED
        BY <1>1, <4>2 DEF Members
    <3>6. CASE opt \notin {"c", "d", "f", "p", "s", "x", "u"}
      <4>1. csc' = csc
        BY <3>6 DEF processArg
      <4>2. QED
        BY <1>1, <4>1
    <3>7. QED
      BY <1>4, <3>1, <3>2, <3>3, <3>4, <3>5, <3>6
  <2>2. QED
    BY <1>1, <2>1 DEF Sunk
<1>5. QED
  BY <1>2, <1>3, <1>4

(* What holds of any line.                                                   *)
OfAny ==
    /\ line \in CommandLines /\ argv = AsWritten(line)
    /\ Sunk
    /\ phase = "logging" /\ csc.pidfile # << >> => "SYSLOG" \in ToSet(sinks)

(* What holds of a plain one, phase by phase.                                *)
OfPlain ==
    /\ phase \in {"args", "getopt", "success", "parsed", "logging"}
    /\ Agrees(processed, Meant, Call)
    /\ csc.pidfile # << >> => \E o \in DOMAIN line.options : line.options[o].takes = "p"
    /\ phase = "args" => optind = 1 /\ nextchar = 2 /\ processed = << >>
    /\ phase = "getopt" =>
          /\ commandStart = Place(line, Number(line)) + 1
          /\ \E k \in 0 .. Number(line) : \E j \in Nat : Standing(k, j)
    /\ phase \in {"getopt", "parsed", "logging"} => argcommand = line.commands
    /\ phase \in {"parsed", "logging"} => processed = Meant
    /\ phase = "success" => processed # << >> /\ Last(processed)[1] = "h"

ArgumentsInv == OfAny /\ (Plain => OfPlain)

(* A program starts so.                                                     *)
LEMMA ArgumentsInitInv ==
  ASSUME ArgumentsInit
  PROVE  ArgumentsInv
<1>1. line \in CommandLines /\ argv = AsWritten(line)
  BY DEF ArgumentsInit
<1>2. PICK none : none = << >>
  OBVIOUS
<1>3. /\ csc = [configRoot |-> << "default" >>, debugLevel |-> 0, debugLevelSAL |-> 0,
                enabledSinks |-> {"SAL"}, pidfile |-> none, fpgaDebugPath |-> none,
                user |-> none, group |-> none]
      /\ phase = "args" /\ processed = << >> /\ optind = 1 /\ nextchar = 2
  BY <1>2 DEF ArgumentsInit
<1>4. DOMAIN csc = Members /\ csc.pidfile = << >>
  BY <1>2, <1>3 DEF Members
<1>5. Agrees(processed, Meant, Call)
  <2>1. Meant = FlattenSeq(Ask(line))
    BY DEF Meant, Ask
  <2>2. Meant \in Seq(Call)
    BY <1>1, <2>1, Asking DEF Asked
  <2>3. processed \in Seq(Call) /\ Len(processed) = 0
    BY <1>3
  <2>4. Len(processed) <= Len(Meant)
    BY <2>2, <2>3
  <2>5. QED
    BY <2>2, <2>3, <2>4 DEF Agrees
<1>6. OfAny
  BY <1>1, <1>3, <1>4 DEF OfAny, Sunk
<1>7. OfPlain
  BY <1>3, <1>4, <1>5 DEF OfPlain
<1>8. QED
  BY <1>6, <1>7 DEF ArgumentsInv

(* Plain is about the line, which no step changes.                           *)
LEMMA SameLine ==
  ASSUME line' = line
  PROVE  (Plain' <=> Plain) /\ Meant' = Meant
  BY DEF Plain, Meant

(* No option of a plain line is nothing to getopt.                           *)
LEMMA SomethingToCall ==
  ASSUME Reading, NEW k \in 1 .. Number(line)
  PROVE  0 < Len(Calls(line.options[k]))
<1>1. LineTyped(line) /\ PlainOption(line.options[k])
  BY Readings
<1>2. PICK o : o = line.options[k]
  OBVIOUS
<1>3. PlainOption(o) /\ o \in Options
  BY <1>1, <1>2 DEF LineTyped
<1>4. Called(o)
  BY <1>3, Calling
<1>5. Len(o.flags) \in Nat /\ (o.flags # << >> => Len(o.flags) # 0)
  BY <1>3, EmptySeq DEF Options, Text
<1>6. PICK n \in Nat : n = Len(o.flags)
  BY <1>5
<1>7. Len(Calls(o)) = n + IF o.takes = "none" THEN 0 ELSE 1
  BY <1>4, <1>6 DEF Called
<1>8. n # 0 \/ o.takes # "none"
  BY <1>3, <1>5, <1>6 DEF PlainOption
<1>9. QED
  BY <1>2, <1>7, <1>8

(* The first loop leaves getopt in front of the first option.               *)
LEMMA processArgsInv ==
  ASSUME ArgumentsInv, processArgs
  PROVE  ArgumentsInv'
<1>1. /\ phase = "args" /\ phase' = "getopt"
      /\ commandStart' = StartFrom
      /\ argcommand' = SubSeq(argv, StartFrom, Len(argv))
      /\ line' = line /\ argv' = argv /\ optind' = optind /\ nextchar' = nextchar
      /\ processed' = processed /\ csc' = csc /\ sinks' = sinks
  BY DEF processArgs
<1>2. (Plain' <=> Plain) /\ Meant' = Meant
  BY <1>1, SameLine
<1>3. OfAny'
  BY <1>1 DEF ArgumentsInv, OfAny, Sunk
<1>4. ASSUME Plain PROVE OfPlain'
  <2>1. OfPlain /\ Reading
    BY <1>4 DEF ArgumentsInv, OfAny, Reading
  <2>2. /\ commandStart' = Place(line, Number(line)) + 1
        /\ argcommand' = line.commands
    BY <1>1, <2>1, Starting
  <2>3. Agrees(processed, Meant, Call)'
    BY <1>1, <1>2, <2>1 DEF OfPlain
  <2>4. optind = 1 /\ nextchar = 2 /\ processed = << >>
    BY <1>1, <2>1 DEF OfPlain
  <2>5. Standing(0, 0)
    <3>1. LineTyped(line) /\ Laid(line, argv) /\ Asked(line, FlattenSeq(Ask(line)))
      BY <2>1, Readings, Asking DEF Reading
    <3>2. PICK N \in Nat : N = Number(line)
      BY <3>1 DEF LineTyped
    <3>3. Place(line, 0) = 0 /\ CallPlace(line, 0) = 0
      BY <3>1 DEF Laid, Asked
    <3>4. N # 0 => 0 < Len(Calls(line.options[0 + 1]))
      <4> HAVE N # 0
      <4>1. 0 + 1 \in 1 .. N
        OBVIOUS
      <4>2. QED
        BY <2>1, <3>2, <4>1, SomethingToCall
    <3>5. Len(processed) = 0
      BY <2>4
    <3>6. QED
      BY <2>4, <3>2, <3>3, <3>4, <3>5 DEF Standing
  <2>6. Standing(0, 0)'
    BY <1>1, <2>5 DEF Standing
  <2>7. (\E k \in 0 .. Number(line) : \E j \in Nat : Standing(k, j))'
    <3>1. 0 \in 0 .. Number(line') /\ 0 \in Nat
      BY <1>1, <2>5 DEF Standing
    <3>2. QED
      BY <2>6, <3>1
  <2>8. QED
    BY <1>1, <2>1, <2>2, <2>3, <2>7 DEF OfPlain
<1>5. QED
  BY <1>2, <1>3, <1>4 DEF ArgumentsInv

(* Each step of getopt calls processArg with what is to be called next.     *)
LEMMA getoptInv ==
  ASSUME ArgumentsInv, getopt
  PROVE  ArgumentsInv'
<1>1. /\ phase = "getopt" /\ ~NothingLeft
      /\ line' = line /\ argv' = argv /\ argcommand' = argcommand
      /\ commandStart' = commandStart /\ sinks' = sinks
  BY DEF getopt
<1>2. (Plain' <=> Plain) /\ Meant' = Meant
  BY <1>1, SameLine
<1>3. \E opt, optarg : processArg(opt, optarg)
  BY DEF getopt
<1>4. PICK opt, optarg : processArg(opt, optarg)
  BY <1>3
<1>5. phase' # "logging"
  BY <1>1, <1>4 DEF processArg
<1>6. OfAny'
  <2>1. Sunk'
    BY <1>4, Processing DEF ArgumentsInv, OfAny
  <2>2. line' \in CommandLines /\ argv' = AsWritten(line')
    BY <1>1 DEF ArgumentsInv, OfAny
  <2>3. QED
    BY <1>5, <2>1, <2>2 DEF OfAny
<1>7. ASSUME Plain PROVE OfPlain'
  <2>1. OfPlain /\ Reading /\ Sunk
    BY <1>7 DEF ArgumentsInv, OfAny, Reading
  <2>2. /\ commandStart = Place(line, Number(line)) + 1
        /\ \E k \in 0 .. Number(line) : \E j \in Nat : Standing(k, j)
    BY <1>1, <2>1 DEF OfPlain
  <2>3. PICK k \in 0 .. Number(line), j \in Nat : Standing(k, j)
    BY <2>2
  <2>4. k # Number(line)
    BY <1>1, <2>1, <2>2, <2>3, GoesOn
  <2>5. PICK o, c : o = line.options[k + 1] /\ c = Calls(o)
    OBVIOUS
  <2>6. Follows(o, k, j)
    BY <2>1, <2>2, <2>3, <2>4, <2>5, Letter
  <2>7. PICK letter, value :
           /\ letter \in Flags \cup Taking
           /\ processArg(letter, value)
           /\ << letter, value >> = c[j + 1]
           /\ letter = "p" => o.takes = "p"
           /\ IF j + 1 = Len(c) THEN MovesTo(Place(line, k + 1) + 1, 2)
              ELSE MovesTo(Place(line, k) + 1, j + 3)
    BY <2>5, <2>6 DEF Follows
  <2>8. PICK call : call = c[j + 1]
    OBVIOUS
  <2>9. processed' = Append(processed, call)
    BY <2>7, <2>8 DEF processArg
  <2>10. phase' = IF letter = "h" THEN "success" ELSE "getopt"
    <3>1. letter # "?"
      BY <2>7 DEF Flags, Taking
    <3>2. QED
      BY <1>1, <2>7, <3>1 DEF processArg
  <2>11. PICK N \in Nat : N = Number(line)
    BY <2>1, Readings DEF LineTyped
  <2>12. PICK m : m = k + 1
    OBVIOUS
  <2>13. m \in 1 .. N /\ m - 1 = k /\ k \in 0 .. N /\ m \in 0 .. N /\ k < N
    BY <2>3, <2>4, <2>11, <2>12
  <2>14. PICK all : all = FlattenSeq(Ask(line))
    OBVIOUS
  <2>15. Asked(line, all) /\ Meant = all
    BY <2>1, <2>14, Asking DEF Meant, Ask, Reading
  <2>16. PICK p, q, end \in Nat : /\ p = CallPlace(line, k) /\ q = CallPlace(line, m)
                                  /\ end = CallPlace(line, N)
    <3>1. N \in 0 .. N
      OBVIOUS
    <3>2. QED
      BY <2>11, <2>13, <2>15, <3>1 DEF Asked
  <2>17. PICK n \in Nat : n = Len(c)
    <3>1. Called(o)
      BY <2>5, <2>11, <2>12, <2>13, <2>15 DEF Asked
    <3>2. c \in Seq(Call)
      BY <2>5, <3>1 DEF Called
    <3>3. QED
      BY <3>2
  <2>18. /\ q = p + n /\ q <= end
         /\ \A i \in 1 .. n : all[p + i] = c[i]
         /\ all \in Seq(Call) /\ Len(all) = end
    BY <2>5, <2>11, <2>12, <2>13, <2>15, <2>16, <2>17 DEF Asked
  <2>19. j < n /\ Len(processed) = p + j
    BY <2>3, <2>4, <2>5, <2>16, <2>17 DEF Standing
  <2>20. /\ processed \in Seq(Call)
         /\ \A i \in 1 .. p + j : processed[i] = all[i]
    BY <2>1, <2>15, <2>19 DEF OfPlain, Agrees
  <2>21. call = all[p + j + 1] /\ call \in Call
    <3>1. j + 1 \in 1 .. n /\ p + (j + 1) = p + j + 1 /\ p + j + 1 \in 1 .. end
      BY <2>18, <2>19
    <3>2. all[p + (j + 1)] = c[j + 1]
      BY <2>18, <3>1
    <3>3. QED
      BY <2>8, <2>18, <3>1, <3>2
  <2>22. /\ processed' \in Seq(Call) /\ Len(processed') = p + j + 1
         /\ \A i \in 1 .. p + j : processed'[i] = processed[i]
         /\ processed'[p + j + 1] = call
    BY <2>9, <2>19, <2>20, <2>21, AppendProperties
  <2>23. Agrees(processed', Meant', Call)
    <3>1. Len(processed') <= Len(all)
      BY <2>18, <2>19, <2>22
    <3>2. ASSUME NEW i \in 1 .. p + j + 1 PROVE processed'[i] = all[i]
      <4>1. i \in 1 .. p + j \/ i = p + j + 1
        OBVIOUS
      <4>2. QED
        BY <2>20, <2>21, <2>22, <4>1
    <3>3. QED
      BY <1>2, <2>15, <2>18, <2>22, <3>1, <3>2 DEF Agrees
  <2>24. csc'.pidfile # << >> => \E i \in DOMAIN line'.options : line'.options[i].takes = "p"
    <3> HAVE csc'.pidfile # << >>
    <3>1. csc.pidfile # << >> \/ letter = "p"
      BY <2>1, <2>7, Processing
    <3>2. CASE csc.pidfile # << >>
      BY <1>1, <2>1, <3>2 DEF OfPlain
    <3>3. CASE letter = "p"
      <4>1. m \in DOMAIN line.options
        BY <2>1, <2>11, <2>13, Readings DEF LineTyped
      <4>2. line.options[m].takes = "p"
        BY <2>5, <2>7, <2>12, <3>3
      <4>3. QED
        BY <1>1, <4>1, <4>2
    <3>4. QED
      BY <3>1, <3>2, <3>3
  <2>25. phase' = "success" => processed' # << >> /\ Last(processed')[1] = "h"
    <3> HAVE phase' = "success"
    <3>1. letter = "h" /\ call = << letter, value >>
      BY <2>7, <2>8, <2>10
    <3>2. Last(processed') = call
      BY <2>22 DEF Last
    <3>3. processed' # << >>
      <4>1. Len(processed') # 0 /\ Len(<< >>) = 0
        BY <2>19, <2>22
      <4>2. QED
        BY <4>1
    <3>4. QED
      BY <3>1, <3>2, <3>3
  <2>26. \E i \in 0 .. N : \E h \in Nat : Standing(i, h)'
    <3>1. Number(line') = N /\ \A i : Place(line', i) = Place(line, i)
                                     /\ CallPlace(line', i) = CallPlace(line, i)
      BY <1>1, <2>11
    <3>2. CASE j + 1 = n
      <4>1. optind' = Place(line, m) + 1 /\ nextchar' = 0 + 2
        BY <2>7, <2>12, <2>17, <3>2 DEF MovesTo
      <4>2. Len(processed') = CallPlace(line, m) + 0
        BY <2>16, <2>18, <2>22, <3>2
      <4>3. m # N => 0 < Len(Calls(line.options[m + 1]))
        <5> HAVE m # N
        <5>1. m + 1 \in 1 .. N
          BY <2>13
        <5>2. QED
          BY <2>1, <2>11, <5>1, SomethingToCall
      <4>4. Standing(m, 0)'
        BY <1>1, <2>11, <2>13, <3>1, <4>1, <4>2, <4>3 DEF Standing
      <4>5. QED
        BY <2>13, <4>4
    <3>3. CASE j + 1 # n
      <4>1. optind' = Place(line, k) + 1 /\ nextchar' = (j + 1) + 2
        BY <2>7, <2>17, <3>3 DEF MovesTo
      <4>2. Len(processed') = CallPlace(line, k) + (j + 1)
        BY <2>16, <2>22
      <4>3. j + 1 < n /\ j + 1 \in Nat
        BY <2>19, <3>3
      <4>4. j + 1 < Len(Calls(line.options[k + 1]))
        BY <2>5, <2>17, <4>3
      <4>5. Standing(k, j + 1)'
        BY <1>1, <2>4, <2>11, <2>13, <3>1, <4>1, <4>2, <4>3, <4>4 DEF Standing
      <4>6. QED
        BY <2>13, <4>3, <4>5
    <3>4. QED
      BY <3>2, <3>3
  <2>27. commandStart' = Place(line', Number(line')) + 1 /\ argcommand' = line'.commands
    BY <1>1, <2>1, <2>2 DEF OfPlain
  <2>28. (\E i \in 0 .. Number(line) : \E h \in Nat : Standing(i, h))'
    BY <1>1, <2>11, <2>26
  <2>29. phase' \in {"getopt", "success"}
    BY <2>10
  <2>30. QED
    BY <2>23, <2>24, <2>25, <2>27, <2>28, <2>29 DEF OfPlain
<1>8. QED
  BY <1>2, <1>6, <1>7 DEF ArgumentsInv

(* When getopt ends, all there is to call has been called.                  *)
LEMMA NoMoreOptionsInv ==
  ASSUME ArgumentsInv, NoMoreOptions
  PROVE  ArgumentsInv'
<1>1. /\ phase = "getopt" /\ phase' = "parsed" /\ NothingLeft
      /\ line' = line /\ argv' = argv /\ argcommand' = argcommand
      /\ processed' = processed /\ csc' = csc /\ sinks' = sinks
  BY DEF NoMoreOptions
<1>2. (Plain' <=> Plain) /\ Meant' = Meant
  BY <1>1, SameLine
<1>3. OfAny'
  BY <1>1 DEF ArgumentsInv, OfAny, Sunk
<1>4. ASSUME Plain PROVE OfPlain'
  <2>1. OfPlain /\ Reading
    BY <1>4 DEF ArgumentsInv, OfAny, Reading
  <2>2. /\ commandStart = Place(line, Number(line)) + 1
        /\ \E k \in 0 .. Number(line) : \E j \in Nat : Standing(k, j)
    BY <1>1, <2>1 DEF OfPlain
  <2>3. PICK k \in 0 .. Number(line), j \in Nat : Standing(k, j)
    BY <2>2
  <2>4. k = Number(line)
    BY <1>1, <2>1, <2>2, <2>3, GoesOn
  <2>5. PICK all : all = FlattenSeq(Ask(line))
    OBVIOUS
  <2>6. Asked(line, all) /\ Meant = all
    BY <2>1, <2>5, Asking DEF Meant, Ask, Reading
  <2>7. PICK end \in Nat : end = CallPlace(line, k)
    BY <2>3, <2>6 DEF Asked
  <2>8. Len(processed) = end /\ Len(all) = end
    BY <2>3, <2>4, <2>6, <2>7 DEF Standing, Asked
  <2>9. /\ processed \in Seq(Call) /\ all \in Seq(Call)
        /\ \A i \in 1 .. end : processed[i] = all[i]
    BY <2>1, <2>6, <2>8 DEF OfPlain, Agrees
  <2>10. processed = all
    BY <2>8, <2>9, SeqEqual
  <2>11. QED
    BY <1>1, <1>2, <2>1, <2>6, <2>10 DEF OfPlain
<1>5. QED
  BY <1>2, <1>3, <1>4 DEF ArgumentsInv

(* And the log is started with the sinks that are enabled.                  *)
LEMMA startLogInv ==
  ASSUME ArgumentsInv, startLog
  PROVE  ArgumentsInv'
<1>1. /\ phase = "parsed" /\ phase' = "logging"
      /\ line' = line /\ argv' = argv /\ argcommand' = argcommand
      /\ processed' = processed /\ csc' = csc
      /\ sinks' = Added("STDOUT") \o Added("DAILY") \o Added("SYSLOG")
  BY DEF startLog
<1>2. (Plain' <=> Plain) /\ Meant' = Meant
  BY <1>1, SameLine
<1>3. "SYSLOG" \in csc.enabledSinks => "SYSLOG" \in ToSet(sinks')
  <2> HAVE "SYSLOG" \in csc.enabledSinks
  <2>1. PICK T : T = {"STDOUT", "DAILY", "SYSLOG"}
    OBVIOUS
  <2>2. PICK a, b, s : a = Added("STDOUT") /\ b = Added("DAILY") /\ s = << "SYSLOG" >>
    OBVIOUS
  <2>3. Added("SYSLOG") = s
    BY <2>2 DEF Added
  <2>4. a \in Seq(T) /\ b \in Seq(T) /\ s \in Seq(T) /\ Len(s) = 1 /\ s[1] = "SYSLOG"
    <3>1. a = << >> \/ a = << "STDOUT" >>
      BY <2>2 DEF Added
    <3>2. b = << >> \/ b = << "DAILY" >>
      BY <2>2 DEF Added
    <3>3. "STDOUT" \in T /\ "DAILY" \in T /\ "SYSLOG" \in T
      BY <2>1
    <3>4. a \in Seq(T)
      <4>1. << >> \in Seq(T)
        OBVIOUS
      <4>2. << "STDOUT" >> \in Seq(T)
        BY <3>3
      <4>3. QED
        BY <3>1, <4>1, <4>2
    <3>5. b \in Seq(T)
      <4>1. << >> \in Seq(T)
        OBVIOUS
      <4>2. << "DAILY" >> \in Seq(T)
        BY <3>3
      <4>3. QED
        BY <3>2, <4>1, <4>2
    <3>6. QED
      BY <2>2, <3>3, <3>4, <3>5
  <2>5. PICK r : r = a \o b
    OBVIOUS
  <2>6. r \in Seq(T)
    BY <2>4, <2>5
  <2>7. sinks' = r \o s
    BY <1>1, <2>2, <2>3, <2>5
  <2>8. PICK n \in Nat : n = Len(r)
    BY <2>6
  <2>9. n + 1 \in DOMAIN sinks' /\ sinks'[n + 1] = "SYSLOG"
    <3>1. /\ sinks' \in Seq(T) /\ Len(sinks') = n + 1
          /\ \A i \in 1 .. n + 1 : sinks'[i] = IF i <= n THEN r[i] ELSE s[i - n]
      <4>1. /\ r \o s \in Seq(T) /\ Len(r \o s) = Len(r) + Len(s)
            /\ \A i \in 1 .. Len(r) + Len(s) :
                  (r \o s)[i] = IF i <= Len(r) THEN r[i] ELSE s[i - Len(r)]
        BY <2>4, <2>6, ConcatProperties
      <4>2. Len(r) = n /\ Len(s) = 1
        BY <2>4, <2>8
      <4>3. QED
        BY <2>7, <4>1, <4>2
    <3>2. n + 1 \in 1 .. n + 1 /\ ~(n + 1 <= n) /\ (n + 1) - n = 1
      OBVIOUS
    <3>3. DOMAIN sinks' = 1 .. n + 1
      BY <3>1
    <3>4. sinks'[n + 1] = s[1]
      BY <3>1, <3>2
    <3>5. QED
      BY <2>4, <3>2, <3>3, <3>4
  <2>10. QED
    BY <2>9 DEF ToSet
<1>4. OfAny'
  BY <1>1, <1>3 DEF ArgumentsInv, OfAny, Sunk
<1>5. ASSUME Plain PROVE OfPlain'
  <2>1. OfPlain
    BY <1>5 DEF ArgumentsInv
  <2>2. QED
    BY <1>1, <1>2, <2>1 DEF OfPlain
<1>6. QED
  BY <1>2, <1>4, <1>5 DEF ArgumentsInv

(* Whatever an operator can write, on a line that both readings of it can    *)
(* agree on: every option is processed once, in order and with its value,    *)
(* and the command is what is left.                                          *)
THEOREM ArgumentsAsGiven == ArgumentsSpec => []AsGiven
<1>1. ArgumentsInit => ArgumentsInv
  BY ArgumentsInitInv
<1>2. ArgumentsInv /\ [ArgumentsNext]_arguments => ArgumentsInv'
  <2> SUFFICES ASSUME ArgumentsInv, [ArgumentsNext]_arguments PROVE ArgumentsInv'
    OBVIOUS
  <2>1. CASE processArgs
    BY <2>1, processArgsInv
  <2>2. CASE getopt
    BY <2>2, getoptInv
  <2>3. CASE NoMoreOptions
    BY <2>3, NoMoreOptionsInv
  <2>4. CASE startLog
    BY <2>4, startLogInv
  <2>5. CASE UNCHANGED arguments
    <3>1. /\ line' = line /\ argv' = argv /\ argcommand' = argcommand
          /\ commandStart' = commandStart /\ optind' = optind /\ nextchar' = nextchar
          /\ processed' = processed /\ csc' = csc /\ sinks' = sinks /\ phase' = phase
      BY <2>5 DEF arguments
    <3>2. (Plain' <=> Plain) /\ Meant' = Meant
      BY <3>1, SameLine
    <3>3. OfAny'
      BY <3>1 DEF ArgumentsInv, OfAny, Sunk
    <3>4. ASSUME OfPlain PROVE OfPlain'
      BY <3>1, <3>2, <3>4 DEF OfPlain, Standing
    <3>5. QED
      BY <3>2, <3>3, <3>4 DEF ArgumentsInv
  <2>6. QED
    BY <2>1, <2>2, <2>3, <2>4, <2>5 DEF ArgumentsNext
<1>3. ArgumentsInv => AsGiven
  <2> SUFFICES ASSUME ArgumentsInv, Plain
               PROVE  /\ IsPrefix(processed, Meant)
                      /\ phase # "failure"
                      /\ phase = "success" => processed # << >> /\ Last(processed)[1] = "h"
                      /\ phase \in {"parsed", "logging"} =>
                            processed = Meant /\ argcommand = line.commands
                      /\ phase = "logging" /\ csc.pidfile # << >> =>
                            /\ "SYSLOG" \in ToSet(sinks)
                            /\ \E o \in DOMAIN line.options : line.options[o].takes = "p"
    BY DEF AsGiven
  <2>1. OfAny /\ OfPlain
    BY DEF ArgumentsInv
  <2>2. IsPrefix(processed, Meant)
    BY <2>1, AgreesPrefix DEF OfPlain
  <2>3. QED
    BY <2>1, <2>2 DEF OfAny, OfPlain
<1>4. QED
  BY <1>1, <1>2, <1>3, PTL DEF ArgumentsSpec
=============================================================================
