-------------------------------- MODULE PID --------------------------------
(* PID::PID and PID::LimitedPID: the discrete controller, its history, and  *)
(* the offset that freeze keeps of the output and that is taken away in     *)
(* steps after thaw. Numbers are integers here; ThawStep is 50 in the code. *)
(*                                                                          *)
(* The calls are made one after the other: _frozen is atomic, the rest of   *)
(* the object is not.                                                       *)
EXTENDS Integers

CONSTANTS
    PIDParameters,  \* what the controller may be told to use
    Errors,         \* setpoint - measurement
    ActionMin, ActionMax,   \* of LimitedPID
    ThawStep,
    Bound           \* bound: calls that would take _control past it are left out

ASSUME PIDAssumption ==
    /\ PIDParameters \subseteq [P : Int, I : Int, D : Int, N : Int, timestep : Int]
    /\ Errors \subseteq Int
    /\ ActionMin \in Int /\ ActionMax \in Int
    /\ ActionMin <= 0 /\ 0 <= ActionMax
    /\ ThawStep \in Nat \ {0}
    /\ Bound \in Nat

VARIABLES
    limited,        \* the object is a LimitedPID
    initial,        \* _initial_parameters
    current,        \* _current_parameters
    history,        \* _error, _error_T1, _error_T2 and _control, ...
    frozen,         \* _frozen
    offset,         \* _offset
    output          \* what process returned last

vars == << limited, initial, current, history, frozen, offset, output >>

\* reset_previous_values
Previous == [error |-> << 0, 0, 0 >>, control |-> << 0, 0, 0 >>]

Init ==
    /\ limited \in BOOLEAN
    /\ initial \in PIDParameters
    /\ current = initial
    /\ history = Previous
    /\ frozen = FALSE
    /\ offset = 0
    /\ output = 0

\* _calculate_intermediate_values
A(p) == p.P + p.D * p.N
B(p) == -2 * p.P + p.P * p.N * p.timestep + p.I * p.timestep - 2 * p.D * p.N
C(p) == p.P - p.P * p.N * p.timestep - p.I * p.timestep
            + p.I * p.N * p.timestep * p.timestep + p.D * p.N
D(p) == 2 - p.N * p.timestep
E(p) == p.N * p.timestep - 1

\* _control, from the error and the two errors and controls before it
Control(p, error) ==
    D(p) * history.control[1] + E(p) * history.control[2]
        + A(p) * error + B(p) * history.error[1] + C(p) * history.error[2]

Limited(c) ==
    IF limited /\ c < ActionMin THEN ActionMin
    ELSE IF limited /\ c > ActionMax THEN ActionMax ELSE c

\* Mutant: only what is returned is limited.
KeptAsCalculated(c) == c

\* _control as it is left for the next call
Kept(c) == Limited(c)

Abs(n) == IF n < 0 THEN -n ELSE n

\* Mutants: an offset of at most a step is left alone, or passed over.
ThawedAlmost ==
    IF frozen \/ Abs(offset) <= ThawStep THEN offset
    ELSE IF offset > 0 THEN offset - ThawStep ELSE offset + ThawStep

ThawedPast ==
    IF frozen \/ offset = 0 THEN offset
    ELSE IF offset > 0 THEN offset - ThawStep ELSE offset + ThawStep

\* What get_offset leaves and returns
Thawed ==
    IF frozen \/ offset = 0 THEN offset
    ELSE IF Abs(offset) < ThawStep + 1 THEN 0
    ELSE IF offset > 0 THEN offset - ThawStep ELSE offset + ThawStep

----------------------------------------------------------------------------
update_parameters(p) ==
    /\ current' = p
    /\ history' = Previous
    /\ UNCHANGED << limited, initial, frozen, offset, output >>

restore_initial_parameters == update_parameters(initial)

\* LimitedPID calls PID::process, which takes its step in thawing too, and
\* returns _control without the offset.
process(error) ==
    /\ Abs(Control(current, error)) <= Bound
    /\ LET control == Control(current, error)
       IN  /\ history' =
                 [error |-> << error, history.error[1], history.error[2] >>,
                  control |-> << Kept(control), history.control[1], history.control[2] >>]
           /\ offset' = Thawed
           /\ output' = IF limited THEN Limited(control) ELSE control + Thawed
    /\ UNCHANGED << limited, initial, current, frozen >>

get_offset ==
    /\ offset' = Thawed
    /\ UNCHANGED << limited, initial, current, history, frozen, output >>

freeze ==
    /\ offset' = history.control[1]
    /\ frozen' = TRUE
    /\ UNCHANGED << limited, initial, current, history, output >>

thaw ==
    /\ frozen' = FALSE
    /\ UNCHANGED << limited, initial, current, history, offset, output >>

Process == \E error \in Errors : process(error)

Next ==
    \/ Process \/ get_offset \/ freeze \/ thaw \/ restore_initial_parameters
    \/ \E p \in PIDParameters : update_parameters(p)

Spec == Init /\ [][Next]_vars

\* Whoever owns the controller asks for its offset again and again.
FairSpec == Spec /\ WF_vars(get_offset)

----------------------------------------------------------------------------
\* What freeze has added to the output is kept while frozen and afterwards only
\* gets smaller, by no more than a step, and does not change sign.
ThawsSmoothly ==
    [][offset' # history.control[1] \/ ~frozen' =>
          /\ frozen => offset' = offset
          /\ Abs(offset - offset') <= ThawStep
          /\ Abs(offset') <= Abs(offset)
          /\ offset' * offset >= 0]_vars

\* A controller that is not frozen again loses its offset completely, from
\* either side.
ThawEnds == [](~frozen => <>(offset = 0 \/ frozen))

\* A limited controller does not wind up: what it remembers of its own output
\* is within the limits too, so it leaves a limit when the error asks for it.
NoWindup ==
    limited => /\ output \in ActionMin .. ActionMax
               /\ \A i \in 1 .. 3 : history.control[i] \in ActionMin .. ActionMax

=============================================================================
