------------------------------ MODULE MCControl ------------------------------
(* What is around the ControllerThread of a program, each by itself: part     *)
(* says which. The values: an integrating controller and one that uses all    *)
(* coefficients; commands and events of which some may be refused; files with *)
(* the same name twice and with a bad entry, nodes that are complete or not;  *)
(* command lines of up to three options, some of which an operator should not *)
(* have written, and commands with arguments like options.                    *)
EXTENDS PID, Commands, Settings, Arguments

VARIABLE part

MCParameters == { [P |-> 1, I |-> 1, D |-> 0, N |-> 1, timestep |-> 1],
                  [P |-> 1, I |-> 1, D |-> 1, N |-> 2, timestep |-> 1] }
MCErrors == {-2, 0, 1}
MCMin == -3

Entry(name, set, version) == [name |-> name, value |-> << set, version >>]
BadEntry(name) == [name |-> name, value |-> << >>]

MCFiles ==
    { << Entry("a", "x", 1), Entry("b", "y", 1) >>,
      << Entry("a", "x", 2), Entry("a", "y", 2) >>,
      << Entry("b", "x", 3), BadEntry("a"), Entry("b", "y", 3) >> }
MCLabels == { << "a" >>, << "b" >>, << "z", 9 >> }
MCNodes == { << 2, 3, 4, 5, 6 >>, << Absent, 7, 8, 9, 10 >>,
             << Bad, 11, Bad, 12, 13 >>, << 14, Absent, 15, 16, 17 >> }

Option(flags, takes, value, apart) ==
    [flags |-> flags, takes |-> takes, value |-> value, apart |-> apart]

MCLetters == Flags \cup Taking \cup
    {"-", ":", "/etc", "/run", "user", "group", "move", "read", "1", "z"}

MCOptions ==
    { Option(<< "d" >>, "none", << >>, FALSE),
      Option(<< "s", "f" >>, "none", << >>, FALSE),
      Option(<< "h" >>, "none", << >>, FALSE),
      Option(<< >>, "c", << >>, TRUE),
      Option(<< >>, "c", << "-", "d" >>, TRUE),
      Option(<< >>, "x", << "-", "-" >>, TRUE),
      Option(<< >>, "p", << "/run" >>, FALSE),
      Option(<< "d" >>, "u", << "user", ":", "group" >>, FALSE),
      Option(<< >>, "u", << "user" >>, TRUE),
      Option(<< "d" >>, "c", << "/etc" >>, TRUE),
      Option(<< "z" >>, "none", << >>, FALSE),
      Option(<< >>, "none", << >>, FALSE),
      Option(<< "-" >>, "none", << >>, FALSE) }

MCCommandLines ==
    [options : UNION { [1 .. n -> MCOptions] : n \in 0 .. 3 },
     commands : { << >>, << << "move" >>, << "-", "1" >> >>,
                  << << "read" >>, << "-", "c" >>, << "-", "d" >> >> }]

MCInit ==
    /\ part \in {"PID", "commands", "settings", "arguments"}
    /\ Init /\ CommandsInit /\ SettingsInit /\ ArgumentsInit
    /\ part # "arguments" => line = [options |-> << >>, commands |-> << >>]
    /\ part # "PID" => limited /\ initial = CHOOSE p \in PIDParameters : TRUE

all == << vars, commands, settings, arguments, part >>

MCNext ==
    /\ UNCHANGED part
    /\ \/ part = "PID" /\ Next /\ UNCHANGED << commands, settings, arguments >>
       \/ part = "commands" /\ CommandsNext /\ UNCHANGED << vars, settings, arguments >>
       \/ part = "settings" /\ SettingsNext /\ UNCHANGED << vars, commands, arguments >>
       \/ part = "arguments" /\ ArgumentsNext /\ UNCHANGED << vars, commands, settings >>

MCSpec == MCInit /\ [][MCNext]_all /\ WF_vars(get_offset) /\ CommandsFairness
=============================================================================
