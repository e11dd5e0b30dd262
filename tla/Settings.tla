------------------------------ MODULE Settings ------------------------------
(* Configuration: a table of aliases and the parameters of a PID, into which *)
(* files and YAML nodes are loaded one after another. A load that throws     *)
(* half way leaves what it has come to.                                      *)
(*                                                                           *)
(* Outside: the files, as yaml-cpp sees them.                                *)
EXTENDS Integers, Sequences, FiniteSetsExt

CONSTANTS
    Files,      \* each a sequence of entries, [name, value]: the value is
                \* << set, version >>, or << >> when one of them is missing
    Nodes,      \* functions from Keys to numbers, Absent or Bad
    Labels      \* what getPath is asked for: << name >>, or << set, version >>
                \* for a label with a comma

Keys == << "Timestep", "P", "I", "D", "N" >>
NAN == -3
Bad == -2           \* what is no number
Absent == -1

ASSUME SettingsAssumption ==
    /\ \A entries \in Files :
          /\ Len(entries) \in Nat /\ DOMAIN entries = 1 .. Len(entries)
          /\ \A i \in DOMAIN entries :
                entries[i] = [name |-> entries[i].name, value |-> entries[i].value]
    /\ \A n \in Nodes : \A k \in 1 .. 5 : n[k] >= 0 \/ n[k] \in {Absent, Bad}

VARIABLES
    aliases,        \* _aliases
    parameters,     \* a PIDParameters, in the order of Keys
    path,           \* the set and version getPath has returned last, if it has
    file,           \* what the table is from,
    node,           \* and what the parameters are, with the defaults
    loaded,         \* the last load of each has returned
    label           \* what getPath was asked for, since the last load

settings == << aliases, parameters, path, file, node, loaded, label >>

Unset == [k \in 1 .. 5 |-> NAN]

SettingsInit ==
    /\ aliases = << >> /\ file = << >>
    /\ parameters = Unset /\ node = << Unset, Unset >>
    /\ path = << >> /\ label = << >>
    /\ loaded = [aliases |-> TRUE, parameters |-> TRUE]

----------------------------------------------------------------------------
\* The entries before the first that throws, and what they make of a table, in
\* which a name that comes again takes its last value
Good(entries) == { i \in DOMAIN entries : \A j \in 1 .. i : entries[j].value # << >> }

Filled(table, entries) ==
    [name \in DOMAIN table \cup { entries[i].name : i \in Good(entries) } |->
        LET of == { i \in Good(entries) : entries[i].name = name }
        IN  IF of = {} THEN table[name] ELSE entries[Max(of)].value]

\* Mutant: without the clear at its beginning.
LoadedInto(entries) == Filled(aliases, entries)

\* What Alias::load leaves
Loaded(entries) == Filled(<< >>, entries)

\* Alias::load; a file that is not there has no entries and throws.
load(entries, there) ==
    /\ there \/ entries = << >>
    /\ aliases' = Loaded(entries)
    /\ file' = entries
    /\ loaded' = [loaded EXCEPT !.aliases = there /\ Good(entries) = DOMAIN entries]
    /\ path' = << >> /\ label' = << >>
    /\ UNCHANGED << parameters, node >>

\* Alias::getPath; getAlias throws when there is no such name.
getPath(l) ==
    /\ path' = IF Len(l) = 2 THEN l
               ELSE IF l[1] \in DOMAIN aliases THEN aliases[l[1]] ELSE << >>
    /\ label' = l
    /\ UNCHANGED << aliases, parameters, file, node, loaded >>

IsNumber(v) == v \notin {Absent, Bad}

\* PIDParameters::load: Timestep is 1 if it is not there or no number, any other
\* that is not a number throws, when those before it are stored.
loadParameters(n) ==
    LET thrown == { k \in 2 .. 5 : ~IsNumber(n[k]) }
        stored == IF thrown = {} THEN 5 ELSE Min(thrown) - 1
    IN  /\ parameters' = [k \in 1 .. 5 |->
               IF k > stored THEN parameters[k] ELSE IF IsNumber(n[k]) THEN n[k] ELSE 1]
        /\ node' = << n, [Unset EXCEPT ![1] = 1] >>
        /\ loaded' = [loaded EXCEPT !.parameters = (thrown = {})]
        /\ UNCHANGED << aliases, file, path, label >>

\* the load with defaults, which takes one wherever there is no number
loadWithDefault(n, default) ==
    /\ parameters' = [k \in 1 .. 5 |-> IF IsNumber(n[k]) THEN n[k] ELSE default[k]]
    /\ node' = << n, default >>
    /\ loaded' = [loaded EXCEPT !.parameters = TRUE]
    /\ UNCHANGED << aliases, file, path, label >>

SettingsNext ==
    \/ \E entries \in Files \cup {<< >>}, there \in BOOLEAN : load(entries, there)
    \/ \E l \in Labels : getPath(l)
    \/ \E n \in Nodes : loadParameters(n) \/ loadWithDefault(n, parameters)

SettingsSpec == SettingsInit /\ [][SettingsNext]_settings

----------------------------------------------------------------------------
\* Nothing of a file or node loaded before is found after another load. A name
\* resolves to its last entry in the file loaded last, whether or not that load
\* has thrown behind it, and to nothing when it has no entry there; after a load
\* that has returned every entry is found; and parameters are those of the last
\* node, or the defaults given with it.
OfLastLoad ==
    /\ Len(label) = 1 /\ path # << >> =>
           \E i \in DOMAIN file :
              /\ file[i] = [name |-> label[1], value |-> path]
              /\ \A j \in i + 1 .. Len(file) :
                    file[j].name = label[1] => \E k \in 1 .. j : file[k].value = << >>
    /\ loaded.aliases => { file[i].name : i \in DOMAIN file } = DOMAIN aliases
    /\ loaded.parameters => \A k \in 1 .. 5 : parameters[k] \in {node[1][k], node[2][k]}
=============================================================================
