------------------------------- MODULE CliApp -------------------------------
(* CliApp (CliApp.h, CliApp.cpp): how a line that was typed becomes the     *)
(* call of a command. Pure operators. A line is a sequence of characters, a *)
(* character a string of one; what an argument can be read as is given by   *)
(* the set of letters of the argument map it passes for.                    *)
EXTENDS Naturals, Sequences, FiniteSets, SequencesExt

Space == " "

\* One token before every delimiter, empty or not, and what is left after the
\* last one if that is not empty.
tokenize(line) ==
    LET read == FoldLeft(LAMBDA sofar, c :
                    IF c = Space
                    THEN [tokens |-> Append(sofar.tokens, sofar.item), item |-> << >>]
                    ELSE [sofar EXCEPT !.item = Append(@, c)],
                    [tokens |-> << >>, item |-> << >>], line)
    IN  IF read.item = << >> THEN read.tokens ELSE Append(read.tokens, read.item)

\* Commands that begin with the token: findCommand finds one if there is one
\* only. An empty token is the begin of all of them.
Matching(names, token) == {name \in names : IsPrefix(token, name)}

Found(names, token) == Cardinality(Matching(names, token)) = 1

findCommand(names, token) == CHOOSE name \in Matching(names, token) : TRUE

Optional == {"b", "d", "h", "i", "s", "?"}

\* verifyArguments: the arguments pass for the letters of the map, one by one;
\* the first letter without an argument is optional; there are no more arguments
\* than letters, if the map does not end with a question mark.
verifyArguments(args, map) ==
    LET n == IF "?" \in Range(map)
             THEN (CHOOSE i \in DOMAIN map : map[i] = "?" /\ \A j \in 1 .. i - 1 : map[j] # "?") - 1
             ELSE Len(map)
    IN  /\ \A i \in 1 .. n : i <= Len(args) => map[i] \in args[i]
        /\ Len(args) < n => map[Len(args) + 1] \in Optional
        /\ n = Len(map) => Len(args) <= n
=============================================================================
