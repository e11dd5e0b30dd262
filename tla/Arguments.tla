----------------------------- MODULE Arguments -----------------------------
(* The command line of a CSC: Application::processArgs finds by itself where *)
(* the options end and the command begins, so that a command may have        *)
(* negative numbers, and leaves the rest to getopt, which has to agree.      *)
(*                                                                           *)
(* An argument is a sequence of letters; a value that nobody looks into      *)
(* counts as one of them. Outside: getopt, as the C library has it.          *)
EXTENDS Naturals, SequencesExt

CONSTANTS
    Letters,        \* what there is to write
    CommandLines    \* what an operator means, [options, commands], options of
                    \* [flags, takes, value, apart]: letters written together,
                    \* of which the last, unless it is "none", takes a value, in
                    \* an argument of its own when it is apart

Flags == {"d", "f", "h", "s"}
Taking == {"c", "p", "x", "u"}

Text == Seq(Letters)
Options == [flags : Text, takes : Taking \cup {"none"}, value : Text, apart : BOOLEAN]

ASSUME ArgumentsAssumption ==
    /\ Flags \cup Taking \cup {"-"} \subseteq Letters
    /\ \A l \in CommandLines :
          /\ l.commands \in Seq(Text) /\ l.options \in Seq(Options)
          /\ \A o \in DOMAIN l.options :
                l.options[o].takes = "none" \/ l.options[o].apart
                    \/ l.options[o].value # << >>

VARIABLES
    line,           \* what was meant
    argv,           \* without the name of the program
    argcommand,     \* what processArgs returns
    commandStart,   \* argc for getopt
    optind,         \* where getopt is: the argument
    nextchar,       \* and the letter in it
    processed,      \* auxiliary: what processArg was called with
    csc,            \* the members of a CSC it sets
    sinks,          \* _sinks
    phase           \* "args", "getopt", "parsed" or "logging"; or the process
                    \* has exited with "success" or "failure"

arguments == << line, argv, argcommand, commandStart, optind, nextchar,
                processed, csc, sinks, phase >>

\* The arguments of an option, and of a line
Written(o) ==
    LET first == << "-" >> \o o.flags
    IN  IF o.takes = "none" THEN << first >>
        ELSE IF o.apart THEN << Append(first, o.takes), o.value >>
        ELSE << Append(first, o.takes) \o o.value >>

AsWritten(l) == FlattenSeq([o \in DOMAIN l.options |-> Written(l.options[o])]) \o l.commands

ArgumentsInit ==
    /\ line \in CommandLines
    /\ argv = AsWritten(line)
    /\ argcommand = << >> /\ commandStart = 0
    /\ optind = 1 /\ nextchar = 2
    /\ processed = << >>
    /\ csc = [configRoot |-> << "default" >>, debugLevel |-> 0, debugLevelSAL |-> 0,
              enabledSinks |-> {"SAL"}, pidfile |-> << >>, fpgaDebugPath |-> << >>,
              user |-> << >>, group |-> << >>]
    /\ sinks = << >>
    /\ phase = "args"

----------------------------------------------------------------------------
\* The letters with their modifiers, in the order of addArgument
pargs == << "c", ":", "d", "f", "h", "p", ":", "s", "x", ":", "u", ":" >>

\* Whether a letter is followed by a colon there; the end of an argument is
\* found at the end of pargs, and nothing follows.
TakesValue(letter) ==
    \E i \in 1 .. Len(pargs) - 1 :
        /\ pargs[i] = letter /\ pargs[i + 1] = ":"
        /\ \A j \in 1 .. i - 1 : pargs[j] # letter

\* Mutant: any option that takes a value has it in the next argument.
SkipsWhateverTakes(a) == Len(a) > 1 /\ TakesValue(a[2])

SkipsNext(a) == Len(a) = 2 /\ TakesValue(a[2])

IsCommand(a) == a = << >> \/ a[1] # "-"

\* A turn of the first loop over argv, and where the loop leaves commandStart
Turn(i) ==
    IF i > Len(argv) \/ IsCommand(argv[i]) THEN i
    ELSE IF SkipsNext(argv[i]) THEN i + 2 ELSE i + 1

StartFrom ==
    LET turned[n \in 0 .. Len(argv)] == IF n = 0 THEN 1 ELSE Turn(turned[n - 1])
        i == turned[Len(argv)]
    IN  IF i > Len(argv) THEN Len(argv) + 1 ELSE i

processArgs ==
    /\ phase = "args"
    /\ commandStart' = StartFrom
    /\ argcommand' = SubSeq(argv, StartFrom, Len(argv))
    /\ phase' = "getopt"
    /\ UNCHANGED << line, argv, optind, nextchar, processed, csc, sinks >>

----------------------------------------------------------------------------
\* CSC::processArg; the value of -u is split at its first colon.
processArg(opt, optarg) ==
    /\ processed' = Append(processed, << opt, optarg >>)
    /\ phase' = CASE opt = "h" -> "success"
                  [] opt = "?" -> "failure"
                  [] OTHER -> phase
    /\ csc' =
         CASE opt = "c" -> [csc EXCEPT !.configRoot = optarg]
           [] opt = "d" -> [csc EXCEPT !.debugLevel = @ + 1]
           [] opt = "f" -> [csc EXCEPT !.enabledSinks = @ \cup {"STDOUT"}]
           [] opt = "p" -> [csc EXCEPT !.pidfile = optarg, !.enabledSinks = @ \cup {"SYSLOG"}]
           [] opt = "s" -> [csc EXCEPT !.debugLevelSAL = @ + 1]
           [] opt = "x" -> [csc EXCEPT !.fpgaDebugPath = optarg]
           [] opt = "u" ->
                LET colons == { i \in DOMAIN optarg : optarg[i] = ":" }
                    sep == CHOOSE i \in colons : \A j \in colons : i <= j
                IN  IF colons = {} THEN [csc EXCEPT !.user = optarg, !.group = optarg]
                    ELSE [csc EXCEPT !.user = SubSeq(optarg, 1, sep - 1),
                                     !.group = SubSeq(optarg, sep + 1, Len(optarg))]
           [] OTHER -> csc

\* getopt goes on in the argument it is in, or at the next that is an option;
\* those that are not are passed over, and "--" ends the options.
IsOption(a) == Len(a) > 1 /\ a[1] = "-"

Remaining == { i \in optind .. commandStart - 1 : IsOption(argv[i]) }

Here == CHOOSE i \in Remaining : \A j \in Remaining : i <= j

NothingLeft == IF Remaining = {} THEN TRUE ELSE argv[Here] = << "-", "-" >>

MovesTo(i, letter) == optind' = i /\ nextchar' = letter

getopt ==
    LET a == argv[Here]
        letter == a[nextchar]
        last == nextchar = Len(a)
    IN  /\ phase = "getopt" /\ ~NothingLeft
        /\ IF letter \in Taking
           THEN IF ~last
                THEN processArg(letter, SubSeq(a, nextchar + 1, Len(a))) /\ MovesTo(Here + 1, 2)
                ELSE IF Here + 1 < commandStart
                THEN processArg(letter, argv[Here + 1]) /\ MovesTo(Here + 2, 2)
                ELSE processArg("?", << >>) /\ MovesTo(Here + 1, 2)
           ELSE /\ processArg(IF letter \in Flags THEN letter ELSE "?", << >>)
                /\ IF last THEN MovesTo(Here + 1, 2) ELSE MovesTo(Here, nextchar + 1)
        /\ UNCHANGED << line, argv, argcommand, commandStart, sinks >>

NoMoreOptions ==
    /\ phase = "getopt" /\ NothingLeft
    /\ phase' = "parsed"
    /\ UNCHANGED << line, argv, argcommand, commandStart, optind, nextchar,
                    processed, csc, sinks >>

----------------------------------------------------------------------------
\* CSC::_startLog; a sink is added for each that is enabled, but for SAL's,
\* which is init's.
Added(sink) == IF sink \in csc.enabledSinks THEN << sink >> ELSE << >>

startLog ==
    /\ phase = "parsed"
    /\ sinks' = Added("STDOUT") \o Added("DAILY") \o Added("SYSLOG")
    /\ phase' = "logging"
    /\ UNCHANGED << line, argv, argcommand, commandStart, optind, nextchar,
                    processed, csc >>

ArgumentsNext == processArgs \/ getopt \/ NoMoreOptions \/ startLog

ArgumentsSpec == ArgumentsInit /\ [][ArgumentsNext]_arguments

----------------------------------------------------------------------------
\* What processArg should be called with
Calls(o) ==
    [i \in DOMAIN o.flags |-> << o.flags[i], << >> >>]
        \o IF o.takes = "none" THEN << >> ELSE << << o.takes, o.value >> >>

Meant == FlattenSeq([o \in DOMAIN line.options |-> Calls(line.options[o])])

\* A line that both readings of argv can agree on: no flags in front of a letter
\* that takes its value from the next argument, only known letters, no "-"
\* alone and no "--", and a command that does not begin like an option.
Plain ==
    /\ \A o \in DOMAIN line.options :
          LET opt == line.options[o]
          IN  /\ opt.flags # << >> => opt.takes = "none" \/ ~opt.apart
              /\ opt.flags # << >> \/ opt.takes # "none"
              /\ \A i \in DOMAIN opt.flags : opt.flags[i] \in Flags
    /\ line.commands = << >> \/ IsCommand(line.commands[1])

\* Whatever the values of options and the arguments of the command look like,
\* options or negative numbers among them: every option of a plain line is
\* processed once, in order, with its own value, and what is returned is the
\* command and all of it. Nothing is processed after a request for help, and the
\* program is not refused. A daemon logs to the syslog, for it closes its
\* standard output.
AsGiven ==
    Plain =>
        /\ IsPrefix(processed, Meant)
        /\ phase # "failure"
        /\ phase = "success" => processed # << >> /\ Last(processed)[1] = "h"
        /\ phase \in {"parsed", "logging"} =>
              processed = Meant /\ argcommand = line.commands
        /\ phase = "logging" /\ csc.pidfile # << >> =>
              /\ "SYSLOG" \in ToSet(sinks)
              /\ \E o \in DOMAIN line.options : line.options[o].takes = "p"
=============================================================================
