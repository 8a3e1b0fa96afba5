-------------------------------- MODULE Cli --------------------------------
(***************************************************************************)
(* The command lines of ws63flash, ws63fwpkg and ws63sign: parse_opt of    *)
(* each program, called by Getopt, and main up to the point where the      *)
(* program begins its work.                                                *)
(***************************************************************************)
EXTENDS Getopt

CONSTANTS
  Programs,         \* which of the three are run
  Vocabulary,       \* elements a command line is made of, for each program
  MaxLen,           \* its length, for each program
  Bauds,            \* speeds in avail_baud_tbl
  MAX_PARTITION_CNT

\* What a command line is made of.  "none" stands for a null pointer, so it is
\* no text.
Texts == STRING \ {"none"}
Elements == [text : Texts, name : Seq(STRING), keys : Seq(STRING), val : Texts]

ASSUME CliAssumption ==
  /\ Programs \subseteq {"ws63flash", "ws63fwpkg", "ws63sign"}
  /\ MaxLen \in [Programs -> Nat]
  /\ \A p \in Programs : Vocabulary[p] \subseteq Elements
  /\ MAX_PARTITION_CNT \in Nat /\ MAX_PARTITION_CNT >= 3

VARIABLES
  prog,
  arguments,   \* struct args of the program
  errno,       \* errno # 0
  result       \* what became of the run

cliVars == <<prog, arguments, errno, result>>
vars == <<getoptVars, cliVars>>

VerbKeys == {"f", "w", "e", "p", "i"}

\* Keys of the options tables, and those with a value.  "p" is the key 2 of
\* --write-program and "l" the key 1 of --late-baud.
Options == [ws63flash |-> {"f", "w", "e", "p", "b", "l", "v"},
            ws63fwpkg |-> {"i", "o"}, ws63sign |-> {"o"}]
WithValue == [ws63flash |-> {"b"}, ws63fwpkg |-> {"o"}, ws63sign |-> {}]

\* The long ones.  Of those of argp only --version begins like another one.
LongOptions ==
  [ws63flash |-> << [name |-> <<"f", "lash">>, key |-> "f"],
                    [name |-> <<"e", "rase">>, key |-> "e"],
                    [name |-> <<"w", "rite">>, key |-> "w"],
                    [name |-> <<"w", "rite", "-program">>, key |-> "p"],
                    [name |-> <<"b", "aud">>, key |-> "b"],
                    [name |-> <<"l", "ate-baud">>, key |-> "l"],
                    [name |-> <<"ver", "bose">>, key |-> "v"],
                    [name |-> <<"ver", "sion">>, key |-> "V"] >>,
   ws63fwpkg |-> << [name |-> <<"i", "nject">>, key |-> "i"],
                    [name |-> <<"o", "ut">>, key |-> "o"],
                    [name |-> <<"ver", "sion">>, key |-> "V"] >>,
   ws63sign  |-> << [name |-> <<"o", "ut">>, key |-> "o"],
                    [name |-> <<"ver", "sion">>, key |-> "V"] >>]

\* How many arguments a verb takes.
ArgMin == [f |-> 2, w |-> 3, e |-> 1, p |-> 2, i |-> 2]
ArgMax == [f |-> MAX_PARTITION_CNT, w |-> MAX_PARTITION_CNT, e |-> 1, p |-> 2,
           i |-> MAX_PARTITION_CNT]

-----------------------------------------------------------------------------

Accept(new) == arguments' = new /\ UNCHANGED <<errno, result>>
Exit(how)   == result' = how /\ UNCHANGED <<arguments, errno>>

SetVerb(c) ==
  IF arguments.verb # "none" THEN Exit("usage")
                             ELSE Accept([arguments EXCEPT !.verb = c])

\* parse_opt of ws63flash.
FlashOption(c, v) ==
  \/ c \in VerbKeys /\ SetVerb(c)
  \/ c = "l" /\ Accept([arguments EXCEPT !.late_baud = TRUE])
  \/ c = "b" /\ IF v \in Bauds THEN Accept([arguments EXCEPT !.baud = v])
                               ELSE Exit("failure")
  \/ c = "v" /\ Accept(arguments)

\* parse_opt of ws63fwpkg; - is the standard output, and open may fail.
FwpkgOption(c, v) ==
  \/ c \in VerbKeys /\ SetVerb(c)
  \/ /\ c = "o"
     /\ \E fd \in IF v = "-" THEN {arguments.out} ELSE {v, "none"} :
          Accept([arguments EXCEPT !.out = fd])

\* Mutant: one argument too many is taken.
TakeArgumentMore(c, v) ==
  LET n == Len(arguments.args) IN
  \/ /\ c = "arg"
     /\ IF arguments.verb # "none" /\ n > ArgMax[arguments.verb]
        THEN Exit("usage")
        ELSE Accept([arguments EXCEPT !.args = Append(@, v)])
  \/ /\ c = "end"
     /\ IF arguments.verb # "none" /\ n < ArgMin[arguments.verb]
        THEN Exit("usage") ELSE Accept(arguments)

\* ARGP_KEY_ARG and ARGP_KEY_END of both.
TakeArgument(c, v) ==
  LET n == Len(arguments.args) IN
  \/ /\ c = "arg"
     /\ IF arguments.verb # "none" /\ n >= ArgMax[arguments.verb]
        THEN Exit("usage")
        ELSE Accept([arguments EXCEPT !.args = Append(@, v)])
  \/ /\ c = "end"
     /\ IF arguments.verb # "none" /\ n < ArgMin[arguments.verb]
        THEN Exit("usage") ELSE Accept(arguments)

\* parse_opt of ws63sign.  -o has no value, so fopen(NULL) fails, and its case
\* falls through to the one of ARGP_KEY_END.
SignOption(c, v) ==
  \/ /\ c = "arg"
     /\ \/ arguments.inf # "none" /\ Exit("usage")
        \/ arguments.inf = "none" /\ Accept([arguments EXCEPT !.inf = v])
        \/ /\ arguments.inf = "none" /\ v # "-"
           /\ errno' = TRUE /\ UNCHANGED <<arguments, result>>
  \/ /\ c \in {"o", "end"}
     /\ errno' = (errno \/ c = "o")
     /\ result' = IF arguments.inf = "none" THEN "usage" ELSE result
     /\ UNCHANGED arguments

ParseOpt(c, v) ==
  \/ prog = "ws63flash" /\ FlashOption(c, v)
  \/ prog = "ws63fwpkg" /\ FwpkgOption(c, v)
  \/ prog # "ws63sign" /\ TakeArgument(c, v)
  \/ prog = "ws63sign" /\ SignOption(c, v)

\* The parser makes a step; parse_opt is part of those that call it.
Parse ==
  /\ result = "parsing"
  /\ GetoptStep
  /\ IF calls' = calls THEN UNCHANGED <<arguments, errno, result>>
     ELSE ParseOpt(Last(calls')[1], Last(calls')[2])
  /\ UNCHANGED prog

BadOption ==
  /\ result = "parsing" /\ scan = "error"
  /\ Exit("usage")
  /\ UNCHANGED <<prog, getoptVars>>

\* main of ws63flash and ws63fwpkg.
MainVerb ==
  /\ result = "parsing" /\ scan = "done" /\ prog # "ws63sign"
  /\ Exit(IF arguments.verb = "none" \/ arguments.out = "none"
          THEN "failure" ELSE "run")
  /\ UNCHANGED <<prog, getoptVars>>

\* Mutant: errno is cleared before it is looked at.
MainSignClears ==
  /\ result = "parsing" /\ scan = "done" /\ prog = "ws63sign"
  /\ arguments' = [arguments EXCEPT !.out = "a.signed"]
  /\ result' = "run"
  /\ UNCHANGED <<prog, errno, getoptVars>>

\* main of ws63sign: whatever left errno set keeps a.signed from being opened.
MainSign ==
  /\ result = "parsing" /\ scan = "done" /\ prog = "ws63sign"
  /\ \/ errno /\ Exit("failure")
     \/ ~errno /\ result' = "failure" /\ errno' = TRUE /\ UNCHANGED arguments
     \/ /\ ~errno /\ result' = "run" /\ UNCHANGED errno
        /\ arguments' = [arguments EXCEPT !.out = "a.signed"]
  /\ UNCHANGED <<prog, getoptVars>>

Init ==
  /\ prog \in Programs
  /\ known = Options[prog] /\ needs = WithValue[prog]
  /\ long_opts = LongOptions[prog]
  /\ posix \in BOOLEAN
  /\ typed \in UNION {[1..n -> Vocabulary[prog]] : n \in 0..MaxLen[prog]}
  /\ GetoptInit
  /\ arguments = [verb |-> "none", args |-> <<>>, baud |-> "115200",
                  late_baud |-> FALSE, inf |-> "none",
                  out |-> IF prog = "ws63sign" THEN "none" ELSE "stdout"]
  /\ errno \in {FALSE, prog = "ws63sign"}
  /\ result = "parsing"

Next == Parse \/ BadOption \/ MainVerb \/ MainSign
Spec == Init /\ [][Next]_vars
\* One thread, which the scheduler runs.
FairSpec == Spec /\ WF_vars(Next)

-----------------------------------------------------------------------------
(* What a command line says when it is read from left to right: operators  *)
(* of the line alone.                                                      *)

Line == [prog |-> prog, posix |-> posix, typed |-> typed]

\* The options an element means: a long one that is named in full, or the only
\* one that begins this way.
Meant(p, name) ==
  LET long == ToSet(LongOptions[p])
      full == {o \in long : o.name = name}
      begun == {o \in long : IsPrefix(name, o.name)}
  IN {o.key : o \in IF full # {} THEN full ELSE begun}

KeysOf(p, e) ==
  IF e.name = <<>> THEN e.keys
  ELSE IF Cardinality(Meant(p, e.name)) = 1
       THEN <<CHOOSE k \in Meant(p, e.name) : TRUE>> ELSE <<"?">>

TakesNext(p, e) ==
  KeysOf(p, e) # <<>> /\ Last(KeysOf(p, e)) \in WithValue[p] /\ e.val = ""

\* Whether element i is the value of the option before it.
IsValue(l) ==
  LET value[i \in 0..Len(l.typed)] ==
        i > 1 /\ ~value[i - 1] /\ TakesNext(l.prog, l.typed[i - 1])
  IN value

\* Whether it ends the options, and the first one that does.
Ends(l, i) ==
  ~IsValue(l)[i] /\ (Dashes(l.typed[i]) \/ (l.posix /\ NONOPTION_P(l.typed[i])))

EndOfOptions(l) ==
  LET ends == {i \in DOMAIN l.typed : Ends(l, i)}
  IN IF ends = {} THEN Len(l.typed) + 1 ELSE Min(ends)

\* The options of element i, with their values.
OptionCalls(l, i) ==
  LET e == l.typed[i]
      v == IF TakesNext(l.prog, e) /\ i < Len(l.typed) THEN l.typed[i + 1].text
                                                      ELSE e.val
      keys == KeysOf(l.prog, e)
  IN [k \in DOMAIN keys |-> <<keys[k], IF k = Len(keys) THEN v ELSE "">>]

OptionsOf(l, i) == IF IsValue(l)[i] THEN <<>> ELSE OptionCalls(l, i)

IsArg(l, i) ==
  IF i < EndOfOptions(l) THEN ~IsValue(l)[i] /\ NONOPTION_P(l.typed[i])
  ELSE i > EndOfOptions(l) \/ ~Dashes(l.typed[i])

ArgsOf(l, i) == IF IsArg(l, i) THEN <<l.typed[i].text>> ELSE <<>>

\* What the first n elements give.
OptionsTo(l, n) == FlattenSeq([i \in 1..n |-> OptionsOf(l, i)])
ArgsTo(l, n)    == FlattenSeq([i \in 1..n |-> ArgsOf(l, i)])

DeclaredOptions == OptionsTo(Line, EndOfOptions(Line) - 1)
DeclaredArgs    == ArgsTo(Line, Len(typed))

\* An option without the value it needs, or with one it does not take.
IsBad(l, i) ==
  LET e == l.typed[i]
      keys == KeysOf(l.prog, e)
  IN /\ ~IsValue(l)[i] /\ keys # <<>>
     /\ \/ TakesNext(l.prog, e) /\ i = Len(l.typed)
        \/ Last(keys) \notin WithValue[l.prog] /\ e.val # ""

BadValue == \E i \in 1..(EndOfOptions(Line) - 1) : IsBad(Line, i)

ArgCalls(args) == [k \in DOMAIN args |-> <<"arg", args[k]>>]

Declared == DeclaredOptions \o ArgCalls(DeclaredArgs) \o << <<"end", "">> >>

-----------------------------------------------------------------------------
(* Properties *)

\* Every variable has its type; the segments of exchange lie in argv.
TypeOK ==
  /\ prog \in Programs /\ posix \in BOOLEAN /\ errno \in BOOLEAN
  /\ result \in {"parsing", "usage", "failure", "run"}
  /\ {optind, first_nonopt, last_nonopt, bottom, top} \subseteq 1..Stop
  /\ bottom <= top
  /\ Len(argv) = Len(typed) /\ {argv[i] : i \in DOMAIN argv}
                               = {typed[i] : i \in DOMAIN typed}
  /\ scan \in {"getopt", "skip", "dashes", "quoted", "take", "exchange",
               "args", "error", "done"}
  /\ arguments.verb \in {"none"} \cup VerbKeys

(***************************************************************************)
(* parse_opt is called for the options in the order they were typed, each  *)
(* with its own value, then for the arguments in their order, however      *)
(* getopt has moved them around: for every command line the calls are      *)
(* those that reading it from left to right gives, up to the one that      *)
(* ends the program.                                                       *)
(***************************************************************************)
ParsesAsTyped ==
  /\ result # "parsing" => IsPrefix(calls, Declared)
  /\ scan = "done" => calls = Declared

(***************************************************************************)
(* The limits on the number of arguments are applied to the verb that is   *)
(* known so far, so no option may be parsed after the first argument.      *)
(***************************************************************************)
VerbBeforeArgs ==
  [][arguments.args # <<>> => arguments'.verb = arguments.verb]_vars

\* Where option k stands among the calls s, and where a verb does.
Given(s, k)   == {i \in DOMAIN s : s[i][1] = k}
VerbsGiven(s) == {i \in DOMAIN s : s[i][1] \in VerbKeys}

LastGiven(s, k, default) ==
  IF Given(s, k) = {} THEN default ELSE s[Max(Given(s, k))][2]

\* The line has this verb and no other one, and options that exist.
Says(verb) ==
  /\ \E i \in DOMAIN DeclaredOptions :
       VerbsGiven(DeclaredOptions) = {i} /\ DeclaredOptions[i][1] = verb
  /\ \A i \in DOMAIN DeclaredOptions : DeclaredOptions[i][1] \in known
  /\ ~BadValue

\* The fewest arguments with which the manual pages show a verb, where a BIN in
\* brackets may be left out.
ShownMin == [f |-> 2, w |-> 2, e |-> 1, p |-> 2, i |-> 1]

Usable(verb) ==
  Says(verb) /\ Len(DeclaredArgs) \in ShownMin[verb]..ArgMax[verb]

\* Where parse_opt asks for a BIN that the manual pages show as optional.
WithoutBin(verb) ==
  verb \in {"w", "i"} /\ Len(DeclaredArgs) = ShownMin[verb]

(***************************************************************************)
(* A program begins its work only for one verb with as many arguments as   *)
(* the manual pages show, every option being known, and with the values    *)
(* that were typed.  It refuses no line that is so, but for --write and    *)
(* --inject without a BIN, which are shown and always refused (see         *)
(* RunsAsShown).  The largest number is that of the code,                  *)
(* MAX_PARTITION_CNT for "[BIN...]".                                       *)
(***************************************************************************)
RunsWhatWasTyped ==
  prog # "ws63sign" =>
    /\ result = "run" =>
         /\ Usable(arguments.verb) /\ ~WithoutBin(arguments.verb)
         /\ arguments.args = DeclaredArgs
         /\ arguments.baud = LastGiven(DeclaredOptions, "b", "115200")
         /\ arguments.late_baud = (Given(DeclaredOptions, "l") # {})
    /\ result = "usage" =>
         \A verb \in VerbKeys : Usable(verb) => WithoutBin(verb)

(***************************************************************************)
(* ws63sign signs the first file that was named into a.signed, although    *)
(* parse_opt takes the next one for its input when the first cannot be     *)
(* opened: errno is then set, and the program ends.                        *)
(***************************************************************************)
SignsTheFirst ==
  prog = "ws63sign" /\ result = "run" =>
    arguments.inf = DeclaredArgs[1] /\ arguments.out = "a.signed"

\* Every command line comes to an end.
Terminates == <>(result # "parsing")

\* With how many arguments the help texts show a verb: "--erase TTY FWPKG" at
\* ws63flash.c:60, the other four as the manual pages do.
ShownArgs(verb) ==
  IF verb = "e" THEN {2} ELSE ShownMin[verb]..ArgMax[verb]

(***************************************************************************)
(* A line that the help texts show (ws63flash.c:57-60, ws63fwpkg.c:56),    *)
(* with known options, is not answered with a usage message.               *)
(***************************************************************************)
RunsAsShown ==
  result = "usage" =>
    \A verb \in VerbKeys : Says(verb) => Len(DeclaredArgs) \notin ShownArgs(verb)
=============================================================================
