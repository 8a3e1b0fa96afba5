------------------------------- MODULE Getopt -------------------------------
(***************************************************************************)
(* How argp_parse (src/lib/argp-parse.c) with getopt (src/lib/getopt.c)    *)
(* walks over a command line and which calls of parse_opt it makes.        *)
(* getopt moves the options in front of the arguments while it scans.      *)
(*                                                                         *)
(* An element of the command line is a record: its text, the name of the   *)
(* long option it is or the keys of the short ones (-vf has two, and an    *)
(* argument or -- none), and the value attached to the last of them.  A    *)
(* name is cut where one may abbreviate it: <<"w", "rite", "-program">>.   *)
(***************************************************************************)
EXTENDS Integers, Sequences, SequencesExt

VARIABLES
  known, needs,               \* the keys of the options table; with a value
  long_opts,                  \* names and keys of the long options
  posix,                      \* POSIXLY_CORRECT is set
  typed,                      \* history: argv as it was typed
  argv, optind,
  first_nonopt, last_nonopt,  \* arguments that were skipped, in argv
  nextchar,                   \* options left in the element
  scan,                       \* where the parser is
  resume, bottom, top,        \* exchange: where it returns, its segments
  calls                       \* history: keys and values parse_opt was given

tableVars == <<known, needs, long_opts, posix, typed>>
skipVars  == <<first_nonopt, last_nonopt>>
swapVars  == <<resume, bottom, top>>
getoptVars == <<tableVars, argv, optind, skipVars, nextchar, scan, swapVars, calls>>

Stop == Len(argv) + 1           \* argc
Dashes(e) == e.text = "--"
NONOPTION_P(e) == e.name = <<>> /\ e.keys = <<>> /\ ~Dashes(e)

\* Mutant: the first name that fits is taken, exact or not.
LongOptionFirst(name) ==
  LET fits == {k \in DOMAIN long_opts : IsPrefix(name, long_opts[k].name)}
  IN IF fits = {} THEN "?" ELSE long_opts[Min(fits)].key

\* process_long_option: the first exact match, or else the first abbreviation,
\* unless a later one stands for another option.
LongOption(name) ==
  LET exact == {k \in DOMAIN long_opts : long_opts[k].name = name}
      fits  == {k \in DOMAIN long_opts : IsPrefix(name, long_opts[k].name)}
      ambig == {k \in fits : long_opts[k].key # long_opts[Min(fits)].key}
  IN CASE exact # {} -> long_opts[Min(exact)].key
       [] exact = {} /\ fits # {} /\ ambig = {} -> long_opts[Min(fits)].key
       [] OTHER -> "?"

Call(key, val) == calls' = Append(calls, <<key, val>>)

\* Mutants: only the first elements of the segments change places, and one
\* segment is written over the other.
SwapFirst(s, a, b, len) == [s EXCEPT ![a] = s[b], ![b] = s[a]]

SwapOverwrites(s, a, b, len) ==
  [i \in DOMAIN s |-> IF i \in a..(a + len - 1) THEN s[i + b - a] ELSE s[i]]

Swap(s, a, b, len) ==
  [i \in DOMAIN s |-> CASE i \in a..(a + len - 1) -> s[i + b - a]
                        [] i \in b..(b + len - 1) -> s[i + a - b]
                        [] OTHER -> s[i]]

\* Mutant: the segment keeps its end.
ShortenNot(len) == UNCHANGED <<bottom, top>>

\* The shorter segment is in its place at the end of the longer one.
Shorten(len) == top' = top - len /\ UNCHANGED bottom

\* One turn of exchange: the shorter segment goes to its place.
Exchange ==
  /\ scan = "exchange"
  /\ LET middle == last_nonopt
         len == IF top - middle > middle - bottom THEN middle - bottom
                                                  ELSE top - middle
     IN \/ /\ top > middle /\ middle > bottom
           /\ \/ /\ top - middle > middle - bottom
                 /\ argv' = Swap(argv, bottom, top - len, len)
                 /\ Shorten(len)
              \/ /\ top - middle <= middle - bottom
                 /\ argv' = Swap(argv, bottom, middle, len)
                 /\ bottom' = bottom + len /\ UNCHANGED top
           /\ UNCHANGED <<skipVars, scan>>
        \/ /\ ~(top > middle /\ middle > bottom)
           /\ first_nonopt' = first_nonopt + (optind - last_nonopt)
           /\ last_nonopt' = optind
           /\ scan' = resume
           /\ UNCHANGED <<argv, bottom, top>>
  /\ UNCHANGED <<tableVars, optind, nextchar, resume, calls>>

\* exchange(argv, d), when there is something on both sides; else the
\* skipped segment starts anew when `empty` says so.
Rearrange(end, empty, next) ==
  \/ /\ first_nonopt # last_nonopt /\ last_nonopt # end
     /\ scan' = "exchange" /\ resume' = next
     /\ bottom' = first_nonopt /\ top' = end
     /\ UNCHANGED skipVars
  \/ /\ first_nonopt = last_nonopt \/ last_nonopt = end
     /\ scan' = next
     /\ first_nonopt' = IF empty THEN end ELSE first_nonopt
     /\ UNCHANGED <<last_nonopt, swapVars>>

\* getopt moves on to the next element of argv.
Advance ==
  /\ scan = "getopt" /\ nextchar = <<>>
  /\ IF posix THEN scan' = "dashes" /\ UNCHANGED <<skipVars, swapVars>>
              ELSE Rearrange(optind, last_nonopt # optind, "skip")
  /\ UNCHANGED <<tableVars, argv, optind, nextchar, calls>>

\* It skips arguments,
Skip ==
  /\ scan = "skip"
  /\ optind' = CHOOSE i \in optind..Stop :
                 /\ \A j \in optind..(i - 1) : NONOPTION_P(argv[j])
                 /\ i = Stop \/ ~NONOPTION_P(argv[i])
  /\ last_nonopt' = optind'
  /\ scan' = "dashes"
  /\ UNCHANGED <<tableVars, argv, first_nonopt, nextchar, swapVars, calls>>

\* looks for the -- that ends the options,
FindDashes ==
  /\ scan = "dashes"
  /\ LET found == optind < Stop /\ Dashes(argv[optind]) IN
     \/ /\ found
        /\ optind' = optind + 1
        /\ Rearrange(optind + 1, first_nonopt = last_nonopt, "quoted")
     \/ /\ ~found
        /\ scan' = "take"
        /\ UNCHANGED <<optind, skipVars, swapVars>>
  /\ UNCHANGED <<tableVars, argv, nextchar, calls>>

Quoted ==
  /\ scan = "quoted"
  /\ last_nonopt' = Stop /\ optind' = Stop
  /\ scan' = "take"
  /\ UNCHANGED <<tableVars, argv, first_nonopt, nextchar, swapVars, calls>>

\* and takes an option, or finds that there are no more (KEY_END): argp does
\* not ask it again.
Take ==
  /\ scan = "take"
  /\ \/ /\ optind = Stop
        /\ optind' = IF first_nonopt # last_nonopt THEN first_nonopt ELSE optind
        /\ scan' = "args" /\ UNCHANGED nextchar
     \/ /\ optind < Stop /\ NONOPTION_P(argv[optind])
        /\ scan' = "args" /\ UNCHANGED <<optind, nextchar>>
     \/ /\ optind < Stop /\ ~NONOPTION_P(argv[optind])
        /\ nextchar' = IF argv[optind].name = <<>> THEN argv[optind].keys
                       ELSE <<LongOption(argv[optind].name)>>
        /\ scan' = "getopt" /\ UNCHANGED optind
  /\ UNCHANGED <<tableVars, argv, skipVars, swapVars, calls>>

\* The next option of the element, with its value: the rest of the element or
\* the next one.  KEY_ERR ends the program with a usage message, and so do the
\* options of argp itself (--help), which are not among the known ones.
Option ==
  /\ scan = "getopt" /\ nextchar # <<>>
  /\ LET c == Head(nextchar)
         attached == argv[optind].val
         last == Len(nextchar) = 1
         after == IF last THEN optind + 1 ELSE optind
     IN \/ /\ \/ c \notin known
              \/ last /\ c \in needs /\ attached = "" /\ after = Stop
              \/ last /\ c \notin needs /\ attached # ""
           /\ scan' = "error"
           /\ UNCHANGED <<optind, nextchar, calls>>
        \/ /\ c \in known /\ c \notin needs
           /\ last => attached = ""
           /\ Call(c, "")
           /\ optind' = after /\ nextchar' = Tail(nextchar)
           /\ UNCHANGED scan
        \/ /\ c \in needs /\ last
           /\ \/ /\ attached # "" /\ Call(c, attached)
                 /\ optind' = after
              \/ /\ attached = "" /\ after < Stop
                 /\ Call(c, argv[after].text)
                 /\ optind' = after + 1
           /\ nextchar' = <<>>
           /\ UNCHANGED scan
  /\ UNCHANGED <<tableVars, argv, skipVars, swapVars>>

\* Mutant: getopt is asked again after each argument.
ArgRetries ==
  /\ scan = "args" /\ optind < Stop
  /\ Call("arg", argv[optind].text)
  /\ optind' = optind + 1 /\ scan' = "getopt"
  /\ UNCHANGED <<tableVars, argv, skipVars, nextchar, swapVars>>

\* What is left are arguments, whatever they look like.
Arg ==
  /\ scan = "args" /\ optind < Stop
  /\ Call("arg", argv[optind].text)
  /\ optind' = optind + 1
  /\ UNCHANGED <<tableVars, argv, skipVars, nextchar, scan, swapVars>>

\* parser_finalize.
End ==
  /\ scan = "args" /\ optind = Stop
  /\ Call("end", "")
  /\ scan' = "done"
  /\ UNCHANGED <<tableVars, argv, optind, skipVars, nextchar, swapVars>>

GetoptStep ==
  Exchange \/ Advance \/ Skip \/ FindDashes \/ Quoted \/ Take \/ Option \/ Arg \/ End

GetoptInit ==
  /\ argv = typed
  /\ optind = 1 /\ first_nonopt = 1 /\ last_nonopt = 1
  /\ nextchar = <<>> /\ scan = "getopt"
  /\ resume = "skip" /\ bottom = 1 /\ top = 1
  /\ calls = <<>>
=============================================================================
