----------------------------- MODULE CliProofs ------------------------------
(***************************************************************************)
(* Proofs about Cli and Getopt for every vocabulary and every length of    *)
(* the command line.  What parse_opt is called with is typed by Words; the *)
(* inductive invariant, CliInv, follows getopt over argv and says what     *)
(* parse_opt has made of the calls so far.                                 *)
(***************************************************************************)
EXTENDS Cli, SequenceTheorems, WellFoundedInduction, TLAPS

\* The strings of the program: the provers do not know that one that is
\* written out is in STRING.
Words == STRING \cup VerbKeys
           \cup {"b", "l", "v", "o", "V", "?", "arg", "end", "", "none", "115200",
                 "stdout", "a.signed"}

Arguments == [verb : {"none"} \cup VerbKeys, args : Seq(Words), baud : Words,
              late_baud : BOOLEAN, inf : Words, out : Words]

(***************************************************************************)
(* Where getopt is on the command line: what it has skipped lies before    *)
(* the next element, and what exchange moves around the middle.            *)
(***************************************************************************)
Tables ==
  /\ prog \in Programs
  /\ known = Options[prog] /\ needs = WithValue[prog]
  /\ long_opts = LongOptions[prog]

Lists ==
  /\ typed \in Seq(Elements) /\ argv \in Seq(Elements)
  /\ Len(argv) = Len(typed)
  /\ ToSet(argv) = ToSet(typed)
  /\ nextchar \in Seq(Words) /\ calls \in Seq(Words \X Words)

Scans == {"getopt", "skip", "dashes", "quoted", "take", "exchange", "args", "error",
          "done"}

Walk ==
  /\ scan \in Scans /\ resume \in {"skip", "quoted"}
  /\ {optind, first_nonopt, last_nonopt, bottom, top} \subseteq 1..Stop
  /\ bottom <= top /\ first_nonopt <= optind
  /\ scan \notin {"args", "done"} => last_nonopt <= optind
  /\ scan \notin {"skip", "quoted"} => first_nonopt <= last_nonopt
  /\ scan = "exchange" =>
       bottom <= last_nonopt /\ last_nonopt <= top /\ top <= optind
  /\ nextchar # <<>> => scan \in {"getopt", "error"} /\ optind < Stop

(***************************************************************************)
(* What parse_opt has made of the calls.                                   *)
(***************************************************************************)
Parsed ==
  /\ arguments \in Arguments /\ errno \in BOOLEAN /\ posix \in BOOLEAN
  /\ result \in {"parsing", "usage", "failure", "run"}
  /\ arguments.args # <<>> => scan \in {"args", "done"}
  /\ prog # "ws63sign" /\ arguments.verb # "none" =>
       /\ Len(arguments.args) <= ArgMax[arguments.verb]
       /\ scan = "done" /\ result \in {"parsing", "run"} =>
            Len(arguments.args) >= ArgMin[arguments.verb]
  /\ result = "run" =>
       scan = "done" /\ (prog # "ws63sign" => arguments.verb # "none")

CliInv == Tables /\ Lists /\ Walk /\ Parsed

LEMMA TablesAre ==
  ASSUME prog \in {"ws63flash", "ws63fwpkg", "ws63sign"}
  PROVE  /\ "arg" \notin Options[prog] /\ "end" \notin Options[prog]
         /\ WithValue[prog] \subseteq Options[prog] /\ Options[prog] \subseteq Words
<1>1. CASE prog = "ws63flash"
  BY <1>1 DEF Options, WithValue, Words, VerbKeys
<1>2. CASE prog = "ws63fwpkg"
  BY <1>2 DEF Options, WithValue, Words, VerbKeys
<1>3. CASE prog = "ws63sign"
  BY <1>3 DEF Options, WithValue, Words, VerbKeys
<1>4. QED
  BY <1>1, <1>2, <1>3

LEMMA LimitsAre ==
  ASSUME NEW v \in VerbKeys
  PROVE  ArgMax[v] \in Nat /\ ArgMin[v] \in Nat /\ ArgMin[v] <= ArgMax[v] /\ 1 <= ArgMin[v]
<1>1. MAX_PARTITION_CNT \in Nat /\ MAX_PARTITION_CNT >= 3
  BY CliAssumption
<1>2. v = "f" \/ v = "w" \/ v = "e" \/ v = "p" \/ v = "i"
  BY DEF VerbKeys
<1>3. QED
  BY <1>1, <1>2 DEF ArgMax, ArgMin

LEMMA KeysAre ==
  ASSUME prog \in {"ws63flash", "ws63fwpkg", "ws63sign"}, long_opts = LongOptions[prog]
  PROVE  /\ \A k \in DOMAIN long_opts : long_opts[k].key \in Words
         /\ DOMAIN long_opts \subseteq Nat
<1>1. CASE prog = "ws63flash"
  <2>1. long_opts = LongOptions.ws63flash
    BY <1>1
  <2>2. DOMAIN LongOptions.ws63flash = 1..8
    BY DEF LongOptions
  <2>3. \A k \in 1..8 : LongOptions.ws63flash[k].key \in {"f", "w", "e", "p", "b", "l", "v", "V"}
    BY DEF LongOptions
  <2>4. {"f", "w", "e", "p", "b", "l", "v", "V"} \subseteq Words
    BY DEF Words, VerbKeys
  <2>5. QED
    BY <2>1, <2>2, <2>3, <2>4
<1>2. CASE prog = "ws63fwpkg"
  <2>1. long_opts = LongOptions.ws63fwpkg
    BY <1>2
  <2>2. DOMAIN LongOptions.ws63fwpkg = 1..3
    BY DEF LongOptions
  <2>3. \A k \in 1..3 : LongOptions.ws63fwpkg[k].key \in {"i", "o", "V"}
    BY DEF LongOptions
  <2>4. {"i", "o", "V"} \subseteq Words
    BY DEF Words, VerbKeys
  <2>5. QED
    BY <2>1, <2>2, <2>3, <2>4
<1>3. CASE prog = "ws63sign"
  <2>1. long_opts = LongOptions.ws63sign
    BY <1>3
  <2>2. DOMAIN LongOptions.ws63sign = 1..2
    BY DEF LongOptions
  <2>3. \A k \in 1..2 : LongOptions.ws63sign[k].key \in {"o", "V"}
    BY DEF LongOptions
  <2>4. {"o", "V"} \subseteq Words
    BY DEF Words, VerbKeys
  <2>5. QED
    BY <2>1, <2>2, <2>3, <2>4
<1>4. QED
  BY <1>1, <1>2, <1>3

LEMMA LeastOf ==
  ASSUME NEW T, T \subseteq Nat, T # {}
  PROVE  \E x \in T : \A y \in T : x <= y
<1> DEFINE R == {ss \in Nat \X Nat : ss[1] < ss[2]}
<1>1. IsWellFoundedOn(R, Nat)
  BY NatLessThanWellFounded, Zenon DEF OpToRel
<1>2. \A x \in Nat, y \in Nat : y < x => <<y, x>> \in R
  OBVIOUS
<1> HIDE DEF R
<1>3. PICK x \in T : \A y \in T : ~ (<<y, x>> \in R)
  BY <1>1, WFMin
<1>4. ASSUME NEW y \in T PROVE x <= y
  <2>1. x \in Nat /\ y \in Nat /\ <<y, x>> \notin R
    BY <1>3
  <2>2. ~(y < x)
    BY <2>1, <1>2, Zenon
  <2>3. QED
    BY <2>1, <2>2
<1>5. QED
  BY <1>3, <1>4

LEMMA LastOfCalls ==
  ASSUME NEW S, NEW s \in Seq(S), NEW e \in S
  PROVE  Last(Append(s, e)) = e /\ Append(s, e) # s
<1>1. /\ Len(Append(s, e)) = Len(s) + 1 /\ Append(s, e)[Len(s) + 1] = e
      /\ Len(s) \in Nat
  OBVIOUS
<1>2. QED
  BY <1>1 DEF Last

LEMMA SeqOfMore ==
  ASSUME NEW S, NEW T, S \subseteq T, NEW s \in Seq(S)
  PROVE  s \in Seq(T)
<1>1. s = [i \in 1..Len(s) |-> s[i]] /\ Len(s) \in Nat
  OBVIOUS
<1>2. \A i \in 1..Len(s) : s[i] \in T
  OBVIOUS
<1>3. [i \in 1..Len(s) |-> s[i]] \in Seq(T)
  BY <1>1, <1>2
<1>4. QED
  BY <1>1, <1>3

LEMMA LeastIsIn ==
  ASSUME NEW T, T \subseteq Nat, T # {}
  PROVE  Min(T) \in T
BY LeastOf DEF Min

LEMMA LongOptionIsWord ==
  ASSUME prog \in {"ws63flash", "ws63fwpkg", "ws63sign"}, long_opts = LongOptions[prog],
         NEW name
  PROVE  LongOption(name) \in Words
<1> DEFINE exact == {k \in DOMAIN long_opts : long_opts[k].name = name}
           fits  == {k \in DOMAIN long_opts : IsPrefix(name, long_opts[k].name)}
           ambig == {k \in fits : long_opts[k].key # long_opts[Min(fits)].key}
<1>1. /\ \A k \in DOMAIN long_opts : long_opts[k].key \in Words
      /\ DOMAIN long_opts \subseteq Nat
  BY KeysAre
<1>2. exact # {} => long_opts[Min(exact)].key \in Words
  BY <1>1, LeastIsIn
<1>3. fits # {} => long_opts[Min(fits)].key \in Words
  BY <1>1, LeastIsIn
<1>4. "?" \in Words
  BY DEF Words
<1>5. LongOption(name) = IF exact # {} THEN long_opts[Min(exact)].key
                         ELSE IF fits # {} /\ ambig = {} THEN long_opts[Min(fits)].key
                         ELSE "?"
  BY DEF LongOption
<1>6. QED
  <2> HIDE DEF exact, fits, ambig
  <2> QED
    BY <1>2, <1>3, <1>4, <1>5

LEMMA SkipsTo ==
  ASSUME Walk, Lists, Skip
  PROVE  /\ optind' \in optind..Stop
         /\ \A j \in optind..(optind' - 1) : NONOPTION_P(argv[j])
         /\ optind' = Stop \/ ~NONOPTION_P(argv[optind'])
<1>1. optind \in 1..Stop /\ Stop \in Nat
  BY DEF Walk, Lists, Stop
<1> DEFINE T == {i \in optind..Stop : i = Stop \/ ~NONOPTION_P(argv[i])}
<1>2. T \subseteq Nat /\ Stop \in T
  BY <1>1
<1>3. PICK n \in T : \A y \in T : n <= y
  BY <1>2, LeastOf
<1>4. /\ n \in optind..Stop
      /\ \A j \in optind..(n - 1) : NONOPTION_P(argv[j])
      /\ n = Stop \/ ~NONOPTION_P(argv[n])
  <2>1. n \in optind..Stop /\ (n = Stop \/ ~NONOPTION_P(argv[n]))
    BY <1>3
  <2>2. ASSUME NEW j \in optind..(n - 1) PROVE NONOPTION_P(argv[j])
    <3>1. j \in optind..Stop /\ ~(n <= j)
      BY <2>1, <1>1
    <3>2. j \notin T
      BY <3>1, <1>3
    <3>3. QED
      BY <3>1, <3>2
  <2>3. QED
    BY <2>1, <2>2
<1>5. QED
  BY <1>4 DEF Skip

\* Two segments that do not meet change places: what lies in the list is the
\* same, and so is how much.
LEMMA SwapKeeps ==
  ASSUME NEW S, NEW s \in Seq(S), NEW a \in Nat, NEW b \in Nat, NEW len \in Nat,
         1 <= a, a + len <= b, b + len <= Len(s) + 1
  PROVE  /\ Swap(s, a, b, len) \in Seq(S)
         /\ Len(Swap(s, a, b, len)) = Len(s)
         /\ ToSet(Swap(s, a, b, len)) = ToSet(s)
<1> DEFINE w(i) == CASE i \in a..(a + len - 1) -> i + b - a
                     [] i \in b..(b + len - 1) -> i + a - b
                     [] OTHER -> i
           t == Swap(s, a, b, len)
<1>1. DOMAIN s = 1..Len(s) /\ Len(s) \in Nat
  OBVIOUS
<1>2. \A i \in 1..Len(s) : w(i) \in 1..Len(s) /\ w(w(i)) = i
  <2>1. ASSUME NEW i \in 1..Len(s), i \in a..(a + len - 1)
        PROVE  w(i) \in 1..Len(s) /\ w(w(i)) = i
    <3>1. w(i) = i + b - a /\ i + b - a \in b..(b + len - 1) /\ i + b - a \in 1..Len(s)
      BY <2>1, <1>1
    <3>2. i + b - a \notin a..(a + len - 1)
      BY <3>1
    <3>3. w(i + b - a) = (i + b - a) + a - b
      BY <3>1, <3>2
    <3>4. QED
      BY <3>1, <3>3, <2>1
  <2>2. ASSUME NEW i \in 1..Len(s), i \in b..(b + len - 1)
        PROVE  w(i) \in 1..Len(s) /\ w(w(i)) = i
    <3>1. i \notin a..(a + len - 1)
      BY <2>2
    <3>2. w(i) = i + a - b /\ i + a - b \in a..(a + len - 1) /\ i + a - b \in 1..Len(s)
      BY <2>2, <3>1, <1>1
    <3>3. w(i + a - b) = (i + a - b) + b - a
      <4> DEFINE j == i + a - b
      <4>1. j \in a..(a + len - 1)
        BY <3>2
      <4> HIDE DEF j
      <4>2. w(j) = j + b - a
        BY <4>1
      <4>3. QED
        BY <4>2 DEF j
    <3>4. (i + a - b) + b - a = i
      BY <2>2
    <3> HIDE DEF w
    <3>5. QED
      BY <3>2, <3>3, <3>4
  <2>3. ASSUME NEW i \in 1..Len(s), i \notin a..(a + len - 1), i \notin b..(b + len - 1)
        PROVE  w(i) \in 1..Len(s) /\ w(w(i)) = i
    <3>1. w(i) = i
      BY <2>3
    <3>2. QED
      BY <3>1
  <2>4. QED
    BY <2>1, <2>2, <2>3
<1>3. \A i \in 1..Len(s) :
        s[w(i)] = CASE i \in a..(a + len - 1) -> s[i + b - a]
                    [] i \in b..(b + len - 1) -> s[i + a - b]
                    [] OTHER -> s[i]
  <2>1. ASSUME NEW i \in 1..Len(s), i \in a..(a + len - 1)
        PROVE  s[w(i)] = CASE i \in a..(a + len - 1) -> s[i + b - a]
                    [] i \in b..(b + len - 1) -> s[i + a - b]
                    [] OTHER -> s[i]
    <3>1. i \notin b..(b + len - 1)
      BY <2>1
    <3>2. QED
      BY <2>1, <3>1
  <2>2. ASSUME NEW i \in 1..Len(s), i \notin a..(a + len - 1)
        PROVE  s[w(i)] = CASE i \in a..(a + len - 1) -> s[i + b - a]
                    [] i \in b..(b + len - 1) -> s[i + a - b]
                    [] OTHER -> s[i]
    BY <2>2
  <2>3. QED
    BY <2>1, <2>2
<1>4. t = [i \in 1..Len(s) |-> s[w(i)]]
  BY <1>1, <1>3 DEF Swap
<1> HIDE DEF w, t
<1>5. t \in Seq(S) /\ Len(t) = Len(s) /\ DOMAIN t = 1..Len(s)
  <2>1. \A i \in 1..Len(s) : s[w(i)] \in S
    BY <1>2
  <2>2. QED
    BY <1>4, <1>1, <2>1
<1>6. ToSet(t) = ToSet(s)
  <2>1. ASSUME NEW i \in 1..Len(s)
        PROVE  t[i] = s[w(i)] /\ t[w(i)] = s[i] /\ w(i) \in 1..Len(s)
    BY <1>2, <1>4
  <2>2. QED
    BY <2>1, <1>1, <1>5 DEF ToSet
<1>7. QED
  BY <1>5, <1>6 DEF t

(***************************************************************************)
(* The steps that only walk over the command line: parse_opt is not        *)
(* called, so what it has made of the calls stays as it is.                *)
(***************************************************************************)
Still == calls' = calls /\ scan \notin {"args", "done"} /\ scan' # "done"

\* What a list has in it, and how much, is what a type of Seq says.
LEMMA ListTypes ==
  ASSUME Lists, Walk
  PROVE  /\ Len(argv) \in Nat /\ DOMAIN argv = 1..Len(argv) /\ Stop = Len(argv) + 1
         /\ optind \in 1..Stop /\ first_nonopt \in 1..Stop /\ last_nonopt \in 1..Stop
         /\ bottom \in 1..Stop /\ top \in 1..Stop
         /\ 1..Stop \subseteq Nat
<1>1. Len(argv) \in Nat /\ DOMAIN argv = 1..Len(argv)
  BY DEF Lists
<1>2. Stop = Len(argv) + 1
  BY DEF Stop
<1>3. QED
  BY <1>1, <1>2 DEF Walk

LEMMA ExchangeWalks ==
  ASSUME Tables, Lists, Walk, Exchange
  PROVE  Lists' /\ Walk' /\ Still
<1> DEFINE len == IF top - last_nonopt > last_nonopt - bottom
                  THEN last_nonopt - bottom ELSE top - last_nonopt
<1>0. /\ Len(argv) \in Nat /\ DOMAIN argv = 1..Len(argv) /\ Stop = Len(argv) + 1
      /\ optind \in 1..Stop /\ first_nonopt \in 1..Stop /\ last_nonopt \in 1..Stop
      /\ bottom \in 1..Stop /\ top \in 1..Stop
      /\ 1..Stop \subseteq Nat
  BY ListTypes
<1>1. /\ scan = "exchange"
      /\ bottom <= last_nonopt /\ last_nonopt <= top /\ top <= optind
      /\ first_nonopt <= last_nonopt /\ last_nonopt <= optind
      /\ resume \in {"skip", "quoted"} /\ nextchar = <<>>
  BY DEF Walk, Exchange
<1>2. argv \in Seq(Elements)
  BY DEF Lists
<1>3. CASE top > last_nonopt /\ last_nonopt > bottom
  <2>1. /\ len \in Nat /\ 1 <= len /\ len <= last_nonopt - bottom
        /\ len <= top - last_nonopt
    BY <1>0, <1>1, <1>3
  <2>2. /\ UNCHANGED <<skipVars, scan, tableVars, optind, nextchar, resume, calls>>
        /\ \/ /\ top - last_nonopt > last_nonopt - bottom
              /\ argv' = Swap(argv, bottom, top - len, len)
              /\ top' = top - len /\ bottom' = bottom
           \/ /\ top - last_nonopt <= last_nonopt - bottom
              /\ argv' = Swap(argv, bottom, last_nonopt, len)
              /\ bottom' = bottom + len /\ top' = top
    BY <1>3 DEF Exchange, Shorten
  <2> HIDE DEF len
  <2>3. /\ argv' \in Seq(Elements) /\ Len(argv') = Len(argv)
        /\ ToSet(argv') = ToSet(argv)
    <3>1. CASE argv' = Swap(argv, bottom, top - len, len)
      <4>1. /\ bottom \in Nat /\ top - len \in Nat /\ 1 <= bottom
            /\ bottom + len <= top - len /\ (top - len) + len <= Len(argv) + 1
        BY <1>0, <1>1, <2>1
      <4>2. QED
        BY <3>1, <4>1, <1>2, <2>1, SwapKeeps
    <3>2. CASE argv' = Swap(argv, bottom, last_nonopt, len)
      <4>1. /\ bottom \in Nat /\ last_nonopt \in Nat /\ 1 <= bottom
            /\ bottom + len <= last_nonopt /\ last_nonopt + len <= Len(argv) + 1
        BY <1>0, <1>1, <2>1
      <4>2. QED
        BY <3>2, <4>1, <1>2, <2>1, SwapKeeps
    <3>3. QED
      BY <2>2, <3>1, <3>2
  <2>4. Stop' = Stop
    BY <2>3 DEF Stop
  <2>5. /\ bottom' \in 1..Stop /\ top' \in 1..Stop /\ bottom' <= last_nonopt
        /\ last_nonopt <= top' /\ top' <= optind /\ bottom' <= top'
    BY <1>0, <1>1, <2>1, <2>2
  <2>6. Lists'
    BY <2>2, <2>3 DEF Lists, tableVars
  <2>7. Walk'
    BY <2>2, <2>4, <2>5, <1>1 DEF Walk, skipVars
  <2>8. QED
    BY <2>2, <2>6, <2>7, <1>1 DEF Still
<1>4. CASE ~(top > last_nonopt /\ last_nonopt > bottom)
  <2>1. /\ first_nonopt' = first_nonopt + (optind - last_nonopt)
        /\ last_nonopt' = optind /\ scan' = resume
        /\ UNCHANGED <<argv, bottom, top, tableVars, optind, nextchar, resume, calls>>
    BY <1>4 DEF Exchange
  <2>2. Stop' = Stop
    BY <2>1 DEF Stop
  <2>3. first_nonopt' \in 1..Stop /\ first_nonopt' <= optind
    BY <1>0, <1>1, <2>1
  <2>4. Lists'
    BY <2>1 DEF Lists, tableVars
  <2>5. Walk'
    BY <2>1, <2>2, <2>3, <1>0, <1>1 DEF Walk, Scans
  <2>6. QED
    BY <2>1, <2>4, <2>5, <1>1 DEF Still
<1>5. QED
  BY <1>3, <1>4

\* Rearrange sets up the segments of exchange around what was skipped.
LEMMA RearrangeWalks ==
  ASSUME Lists, Walk, NEW n \in 1..Stop, NEW next \in {"skip", "quoted"},
         NEW empty \in BOOLEAN,
         scan \in {"getopt", "dashes"}, nextchar = <<>>,
         first_nonopt <= last_nonopt, last_nonopt <= n,
         Rearrange(n, empty, next), optind' = n,
         UNCHANGED <<tableVars, argv, nextchar, calls>>
  PROVE  Lists' /\ Walk' /\ Still
<1>0. /\ Len(argv) \in Nat /\ DOMAIN argv = 1..Len(argv) /\ Stop = Len(argv) + 1
      /\ optind \in 1..Stop /\ first_nonopt \in 1..Stop /\ last_nonopt \in 1..Stop
      /\ bottom \in 1..Stop /\ top \in 1..Stop
      /\ 1..Stop \subseteq Nat
  BY ListTypes
<1>1. Lists'
  BY DEF Lists, tableVars
<1>2. Stop' = Stop
  BY DEF Stop
<1>3. bottom <= top /\ resume \in {"skip", "quoted"}
  BY DEF Walk
<1>4. CASE first_nonopt # last_nonopt /\ last_nonopt # n
  <2>1. /\ scan' = "exchange" /\ resume' = next
        /\ bottom' = first_nonopt /\ top' = n
        /\ UNCHANGED skipVars
    BY <1>4 DEF Rearrange
  <2>2. Walk'
    BY <2>1, <1>0, <1>2, <1>4 DEF Walk, Scans, skipVars
  <2>3. QED
    BY <1>1, <2>1, <2>2 DEF Still
<1>5. CASE first_nonopt = last_nonopt \/ last_nonopt = n
  <2>1. /\ scan' = next
        /\ first_nonopt' = n \/ first_nonopt' = first_nonopt
        /\ UNCHANGED <<last_nonopt, swapVars>>
    BY <1>5 DEF Rearrange
  <2>2. Walk'
    BY <2>1, <1>0, <1>2, <1>3, <1>5 DEF Walk, Scans, swapVars
  <2>3. QED
    BY <1>1, <2>1, <2>2 DEF Still
<1>6. QED
  BY <1>4, <1>5

LEMMA AdvanceWalks ==
  ASSUME Tables, Lists, Walk, Advance
  PROVE  Lists' /\ Walk' /\ Still
<1>0. /\ optind \in 1..Stop /\ optind \in Nat
      /\ first_nonopt \in Nat /\ last_nonopt \in Nat
  BY ListTypes
<1>1. /\ scan = "getopt" /\ nextchar = <<>>
      /\ UNCHANGED <<tableVars, argv, optind, nextchar, calls>>
      /\ first_nonopt <= last_nonopt /\ last_nonopt <= optind
  BY DEF Advance, Walk
<1>2. CASE posix
  <2>1. scan' = "dashes" /\ UNCHANGED <<skipVars, swapVars>>
    BY <1>2 DEF Advance
  <2>2. Lists' /\ Stop' = Stop
    BY <1>1 DEF Lists, tableVars, Stop
  <2>3. Walk'
    BY <2>1, <2>2, <1>1 DEF Walk, Scans, skipVars, swapVars
  <2>4. QED
    BY <1>1, <2>1, <2>2, <2>3 DEF Still
<1>3. CASE ~posix
  <2> DEFINE empty == last_nonopt # optind
  <2>1. Rearrange(optind, empty, "skip")
    BY <1>3 DEF Advance
  <2>2. empty \in BOOLEAN
    OBVIOUS
  <2> HIDE DEF empty
  <2>3. QED
    BY <1>0, <1>1, <2>1, <2>2, RearrangeWalks
<1>4. QED
  BY <1>2, <1>3

LEMMA SkipWalks ==
  ASSUME Tables, Lists, Walk, Skip
  PROVE  Lists' /\ Walk' /\ Still
<1>0. /\ Len(argv) \in Nat /\ DOMAIN argv = 1..Len(argv) /\ Stop = Len(argv) + 1
      /\ optind \in 1..Stop /\ first_nonopt \in 1..Stop /\ last_nonopt \in 1..Stop
      /\ bottom \in 1..Stop /\ top \in 1..Stop
      /\ 1..Stop \subseteq Nat
  BY ListTypes
<1>1. /\ scan = "skip" /\ last_nonopt' = optind' /\ scan' = "dashes"
      /\ UNCHANGED <<tableVars, argv, first_nonopt, nextchar, swapVars, calls>>
  BY DEF Skip
<1>2. optind' \in optind..Stop
  BY SkipsTo
<1>3. Lists' /\ Stop' = Stop
  BY <1>1 DEF Lists, tableVars, Stop
<1>4. /\ bottom <= top /\ first_nonopt <= optind /\ nextchar = <<>>
      /\ resume \in {"skip", "quoted"}
  BY <1>1 DEF Walk
<1>5. optind' \in 1..Stop /\ first_nonopt <= optind'
  BY <1>0, <1>2, <1>4
<1>6. Walk'
  BY <1>0, <1>1, <1>3, <1>4, <1>5 DEF Walk, Scans, swapVars
<1>7. QED
  BY <1>1, <1>3, <1>6 DEF Still

LEMMA FindDashesWalks ==
  ASSUME Tables, Lists, Walk, FindDashes
  PROVE  Lists' /\ Walk' /\ Still
<1>0. /\ Len(argv) \in Nat /\ DOMAIN argv = 1..Len(argv) /\ Stop = Len(argv) + 1
      /\ optind \in 1..Stop /\ first_nonopt \in 1..Stop /\ last_nonopt \in 1..Stop
      /\ bottom \in 1..Stop /\ top \in 1..Stop
      /\ 1..Stop \subseteq Nat
  BY ListTypes
<1>1. /\ scan = "dashes" /\ nextchar = <<>>
      /\ UNCHANGED <<tableVars, argv, nextchar, calls>>
      /\ first_nonopt <= last_nonopt /\ last_nonopt <= optind
  BY DEF FindDashes, Walk
<1>2. CASE optind < Stop /\ Dashes(argv[optind])
  <2> DEFINE empty == first_nonopt = last_nonopt
             n == optind + 1
  <2>1. optind' = n /\ Rearrange(n, empty, "quoted")
    BY <1>2 DEF FindDashes
  <2>2. empty \in BOOLEAN /\ n \in 1..Stop /\ last_nonopt <= n
    BY <1>0, <1>1, <1>2
  <2> HIDE DEF empty, n
  <2>3. QED
    BY <1>1, <2>1, <2>2, RearrangeWalks
<1>3. CASE ~(optind < Stop /\ Dashes(argv[optind]))
  <2>1. scan' = "take" /\ UNCHANGED <<optind, skipVars, swapVars>>
    BY <1>3 DEF FindDashes
  <2>2. Lists' /\ Stop' = Stop
    BY <1>1 DEF Lists, tableVars, Stop
  <2>3. Walk'
    BY <2>1, <2>2, <1>1 DEF Walk, Scans, skipVars, swapVars
  <2>4. QED
    BY <1>1, <2>1, <2>2, <2>3 DEF Still
<1>4. QED
  BY <1>2, <1>3

LEMMA QuotedWalks ==
  ASSUME Tables, Lists, Walk, Quoted
  PROVE  Lists' /\ Walk' /\ Still
<1>0. /\ Len(argv) \in Nat /\ DOMAIN argv = 1..Len(argv) /\ Stop = Len(argv) + 1
      /\ optind \in 1..Stop /\ first_nonopt \in 1..Stop /\ last_nonopt \in 1..Stop
      /\ bottom \in 1..Stop /\ top \in 1..Stop
      /\ 1..Stop \subseteq Nat
  BY ListTypes
<1>1. /\ scan = "quoted" /\ last_nonopt' = Stop /\ optind' = Stop /\ scan' = "take"
      /\ UNCHANGED <<tableVars, argv, first_nonopt, nextchar, swapVars, calls>>
  BY DEF Quoted
<1>2. Lists' /\ Stop' = Stop
  BY <1>1 DEF Lists, tableVars, Stop
<1>3. bottom <= top /\ nextchar = <<>> /\ resume \in {"skip", "quoted"}
  BY <1>1 DEF Walk
<1>4. Stop \in 1..Stop /\ first_nonopt <= Stop
  BY <1>0
<1>5. Walk'
  BY <1>0, <1>1, <1>2, <1>3, <1>4 DEF Walk, Scans, swapVars
<1>6. QED
  BY <1>1, <1>2, <1>5 DEF Still

LEMMA TakeWalks ==
  ASSUME Tables, Lists, Walk, Take
  PROVE  Lists' /\ Walk' /\ Still
<1>0. /\ Len(argv) \in Nat /\ DOMAIN argv = 1..Len(argv) /\ Stop = Len(argv) + 1
      /\ optind \in 1..Stop /\ first_nonopt \in 1..Stop /\ last_nonopt \in 1..Stop
      /\ bottom \in 1..Stop /\ top \in 1..Stop
      /\ 1..Stop \subseteq Nat
  BY ListTypes
<1>1. /\ scan = "take" /\ nextchar = <<>> /\ bottom <= top
      /\ resume \in {"skip", "quoted"}
      /\ first_nonopt <= last_nonopt /\ last_nonopt <= optind
      /\ UNCHANGED <<tableVars, argv, skipVars, swapVars, calls>>
  BY DEF Take, Walk
<1>2. Stop' = Stop
  BY <1>1 DEF Stop
<1>3. CASE scan' = "args" /\ nextchar' = nextchar
           /\ (optind' = first_nonopt \/ optind' = optind)
  <2>1. Lists'
    BY <1>1, <1>3 DEF Lists, tableVars
  <2>2. optind' \in 1..Stop /\ first_nonopt <= optind'
    BY <1>0, <1>1, <1>3
  <2>3. Walk'
    BY <1>0, <1>1, <1>2, <1>3, <2>2 DEF Walk, Scans, skipVars, swapVars
  <2>4. QED
    BY <1>1, <1>3, <2>1, <2>3 DEF Still
<1>4. CASE /\ optind < Stop /\ scan' = "getopt" /\ optind' = optind
           /\ nextchar' = IF argv[optind].name = <<>> THEN argv[optind].keys
                          ELSE <<LongOption(argv[optind].name)>>
  <2>1. argv[optind] \in Elements
    BY <1>0, <1>4 DEF Lists
  <2>2. argv[optind].keys \in Seq(Words)
    <3>1. argv[optind].keys \in Seq(STRING)
      BY <2>1 DEF Elements, Texts
    <3>2. STRING \subseteq Words
      BY DEF Words
    <3>3. QED
      BY <3>1, <3>2, SeqOfMore
  <2>3. LongOption(argv[optind].name) \in Words
    <3>1. prog \in {"ws63flash", "ws63fwpkg", "ws63sign"} /\ long_opts = LongOptions[prog]
      BY CliAssumption DEF Tables
    <3>2. QED
      BY <3>1, LongOptionIsWord
  <2>4. nextchar' \in Seq(Words)
    BY <1>4, <2>2, <2>3
  <2>5. Lists'
    BY <1>1, <2>4 DEF Lists, tableVars
  <2>6. Walk'
    BY <1>0, <1>1, <1>2, <1>4 DEF Walk, Scans, skipVars, swapVars
  <2>7. QED
    BY <1>1, <1>4, <2>5, <2>6 DEF Still
<1>5. QED
  BY <1>3, <1>4 DEF Take

\* Every element of the command line is made of words.
LEMMA ElementWords ==
  ASSUME Lists
  PROVE  \A i \in 1..Len(argv) : argv[i].val \in Words /\ argv[i].text \in Words
<1>1. \A i \in 1..Len(argv) : argv[i] \in Elements
  BY DEF Lists
<1>2. \A e \in Elements : e.val \in STRING /\ e.text \in STRING
  BY DEF Elements, Texts
<1>3. STRING \subseteq Words
  BY DEF Words
<1>4. QED
  BY <1>1, <1>2, <1>3

LEMMA CallKeeps ==
  ASSUME Lists, NEW c \in Words, NEW v \in Words, Call(c, v)
  PROVE  calls' \in Seq(Words \X Words)
<1> DEFINE W == Words \X Words
           e == <<c, v>>
<1>1. calls \in Seq(W) /\ e \in W /\ calls' = Append(calls, e)
  BY DEF Lists, Call
<1> HIDE DEF W, e
<1>2. calls' \in Seq(W)
  BY <1>1
<1>3. QED
  BY <1>2 DEF W

\* An option: an error is not a call, and a call is one for a key of the table.
LEMMA OptionWalks ==
  ASSUME Tables, Lists, Walk, Option
  PROVE  /\ Lists' /\ Walk'
         /\ scan = "getopt"
         /\ \/ Still
            \/ scan' = "getopt" /\ \E c \in known \cap Words, v \in Words : Call(c, v)
<1> DEFINE c == Head(nextchar)
           attached == argv[optind].val
           after == IF Len(nextchar) = 1 THEN optind + 1 ELSE optind
<1>0. /\ Len(argv) \in Nat /\ DOMAIN argv = 1..Len(argv) /\ Stop = Len(argv) + 1
      /\ optind \in 1..Stop /\ first_nonopt \in 1..Stop /\ last_nonopt \in 1..Stop
      /\ bottom \in 1..Stop /\ top \in 1..Stop
      /\ 1..Stop \subseteq Nat
  BY ListTypes
<1>1. /\ scan = "getopt" /\ nextchar # <<>> /\ optind < Stop /\ bottom <= top
      /\ resume \in {"skip", "quoted"} /\ first_nonopt <= optind
      /\ first_nonopt <= last_nonopt /\ last_nonopt <= optind
      /\ UNCHANGED <<tableVars, argv, skipVars, swapVars>>
  BY DEF Option, Walk
<1>2. /\ c \in Words /\ Tail(nextchar) \in Seq(Words) /\ "" \in Words
      /\ Len(nextchar) # 1 \/ Tail(nextchar) = <<>>
      /\ <<>> \in Seq(Words)
  <2>1. nextchar \in Seq(Words) /\ nextchar # <<>>
    BY <1>1 DEF Lists
  <2>2. "" \in Words
    BY DEF Words
  <2>3. Head(nextchar) \in Words /\ Tail(nextchar) \in Seq(Words)
    BY <2>1
  <2>4. Len(nextchar) # 1 \/ Tail(nextchar) = <<>>
    BY <2>1
  <2>5. <<>> \in Seq(Words)
    OBVIOUS
  <2>6. QED
    BY <2>2, <2>3, <2>4, <2>5
<1>3. \A i \in 1..Len(argv) : argv[i].val \in Words /\ argv[i].text \in Words
  BY ElementWords
<1>4. attached \in Words /\ (after < Stop => argv[after].text \in Words)
  BY <1>0, <1>1, <1>3
<1>5. Stop' = Stop
  BY <1>1 DEF Stop
<1>6. \/ /\ scan' = "error" /\ UNCHANGED <<optind, nextchar, calls>>
      \/ /\ c \in known /\ Call(c, "") /\ optind' = after
         /\ nextchar' = Tail(nextchar) /\ scan' = scan
      \/ /\ c \in known /\ Call(c, attached) /\ optind' = after
         /\ nextchar' = <<>> /\ scan' = scan
      \/ /\ c \in known /\ after < Stop /\ Call(c, argv[after].text)
         /\ optind' = after + 1 /\ nextchar' = <<>> /\ scan' = scan
  <2>1. needs \subseteq known
    BY TablesAre, CliAssumption DEF Tables
  <2>2. QED
    BY <2>1 DEF Option
<1> HIDE DEF c, attached, after
<1>7. after = optind \/ after = optind + 1
  BY DEF after
<1>8. Len(nextchar) # 1 => after = optind
  BY DEF after
<1>9. CASE scan' = "error" /\ UNCHANGED <<optind, nextchar, calls>>
  <2>1. Lists'
    BY <1>1, <1>9 DEF Lists, tableVars
  <2>2. Walk'
    BY <1>0, <1>1, <1>5, <1>9 DEF Walk, Scans, skipVars, swapVars
  <2>3. QED
    BY <1>1, <1>9, <2>1, <2>2 DEF Still
<1>10. ASSUME NEW v \in Words, c \in known, Call(c, v), scan' = "getopt",
              optind' \in 1..Stop, optind <= optind', nextchar' \in Seq(Words),
              nextchar' # <<>> => optind' < Stop
       PROVE  /\ Lists' /\ Walk'
              /\ \E k \in known \cap Words, w \in Words : Call(k, w)
  <2>1. calls' \in Seq(Words \X Words)
    BY <1>2, <1>10, CallKeeps
  <2>2. Lists'
    BY <1>1, <1>10, <2>1 DEF Lists, tableVars
  <2>3. first_nonopt <= optind' /\ last_nonopt <= optind'
    BY <1>0, <1>1, <1>10
  <2>4. Walk'
    BY <1>0, <1>1, <1>5, <1>10, <2>3 DEF Walk, Scans, skipVars, swapVars
  <2>5. QED
    BY <1>2, <1>10, <2>2, <2>4
<1>11. CASE /\ c \in known /\ Call(c, "") /\ optind' = after
            /\ nextchar' = Tail(nextchar) /\ scan' = scan
  <2>1. /\ optind' \in 1..Stop /\ optind <= optind'
        /\ nextchar' # <<>> => optind' < Stop
    <3>1. optind' \in 1..Stop /\ optind <= optind'
      <4>1. optind' = after
        BY <1>11
      <4>2. QED
        BY <1>0, <1>1, <1>7, <4>1
    <3>2. nextchar' # <<>> => optind' = optind
      BY <1>2, <1>8, <1>11
    <3>3. QED
      BY <1>1, <3>1, <3>2
  <2>2. QED
    BY <1>1, <1>2, <1>10, <1>11, <2>1
<1>12. CASE /\ c \in known /\ Call(c, attached) /\ optind' = after
            /\ nextchar' = <<>> /\ scan' = scan
  <2>1. optind' \in 1..Stop /\ optind <= optind'
    BY <1>0, <1>1, <1>7, <1>12
  <2>2. QED
    BY <1>1, <1>2, <1>4, <1>10, <1>12, <2>1
<1>13. CASE /\ c \in known /\ after < Stop /\ Call(c, argv[after].text)
            /\ optind' = after + 1 /\ nextchar' = <<>> /\ scan' = scan
  <2>1. optind' \in 1..Stop /\ optind <= optind'
    BY <1>0, <1>1, <1>7, <1>13
  <2>2. QED
    BY <1>1, <1>2, <1>4, <1>10, <1>13, <2>1
<1>14. QED
  BY <1>1, <1>6, <1>9, <1>11, <1>10, <1>12, <1>13

\* An argument, and the end of them.
LEMMA ArgWalks ==
  ASSUME Tables, Lists, Walk, Arg
  PROVE  /\ Lists' /\ Walk' /\ scan = "args" /\ scan' = "args"
         /\ \E v \in Words : Call("arg", v)
<1>0. /\ Len(argv) \in Nat /\ DOMAIN argv = 1..Len(argv) /\ Stop = Len(argv) + 1
      /\ optind \in 1..Stop /\ first_nonopt \in 1..Stop /\ last_nonopt \in 1..Stop
      /\ bottom \in 1..Stop /\ top \in 1..Stop
      /\ 1..Stop \subseteq Nat
  BY ListTypes
<1>1. /\ scan = "args" /\ nextchar = <<>> /\ optind < Stop /\ bottom <= top
      /\ resume \in {"skip", "quoted"} /\ first_nonopt <= optind
      /\ first_nonopt <= last_nonopt
      /\ optind' = optind + 1 /\ Call("arg", argv[optind].text)
      /\ UNCHANGED <<tableVars, argv, skipVars, nextchar, scan, swapVars>>
  BY DEF Arg, Walk
<1>2. "arg" \in Words /\ argv[optind].text \in Words
  <2>1. "arg" \in Words
    BY DEF Words
  <2>2. optind \in 1..Len(argv)
    BY <1>0, <1>1
  <2>3. QED
    BY <2>1, <2>2, ElementWords
<1>3. calls' \in Seq(Words \X Words)
  BY <1>1, <1>2, CallKeeps
<1>4. Lists' /\ Stop' = Stop
  BY <1>1, <1>3 DEF Lists, tableVars, Stop
<1>5. Walk'
  BY <1>0, <1>1, <1>4 DEF Walk, skipVars, swapVars
<1>6. QED
  BY <1>1, <1>2, <1>4, <1>5

LEMMA EndWalks ==
  ASSUME Tables, Lists, Walk, End
  PROVE  /\ Lists' /\ Walk' /\ scan = "args" /\ scan' = "done" /\ Call("end", "")
<1>1. /\ scan = "args" /\ nextchar = <<>> /\ scan' = "done" /\ Call("end", "")
      /\ UNCHANGED <<tableVars, argv, optind, skipVars, nextchar, swapVars>>
  BY DEF End, Walk
<1>2. "end" \in Words /\ "" \in Words
  BY DEF Words
<1>3. calls' \in Seq(Words \X Words)
  BY <1>1, <1>2, CallKeeps
<1>4. Lists' /\ Stop' = Stop
  BY <1>1, <1>3 DEF Lists, tableVars, Stop
<1>5. Walk'
  BY <1>1, <1>4 DEF Walk, Scans, skipVars, swapVars
<1>6. QED
  BY <1>1, <1>4, <1>5

(***************************************************************************)
(* What parse_opt makes of a call.  An option comes before the first       *)
(* argument, so a verb finds none that it could not take.                  *)
(***************************************************************************)
LEMMA StillParsed ==
  ASSUME Parsed, Still, result = "parsing",
         UNCHANGED <<arguments, errno, result, prog, posix>>
  PROVE  Parsed'
<1>1. arguments.args = <<>>
  BY DEF Parsed, Still
<1>2. QED
  BY <1>1 DEF Parsed, Still

\* An option that is not one of argp's leaves the arguments alone.
LEMMA OptionAccepts ==
  ASSUME Tables, Parsed, NEW c \in known, NEW v \in Words, ParseOpt(c, v),
         result = "parsing"
  PROVE  /\ arguments' \in Arguments /\ errno' \in BOOLEAN
         /\ result' \in {"parsing", "usage", "failure"}
         /\ arguments'.args = arguments.args
<1>1. c \notin {"arg", "end"} /\ prog \in {"ws63flash", "ws63fwpkg", "ws63sign"}
  BY TablesAre, CliAssumption DEF Tables
<1>2. arguments \in Arguments /\ errno \in BOOLEAN
  BY DEF Parsed
<1>3. \A new : Accept(new) =>
        arguments' = new /\ errno' = errno /\ result' = "parsing"
  BY DEF Accept
<1>4. \A how \in {"usage", "failure"} : Exit(how) =>
        arguments' = arguments /\ errno' = errno /\ result' \in {"usage", "failure"}
  BY DEF Exit
<1>5. ASSUME c \in VerbKeys, SetVerb(c)
      PROVE  /\ arguments' \in Arguments /\ errno' \in BOOLEAN
             /\ result' \in {"parsing", "usage", "failure"}
             /\ arguments'.args = arguments.args
  <2>1. CASE Exit("usage")
    BY <2>1, <1>2, <1>4
  <2>2. CASE Accept([arguments EXCEPT !.verb = c])
    BY <2>2, <1>2, <1>3, <1>5 DEF Arguments
  <2>3. QED
    BY <1>5, <2>1, <2>2 DEF SetVerb
<1>6. CASE prog = "ws63flash" /\ FlashOption(c, v)
  <2>1. CASE c \in VerbKeys /\ SetVerb(c)
    BY <2>1, <1>5
  <2>2. CASE Accept([arguments EXCEPT !.late_baud = TRUE])
    <3> DEFINE new == [arguments EXCEPT !.late_baud = TRUE]
    <3>1. new \in Arguments /\ new.args = arguments.args
      BY <1>2 DEF Arguments
    <3>2. arguments' = new /\ errno' = errno /\ result' = "parsing"
      BY <2>2, <1>3, Zenon
    <3>3. QED
      BY <1>2, <3>1, <3>2
  <2>3. CASE Accept([arguments EXCEPT !.baud = v])
    BY <2>3, <1>2, <1>3 DEF Arguments
  <2>4. CASE Exit("failure")
    BY <2>4, <1>2, <1>4
  <2>5. CASE Accept(arguments)
    BY <2>5, <1>2, <1>3
  <2>6. QED
    BY <1>6, <2>1, <2>2, <2>3, <2>4, <2>5 DEF FlashOption
<1>7. CASE prog = "ws63fwpkg" /\ FwpkgOption(c, v)
  <2>1. CASE c \in VerbKeys /\ SetVerb(c)
    BY <2>1, <1>5
  <2>2. ASSUME NEW fd \in IF v = "-" THEN {arguments.out} ELSE {v, "none"},
               Accept([arguments EXCEPT !.out = fd])
        PROVE  /\ arguments' \in Arguments /\ errno' \in BOOLEAN
               /\ result' \in {"parsing", "usage", "failure"}
               /\ arguments'.args = arguments.args
    <3>1. fd \in Words
      BY <1>2 DEF Arguments, Words
    <3>2. QED
      BY <2>2, <3>1, <1>2, <1>3 DEF Arguments
  <2>3. QED
    BY <1>7, <2>1, <2>2 DEF FwpkgOption
<1>8. CASE prog = "ws63sign" /\ SignOption(c, v)
  BY <1>1, <1>2, <1>8 DEF SignOption
<1>9. ~TakeArgument(c, v)
  BY <1>1 DEF TakeArgument
<1>10. QED
  BY <1>6, <1>7, <1>8, <1>9 DEF ParseOpt

LEMMA OptionParsed ==
  ASSUME Tables, Parsed, NEW c \in known, NEW v \in Words, ParseOpt(c, v),
         result = "parsing", scan = "getopt", scan' = "getopt",
         UNCHANGED <<prog, posix>>
  PROVE  Parsed'
<1>1. /\ arguments' \in Arguments /\ errno' \in BOOLEAN
      /\ result' \in {"parsing", "usage", "failure"}
      /\ arguments'.args = arguments.args
  BY OptionAccepts
<1>2. arguments'.args = <<>> /\ posix \in BOOLEAN
  BY <1>1 DEF Parsed
<1>3. arguments'.verb # "none" => Len(arguments'.args) <= ArgMax[arguments'.verb]
  <2>1. ASSUME arguments'.verb # "none" PROVE arguments'.verb \in VerbKeys
    BY <1>1, <2>1 DEF Arguments
  <2>2. QED
    BY <1>2, <2>1, LimitsAre
<1>4. QED
  <2> DEFINE new == arguments'
  <2>1. ArgMax' = ArgMax /\ ArgMin' = ArgMin
    BY DEF ArgMax, ArgMin
  <2>2. QED
    BY <1>1, <1>2, <1>3, <2>1 DEF Parsed

LEMMA ArgParsed ==
  ASSUME Tables, Parsed, NEW v \in Words, ParseOpt("arg", v),
         result = "parsing", scan = "args", scan' = "args",
         UNCHANGED <<prog, posix>>
  PROVE  Parsed' /\ arguments'.verb = arguments.verb
<1>1. arguments \in Arguments /\ errno \in BOOLEAN /\ posix \in BOOLEAN
  BY DEF Parsed
<1>2. prog \in {"ws63flash", "ws63fwpkg", "ws63sign"}
  BY CliAssumption DEF Tables
<1>3. CASE prog = "ws63sign"
  <2>1. SignOption("arg", v)
    BY <1>3 DEF ParseOpt
  <2>2. /\ arguments' = arguments \/ arguments' = [arguments EXCEPT !.inf = v]
        /\ errno' \in BOOLEAN /\ result' \in {"parsing", "usage"}
    BY <1>1, <2>1 DEF SignOption, Accept, Exit
  <2>3. arguments' \in Arguments /\ arguments'.verb = arguments.verb
    BY <1>1, <2>2 DEF Arguments
  <2>4. QED
    BY <1>1, <1>3, <2>2, <2>3 DEF Parsed
<1>4. CASE prog # "ws63sign"
  <2> DEFINE n == Len(arguments.args)
  <2>1. TakeArgument("arg", v)
    BY <1>4 DEF ParseOpt, FlashOption, FwpkgOption, VerbKeys
  <2>2. CASE Exit("usage")
    BY <2>2, <1>1, <1>4 DEF Parsed, Exit
  <2>3. CASE /\ ~(arguments.verb # "none" /\ n >= ArgMax[arguments.verb])
             /\ Accept([arguments EXCEPT !.args = Append(@, v)])
    <3>1. arguments' = [arguments EXCEPT !.args = Append(@, v)] /\ errno' = errno
          /\ result' = "parsing"
      BY <2>3 DEF Accept
    <3>2. arguments' \in Arguments /\ arguments'.verb = arguments.verb
          /\ Len(arguments'.args) = n + 1 /\ n \in Nat
      BY <1>1, <3>1 DEF Arguments
    <3>3. arguments.verb # "none" => Len(arguments'.args) <= ArgMax[arguments.verb]
      <4>1. ASSUME arguments.verb # "none" PROVE arguments.verb \in VerbKeys
        BY <1>1, <4>1 DEF Arguments
      <4>2. QED
        BY <2>3, <3>2, <4>1, LimitsAre
    <3>4. QED
      BY <1>1, <1>4, <3>1, <3>2, <3>3 DEF Parsed
  <2>4. QED
    BY <2>1, <2>2, <2>3 DEF TakeArgument
<1>5. QED
  BY <1>3, <1>4

LEMMA EndParsed ==
  ASSUME Tables, Parsed, NEW v \in Words, ParseOpt("end", v),
         result = "parsing", scan = "args", scan' = "done",
         UNCHANGED <<prog, posix>>
  PROVE  Parsed' /\ arguments' = arguments
<1>1. arguments \in Arguments /\ errno \in BOOLEAN /\ posix \in BOOLEAN
  BY DEF Parsed
<1>2. CASE prog = "ws63sign"
  <2>1. SignOption("end", v)
    BY <1>2 DEF ParseOpt
  <2>2. arguments' = arguments /\ errno' \in BOOLEAN /\ result' \in {"parsing", "usage"}
    BY <1>1, <2>1 DEF SignOption
  <2>3. QED
    BY <1>1, <1>2, <2>2 DEF Parsed
<1>3. CASE prog # "ws63sign"
  <2> DEFINE n == Len(arguments.args)
  <2>1. TakeArgument("end", v)
    BY <1>3 DEF ParseOpt, FlashOption, FwpkgOption, VerbKeys
  <2>2. CASE Exit("usage")
    BY <2>2, <1>1, <1>3 DEF Parsed, Exit
  <2>3. CASE /\ ~(arguments.verb # "none" /\ n < ArgMin[arguments.verb])
             /\ Accept(arguments)
    <3>1. UNCHANGED <<arguments, errno, result>>
      BY <2>3 DEF Accept
    <3>2. arguments.verb # "none" => n >= ArgMin[arguments.verb]
      <4>1. ASSUME arguments.verb # "none" PROVE arguments.verb \in VerbKeys
        BY <1>1, <4>1 DEF Arguments
      <4>2. n \in Nat
        BY <1>1 DEF Arguments
      <4>3. QED
        BY <2>3, <4>1, <4>2, LimitsAre
    <3>3. QED
      BY <1>1, <1>3, <3>1, <3>2 DEF Parsed
  <2>4. QED
    BY <2>1, <2>2, <2>3 DEF TakeArgument
<1>4. QED
  BY <1>2, <1>3

-----------------------------------------------------------------------------
(* The invariant *)

LEMMA InitEstablishes ==
  ASSUME Init PROVE CliInv
<1>1. Tables
  BY DEF Init, Tables
<1>2. typed \in Seq(Elements)
  <2>1. PICK n \in 0..MaxLen[prog] : typed \in [1..n -> Vocabulary[prog]]
    BY DEF Init
  <2>2. prog \in Programs /\ MaxLen[prog] \in Nat /\ Vocabulary[prog] \subseteq Elements
    BY CliAssumption DEF Init
  <2>3. n \in Nat /\ typed \in [1..n -> Elements]
    BY <2>1, <2>2
  <2>4. QED
    BY <2>3
<1>3. Lists
  <2>1. argv = typed /\ nextchar = <<>> /\ calls = <<>>
    BY DEF Init, GetoptInit
  <2>2. QED
    BY <1>2, <2>1 DEF Lists
<1>4. Walk
  <2>1. Len(argv) \in Nat
    BY <1>3 DEF Lists
  <2>2. QED
    BY <2>1 DEF Init, GetoptInit, Walk, Scans, Stop
<1>5. Parsed
  <2>1. arguments = [verb |-> "none", args |-> <<>>, baud |-> "115200",
                     late_baud |-> FALSE, inf |-> "none",
                     out |-> IF prog = "ws63sign" THEN "none" ELSE "stdout"]
    BY DEF Init
  <2>2. {"none", "115200", "stdout"} \subseteq Words
    BY DEF Words
  <2>3. arguments \in Arguments /\ arguments.args = <<>> /\ arguments.verb = "none"
    BY <2>1, <2>2 DEF Arguments
  <2>4. errno \in BOOLEAN /\ posix \in BOOLEAN /\ result = "parsing"
    BY DEF Init
  <2>5. QED
    BY <2>3, <2>4 DEF Parsed
<1>6. QED
  BY <1>1, <1>3, <1>4, <1>5 DEF CliInv

\* A call of getopt is handed to parse_opt.
LEMMA CallIsParsed ==
  ASSUME Lists, Parse, NEW c \in Words, NEW v \in Words, Call(c, v)
  PROVE  ParseOpt(c, v)
<1> DEFINE W == Words \X Words
           e == <<c, v>>
<1>1. calls \in Seq(W) /\ e \in W /\ calls' = Append(calls, e)
  BY DEF Lists, Call
<1> HIDE DEF W, e
<1>2. Last(calls') = e /\ calls' # calls
  BY <1>1, LastOfCalls
<1>3. ParseOpt(e[1], e[2])
  BY <1>2 DEF Parse
<1>4. e[1] = c /\ e[2] = v
  BY DEF e
<1>5. QED
  BY <1>3, <1>4

VerbStays == arguments.args # <<>> => arguments'.verb = arguments.verb

LEMMA ParseKeeps ==
  ASSUME CliInv, Parse
  PROVE  CliInv' /\ VerbStays
<1>0. Tables /\ Lists /\ Walk /\ Parsed /\ result = "parsing" /\ prog' = prog
  BY DEF CliInv, Parse
<1>1. UNCHANGED tableVars
  BY DEF Parse, GetoptStep, Exchange, Advance, Skip, FindDashes, Quoted, Take, Option,
         Arg, End
<1>2. posix' = posix /\ Tables'
  BY <1>0, <1>1 DEF Tables, tableVars
<1>3. ASSUME Lists', Walk', Still PROVE CliInv' /\ VerbStays
  <2>1. UNCHANGED <<arguments, errno, result>>
    BY <1>3 DEF Parse, Still
  <2>2. Parsed'
    BY <1>0, <1>2, <1>3, <2>1, StillParsed
  <2>3. QED
    BY <1>2, <1>3, <2>1, <2>2 DEF CliInv, VerbStays
<1>4. CASE Exchange
  BY <1>0, <1>3, <1>4, ExchangeWalks
<1>5. CASE Advance
  BY <1>0, <1>3, <1>5, AdvanceWalks
<1>6. CASE Skip
  BY <1>0, <1>3, <1>6, SkipWalks
<1>7. CASE FindDashes
  BY <1>0, <1>3, <1>7, FindDashesWalks
<1>8. CASE Quoted
  BY <1>0, <1>3, <1>8, QuotedWalks
<1>9. CASE Take
  BY <1>0, <1>3, <1>9, TakeWalks
<1>10. CASE Option
  <2>1. Lists' /\ Walk' /\ scan = "getopt"
    BY <1>0, <1>10, OptionWalks
  <2>2. CASE Still
    BY <1>3, <2>1, <2>2
  <2>3. ASSUME scan' = "getopt", NEW c \in known \cap Words, NEW v \in Words, Call(c, v)
        PROVE  CliInv' /\ VerbStays
    <3>1. ParseOpt(c, v)
      BY <1>0, <2>3, CallIsParsed
    <3>2. Parsed'
      BY <1>0, <1>2, <2>1, <2>3, <3>1, OptionParsed
    <3>3. arguments.args = <<>>
      BY <1>0, <2>1 DEF Parsed
    <3>4. QED
      BY <1>2, <2>1, <3>2, <3>3 DEF CliInv, VerbStays
  <2>4. QED
    BY <1>0, <1>10, <2>2, <2>3, OptionWalks
<1>11. CASE Arg
  <2>1. Lists' /\ Walk' /\ scan = "args" /\ scan' = "args"
    BY <1>0, <1>11, ArgWalks
  <2>2. PICK v \in Words : Call("arg", v)
    BY <1>0, <1>11, ArgWalks
  <2>3. "arg" \in Words
    BY DEF Words
  <2>4. ParseOpt("arg", v)
    BY <1>0, <2>2, <2>3, CallIsParsed
  <2>5. Parsed' /\ arguments'.verb = arguments.verb
    BY <1>0, <1>2, <2>1, <2>4, ArgParsed
  <2>6. QED
    BY <1>2, <2>1, <2>5 DEF CliInv, VerbStays
<1>12. CASE End
  <2>1. Lists' /\ Walk' /\ scan = "args" /\ scan' = "done" /\ Call("end", "")
    BY <1>0, <1>12, EndWalks
  <2>2. "end" \in Words /\ "" \in Words
    BY DEF Words
  <2>3. ParseOpt("end", "")
    BY <1>0, <2>1, <2>2, CallIsParsed
  <2>4. Parsed' /\ arguments' = arguments
    BY <1>0, <1>2, <2>1, <2>2, <2>3, EndParsed
  <2>5. QED
    BY <1>2, <2>1, <2>4 DEF CliInv, VerbStays
<1>13. QED
  BY <1>4, <1>5, <1>6, <1>7, <1>8, <1>9, <1>10, <1>11, <1>12 DEF Parse, GetoptStep

\* What getopt has, nobody else touches.
LEMMA GetoptRests ==
  ASSUME Tables, Lists, Walk, UNCHANGED <<prog, getoptVars>>
  PROVE  Tables' /\ Lists' /\ Walk'
<1>1. UNCHANGED <<known, needs, long_opts, posix, typed, argv, optind, first_nonopt,
                  last_nonopt, nextchar, scan, resume, bottom, top, calls, prog>>
  BY DEF getoptVars, tableVars, skipVars, swapVars
<1>2. Stop' = Stop
  BY <1>1 DEF Stop
<1>3. QED
  BY <1>1, <1>2 DEF Tables, Lists, Walk

LEMMA NextKeeps ==
  ASSUME CliInv, [Next]_vars
  PROVE  CliInv' /\ [VerbStays]_vars
<1>0. Tables /\ Lists /\ Walk /\ Parsed
  BY DEF CliInv
<1>1. arguments \in Arguments /\ posix \in BOOLEAN
  BY <1>0 DEF Parsed
<1>2. CASE Parse
  BY <1>2, ParseKeeps
<1>3. CASE BadOption
  <2>1. /\ result' = "usage" /\ UNCHANGED <<prog, arguments, errno>>
        /\ UNCHANGED getoptVars /\ scan' = scan /\ scan = "error" /\ posix' = posix
    BY <1>3 DEF BadOption, Exit, getoptVars, tableVars
  <2>2. Parsed'
    BY <1>0, <2>1 DEF Parsed
  <2>3. QED
    BY <1>0, <2>1, <2>2, GetoptRests DEF CliInv, VerbStays
<1>4. CASE MainVerb
  <2>1. /\ result' = "failure" \/ (result' = "run" /\ arguments.verb # "none")
        /\ UNCHANGED <<prog, arguments, errno>> /\ result = "parsing"
        /\ UNCHANGED getoptVars /\ scan' = scan /\ scan = "done" /\ posix' = posix
    BY <1>4 DEF MainVerb, Exit, getoptVars, tableVars
  <2>2. Parsed'
    BY <1>0, <2>1 DEF Parsed
  <2>3. QED
    BY <1>0, <2>1, <2>2, GetoptRests DEF CliInv, VerbStays
<1>5. CASE MainSign
  <2>1. /\ result' \in {"failure", "run"} /\ prog' = prog /\ prog = "ws63sign"
        /\ \/ arguments' = arguments
           \/ arguments' = [arguments EXCEPT !.out = "a.signed"]
        /\ UNCHANGED getoptVars /\ scan' = scan /\ scan = "done" /\ posix' = posix
    BY <1>5 DEF MainSign, Exit, getoptVars, tableVars
  <2>2. errno' \in BOOLEAN
    BY <1>0, <1>5 DEF MainSign, Exit, Parsed
  <2>3. "a.signed" \in Words
    BY DEF Words
  <2>4. arguments' \in Arguments /\ arguments'.verb = arguments.verb
    BY <1>1, <2>1, <2>3 DEF Arguments
  <2>5. Parsed'
    BY <1>1, <2>1, <2>2, <2>4 DEF Parsed
  <2>6. QED
    BY <1>0, <2>1, <2>4, <2>5, GetoptRests DEF CliInv, VerbStays
<1>6. CASE UNCHANGED vars
  <2>1. UNCHANGED <<prog, getoptVars, arguments, errno, result>> /\ scan' = scan
        /\ posix' = posix
    BY <1>6 DEF vars, cliVars, getoptVars, tableVars
  <2>2. Parsed'
    BY <1>0, <2>1 DEF Parsed
  <2>3. QED
    BY <1>0, <1>6, <2>1, <2>2, GetoptRests DEF CliInv
<1>7. QED
  BY <1>2, <1>3, <1>4, <1>5, <1>6 DEF Next

LEMMA CliInvHolds == Spec => []CliInv
<1>1. Init => CliInv
  BY InitEstablishes
<1>2. CliInv /\ [Next]_vars => CliInv'
  BY NextKeeps
<1>3. QED
  BY <1>1, <1>2, PTL DEF Spec

(***************************************************************************)
(* Every variable has its type: the segments that exchange moves lie in    *)
(* argv, and however it moves them argv keeps its elements.                *)
(***************************************************************************)
THEOREM TypeCorrect == Spec => []TypeOK
<1>1. CliInv => TypeOK
  <2> SUFFICES ASSUME CliInv PROVE TypeOK
    OBVIOUS
  <2>1. Tables /\ Lists /\ Walk /\ Parsed
    BY DEF CliInv
  <2>2. arguments.verb \in {"none"} \cup VerbKeys
    BY <2>1 DEF Parsed, Arguments
  <2>3. {argv[i] : i \in DOMAIN argv} = {typed[i] : i \in DOMAIN typed}
    BY <2>1 DEF Lists, ToSet
  <2>4. QED
    BY <2>1, <2>2, <2>3 DEF TypeOK, Tables, Lists, Walk, Parsed, Scans
<1>2. QED
  BY <1>1, CliInvHolds, PTL

(***************************************************************************)
(* The limits on the number of arguments are applied to the verb that is   *)
(* known so far: getopt hands out no argument while there may be an option *)
(* left, whatever the command line, so the verb is the final one.          *)
(***************************************************************************)
THEOREM VerbIsFinal == Spec => VerbBeforeArgs
<1>1. CliInv /\ [Next]_vars => [arguments.args # <<>> => arguments'.verb = arguments.verb]_vars
  BY NextKeeps DEF VerbStays
<1>2. QED
  BY <1>1, CliInvHolds, PTL DEF Spec, VerbBeforeArgs

\* A verb gets a number of arguments it can use.
EnoughArgs ==
  prog # "ws63sign" /\ result = "run" =>
    /\ arguments.verb \in VerbKeys
    /\ Len(arguments.args) \in ArgMin[arguments.verb]..ArgMax[arguments.verb]

(***************************************************************************)
(* ws63flash and ws63fwpkg begin their work only with a verb and a number  *)
(* of arguments between its two limits: uart_open is given args[0] and the *)
(* verbs args[1] (ws63flash.c:223, 680, 873) without a look at args_cnt.   *)
(***************************************************************************)
THEOREM VerbHasItsArgs == Spec => []EnoughArgs
<1>1. CliInv => EnoughArgs
  <2> SUFFICES ASSUME CliInv, prog # "ws63sign", result = "run"
               PROVE  /\ arguments.verb \in VerbKeys
                      /\ Len(arguments.args) \in
                           ArgMin[arguments.verb]..ArgMax[arguments.verb]
    BY DEF EnoughArgs
  <2>1. Parsed
    BY DEF CliInv
  <2>2. arguments.verb \in VerbKeys /\ Len(arguments.args) \in Nat /\ scan = "done"
    BY <2>1 DEF Parsed, Arguments
  <2>3. /\ ArgMin[arguments.verb] <= Len(arguments.args)
        /\ Len(arguments.args) <= ArgMax[arguments.verb]
    <3>1. arguments.verb # "none"
      BY <2>1 DEF Parsed
    <3>2. QED
      BY <2>1, <2>2, <3>1 DEF Parsed
  <2>4. ArgMin[arguments.verb] \in Nat /\ ArgMax[arguments.verb] \in Nat
    BY <2>2, LimitsAre
  <2>5. QED
    BY <2>2, <2>3, <2>4
<1>2. QED
  BY <1>1, CliInvHolds, PTL
=============================================================================
