--------------------------- MODULE CliOrderProofs ---------------------------
(***************************************************************************)
(* What getopt hands to parse_opt is what the command line says when it is *)
(* read from left to right, whatever getopt has moved around: proved for   *)
(* every vocabulary and every length.  The invariant is Layout: where the  *)
(* arguments that were skipped lie in argv, and how far the calls are.     *)
(* And what parse_opt makes of the calls is what was typed: Understood for *)
(* the programs with verbs, Seen for ws63sign.                             *)
(***************************************************************************)
EXTENDS CliProofs, FiniteSetTheorems

-----------------------------------------------------------------------------
(* Functions that are defined by recursion over the elements *)

\* The concatenation of the first i sequences, for each i.
Accumulates(h, G, N) ==
  \A i \in 1..N : h[i] = IF i = 1 THEN G[i] ELSE h[i - 1] \o G[i]

LEMMA Concatenations ==
  ASSUME NEW S, NEW N \in Nat, NEW G \in [1..N -> Seq(S)]
  PROVE  \E h \in [1..N -> Seq(S)] : Accumulates(h, G, N)
<1> DEFINE Good(n, h) == Accumulates(h, G, n)
           Has(n) == \E h \in [1..n -> Seq(S)] : Good(n, h)
           T == {n \in 0..N : ~Has(n)}
<1>1. SUFFICES ASSUME T # {} PROVE FALSE
  <2>1. ASSUME T = {} PROVE Has(N)
    <3>1. N \in 0..N
      OBVIOUS
    <3> HIDE DEF Has
    <3>2. QED
      BY <2>1, <3>1
  <2>2. QED
    BY <2>1
<1>2. T \subseteq Nat
  OBVIOUS
<1>3. PICK n \in T : \A m \in T : n <= m
  <2> HIDE DEF T
  <2> QED
    BY <1>1, <1>2, LeastOf
<1>4. n \in 0..N /\ ~Has(n)
  BY <1>3
<1>5. n # 0
  <2>1. [i \in 1..0 |-> <<>>] \in [1..0 -> Seq(S)] /\ Good(0, [i \in 1..0 |-> <<>>])
    BY DEF Accumulates
  <2>2. Has(0)
    BY <2>1
  <2>3. QED
    BY <1>4, <2>2
<1>6. Has(n - 1)
  <2>1. n - 1 \in 0..N /\ ~(n <= n - 1)
    BY <1>4, <1>5
  <2>2. n - 1 \notin T
    BY <1>3, <2>1
  <2>3. QED
    BY <2>1, <2>2
<1>7. PICK h \in [1..(n - 1) -> Seq(S)] : Good(n - 1, h)
  BY <1>6
<1> DEFINE k == [i \in 1..n |-> IF i < n THEN h[i] ELSE IF n = 1 THEN G[n] ELSE h[n - 1] \o G[n]]
<1>8. \A i \in 1..n : k[i] \in Seq(S)
  <2>0. \A i \in 1..n : i < n \/ i = n
    BY <1>4
  <2>1. ASSUME NEW i \in 1..n, i < n PROVE k[i] \in Seq(S)
    BY <1>4, <2>1
  <2>2. k[n] \in Seq(S)
    <3>1. G[n] \in Seq(S)
      BY <1>4, <1>5
    <3>2. CASE n = 1
      BY <3>1, <3>2
    <3>3. CASE n # 1
      <4>1. n - 1 \in 1..(n - 1) /\ n \in 1..n
        BY <1>4, <1>5, <3>3
      <4>2. h[n - 1] \in Seq(S)
        BY <4>1
      <4>3. h[n - 1] \o G[n] \in Seq(S)
        BY <3>1, <4>2, ConcatProperties
      <4>4. QED
        BY <3>3, <4>1, <4>3
    <3>4. QED
      BY <3>2, <3>3
  <2> HIDE DEF k
  <2>3. QED
    BY <2>0, <2>1, <2>2
<1>9. Good(n, k)
  <2>1. ASSUME NEW i \in 1..n, i < n PROVE k[i] = IF i = 1 THEN G[i] ELSE k[i - 1] \o G[i]
    <3>1. i \in 1..(n - 1) /\ k[i] = h[i] /\ (i # 1 => i - 1 \in 1..n /\ k[i - 1] = h[i - 1])
      BY <1>4, <2>1
    <3>2. h[i] = IF i = 1 THEN G[i] ELSE h[i - 1] \o G[i]
      BY <1>7, <3>1 DEF Accumulates
    <3>3. QED
      BY <3>1, <3>2
  <2>2. k[n] = IF n = 1 THEN G[n] ELSE k[n - 1] \o G[n]
    <3>1. n \in 1..n /\ (n # 1 => n - 1 \in 1..n /\ n - 1 < n)
      BY <1>4, <1>5
    <3>2. QED
      BY <3>1
  <2>3. \A i \in 1..n : i < n \/ i = n
    BY <1>4
  <2> HIDE DEF k
  <2>4. QED
    BY <2>1, <2>2, <2>3 DEF Accumulates
<1>10. k \in [1..n -> Seq(S)]
  BY <1>8
<1>11. QED
  BY <1>4, <1>9, <1>10

\* FlattenSeq, one sequence at a time.
LEMMA FlattenSteps ==
  ASSUME NEW S, NEW N \in Nat, NEW G \in [1..N -> Seq(S)]
  PROVE  /\ FlattenSeq([i \in 1..0 |-> G[i]]) = <<>>
         /\ \A n \in 0..N : FlattenSeq([i \in 1..n |-> G[i]]) \in Seq(S)
         /\ \A n \in 1..N : FlattenSeq([i \in 1..n |-> G[i]])
                            = FlattenSeq([i \in 1..(n - 1) |-> G[i]]) \o G[n]
<1> DEFINE first(n) == [i \in 1..n |-> G[i]]
<1>0. PICK h \in [1..N -> Seq(S)] : Accumulates(h, G, N)
  BY Concatenations
<1>1. \A i \in 1..N : h[i] = IF i = 1 THEN G[i] ELSE h[i - 1] \o G[i]
  BY <1>0 DEF Accumulates
<1>2. FlattenSeq(first(0)) = <<>>
  <2>1. first(0) = <<>> /\ Len(first(0)) = 0
    OBVIOUS
  <2>2. QED
    BY <2>1 DEF FlattenSeq
<1>3. ASSUME NEW n \in 1..N PROVE FlattenSeq(first(n)) = h[n]
  <2> DEFINE Is(f) == f = [i \in 1..n |-> IF i = 1 THEN first(n)[i]
                                          ELSE f[i - 1] \o first(n)[i]]
             g == [i \in 1..n |-> h[i]]
  <2>1. Len(first(n)) = n /\ \A i \in 1..n : first(n)[i] = G[i]
    OBVIOUS
  <2>2. Is(g)
    <3>1. \A i \in 1..n : g[i] = IF i = 1 THEN first(n)[i] ELSE g[i - 1] \o first(n)[i]
      <4>1. ASSUME NEW i \in 1..n PROVE g[i] = IF i = 1 THEN G[i] ELSE g[i - 1] \o G[i]
        <5>1. i \in 1..N /\ g[i] = h[i] /\ (i # 1 => i - 1 \in 1..n /\ g[i - 1] = h[i - 1])
          OBVIOUS
        <5>2. QED
          BY <1>1, <5>1
      <4>2. QED
        BY <2>1, <4>1
    <3>2. QED
      BY <3>1
  <2>3. Is(CHOOSE f : Is(f))
    <3> HIDE DEF g, Is
    <3> QED
      BY <2>2
  <2> DEFINE c == CHOOSE f : Is(f)
             T == {i \in 1..n : c[i] # h[i]}
  <2>4. FlattenSeq(first(n)) = c[n]
    <3> HIDE DEF first
    <3> QED
      BY <2>1 DEF FlattenSeq
  <2>5. \A i \in 1..n : c[i] = IF i = 1 THEN G[i] ELSE c[i - 1] \o G[i]
    <3> DEFINE d == c
    <3>1. d = [i \in 1..n |-> IF i = 1 THEN first(n)[i] ELSE d[i - 1] \o first(n)[i]]
      BY <2>3
    <3> HIDE DEF d
    <3>2. \A i \in 1..n : d[i] = IF i = 1 THEN first(n)[i] ELSE d[i - 1] \o first(n)[i]
      BY <3>1
    <3>3. \A i \in 1..n : d[i] = IF i = 1 THEN G[i] ELSE d[i - 1] \o G[i]
      BY <3>2, <2>1
    <3>4. QED
      BY <3>3 DEF d
  <2> HIDE DEF c
  <2>6. T = {}
    <3>1. SUFFICES ASSUME T # {} PROVE FALSE
      OBVIOUS
    <3>2. T \subseteq Nat
      OBVIOUS
    <3>3. PICK i \in T : \A j \in T : i <= j
      <4> HIDE DEF T
      <4> QED
        BY <3>1, <3>2, LeastOf
    <3>4. i \in 1..n /\ i \in 1..N /\ c[i] # h[i]
      BY <3>3
    <3>5. i # 1
      BY <3>4, <2>5, <1>1
    <3>6. i - 1 \in 1..n /\ ~(i <= i - 1)
      BY <3>4, <3>5
    <3>7. c[i - 1] = h[i - 1]
      BY <3>3, <3>6
    <3>8. QED
      BY <3>4, <3>5, <3>7, <2>5, <1>1
  <2>7. c[n] = h[n]
    <3>1. n \in 1..n
      OBVIOUS
    <3>2. n \notin T
      BY <2>6
    <3>3. QED
      BY <3>1, <3>2
  <2> HIDE DEF first, T
  <2>8. QED
    BY <2>4, <2>7, Zenon
<1>4. \A n \in 0..N : FlattenSeq(first(n)) \in Seq(S)
  <2>1. <<>> \in Seq(S)
    OBVIOUS
  <2> HIDE DEF first
  <2>2. ASSUME NEW n \in 0..N PROVE FlattenSeq(first(n)) \in Seq(S)
    <3>1. n = 0 \/ n \in 1..N
      OBVIOUS
    <3>2. \A i \in 1..N : h[i] \in Seq(S)
      OBVIOUS
    <3>3. CASE n = 0
      BY <1>2, <2>1, <3>3, Zenon
    <3>4. CASE n \in 1..N
      <4>1. FlattenSeq(first(n)) = h[n] /\ h[n] \in Seq(S)
        BY <1>3, <3>2, <3>4, Zenon
      <4>2. QED
        BY <4>1, Zenon
    <3>5. QED
      BY <3>1, <3>3, <3>4, Zenon
  <2>3. QED
    BY <2>2
<1>5. ASSUME NEW n \in 1..N PROVE FlattenSeq(first(n)) = FlattenSeq(first(n - 1)) \o G[n]
  <2>0. G[n] \in Seq(S) /\ FlattenSeq(first(n)) = h[n]
    BY <1>3
  <2>1. CASE n = 1
    <3>1. FlattenSeq(first(n - 1)) = <<>>
      <4> HIDE DEF first
      <4> QED
        BY <2>1, <1>2
    <3>2. h[n] = G[n]
      BY <2>1, <1>1
    <3>3. <<>> \o G[n] = G[n]
      BY <2>0, ConcatEmptySeq
    <3>4. QED
      BY <2>0, <3>1, <3>2, <3>3, Zenon
  <2>2. CASE n # 1
    <3>1. n - 1 \in 1..N
      BY <2>2
    <3>2. FlattenSeq(first(n - 1)) = h[n - 1]
      <4> HIDE DEF first
      <4> QED
        BY <3>1, <1>3
    <3>3. h[n] = h[n - 1] \o G[n]
      BY <2>2, <1>1
    <3>4. QED
      BY <2>0, <3>2, <3>3, Zenon
  <2>3. QED
    BY <2>1, <2>2
<1>6. QED
  BY <1>2, <1>4, <1>5

\* Whether an element is the value of the one before it.
LEMMA Alternates ==
  ASSUME NEW N \in Nat, NEW A
  PROVE  \E v : v = [i \in 0..N |-> i > 1 /\ ~v[i - 1] /\ (i - 1) \in A]
<1> DEFINE Is(n, v) == v = [i \in 0..n |-> i > 1 /\ ~v[i - 1] /\ (i - 1) \in A]
           T == {n \in 0..N : ~\E v : Is(n, v)}
<1>1. SUFFICES ASSUME T # {} PROVE FALSE
  OBVIOUS
<1>2. T \subseteq Nat
  OBVIOUS
<1>3. PICK n \in T : \A m \in T : n <= m
  <2> HIDE DEF T
  <2> QED
    BY <1>1, <1>2, LeastOf
<1>4. n \in 0..N /\ ~\E v : Is(n, v)
  BY <1>3
<1>5. n # 0
  <2> DEFINE v == [i \in 0..0 |-> FALSE]
  <2>1. \A i \in 0..0 : (i > 1) = FALSE
    OBVIOUS
  <2>2. \A i \in 0..0 : (i > 1 /\ ~v[i - 1] /\ (i - 1) \in A) = FALSE
    BY <2>1, Zenon
  <2>3. Is(0, v)
    <3> HIDE DEF v
    <3>1. v = [i \in 0..0 |-> FALSE]
      BY DEF v
    <3>2. QED
      BY <2>2, <3>1, Zenon
  <2>4. QED
    BY <1>4, <2>3
<1>6. \E v : Is(n - 1, v)
  <2>1. n - 1 \in 0..N /\ ~(n <= n - 1)
    BY <1>4, <1>5
  <2>2. n - 1 \notin T
    BY <1>3, <2>1
  <2>3. QED
    BY <2>1, <2>2
<1>7. PICK v : Is(n - 1, v)
  BY <1>6
<1> DEFINE new == n > 1 /\ ~v[n - 1] /\ (n - 1) \in A
           w == [i \in 0..n |-> IF i < n THEN v[i] ELSE new]
           body(f, i) == i > 1 /\ ~f[i - 1] /\ (i - 1) \in A
<1>8. \A i \in 0..n : w[i] = (i > 1 /\ ~w[i - 1] /\ (i - 1) \in A)
  <2>1. ASSUME NEW i \in 0..n, i < n
        PROVE  w[i] = (i > 1 /\ ~w[i - 1] /\ (i - 1) \in A)
    <3>1. i \in 0..(n - 1) /\ (i > 1 => i - 1 \in 0..n /\ i - 1 < n)
      BY <1>4, <2>1
    <3>2. v[i] = (i > 1 /\ ~v[i - 1] /\ (i - 1) \in A)
      <4>1. v = [j \in 0..(n - 1) |-> body(v, j)]
        BY <1>7
      <4> HIDE DEF body
      <4>2. v[i] = body(v, i)
        BY <4>1, <3>1, Zenon
      <4>3. QED
        BY <4>2, Zenon DEF body
    <3>3. w[i] = v[i]
      BY <2>1, Zenon
    <3>4. i > 1 => w[i - 1] = v[i - 1]
      BY <3>1, Zenon
    <3>5. QED
      BY <3>2, <3>3, <3>4, Zenon
  <2>2. w[n] = (n > 1 /\ ~w[n - 1] /\ (n - 1) \in A)
    <3>1. n \in 0..n /\ ~(n < n) /\ n - 1 \in 0..n /\ n - 1 < n
      BY <1>4, <1>5
    <3>2. w[n] = new
      BY <3>1, Zenon
    <3>3. w[n - 1] = v[n - 1]
      BY <3>1, Zenon
    <3>4. w[n] = (n > 1 /\ ~v[n - 1] /\ (n - 1) \in A)
      BY <3>2, Zenon
    <3> HIDE DEF w
    <3>5. QED
      BY <3>3, <3>4, Zenon
  <2>3. \A i \in 0..n : i < n \/ i = n
    BY <1>4
  <2> HIDE DEF w
  <2>4. QED
    BY <2>1, <2>2, <2>3, Zenon
<1>9. Is(n, w)
  <2> DEFINE b(i) == i > 1 /\ ~w[i - 1] /\ (i - 1) \in A
             u == [i \in 0..n |-> b(i)]
  <2>1. w = [i \in 0..n |-> w[i]]
    BY Zenon
  <2> HIDE DEF w
  <2>2. \A i \in 0..n : w[i] = b(i)
    BY <1>8, Zenon
  <2> HIDE DEF b
  <2>3. w = u
    BY <2>1, <2>2, Zenon
  <2>4. QED
    BY <2>3, Zenon DEF b
<1>10. QED
  BY <1>4, <1>9, Zenon

-----------------------------------------------------------------------------
(* Reading the command line from left to right *)

(***************************************************************************)
(* How far parse_opt has been called: up to an element, into the options   *)
(* of one, or for all of them, the -- that ends them being behind.         *)
(***************************************************************************)
Between(l, at, done) ==
  /\ \A i \in 1..(at - 1) : ~Ends(l, i)
  /\ at <= Len(l.typed) => ~IsValue(l)[at]
  /\ done = OptionsTo(l, at - 1)

Inside(l, at, left, done) ==
  LET keys == KeysOf(l.prog, l.typed[at]) IN
  /\ \A i \in 1..at : ~Ends(l, i)
  /\ ~IsValue(l)[at] /\ ~NONOPTION_P(l.typed[at])
  /\ \E n \in 0..Len(keys) :
       /\ left = SubSeq(keys, n + 1, Len(keys))
       /\ done = OptionsTo(l, at - 1) \o SubSeq(OptionCalls(l, at), 1, n)

Behind(l, at, done) ==
  /\ EndOfOptions(l) = at - 1 /\ Dashes(l.typed[at - 1])
  /\ done = OptionsTo(l, at - 2)

Asked ==
  /\ scan = "error" => nextchar # <<>>
  /\ nextchar # <<>> => Inside(Line, optind, nextchar, calls)
  /\ scan \in {"getopt", "skip", "dashes"} /\ nextchar = <<>> =>
       Between(Line, optind, calls)
  /\ scan = "exchange" /\ resume = "skip" => Between(Line, optind, calls)
  /\ scan = "exchange" /\ resume = "quoted" => Behind(Line, optind, calls)
  /\ scan = "quoted" => Behind(Line, optind, calls)
  /\ scan = "take" /\ optind < Stop => Between(Line, optind, calls)
  /\ scan = "take" /\ optind = Stop => calls = DeclaredOptions

(***************************************************************************)
(* The arguments that were skipped lie side by side, in their order; while *)
(* exchange moves them, they do in what it will leave behind.              *)
(***************************************************************************)
SideBySide(list, first, end, args) ==
  /\ end - first = Len(args)
  /\ \A k \in 1..Len(args) : list[first + k - 1].text = args[k]

\* The element that exchange will put at i, its segments being b..m-1 and m..t-1.
From(b, m, t, i) ==
  CASE i \in b..(b + (t - m) - 1) -> i + (m - b)
    [] i \in (b + (t - m))..(t - 1) -> i - (t - m)
    [] OTHER -> i

Exchanged(s, b, m, t) == [i \in 1..Len(s) |-> s[From(b, m, t, i)]]

Gathered ==
  /\ scan \in {"skip", "quoted"} =>
       SideBySide(argv, first_nonopt, optind, ArgsTo(Line, optind - 1))
  /\ scan = "exchange" =>
       SideBySide(Exchanged(argv, bottom, last_nonopt, top),
                  first_nonopt + (optind - last_nonopt), optind,
                  ArgsTo(Line, optind - 1))
  /\ scan \in {"getopt", "error", "dashes", "take"} =>
       SideBySide(argv, first_nonopt, last_nonopt, ArgsTo(Line, optind - 1))

\* What is ahead has not been moved; with POSIXLY_CORRECT nothing is skipped.
Ahead ==
  /\ scan \notin {"args", "done"} => \A i \in optind..Len(typed) : argv[i] = typed[i]
  /\ scan = "skip" \/ (scan = "exchange" /\ resume = "skip") => ~posix
  /\ posix /\ scan \in {"getopt", "error", "dashes"} => first_nonopt = last_nonopt
  /\ posix /\ scan = "take" /\ optind < Stop => first_nonopt = last_nonopt
  /\ scan \in {"dashes", "take"} =>
       /\ first_nonopt = last_nonopt \/ last_nonopt = optind
       /\ optind < Stop /\ NONOPTION_P(typed[optind]) => posix
  /\ scan = "take" /\ optind < Stop => ~Dashes(typed[optind])

\* The first m arguments have been handed out, and the others are next.
Handed(m) ==
  /\ m = Len(DeclaredArgs) - (Stop - optind)
  /\ \A k \in 1..(Stop - optind) : argv[optind + k - 1].text = DeclaredArgs[m + k]
  /\ calls = DeclaredOptions \o ArgCalls(SubSeq(DeclaredArgs, 1, m))

HandedOut ==
  /\ scan = "args" => \E m \in 0..Len(DeclaredArgs) : Handed(m)
  /\ scan = "done" => calls = Declared

Layout == Asked /\ Gathered /\ Ahead /\ HandedOut

-----------------------------------------------------------------------------

\* An element is a value if the one before it takes the next one and is none.
LEMMA ValuesAre ==
  ASSUME Lists
  PROVE  /\ Len(typed) \in Nat
         /\ Len(typed) >= 1 => ~IsValue(Line)[1]
         /\ \A i \in 2..Len(typed) :
              IsValue(Line)[i] <=> ~IsValue(Line)[i - 1] /\ TakesNext(prog, typed[i - 1])
<1> DEFINE N == Len(typed)
           A == {i \in 1..N : TakesNext(prog, typed[i])}
           Is(f) == f = [i \in 0..N |-> i > 1 /\ ~f[i - 1] /\ TakesNext(prog, typed[i - 1])]
<1>1. N \in Nat
  BY DEF Lists
<1>2. \E v : Is(v)
  <2> DEFINE In(f) == f = [i \in 0..N |-> i > 1 /\ ~f[i - 1] /\ (i - 1) \in A]
  <2>1. PICK v : In(v)
    <3> HIDE DEF N, A
    <3> QED
      BY <1>1, Alternates
  <2>2. \A i \in 0..N : i > 1 => i - 1 \in 1..N
    BY <1>1
  <2>3. \A i \in 0..N : i > 1 => ((i - 1) \in A <=> TakesNext(prog, typed[i - 1]))
    BY <2>2, Zenon
  <2> HIDE DEF N, A
  <2>4. \A i \in 0..N : (i > 1 /\ ~v[i - 1] /\ (i - 1) \in A)
                        = (i > 1 /\ ~v[i - 1] /\ TakesNext(prog, typed[i - 1]))
    BY <2>3, Zenon
  <2>5. [i \in 0..N |-> i > 1 /\ ~v[i - 1] /\ (i - 1) \in A]
        = [i \in 0..N |-> i > 1 /\ ~v[i - 1] /\ TakesNext(prog, typed[i - 1])]
    BY <2>4, Zenon
  <2>6. QED
    BY <2>1, <2>5, Zenon
<1>3. Is(IsValue(Line))
  <2>1. IsValue(Line) = CHOOSE v : Is(v)
    BY DEF IsValue, Line
  <2> HIDE DEF Is
  <2>2. QED
    BY <1>2, <2>1
<1> DEFINE v == IsValue(Line)
           b(i) == i > 1 /\ ~v[i - 1] /\ TakesNext(prog, typed[i - 1])
<1>4. \A i \in 0..N : v[i] = b(i)
  <2>1. v = [i \in 0..N |-> b(i)]
    BY <1>3, Zenon
  <2> HIDE DEF b, v, N
  <2>2. QED
    BY <2>1, Zenon
<1>5. N >= 1 => ~v[1]
  <2>1. N >= 1 => 1 \in 0..N
    BY <1>1
  <2>2. ~(1 > 1)
    OBVIOUS
  <2> HIDE DEF v
  <2>3. QED
    BY <1>4, <2>1, <2>2, Zenon
<1>6. ASSUME NEW i \in 2..N
      PROVE  v[i] <=> ~v[i - 1] /\ TakesNext(prog, typed[i - 1])
  <2>1. i \in 0..N /\ i > 1
    BY <1>1
  <2> HIDE DEF v
  <2>2. QED
    BY <1>4, <2>1, Zenon
<1>7. QED
  BY <1>1, <1>5, <1>6, Zenon

\* The names of the long options differ.
LEMMA NamesDiffer ==
  ASSUME prog \in {"ws63flash", "ws63fwpkg", "ws63sign"}, long_opts = LongOptions[prog]
  PROVE  \A j, k \in DOMAIN long_opts : long_opts[j].name = long_opts[k].name => j = k
<1> DEFINE differ(t, n) == \A j, k \in 1..n : t[j].name = t[k].name => j = k
<1>1. CASE prog = "ws63flash"
  <2> DEFINE t == LongOptions.ws63flash
  <2>1. /\ t[1].name[2] = "lash" /\ t[2].name[2] = "rase"
        /\ t[3].name[2] = "rite" /\ Len(t[3].name) = 2
        /\ t[4].name[2] = "rite" /\ Len(t[4].name) = 3
        /\ t[5].name[2] = "aud" /\ t[6].name[2] = "ate-baud"
        /\ t[7].name[2] = "bose" /\ t[8].name[2] = "sion"
        /\ DOMAIN t = 1..8
    BY DEF LongOptions
  <2> HIDE DEF t
  <2>2. differ(t, 8)
    BY <2>1
  <2>3. QED
    BY <1>1, <2>1, <2>2 DEF t
<1>2. CASE prog = "ws63fwpkg"
  <2> DEFINE t == LongOptions.ws63fwpkg
  <2>1. /\ t[1].name[2] = "nject" /\ t[2].name[2] = "ut" /\ t[3].name[2] = "sion"
        /\ DOMAIN t = 1..3
    BY DEF LongOptions
  <2> HIDE DEF t
  <2>2. differ(t, 3)
    BY <2>1
  <2>3. QED
    BY <1>2, <2>1, <2>2 DEF t
<1>3. CASE prog = "ws63sign"
  <2> DEFINE t == LongOptions.ws63sign
  <2>1. t[1].name[2] = "ut" /\ t[2].name[2] = "sion" /\ DOMAIN t = 1..2
    BY DEF LongOptions
  <2> HIDE DEF t
  <2>2. differ(t, 2)
    BY <2>1
  <2>3. QED
    BY <1>3, <2>1, <2>2 DEF t
<1>4. QED
  BY <1>1, <1>2, <1>3

(***************************************************************************)
(* process_long_option finds the one option that a name means, if there is *)
(* one: getopt looks for the first exact match and the first abbreviation. *)
(***************************************************************************)
LEMMA LongOptionIsMeant ==
  ASSUME prog \in {"ws63flash", "ws63fwpkg", "ws63sign"}, long_opts = LongOptions[prog],
         NEW name
  PROVE  LongOption(name) = IF Cardinality(Meant(prog, name)) = 1
                            THEN CHOOSE k \in Meant(prog, name) : TRUE ELSE "?"
<1> DEFINE exact == {k \in DOMAIN long_opts : long_opts[k].name = name}
           fits  == {k \in DOMAIN long_opts : IsPrefix(name, long_opts[k].name)}
           ambig == {k \in fits : long_opts[k].key # long_opts[Min(fits)].key}
           KeysAt(T) == {long_opts[k].key : k \in T}
           M == Meant(prog, name)
<1>1. DOMAIN long_opts \subseteq Nat /\ IsFiniteSet(DOMAIN long_opts)
  <2>1. /\ DOMAIN LongOptions.ws63flash = 1..8 /\ DOMAIN LongOptions.ws63fwpkg = 1..3
        /\ DOMAIN LongOptions.ws63sign = 1..2
    BY DEF LongOptions
  <2>2. DOMAIN long_opts = 1..8 \/ DOMAIN long_opts = 1..3 \/ DOMAIN long_opts = 1..2
    BY <2>1
  <2>3. PICK n \in Nat : DOMAIN long_opts = 1..n
    BY <2>2
  <2>4. 1 \in Int /\ n \in Int
    OBVIOUS
  <2>5. IsFiniteSet(1..n)
    BY <2>4, FS_Interval, Zenon
  <2>6. QED
    BY <2>3, <2>5
<1>2. M = IF exact # {} THEN KeysAt(exact) ELSE KeysAt(fits)
  <2> DEFINE long == ToSet(LongOptions[prog])
             full == {o \in long : o.name = name}
             begun == {o \in long : IsPrefix(name, o.name)}
  <2>1. long = {long_opts[k] : k \in DOMAIN long_opts}
    BY DEF ToSet
  <2>2. M = {o.key : o \in IF full # {} THEN full ELSE begun}
    BY DEF Meant
  <2> HIDE DEF long
  <2>3. full # {} <=> exact # {}
    BY <2>1
  <2>4. {o.key : o \in full} = KeysAt(exact)
    BY <2>1
  <2>5. {o.key : o \in begun} = KeysAt(fits)
    BY <2>1
  <2> HIDE DEF full, begun, exact, fits, KeysAt, M
  <2>6. QED
    BY <2>2, <2>3, <2>4, <2>5
<1>3. \A T : T \subseteq DOMAIN long_opts => IsFiniteSet(KeysAt(T))
  <2>1. SUFFICES ASSUME NEW T \in SUBSET DOMAIN long_opts PROVE IsFiniteSet(KeysAt(T))
    OBVIOUS
  <2>2. IsFiniteSet(T)
    BY <1>1, FS_Subset
  <2> DEFINE f == [k \in T |-> long_opts[k].key]
             U == KeysAt(T)
  <2>3. f \in Surjection(T, U)
    BY DEF Surjection
  <2> HIDE DEF f, U
  <2>4. IsFiniteSet(U)
    BY <2>2, <2>3, FS_Surjection
  <2>5. QED
    BY <2>4 DEF U
<1>4. \A x : M = {x} => Cardinality(M) = 1 /\ (CHOOSE k \in M : TRUE) = x
  <2> HIDE DEF M
  <2>1. SUFFICES ASSUME NEW x, M = {x}
                 PROVE  Cardinality(M) = 1 /\ (CHOOSE k \in M : TRUE) = x
    OBVIOUS
  <2>2. Cardinality(M) = 1
    BY <2>1, FS_Singleton
  <2>3. (CHOOSE k \in M : TRUE) \in M
    BY <2>1
  <2>4. QED
    BY <2>1, <2>2, <2>3
<1>5. LongOption(name) = IF exact # {} THEN long_opts[Min(exact)].key
                         ELSE IF fits # {} /\ ambig = {} THEN long_opts[Min(fits)].key
                         ELSE "?"
  BY DEF LongOption
<1>6. exact \subseteq DOMAIN long_opts /\ fits \subseteq DOMAIN long_opts
  OBVIOUS
<1>7. \A T : T \subseteq DOMAIN long_opts /\ T # {} => Min(T) \in T
  BY <1>1, LeastIsIn
<1>8. CASE exact # {}
  <2>1. Min(exact) \in exact
    <3> HIDE DEF exact
    <3> QED
      BY <1>6, <1>7, <1>8
  <2>2. \A k \in exact : k = Min(exact)
    BY <2>1, NamesDiffer
  <2>3. M = {long_opts[Min(exact)].key}
    <3> HIDE DEF exact
    <3> QED
      BY <1>2, <1>8, <2>1, <2>2
  <2> HIDE DEF exact, fits, ambig, M
  <2>4. QED
    BY <1>4, <1>5, <1>8, <2>3 DEF M
<1>9. CASE exact = {} /\ fits = {}
  <2>1. M = {}
    BY <1>2, <1>9
  <2>2. Cardinality(M) # 1
    BY <2>1, FS_EmptySet
  <2> HIDE DEF exact, fits, ambig, M
  <2>3. QED
    BY <1>5, <1>9, <2>2 DEF M
<1>10. CASE exact = {} /\ fits # {} /\ ambig = {}
  <2>1. Min(fits) \in fits
    <3> HIDE DEF fits
    <3> QED
      BY <1>6, <1>7, <1>10
  <2>2. \A k \in fits : long_opts[k].key = long_opts[Min(fits)].key
    BY <1>10
  <2>3. M = {long_opts[Min(fits)].key}
    <3> HIDE DEF exact, fits
    <3> QED
      BY <1>2, <1>10, <2>1, <2>2
  <2> HIDE DEF exact, fits, ambig, M
  <2>4. QED
    BY <1>4, <1>5, <1>10, <2>3 DEF M
<1>11. CASE exact = {} /\ fits # {} /\ ambig # {}
  <2>1. Min(fits) \in fits
    <3> HIDE DEF fits
    <3> QED
      BY <1>6, <1>7, <1>11
  <2>2. PICK k \in fits : long_opts[k].key # long_opts[Min(fits)].key
    BY <1>11
  <2>3. M = KeysAt(fits) /\ IsFiniteSet(M)
    <3> HIDE DEF exact, fits, KeysAt, M
    <3> QED
      BY <1>2, <1>3, <1>6, <1>11
  <2>4. Cardinality(M) # 1
    <3>1. ASSUME Cardinality(M) = 1 PROVE FALSE
      <4>1. PICK x : M = {x}
        <5> HIDE DEF M
        <5> QED
          BY <2>3, <3>1, FS_Singleton
      <4>2. long_opts[k].key \in M /\ long_opts[Min(fits)].key \in M
        <5> HIDE DEF M, fits
        <5> QED
          BY <2>1, <2>2, <2>3
      <4>3. QED
        <5> HIDE DEF M, fits
        <5> QED
          BY <2>2, <4>1, <4>2
    <3>2. QED
      BY <3>1
  <2> HIDE DEF exact, fits, ambig, M
  <2>5. QED
    BY <1>5, <1>11, <2>4 DEF M
<1>12. QED
  BY <1>8, <1>9, <1>10, <1>11

\* The options of an element, with their values.
LEMMA KeysAreWords ==
  ASSUME Tables, Lists, NEW i \in 1..Len(typed)
  PROVE  /\ KeysOf(prog, typed[i]) = IF typed[i].name = <<>> THEN typed[i].keys
                                ELSE <<LongOption(typed[i].name)>>
         /\ KeysOf(prog, typed[i]) \in Seq(Words)
         /\ typed[i].text \in Words /\ typed[i].val \in Words
<1> DEFINE e == typed[i]
<1>1. e \in Elements
  BY DEF Lists
<1>2. e.keys \in Seq(STRING) /\ e.text \in STRING /\ e.val \in STRING /\ STRING \subseteq Words
  BY <1>1 DEF Elements, Texts, Words
<1>3. prog \in {"ws63flash", "ws63fwpkg", "ws63sign"} /\ long_opts = LongOptions[prog]
  BY CliAssumption DEF Tables
<1>4. LongOption(e.name) \in Words
  BY <1>3, LongOptionIsWord
<1>5. KeysOf(prog, e) = IF e.name = <<>> THEN e.keys ELSE <<LongOption(e.name)>>
  <2>1. KeysOf(prog, e) = IF e.name = <<>> THEN e.keys
                    ELSE IF Cardinality(Meant(prog, e.name)) = 1
                         THEN <<CHOOSE k \in Meant(prog, e.name) : TRUE>> ELSE <<"?">>
    BY DEF KeysOf
  <2>2. LongOption(e.name) = IF Cardinality(Meant(prog, e.name)) = 1
                             THEN CHOOSE k \in Meant(prog, e.name) : TRUE ELSE "?"
    BY <1>3, LongOptionIsMeant
  <2>3. QED
    BY <2>1, <2>2
<1>6. e.keys \in Seq(Words)
  BY <1>2, SeqOfMore
<1> HIDE DEF e
<1>7. KeysOf(prog, e) \in Seq(Words)
  BY <1>4, <1>5, <1>6
<1>8. QED
  BY <1>2, <1>5, <1>7 DEF e

Calls == Words \X Words

LEMMA OptionCallsAre ==
  ASSUME Tables, Lists, NEW i \in 1..Len(typed)
  PROVE  /\ OptionCalls(Line, i) \in Seq(Calls)
         /\ Len(OptionCalls(Line, i)) = Len(KeysOf(prog, typed[i]))
         /\ \A k \in 1..Len(KeysOf(prog, typed[i])) :
              OptionCalls(Line, i)[k] =
                <<KeysOf(prog, typed[i])[k],
                  IF k # Len(KeysOf(prog, typed[i])) THEN ""
                  ELSE IF TakesNext(prog, typed[i]) /\ i < Len(typed) THEN typed[i + 1].text
                  ELSE typed[i].val>>
<1> DEFINE e == typed[i]
           keys == KeysOf(prog, e)
           v == IF TakesNext(prog, e) /\ i < Len(typed) THEN typed[i + 1].text ELSE e.val
           w(k) == IF k = Len(keys) THEN v ELSE ""
<1>1. OptionCalls(Line, i) = [k \in DOMAIN keys |-> <<keys[k], w(k)>>]
  BY DEF OptionCalls, Line
<1>2. keys \in Seq(Words) /\ e.val \in Words
  BY KeysAreWords
<1>3. v \in Words
  <2>1. CASE TakesNext(prog, e) /\ i < Len(typed)
    <3>1. i + 1 \in 1..Len(typed)
      BY <2>1, ValuesAre
    <3>2. typed[i + 1].text \in Words
      BY <3>1, KeysAreWords
    <3>3. QED
      BY <2>1, <3>2
  <2>2. CASE ~(TakesNext(prog, e) /\ i < Len(typed))
    BY <1>2, <2>2
  <2>3. QED
    BY <2>1, <2>2
<1>4. "" \in Words
  BY DEF Words
<1> HIDE DEF v, keys
<1>5. \A k \in DOMAIN keys : <<keys[k], w(k)>> \in Calls
  <2>1. \A k \in DOMAIN keys : keys[k] \in Words /\ w(k) \in Words
    <3>1. \A k \in DOMAIN keys : keys[k] \in Words
      BY <1>2
    <3>2. \A k \in DOMAIN keys : w(k) \in Words
      BY <1>3, <1>4, Zenon
    <3>3. QED
      BY <3>1, <3>2, Zenon
  <2> HIDE DEF w
  <2>2. QED
    BY <2>1 DEF Calls
<1>6. DOMAIN keys = 1..Len(keys) /\ Len(keys) \in Nat
  BY <1>2
<1>7. /\ OptionCalls(Line, i) \in Seq(Calls) /\ Len(OptionCalls(Line, i)) = Len(keys)
      /\ \A k \in 1..Len(keys) : OptionCalls(Line, i)[k] = <<keys[k], w(k)>>
  <2> DEFINE call(k) == <<keys[k], w(k)>>
             s == [k \in 1..Len(keys) |-> call(k)]
  <2>1. \A k \in 1..Len(keys) : call(k) \in Calls
    BY <1>5, <1>6
  <2>2. OptionCalls(Line, i) = s
    BY <1>1, <1>6
  <2> HIDE DEF call
  <2>3. s \in Seq(Calls) /\ Len(s) = Len(keys) /\ \A k \in 1..Len(keys) : s[k] = call(k)
    BY <2>1, <1>6
  <2>4. QED
    BY <2>2, <2>3 DEF call
<1>8. QED
  BY <1>7 DEF keys, v

LEMMA OptionsOfAre ==
  ASSUME Tables, Lists, NEW i \in 1..Len(typed)
  PROVE  /\ OptionsOf(Line, i) \in Seq(Calls)
         /\ IsValue(Line)[i] \/ KeysOf(prog, typed[i]) = <<>> => OptionsOf(Line, i) = <<>>
         /\ ~IsValue(Line)[i] => OptionsOf(Line, i) = OptionCalls(Line, i)
<1>1. OptionCalls(Line, i) \in Seq(Calls) /\ Len(OptionCalls(Line, i)) = Len(KeysOf(prog, typed[i]))
  BY OptionCallsAre
<1>2. KeysOf(prog, typed[i]) = <<>> => OptionCalls(Line, i) = <<>>
  BY <1>1
<1>3. <<>> \in Seq(Calls)
  OBVIOUS
<1>4. QED
  BY <1>1, <1>2, <1>3, Zenon DEF OptionsOf

\* The calls for the options of the first n elements.
LEMMA OptionsGrow ==
  ASSUME Tables, Lists
  PROVE  /\ OptionsTo(Line, 0) = <<>>
         /\ \A n \in 0..Len(typed) : OptionsTo(Line, n) \in Seq(Calls)
         /\ \A n \in 1..Len(typed) : OptionsTo(Line, n) = OptionsTo(Line, n - 1) \o OptionsOf(Line, n)
<1> DEFINE N == Len(typed)
           G == [i \in 1..N |-> OptionsOf(Line, i)]
<1>1. N \in Nat
  BY ValuesAre
<1>2. G \in [1..N -> Seq(Calls)]
  BY OptionsOfAre
<1>3. \A n \in 0..N : OptionsTo(Line, n) = FlattenSeq([i \in 1..n |-> G[i]])
  <2>1. ASSUME NEW n \in 0..N
        PROVE  [i \in 1..n |-> OptionsOf(Line, i)] = [i \in 1..n |-> G[i]]
    <3>1. 1..n \subseteq 1..N
      BY <1>1
    <3>2. QED
      BY <3>1
  <2> HIDE DEF G
  <2>2. QED
    BY <2>1, Zenon DEF OptionsTo
<1>4. \A n \in 1..N : G[n] = OptionsOf(Line, n) /\ n - 1 \in 0..N /\ n \in 0..N
  BY <1>1
<1>5. 0 \in 0..N
  BY <1>1
<1> HIDE DEF G, N
<1>6. /\ FlattenSeq([i \in 1..0 |-> G[i]]) = <<>>
      /\ \A n \in 0..N : FlattenSeq([i \in 1..n |-> G[i]]) \in Seq(Calls)
      /\ \A n \in 1..N : FlattenSeq([i \in 1..n |-> G[i]])
                         = FlattenSeq([i \in 1..(n - 1) |-> G[i]]) \o G[n]
  BY <1>1, <1>2, FlattenSteps, Zenon
<1>7. OptionsTo(Line, 0) = <<>>
  BY <1>3, <1>5, <1>6, Zenon
<1>8. \A n \in 0..N : OptionsTo(Line, n) \in Seq(Calls)
  BY <1>3, <1>6, Zenon
<1>9. ASSUME NEW n \in 1..N PROVE OptionsTo(Line, n) = OptionsTo(Line, n - 1) \o OptionsOf(Line, n)
  <2>1. n - 1 \in 0..N /\ n \in 0..N /\ G[n] = OptionsOf(Line, n)
    BY <1>4, Zenon
  <2>2. OptionsTo(Line, n) = FlattenSeq([i \in 1..n |-> G[i]])
    BY <1>3, <2>1, Zenon
  <2>3. OptionsTo(Line, n - 1) = FlattenSeq([i \in 1..(n - 1) |-> G[i]])
    BY <1>3, <2>1, Zenon
  <2>4. QED
    BY <1>6, <2>1, <2>2, <2>3, Zenon
<1>10. QED
  BY <1>7, <1>8, <1>9 DEF N

\* The arguments among the first n elements.
LEMMA ArgsGrow ==
  ASSUME Tables, Lists
  PROVE  /\ ArgsTo(Line, 0) = <<>>
         /\ \A n \in 0..Len(typed) : ArgsTo(Line, n) \in Seq(Words)
         /\ \A n \in 1..Len(typed) :
              ArgsTo(Line, n) = IF IsArg(Line, n) THEN Append(ArgsTo(Line, n - 1), typed[n].text)
                          ELSE ArgsTo(Line, n - 1)
<1> DEFINE N == Len(typed)
           G == [i \in 1..N |-> ArgsOf(Line, i)]
<1>1. N \in Nat
  BY ValuesAre
<1>2. G \in [1..N -> Seq(Words)]
  <2>1. ASSUME NEW i \in 1..N PROVE ArgsOf(Line, i) \in Seq(Words)
    <3>1. typed[i].text \in Words
      BY KeysAreWords
    <3>2. <<typed[i].text>> \in Seq(Words) /\ <<>> \in Seq(Words)
      BY <3>1
    <3>3. QED
      BY <3>2, Zenon DEF ArgsOf, Line
  <2>2. QED
    BY <2>1
<1>3. \A n \in 0..N : ArgsTo(Line, n) = FlattenSeq([i \in 1..n |-> G[i]])
  <2>1. ASSUME NEW n \in 0..N
        PROVE  [i \in 1..n |-> ArgsOf(Line, i)] = [i \in 1..n |-> G[i]]
    <3>1. 1..n \subseteq 1..N
      BY <1>1
    <3>2. QED
      BY <3>1
  <2> HIDE DEF G
  <2>2. QED
    BY <2>1, Zenon DEF ArgsTo
<1>4. \A n \in 1..N : G[n] = ArgsOf(Line, n) /\ n - 1 \in 0..N /\ n \in 0..N
  BY <1>1
<1>5. 0 \in 0..N
  BY <1>1
<1> HIDE DEF G, N
<1>6. /\ FlattenSeq([i \in 1..0 |-> G[i]]) = <<>>
      /\ \A n \in 0..N : FlattenSeq([i \in 1..n |-> G[i]]) \in Seq(Words)
      /\ \A n \in 1..N : FlattenSeq([i \in 1..n |-> G[i]])
                         = FlattenSeq([i \in 1..(n - 1) |-> G[i]]) \o G[n]
  BY <1>1, <1>2, FlattenSteps, Zenon
<1>7. ArgsTo(Line, 0) = <<>>
  BY <1>3, <1>5, <1>6, Zenon
<1>8. \A n \in 0..N : ArgsTo(Line, n) \in Seq(Words)
  BY <1>3, <1>6, Zenon
<1>9. ASSUME NEW n \in 1..N
      PROVE  ArgsTo(Line, n) = IF IsArg(Line, n) THEN Append(ArgsTo(Line, n - 1), typed[n].text)
                         ELSE ArgsTo(Line, n - 1)
  <2>1. n - 1 \in 0..N /\ n \in 0..N /\ G[n] = ArgsOf(Line, n)
    BY <1>4, Zenon
  <2>2. ArgsTo(Line, n) = FlattenSeq([i \in 1..n |-> G[i]])
    BY <1>3, <2>1, Zenon
  <2>3. ArgsTo(Line, n - 1) = FlattenSeq([i \in 1..(n - 1) |-> G[i]])
    BY <1>3, <2>1, Zenon
  <2>4. ArgsTo(Line, n) = ArgsTo(Line, n - 1) \o ArgsOf(Line, n)
    BY <1>6, <2>1, <2>2, <2>3, Zenon
  <2>5. ArgsTo(Line, n - 1) \in Seq(Words)
    BY <1>8, <2>1, Zenon
  <2>6. typed[n].text \in Words
    BY KeysAreWords DEF N
  <2>7. CASE IsArg(Line, n)
    <3>1. ArgsOf(Line, n) = <<typed[n].text>>
      BY <2>7, Zenon DEF ArgsOf, Line
    <3>2. QED
      BY <2>4, <2>5, <2>6, <2>7, <3>1, AppendIsConcat
  <2>8. CASE ~IsArg(Line, n)
    <3>1. ArgsOf(Line, n) = <<>>
      BY <2>8, Zenon DEF ArgsOf, Line
    <3>2. ArgsTo(Line, n - 1) \o <<>> = ArgsTo(Line, n - 1)
      BY <2>5, ConcatEmptySeq
    <3>3. QED
      BY <2>4, <2>8, <3>1, <3>2
  <2>9. QED
    BY <2>7, <2>8
<1>10. QED
  BY <1>7, <1>8, <1>9 DEF N

\* Where the options end: at the first element that ends them, if there is one.
LEMMA EndIs ==
  ASSUME Lists
  PROVE  /\ EndOfOptions(Line) \in 1..(Len(typed) + 1)
         /\ EndOfOptions(Line) <= Len(typed) => Ends(Line, EndOfOptions(Line))
         /\ \A i \in 1..(EndOfOptions(Line) - 1) : ~Ends(Line, i)
<1> DEFINE T == {i \in DOMAIN typed : Ends(Line, i)}
           N == Len(typed)
<1>1. N \in Nat /\ DOMAIN typed = 1..N
  BY DEF Lists
<1>2. EndOfOptions(Line) = IF T = {} THEN N + 1 ELSE Min(T)
  BY DEF EndOfOptions, Line
<1>3. T \subseteq 1..N /\ T \subseteq Nat
  BY <1>1
<1>4. \A i \in 1..N : i \in T <=> Ends(Line, i)
  BY <1>1
<1> HIDE DEF T, N
<1>5. CASE T = {}
  BY <1>1, <1>2, <1>4, <1>5 DEF N
<1>6. CASE T # {}
  <2>1. PICK x \in T : \A y \in T : x <= y
    BY <1>3, <1>6, LeastOf
  <2>2. Min(T) \in T /\ \A y \in T : Min(T) <= y
    BY <2>1 DEF Min
  <2>3. EndOfOptions(Line) = Min(T) /\ Ends(Line, EndOfOptions(Line)) /\ EndOfOptions(Line) \in 1..N
    BY <1>2, <1>3, <1>4, <1>6, <2>2
  <2>4. ASSUME NEW i \in 1..(EndOfOptions(Line) - 1) PROVE ~Ends(Line, i)
    <3>1. i \in 1..N /\ ~(EndOfOptions(Line) <= i)
      BY <1>1, <2>3
    <3>2. QED
      BY <1>4, <2>2, <2>3, <3>1
  <2>5. QED
    BY <1>1, <2>3, <2>4 DEF N
<1>7. QED
  BY <1>5, <1>6

\* Element n ends them, or none before it does.
LEMMA EndIsAt ==
  ASSUME Lists, NEW n \in 1..Len(typed), Ends(Line, n), \A i \in 1..(n - 1) : ~Ends(Line, i)
  PROVE  EndOfOptions(Line) = n
<1>1. Len(typed) \in Nat
  BY DEF Lists
<1>2. /\ EndOfOptions(Line) \in 1..(Len(typed) + 1)
      /\ EndOfOptions(Line) <= Len(typed) => Ends(Line, EndOfOptions(Line))
      /\ \A i \in 1..(EndOfOptions(Line) - 1) : ~Ends(Line, i)
  BY EndIs
<1>3. ~(n < EndOfOptions(Line))
  <2>1. n < EndOfOptions(Line) => n \in 1..(EndOfOptions(Line) - 1)
    BY <1>1, <1>2
  <2>2. QED
    BY <1>2, <2>1
<1>4. ~(EndOfOptions(Line) < n)
  <2>1. EndOfOptions(Line) < n => EndOfOptions(Line) \in 1..(n - 1) /\ EndOfOptions(Line) <= Len(typed)
    BY <1>1, <1>2
  <2>2. QED
    BY <1>2, <2>1
<1>5. QED
  BY <1>1, <1>2, <1>3, <1>4

LEMMA EndIsBehind ==
  ASSUME Lists, NEW n \in 1..(Len(typed) + 1), \A i \in 1..(n - 1) : ~Ends(Line, i)
  PROVE  EndOfOptions(Line) >= n
<1>1. Len(typed) \in Nat
  BY DEF Lists
<1>2. /\ EndOfOptions(Line) \in 1..(Len(typed) + 1)
      /\ EndOfOptions(Line) <= Len(typed) => Ends(Line, EndOfOptions(Line))
  BY EndIs
<1>3. EndOfOptions(Line) < n => EndOfOptions(Line) \in 1..(n - 1) /\ EndOfOptions(Line) <= Len(typed)
  BY <1>1, <1>2
<1>4. QED
  BY <1>1, <1>2, <1>3

LEMMA DeclaredAre ==
  ASSUME Tables, Lists
  PROVE  /\ DeclaredOptions = OptionsTo(Line, EndOfOptions(Line) - 1)
         /\ DeclaredArgs = ArgsTo(Line, Len(typed))
         /\ DeclaredOptions \in Seq(Calls) /\ DeclaredArgs \in Seq(Words)
         /\ Declared = DeclaredOptions \o ArgCalls(DeclaredArgs) \o << <<"end", "">> >>
<1>1. DeclaredOptions = OptionsTo(Line, EndOfOptions(Line) - 1)
  BY DEF DeclaredOptions, OptionsTo, OptionsOf
<1>2. DOMAIN typed = 1..Len(typed) /\ Len(typed) \in Nat
  BY DEF Lists
<1>3. DeclaredArgs = ArgsTo(Line, Len(typed))
  BY <1>2 DEF DeclaredArgs, ArgsTo, ArgsOf, IsArg
<1>4. EndOfOptions(Line) - 1 \in 0..Len(typed) /\ Len(typed) \in 0..Len(typed)
  BY <1>2, EndIs
<1>5. DeclaredOptions \in Seq(Calls) /\ DeclaredArgs \in Seq(Words)
  BY <1>1, <1>3, <1>4, OptionsGrow, ArgsGrow
<1>6. DOMAIN DeclaredArgs = 1..Len(DeclaredArgs)
  BY <1>5
<1>7. Declared = DeclaredOptions \o ArgCalls(DeclaredArgs) \o << <<"end", "">> >>
  BY DEF Declared
<1>8. QED
  BY <1>1, <1>3, <1>5, <1>7

(***************************************************************************)
(* exchange, place by place.                                               *)
(***************************************************************************)
LEMMA FromIs ==
  ASSUME NEW b \in Nat, NEW m \in Nat, NEW t \in Nat, b <= m, m <= t, NEW i \in Nat
  PROVE  /\ i < b \/ t <= i => From(b, m, t, i) = i
         /\ b <= i /\ i < b + (t - m) => From(b, m, t, i) = i + (m - b)
         /\ b + (t - m) <= i /\ i < t => From(b, m, t, i) = i - (t - m)
<1> DEFINE A == b..(b + (t - m) - 1)
           B == (b + (t - m))..(t - 1)
<1>1. From(b, m, t, i) = CASE i \in A -> i + (m - b) [] i \in B -> i - (t - m) [] OTHER -> i
  BY DEF From
<1>2. i < b \/ t <= i => i \notin A /\ i \notin B
  OBVIOUS
<1>3. b <= i /\ i < b + (t - m) => i \in A /\ i \notin B
  OBVIOUS
<1>4. b + (t - m) <= i /\ i < t => i \notin A /\ i \in B
  OBVIOUS
<1> HIDE DEF A, B
<1>5. QED
  BY <1>1, <1>2, <1>3, <1>4

LEMMA SwapIs ==
  ASSUME NEW S, NEW s \in Seq(S), NEW b \in Nat, NEW u \in Nat, NEW n \in Nat, b + n <= u,
         NEW i \in 1..Len(s)
  PROVE  /\ b <= i /\ i < b + n => Swap(s, b, u, n)[i] = s[i + u - b]
         /\ u <= i /\ i < u + n => Swap(s, b, u, n)[i] = s[i + b - u]
         /\ ~(b <= i /\ i < b + n) /\ ~(u <= i /\ i < u + n) => Swap(s, b, u, n)[i] = s[i]
<1> DEFINE A == b..(b + n - 1)
           B == u..(u + n - 1)
<1>1. Swap(s, b, u, n)[i] = CASE i \in A -> s[i + u - b] [] i \in B -> s[i + b - u]
                              [] OTHER -> s[i]
  <2>1. i \in DOMAIN s
    OBVIOUS
  <2>2. QED
    BY <2>1 DEF Swap
<1>2. b <= i /\ i < b + n => i \in A /\ i \notin B
  OBVIOUS
<1>3. u <= i /\ i < u + n => i \notin A /\ i \in B
  OBVIOUS
<1>4. ~(b <= i /\ i < b + n) /\ ~(u <= i /\ i < u + n) => i \notin A /\ i \notin B
  OBVIOUS
<1> HIDE DEF A, B
<1>5. QED
  BY <1>1, <1>2, <1>3, <1>4

(***************************************************************************)
(* exchange: what it will leave behind stays the same while it turns, is   *)
(* the list itself when it is through, and has the segments changed over   *)
(* when it begins.                                                         *)
(***************************************************************************)
LEMMA TurnKeeps ==
  ASSUME NEW S, NEW s \in Seq(S), NEW b \in Nat, NEW m \in Nat, NEW t \in Nat,
         1 <= b, b < m, m < t, t <= Len(s) + 1
  PROVE  /\ t - m > m - b =>
              Exchanged(Swap(s, b, t - (m - b), m - b), b, m, t - (m - b)) = Exchanged(s, b, m, t)
         /\ t - m <= m - b =>
              Exchanged(Swap(s, b, m, t - m), b + (t - m), m, t) = Exchanged(s, b, m, t)
<1>1. Len(s) \in Nat /\ DOMAIN s = 1..Len(s)
  OBVIOUS
<1>2. ASSUME t - m > m - b
      PROVE  Exchanged(Swap(s, b, t - (m - b), m - b), b, m, t - (m - b)) = Exchanged(s, b, m, t)
  <2> DEFINE n == m - b
             u == t - n
             w == Swap(s, b, u, n)
  <2>1. n \in Nat /\ u \in Nat /\ b + n = m /\ m < u /\ u + n = t
    BY <1>2
  <2> HIDE DEF n, u
  <2>2. w \in Seq(S) /\ Len(w) = Len(s)
    BY <2>1, SwapKeeps
  <2>3. \A i \in 1..Len(s) :
          /\ b <= i /\ i < b + n => w[i] = s[i + u - b]
          /\ u <= i /\ i < u + n => w[i] = s[i + b - u]
          /\ ~(b <= i /\ i < b + n) /\ ~(u <= i /\ i < u + n) => w[i] = s[i]
    BY <2>1, SwapIs
  <2> HIDE DEF w
  <2>4. ASSUME NEW i \in 1..Len(s) PROVE w[From(b, m, u, i)] = s[From(b, m, t, i)]
    <3>1. CASE i < b
      <4>1. From(b, m, u, i) = i /\ From(b, m, t, i) = i
        BY <2>1, <3>1, FromIs
      <4>2. w[i] = s[i]
        BY <2>1, <2>3, <3>1
      <4>3. QED
        BY <4>1, <4>2
    <3>2. CASE b <= i /\ i < b + (u - m)
      <4>1. From(b, m, u, i) = i + (m - b) /\ From(b, m, t, i) = i + (m - b)
        BY <2>1, <3>2, FromIs
      <4>2. i + (m - b) \in 1..Len(s) /\ m <= i + (m - b) /\ i + (m - b) < u
        BY <2>1, <3>2
      <4>3. w[i + (m - b)] = s[i + (m - b)]
        BY <2>1, <2>3, <4>2
      <4>4. QED
        BY <4>1, <4>3
    <3>3. CASE b + (u - m) <= i /\ i < u
      <4>1. From(b, m, u, i) = i - (u - m) /\ From(b, m, t, i) = i + (m - b)
        BY <2>1, <3>3, FromIs
      <4>2. i - (u - m) \in 1..Len(s) /\ b <= i - (u - m) /\ i - (u - m) < b + n
        BY <2>1, <3>3
      <4>3. w[i - (u - m)] = s[(i - (u - m)) + u - b]
        BY <2>3, <4>2
      <4>4. (i - (u - m)) + u - b = i + (m - b)
        BY <2>1
      <4>5. QED
        BY <4>1, <4>3, <4>4
    <3>4. CASE u <= i /\ i < t
      <4>1. From(b, m, u, i) = i /\ From(b, m, t, i) = i - (t - m)
        BY <2>1, <3>4, FromIs
      <4>2. u <= i /\ i < u + n
        BY <2>1, <3>4
      <4>3. w[i] = s[i + b - u]
        BY <2>3, <4>2
      <4>4. i + b - u = i - (t - m)
        BY <2>1
      <4>5. QED
        BY <4>1, <4>3, <4>4
    <3>5. CASE t <= i
      <4>1. From(b, m, u, i) = i /\ From(b, m, t, i) = i
        BY <2>1, <3>5, FromIs
      <4>2. w[i] = s[i]
        BY <2>1, <2>3, <3>5
      <4>3. QED
        BY <4>1, <4>2
    <3>6. QED
      BY <2>1, <3>1, <3>2, <3>3, <3>4, <3>5
  <2>5. Exchanged(w, b, m, u) = Exchanged(s, b, m, t)
    BY <2>2, <2>4 DEF Exchanged
  <2>6. QED
    BY <2>5 DEF w, u, n
<1>3. ASSUME t - m <= m - b
      PROVE  Exchanged(Swap(s, b, m, t - m), b + (t - m), m, t) = Exchanged(s, b, m, t)
  <2> DEFINE n == t - m
             c == b + n
             w == Swap(s, b, m, n)
  <2>1. n \in Nat /\ c \in Nat /\ c = b + n /\ c <= m /\ m + n = t
    BY <1>3
  <2> HIDE DEF n, c
  <2>2. w \in Seq(S) /\ Len(w) = Len(s)
    BY <2>1, SwapKeeps
  <2>3. \A i \in 1..Len(s) :
          /\ b <= i /\ i < b + n => w[i] = s[i + m - b]
          /\ m <= i /\ i < m + n => w[i] = s[i + b - m]
          /\ ~(b <= i /\ i < b + n) /\ ~(m <= i /\ i < m + n) => w[i] = s[i]
    BY <2>1, SwapIs
  <2> HIDE DEF w
  <2>4. ASSUME NEW i \in 1..Len(s) PROVE w[From(c, m, t, i)] = s[From(b, m, t, i)]
    <3>1. CASE i < b
      <4>1. From(c, m, t, i) = i /\ From(b, m, t, i) = i
        BY <2>1, <3>1, FromIs
      <4>2. w[i] = s[i]
        BY <2>1, <2>3, <3>1
      <4>3. QED
        BY <4>1, <4>2
    <3>2. CASE b <= i /\ i < c
      <4>1. From(c, m, t, i) = i /\ From(b, m, t, i) = i + (m - b)
        BY <2>1, <3>2, FromIs
      <4>2. b <= i /\ i < b + n
        BY <2>1, <3>2
      <4>3. w[i] = s[i + m - b]
        BY <2>3, <4>2
      <4>4. i + m - b = i + (m - b)
        OBVIOUS
      <4>5. QED
        BY <4>1, <4>3, <4>4
    <3>3. CASE c <= i /\ i < c + n
      <4>1. From(c, m, t, i) = i + (m - c) /\ From(b, m, t, i) = i - (t - m)
        BY <2>1, <3>3, FromIs
      <4>2. /\ i + (m - c) \in 1..Len(s) /\ m <= i + (m - c) /\ i + (m - c) < m + n
        BY <2>1, <3>3
      <4>3. w[i + (m - c)] = s[(i + (m - c)) + b - m]
        BY <2>3, <4>2
      <4>4. (i + (m - c)) + b - m = i - (t - m)
        BY <2>1
      <4>5. QED
        BY <4>1, <4>3, <4>4
    <3>4. CASE c + n <= i /\ i < t
      <4>1. From(c, m, t, i) = i - (t - m) /\ From(b, m, t, i) = i - (t - m)
        BY <2>1, <3>4, FromIs
      <4>2. i - (t - m) \in 1..Len(s) /\ c <= i - (t - m) /\ i - (t - m) < m
        BY <2>1, <3>4
      <4>3. w[i - (t - m)] = s[i - (t - m)]
        BY <2>1, <2>3, <4>2
      <4>4. QED
        BY <4>1, <4>3
    <3>5. CASE t <= i
      <4>1. From(c, m, t, i) = i /\ From(b, m, t, i) = i
        BY <2>1, <3>5, FromIs
      <4>2. w[i] = s[i]
        BY <2>1, <2>3, <3>5
      <4>3. QED
        BY <4>1, <4>2
    <3>6. QED
      BY <2>1, <3>1, <3>2, <3>3, <3>4, <3>5
  <2>5. Exchanged(w, c, m, t) = Exchanged(s, b, m, t)
    BY <2>2, <2>4 DEF Exchanged
  <2>6. QED
    BY <2>5 DEF w, c, n
<1>4. QED
  BY <1>2, <1>3

LEMMA ExchangeEnds ==
  ASSUME NEW S, NEW s \in Seq(S), NEW b \in Nat, NEW m \in Nat, NEW t \in Nat,
         b <= m, m <= t, b = m \/ m = t
  PROVE  Exchanged(s, b, m, t) = s
<1>1. \A i \in 1..Len(s) : From(b, m, t, i) = i
  BY DEF From
<1>2. QED
  BY <1>1 DEF Exchanged

LEMMA ExchangeBegins ==
  ASSUME NEW s, NEW b \in Nat, NEW m \in Nat, NEW t \in Nat, NEW args \in Seq(Words),
         1 <= b, b <= m, m <= t, t <= Len(s) + 1, Len(s) \in Nat,
         SideBySide(s, b, m, args)
  PROVE  SideBySide(Exchanged(s, b, m, t), b + (t - m), t, args)
<1>1. m - b = Len(args) /\ \A k \in 1..Len(args) : s[b + k - 1].text = args[k]
  BY DEF SideBySide
<1>2. t - (b + (t - m)) = Len(args)
  BY <1>1
<1>3. ASSUME NEW k \in 1..Len(args)
      PROVE  Exchanged(s, b, m, t)[(b + (t - m)) + k - 1].text = args[k]
  <2> DEFINE i == (b + (t - m)) + k - 1
  <2>0. i \in 1..Len(s) /\ i \in Nat /\ b + (t - m) <= i /\ i < t /\ i - (t - m) = b + k - 1
    BY <1>1
  <2> HIDE DEF i
  <2>1. From(b, m, t, i) = b + k - 1
    <3>1. b + (t - m) <= i /\ i < t => From(b, m, t, i) = i - (t - m)
      BY <2>0, FromIs
    <3>2. QED
      BY <2>0, <3>1
  <2>2. Exchanged(s, b, m, t)[i] = s[b + k - 1]
    BY <2>0, <2>1 DEF Exchanged
  <2>3. QED
    BY <1>1, <2>2 DEF i
<1>4. QED
  BY <1>2, <1>3 DEF SideBySide

-----------------------------------------------------------------------------
(* Runs of elements *)

\* Of elements that are no options and take no value none is a value.
LEMMA PlainRun ==
  ASSUME Tables, Lists, NEW a \in 1..Len(typed), NEW b \in a..(Len(typed) + 1),
         ~IsValue(Line)[a], \A i \in a..(b - 1) : NONOPTION_P(typed[i])
  PROVE  /\ \A i \in a..b : i <= Len(typed) => ~IsValue(Line)[i]
         /\ \A i \in a..(b - 1) : OptionsOf(Line, i) = <<>>
<1>0. Len(typed) \in Nat
  BY ValuesAre
<1>1. ASSUME NEW i \in a..(b - 1) PROVE i \in 1..Len(typed) /\ KeysOf(prog, typed[i]) = <<>>
  <2>1. i \in 1..Len(typed)
    BY <1>0
  <2>2. typed[i].name = <<>> /\ typed[i].keys = <<>>
    BY DEF NONOPTION_P
  <2>3. QED
    BY <2>1, <2>2, KeysAreWords
<1> DEFINE T == {i \in a..b : i <= Len(typed) /\ IsValue(Line)[i]}
<1>2. T = {}
  <2>1. SUFFICES ASSUME T # {} PROVE FALSE
    OBVIOUS
  <2>2. T \subseteq Nat
    OBVIOUS
  <2>3. PICK i \in T : \A j \in T : i <= j
    <3> HIDE DEF T
    <3> QED
      BY <2>1, <2>2, LeastOf
  <2>4. i \in a..b /\ i <= Len(typed) /\ IsValue(Line)[i]
    BY <2>3
  <2>5. i # a
    BY <2>4
  <2>6. i \in 2..Len(typed) /\ i - 1 \in a..(b - 1)
    BY <2>4, <2>5, <1>0
  <2>7. TakesNext(prog, typed[i - 1])
    BY <2>4, <2>6, ValuesAre
  <2>8. KeysOf(prog, typed[i - 1]) # <<>>
    BY <2>7 DEF TakesNext
  <2>9. QED
    BY <1>1, <2>6, <2>8
<1>3. \A i \in a..(b - 1) : OptionsOf(Line, i) = <<>>
  BY <1>1, OptionsOfAre
<1>4. QED
  BY <1>2, <1>3

\* Elements that have no options change nothing,
LEMMA QuietRun ==
  ASSUME Tables, Lists, NEW m \in 0..Len(typed), NEW n \in m..Len(typed),
         \A i \in (m + 1)..n : OptionsOf(Line, i) = <<>>
  PROVE  OptionsTo(Line, n) = OptionsTo(Line, m)
<1>0. Len(typed) \in Nat
  BY ValuesAre
<1> DEFINE T == {i \in m..n : OptionsTo(Line, i) # OptionsTo(Line, m)}
<1>1. SUFFICES T = {}
  <2>1. n \in m..n
    BY <1>0
  <2>2. QED
    BY <2>1
<1>2. SUFFICES ASSUME T # {} PROVE FALSE
  OBVIOUS
<1>3. T \subseteq Nat
  BY <1>0
<1>4. PICK i \in T : \A j \in T : i <= j
  <2> HIDE DEF T
  <2> QED
    BY <1>2, <1>3, LeastOf
<1>5. i \in m..n /\ OptionsTo(Line, i) # OptionsTo(Line, m)
  BY <1>4
<1>6. i # m
  BY <1>5
<1>7. /\ i \in (m + 1)..n /\ i - 1 \in m..n /\ i \in 1..Len(typed)
      /\ i - 1 \in 0..Len(typed) /\ ~(i <= i - 1)
  BY <1>0, <1>5, <1>6
<1>8. OptionsTo(Line, i - 1) = OptionsTo(Line, m)
  BY <1>4, <1>7
<1>9. OptionsTo(Line, i) = OptionsTo(Line, i - 1) \o <<>>
  BY <1>7, OptionsGrow
<1>10. OptionsTo(Line, i - 1) \in Seq(Calls)
  BY <1>7, OptionsGrow
<1>11. QED
  BY <1>5, <1>8, <1>9, <1>10, ConcatEmptySeq

\* and arguments come one by one.
LEMMA ArgRun ==
  ASSUME Tables, Lists, NEW m \in 0..Len(typed), NEW n \in m..Len(typed),
         \A i \in (m + 1)..n : IsArg(Line, i)
  PROVE  /\ Len(ArgsTo(Line, n)) = Len(ArgsTo(Line, m)) + (n - m)
         /\ \A k \in 1..Len(ArgsTo(Line, m)) : ArgsTo(Line, n)[k] = ArgsTo(Line, m)[k]
         /\ \A k \in 1..(n - m) :
              ArgsTo(Line, n)[Len(ArgsTo(Line, m)) + k] = typed[m + k].text
<1>0. Len(typed) \in Nat
  BY ValuesAre
<1> DEFINE A(i) == ArgsTo(Line, i)
           Good(i) == /\ Len(A(i)) = Len(A(m)) + (i - m)
                      /\ \A k \in 1..Len(A(m)) : A(i)[k] = A(m)[k]
                      /\ \A k \in 1..(i - m) : A(i)[Len(A(m)) + k] = typed[m + k].text
           T == {i \in m..n : ~Good(i)}
<1>1. SUFFICES T = {}
  <2>1. n \in m..n
    BY <1>0
  <2>2. Good(n)
    <3> HIDE DEF Good
    <3> QED
      BY <2>1
  <2>3. QED
    BY <2>2
<1>2. SUFFICES ASSUME T # {} PROVE FALSE
  OBVIOUS
<1>3. T \subseteq Nat
  BY <1>0
<1>4. PICK i \in T : \A j \in T : i <= j
  <2> HIDE DEF T
  <2> QED
    BY <1>2, <1>3, LeastOf
<1>5. i \in m..n /\ ~Good(i)
  BY <1>4
<1>6. \A j \in 0..Len(typed) : A(j) \in Seq(Words)
  BY ArgsGrow
<1>7. A(m) \in Seq(Words) /\ Len(A(m)) \in Nat
  BY <1>6
<1>8. i # m
  <2>1. Good(m)
    BY <1>7
  <2>2. QED
    BY <1>5, <2>1
<1>9. /\ i \in (m + 1)..n /\ i - 1 \in m..n /\ i \in 1..Len(typed)
      /\ i - 1 \in 0..Len(typed) /\ ~(i <= i - 1)
  BY <1>0, <1>5, <1>8
<1>10. Good(i - 1)
  <2> HIDE DEF Good
  <2> QED
    BY <1>4, <1>9
<1>11. A(i) = Append(A(i - 1), typed[i].text)
  BY <1>9, ArgsGrow
<1>12. A(i - 1) \in Seq(Words) /\ typed[i].text \in Words
  BY <1>6, <1>9, KeysAreWords
<1> DEFINE u == A(i - 1)
           v == A(i)
           w == A(m)
           x == typed[i].text
<1>13. /\ Len(v) = Len(u) + 1 /\ v[Len(u) + 1] = x
       /\ \A k \in 1..Len(u) : v[k] = u[k]
  BY <1>11, <1>12, AppendProperties
<1>14. /\ Len(u) = Len(w) + (i - 1 - m) /\ Len(w) \in Nat
       /\ \A k \in 1..Len(w) : u[k] = w[k]
       /\ \A k \in 1..(i - 1 - m) : u[Len(w) + k] = typed[m + k].text
  BY <1>7, <1>10
<1>15. m \in Nat /\ i \in Nat /\ m < i
  BY <1>9
<1> HIDE DEF A, u, v, w, x
<1>16. Len(v) = Len(w) + (i - m)
  BY <1>13, <1>14, <1>15
<1>17. \A k \in 1..Len(w) : v[k] = w[k]
  <2>1. 1..Len(w) \subseteq 1..Len(u)
    BY <1>14, <1>15
  <2>2. QED
    BY <1>13, <1>14, <2>1
<1>18. ASSUME NEW k \in 1..(i - m) PROVE v[Len(w) + k] = typed[m + k].text
  <2>1. CASE k = i - m
    <3>1. Len(w) + k = Len(u) + 1 /\ m + k = i
      BY <2>1, <1>14, <1>15
    <3>2. QED
      BY <3>1, <1>13 DEF x
  <2>2. CASE k # i - m
    <3>0. Len(u) = Len(w) + (i - 1 - m) /\ Len(w) \in Nat
      BY <1>14
    <3>1. k \in 1..(i - 1 - m) /\ Len(w) + k \in 1..Len(u)
      BY <2>2, <3>0, <1>15
    <3>2. QED
      BY <3>1, <1>13, <1>14
  <2>3. QED
    BY <2>1, <2>2
<1>19. QED
  BY <1>5, <1>16, <1>17, <1>18 DEF v, w

\* What was skipped, and a run of arguments behind it.
LEMMA SideBySideGrows ==
  ASSUME NEW list, NEW first \in Nat, NEW at \in Nat, NEW end \in Nat,
         NEW old \in Seq(Words), NEW new \in Seq(Words), at <= end,
         SideBySide(list, first, at, old),
         Len(new) = Len(old) + (end - at),
         \A k \in 1..Len(old) : new[k] = old[k],
         \A k \in 1..(end - at) : new[Len(old) + k] = list[at - 1 + k].text
  PROVE  SideBySide(list, first, end, new)
<1>1. at - first = Len(old) /\ \A k \in 1..Len(old) : list[first + k - 1].text = old[k]
  BY DEF SideBySide
<1>2. Len(old) \in Nat
  OBVIOUS
<1>3. end - first = Len(new)
  BY <1>1, <1>2
<1>4. ASSUME NEW k \in 1..Len(new) PROVE list[first + k - 1].text = new[k]
  <2>1. CASE k <= Len(old)
    BY <1>1, <2>1
  <2>2. CASE k > Len(old)
    <3>1. k - Len(old) \in 1..(end - at)
      BY <1>2, <2>2
    <3>2. new[Len(old) + (k - Len(old))] = list[at - 1 + (k - Len(old))].text
      BY <3>1
    <3>3. Len(old) + (k - Len(old)) = k /\ at - 1 + (k - Len(old)) = first + k - 1
      BY <1>1, <1>2
    <3>4. QED
      BY <3>2, <3>3
  <2>3. QED
    BY <1>2, <2>1, <2>2
<1>5. QED
  BY <1>3, <1>4 DEF SideBySide

-----------------------------------------------------------------------------
(* Layout, step by step *)

LEMMA LineIs ==
  Line.prog = prog /\ Line.posix = posix /\ Line.typed = typed
BY DEF Line

LEMMA Numbers ==
  ASSUME CliInv
  PROVE  /\ Len(typed) \in Nat /\ Len(argv) = Len(typed) /\ Stop = Len(typed) + 1
         /\ optind \in 1..Stop /\ first_nonopt \in 1..Stop /\ last_nonopt \in 1..Stop
         /\ bottom \in 1..Stop /\ top \in 1..Stop /\ optind \in Nat
         /\ first_nonopt \in Nat /\ last_nonopt \in Nat /\ bottom \in Nat /\ top \in Nat
         /\ argv \in Seq(Elements) /\ Tables /\ Lists /\ Walk
<1>1. Tables /\ Lists /\ Walk
  BY DEF CliInv
<1>2. Len(argv) = Len(typed) /\ argv \in Seq(Elements) /\ Len(argv) \in Nat
  BY <1>1 DEF Lists
<1>3. QED
  BY <1>1, <1>2, ListTypes

\* No step changes the command line.
LEMMA LineRests ==
  ASSUME CliInv, CliInv', UNCHANGED <<tableVars, prog>>
  PROVE  /\ Line' = Line /\ typed' = typed /\ posix' = posix /\ Stop' = Stop
         /\ DeclaredOptions' = DeclaredOptions /\ DeclaredArgs' = DeclaredArgs
         /\ Declared' = Declared
<1>1. typed' = typed /\ posix' = posix /\ prog' = prog
  BY DEF tableVars
<1>2. Line' = Line
  BY <1>1 DEF Line
<1>3. Stop' = Stop
  BY <1>1 DEF CliInv, Lists, Stop
<1>4. DeclaredOptions' = DeclaredOptions
  BY <1>2 DEF DeclaredOptions
<1>5. DeclaredArgs' = DeclaredArgs
  BY <1>1, <1>2 DEF DeclaredArgs
<1>6. Declared' = Declared
  BY <1>4, <1>5 DEF Declared
<1>7. QED
  BY <1>1, <1>2, <1>3, <1>4, <1>5, <1>6

LEMMA ExchangeLays ==
  ASSUME CliInv, CliInv', Layout, Exchange, prog' = prog
  PROVE  Layout'
<1>0. /\ Len(typed) \in Nat /\ Len(argv) = Len(typed) /\ Stop = Len(typed) + 1
      /\ optind \in 1..Stop /\ first_nonopt \in 1..Stop /\ last_nonopt \in 1..Stop
      /\ bottom \in 1..Stop /\ top \in 1..Stop /\ optind \in Nat
      /\ first_nonopt \in Nat /\ last_nonopt \in Nat /\ bottom \in Nat /\ top \in Nat
      /\ argv \in Seq(Elements) /\ Tables /\ Lists /\ Walk
  BY Numbers
<1>1. /\ scan = "exchange" /\ UNCHANGED <<tableVars, optind, nextchar, resume, calls>>
      /\ bottom <= last_nonopt /\ last_nonopt <= top /\ top <= optind
      /\ nextchar = <<>> /\ resume \in {"skip", "quoted"}
  BY <1>0 DEF Exchange, Walk
<1>2. /\ Line' = Line /\ typed' = typed /\ posix' = posix /\ Stop' = Stop
  BY <1>1, LineRests
<1>3. /\ Asked /\ Ahead
      /\ SideBySide(Exchanged(argv, bottom, last_nonopt, top),
                    first_nonopt + (optind - last_nonopt), optind,
                    ArgsTo(Line, optind - 1))
  BY <1>1 DEF Layout, Gathered
<1>4. CASE top > last_nonopt /\ last_nonopt > bottom
  <2> DEFINE len == IF top - last_nonopt > last_nonopt - bottom
                    THEN last_nonopt - bottom ELSE top - last_nonopt
  <2>1. /\ UNCHANGED <<skipVars, scan>>
        /\ \/ /\ top - last_nonopt > last_nonopt - bottom
              /\ argv' = Swap(argv, bottom, top - len, len)
              /\ top' = top - len /\ bottom' = bottom
           \/ /\ top - last_nonopt <= last_nonopt - bottom
              /\ argv' = Swap(argv, bottom, last_nonopt, len)
              /\ bottom' = bottom + len /\ top' = top
    BY <1>4 DEF Exchange, Shorten
  <2>2. Exchanged(argv', bottom', last_nonopt, top') = Exchanged(argv, bottom, last_nonopt, top)
    <3>1. 1 <= bottom /\ bottom < last_nonopt /\ last_nonopt < top /\ top <= Len(argv) + 1
      BY <1>0, <1>1, <1>4
    <3>2. CASE top - last_nonopt > last_nonopt - bottom
      <4>1. /\ argv' = Swap(argv, bottom, top - (last_nonopt - bottom), last_nonopt - bottom)
            /\ top' = top - (last_nonopt - bottom) /\ bottom' = bottom
        BY <1>0, <2>1, <3>2
      <4>2. QED
        BY <1>0, <3>1, <3>2, <4>1, TurnKeeps
    <3>3. CASE top - last_nonopt <= last_nonopt - bottom
      <4>1. /\ argv' = Swap(argv, bottom, last_nonopt, top - last_nonopt)
            /\ bottom' = bottom + (top - last_nonopt) /\ top' = top
        BY <1>0, <2>1, <3>3
      <4>2. QED
        BY <1>0, <3>1, <3>3, <4>1, TurnKeeps
    <3>4. QED
      BY <1>0, <3>2, <3>3
  <2>3. ASSUME NEW i \in optind..Len(typed) PROVE argv'[i] = typed[i]
    <3>1. i \in 1..Len(argv) /\ top <= i
      BY <1>0, <1>1
    <3>2. len \in Nat /\ bottom + len <= last_nonopt /\ last_nonopt + len <= top
      BY <1>0, <1>1, <1>4
    <3> HIDE DEF len
    <3>3. argv'[i] = argv[i]
      <4>1. CASE argv' = Swap(argv, bottom, top - len, len)
        <5>1. /\ top - len \in Nat /\ bottom + len <= top - len
              /\ ~(bottom <= i /\ i < bottom + len)
              /\ ~(top - len <= i /\ i < (top - len) + len)
          BY <1>0, <3>1, <3>2
        <5> DEFINE u == top - len
        <5> HIDE DEF u
        <5>0. /\ argv \in Seq(Elements) /\ bottom \in Nat /\ u \in Nat /\ len \in Nat
              /\ bottom + len <= u /\ i \in 1..Len(argv)
              /\ ~(bottom <= i /\ i < bottom + len) /\ ~(u <= i /\ i < u + len)
          BY <1>0, <3>1, <3>2, <5>1 DEF u
        <5>2. Swap(argv, bottom, u, len)[i] = argv[i]
          BY <5>0, SwapIs
        <5>3. QED
          BY <4>1, <5>2 DEF u
      <4>2. CASE argv' = Swap(argv, bottom, last_nonopt, len)
        <5>1. /\ ~(bottom <= i /\ i < bottom + len)
              /\ ~(last_nonopt <= i /\ i < last_nonopt + len)
          BY <1>0, <3>1, <3>2
        <5> DEFINE u == last_nonopt
        <5>0. /\ argv \in Seq(Elements) /\ bottom \in Nat /\ u \in Nat
              /\ len \in Nat /\ bottom + len <= u /\ i \in 1..Len(argv)
              /\ ~(bottom <= i /\ i < bottom + len) /\ ~(u <= i /\ i < u + len)
          BY <1>0, <3>1, <3>2, <5>1
        <5> HIDE DEF u
        <5>2. Swap(argv, bottom, u, len)[i] = argv[i]
          BY <5>0, SwapIs
        <5>3. QED
          BY <4>2, <5>2 DEF u
      <4>3. QED
        BY <2>1, <4>1, <4>2
    <3>4. argv[i] = typed[i]
      BY <1>1, <1>3 DEF Ahead
    <3>5. QED
      BY <3>3, <3>4
  <2>4. scan' = "exchange" /\ first_nonopt' = first_nonopt /\ last_nonopt' = last_nonopt
    BY <1>1, <2>1 DEF skipVars
  <2>5. Asked'
    BY <1>1, <1>2, <1>3, <2>4 DEF Asked
  <2>6. Gathered'
    BY <1>1, <1>2, <1>3, <2>2, <2>4 DEF Gathered
  <2>7. Ahead'
    BY <1>1, <1>2, <1>3, <2>3, <2>4 DEF Ahead
  <2>8. HandedOut'
    BY <2>4 DEF HandedOut
  <2>9. QED
    BY <2>5, <2>6, <2>7, <2>8 DEF Layout
<1>5. CASE ~(top > last_nonopt /\ last_nonopt > bottom)
  <2>1. /\ first_nonopt' = first_nonopt + (optind - last_nonopt)
        /\ last_nonopt' = optind /\ scan' = resume /\ argv' = argv
    BY <1>5 DEF Exchange
  <2>2. bottom = last_nonopt \/ last_nonopt = top
    BY <1>0, <1>1, <1>5
  <2>3. Exchanged(argv, bottom, last_nonopt, top) = argv
    BY <1>0, <1>1, <2>2, ExchangeEnds
  <2>4. Asked'
    BY <1>1, <1>2, <1>3, <2>1 DEF Asked
  <2>5. Gathered'
    BY <1>1, <1>2, <1>3, <2>1, <2>3 DEF Gathered
  <2>6. Ahead'
    BY <1>1, <1>2, <1>3, <2>1 DEF Ahead
  <2>7. HandedOut'
    BY <1>1, <2>1 DEF HandedOut
  <2>8. QED
    BY <2>4, <2>5, <2>6, <2>7 DEF Layout
<1>6. QED
  BY <1>4, <1>5

(***************************************************************************)
(* Rearrange finds the arguments between first and last, and the elements  *)
(* behind them are options.                                                *)
(***************************************************************************)
LEMMA RearrangeGathers ==
  ASSUME CliInv, CliInv', NEW n \in 1..Stop, NEW next \in {"skip", "quoted"},
         NEW empty \in BOOLEAN, NEW args \in Seq(Words),
         first_nonopt <= last_nonopt, last_nonopt <= n,
         first_nonopt = last_nonopt => empty \/ last_nonopt = n,
         empty => first_nonopt = last_nonopt \/ last_nonopt # n,
         Rearrange(n, empty, next), optind' = n, argv' = argv,
         SideBySide(argv, first_nonopt, last_nonopt, args)
  PROVE  /\ scan' \in {next, "exchange"} /\ (scan' = "exchange" => resume' = next)
         /\ scan' = next => SideBySide(argv', first_nonopt', optind', args)
         /\ scan' = "exchange" =>
              SideBySide(Exchanged(argv', bottom', last_nonopt', top'),
                         first_nonopt' + (optind' - last_nonopt'), optind', args)
<1>0. /\ Len(typed) \in Nat /\ Len(argv) = Len(typed) /\ Stop = Len(typed) + 1
      /\ optind \in 1..Stop /\ first_nonopt \in 1..Stop /\ last_nonopt \in 1..Stop
      /\ bottom \in 1..Stop /\ top \in 1..Stop /\ optind \in Nat
      /\ first_nonopt \in Nat /\ last_nonopt \in Nat /\ bottom \in Nat /\ top \in Nat
      /\ argv \in Seq(Elements) /\ Tables /\ Lists /\ Walk
  BY Numbers
<1>1. n \in Nat /\ 1 <= n /\ n <= Len(argv) + 1
  BY <1>0
<1>2. CASE first_nonopt # last_nonopt /\ last_nonopt # n
  <2>1. /\ scan' = "exchange" /\ resume' = next /\ bottom' = first_nonopt /\ top' = n
        /\ first_nonopt' = first_nonopt /\ last_nonopt' = last_nonopt
    BY <1>2 DEF Rearrange, skipVars
  <2>2. SideBySide(Exchanged(argv, first_nonopt, last_nonopt, n),
                   first_nonopt + (n - last_nonopt), n, args)
    BY <1>0, <1>1, ExchangeBegins
  <2>3. QED
    BY <2>1, <2>2
<1>3. CASE first_nonopt = last_nonopt \/ last_nonopt = n
  <2>1. /\ scan' = next /\ first_nonopt' = IF empty THEN n ELSE first_nonopt
        /\ last_nonopt' = last_nonopt
    BY <1>3 DEF Rearrange
  <2>2. SideBySide(argv, first_nonopt', n, args)
    <3>1. CASE last_nonopt = n /\ ~empty
      BY <2>1, <3>1
    <3>2. CASE empty
      <4>1. first_nonopt = last_nonopt
        BY <1>3, <3>2
      <4>2. Len(args) = 0
        BY <1>0, <4>1 DEF SideBySide
      <4>3. first_nonopt' = n
        BY <2>1, <3>2
      <4>4. QED
        BY <1>1, <4>2, <4>3 DEF SideBySide
    <3>3. QED
      BY <1>3, <3>1, <3>2
  <2>3. QED
    BY <2>1, <2>2
<1>4. QED
  BY <1>2, <1>3

\* A run of arguments that lie where they were typed joins those before them.
LEMMA ArgsGather ==
  ASSUME CliInv, NEW a \in 1..Stop, NEW b \in a..Stop,
         \A i \in a..(b - 1) : IsArg(Line, i) /\ argv[i] = typed[i],
         SideBySide(argv, first_nonopt, a, ArgsTo(Line, a - 1))
  PROVE  SideBySide(argv, first_nonopt, b, ArgsTo(Line, b - 1))
<1>0. /\ Len(typed) \in Nat /\ Stop = Len(typed) + 1 /\ first_nonopt \in Nat
      /\ Tables /\ Lists
  BY Numbers
<1> DEFINE m == a - 1
           n == b - 1
           old == ArgsTo(Line, m)
           new == ArgsTo(Line, n)
<1>1. m \in 0..Len(typed) /\ n \in m..Len(typed) /\ a \in Nat /\ b \in Nat /\ n - m = b - a
      /\ (m + 1)..n = a..(b - 1) /\ a <= b
  BY <1>0
<1>2. \A i \in (m + 1)..n : IsArg(Line, i)
  BY <1>1
<1>3. old \in Seq(Words) /\ new \in Seq(Words)
  <2>1. n \in 0..Len(typed)
    BY <1>0, <1>1
  <2> HIDE DEF m, n
  <2>2. QED
    BY <1>0, <1>1, <2>1, ArgsGrow
<1>4. /\ Len(new) = Len(old) + (n - m)
      /\ \A k \in 1..Len(old) : new[k] = old[k]
      /\ \A k \in 1..(n - m) : new[Len(old) + k] = typed[m + k].text
  <2> HIDE DEF m, n
  <2> QED
    BY <1>0, <1>1, <1>2, ArgRun
<1> HIDE DEF old, new
<1>5. \A k \in 1..(b - a) : new[Len(old) + k] = argv[a - 1 + k].text
  <2>1. ASSUME NEW k \in 1..(b - a) PROVE new[Len(old) + k] = argv[a - 1 + k].text
    <3>1. a - 1 + k \in a..(b - 1) /\ m + k = a - 1 + k /\ k \in 1..(n - m)
      BY <1>0, <1>1
    <3>2. new[Len(old) + k] = typed[a - 1 + k].text
      BY <1>4, <3>1
    <3>3. QED
      BY <3>1, <3>2
  <2>2. QED
    BY <2>1
<1>6. SideBySide(argv, first_nonopt, a, old)
  BY DEF old
<1>7. SideBySide(argv, first_nonopt, b, new)
  BY <1>0, <1>1, <1>3, <1>4, <1>5, <1>6, SideBySideGrows
<1>8. QED
  BY <1>7 DEF new

LEMMA AdvanceLays ==
  ASSUME CliInv, CliInv', Layout, Advance, prog' = prog
  PROVE  Layout'
<1>0. /\ Len(typed) \in Nat /\ Len(argv) = Len(typed) /\ Stop = Len(typed) + 1
      /\ optind \in 1..Stop /\ first_nonopt \in 1..Stop /\ last_nonopt \in 1..Stop
      /\ bottom \in 1..Stop /\ top \in 1..Stop /\ optind \in Nat
      /\ first_nonopt \in Nat /\ last_nonopt \in Nat /\ bottom \in Nat /\ top \in Nat
      /\ argv \in Seq(Elements) /\ Tables /\ Lists /\ Walk
  BY Numbers
<1>1. /\ scan = "getopt" /\ nextchar = <<>>
      /\ UNCHANGED <<tableVars, argv, optind, nextchar, calls>>
      /\ first_nonopt <= last_nonopt /\ last_nonopt <= optind
  BY <1>0 DEF Advance, Walk
<1>2. /\ Line' = Line /\ typed' = typed /\ posix' = posix /\ Stop' = Stop
  BY <1>1, LineRests
<1>3. /\ Between(Line, optind, calls) /\ Ahead
      /\ SideBySide(argv, first_nonopt, last_nonopt, ArgsTo(Line, optind - 1))
  BY <1>1 DEF Layout, Gathered, Asked
<1>4. CASE posix
  <2>1. scan' = "dashes" /\ first_nonopt' = first_nonopt /\ last_nonopt' = last_nonopt
    BY <1>4 DEF Advance, skipVars
  <2>2. Asked'
    BY <1>1, <1>2, <1>3, <2>1 DEF Asked
  <2>3. Gathered'
    BY <1>1, <1>2, <1>3, <2>1 DEF Gathered
  <2>4. Ahead'
    BY <1>1, <1>2, <1>3, <1>4, <2>1 DEF Ahead
  <2>5. HandedOut'
    BY <2>1 DEF HandedOut
  <2>6. QED
    BY <2>2, <2>3, <2>4, <2>5 DEF Layout
<1>5. CASE ~posix
  <2> DEFINE empty == last_nonopt # optind
             args == ArgsTo(Line, optind - 1)
  <2>1. Rearrange(optind, empty, "skip")
    BY <1>5 DEF Advance
  <2>2. args \in Seq(Words)
    <3>1. optind - 1 \in 0..Len(typed)
      BY <1>0
    <3>2. QED
      BY <1>0, <3>1, ArgsGrow
  <2>3. /\ empty \in BOOLEAN
        /\ first_nonopt = last_nonopt => empty \/ last_nonopt = optind
        /\ empty => first_nonopt = last_nonopt \/ last_nonopt # optind
    OBVIOUS
  <2>4. SideBySide(argv, first_nonopt, last_nonopt, args)
    BY <1>3
  <2> HIDE DEF empty, args
  <2>5. /\ scan' \in {"skip", "exchange"} /\ (scan' = "exchange" => resume' = "skip")
        /\ scan' = "skip" => SideBySide(argv', first_nonopt', optind', args)
        /\ scan' = "exchange" =>
             SideBySide(Exchanged(argv', bottom', last_nonopt', top'),
                        first_nonopt' + (optind' - last_nonopt'), optind', args)
    BY <1>0, <1>1, <2>1, <2>2, <2>3, <2>4, RearrangeGathers
  <2>6. Asked'
    BY <1>1, <1>2, <1>3, <2>5 DEF Asked
  <2>7. Gathered'
    BY <1>1, <1>2, <2>5 DEF Gathered, args
  <2>8. Ahead'
    BY <1>1, <1>2, <1>3, <1>5, <2>5 DEF Ahead
  <2>9. HandedOut'
    BY <2>5 DEF HandedOut
  <2>10. QED
    BY <2>6, <2>7, <2>8, <2>9 DEF Layout
<1>6. QED
  BY <1>4, <1>5

LEMMA SkipLays ==
  ASSUME CliInv, CliInv', Layout, Skip, prog' = prog
  PROVE  Layout'
<1>0. /\ Len(typed) \in Nat /\ Len(argv) = Len(typed) /\ Stop = Len(typed) + 1
      /\ optind \in 1..Stop /\ first_nonopt \in 1..Stop /\ last_nonopt \in 1..Stop
      /\ bottom \in 1..Stop /\ top \in 1..Stop /\ optind \in Nat
      /\ first_nonopt \in Nat /\ last_nonopt \in Nat /\ bottom \in Nat /\ top \in Nat
      /\ argv \in Seq(Elements) /\ Tables /\ Lists /\ Walk
  BY Numbers
<1>1. /\ scan = "skip" /\ last_nonopt' = optind' /\ scan' = "dashes" /\ nextchar = <<>>
      /\ UNCHANGED <<tableVars, argv, first_nonopt, nextchar, swapVars, calls>>
  BY <1>0 DEF Skip, Walk
<1>2. /\ Line' = Line /\ typed' = typed /\ posix' = posix /\ Stop' = Stop
  BY <1>1, LineRests
<1>3. /\ Between(Line, optind, calls) /\ ~posix
      /\ \A i \in optind..Len(typed) : argv[i] = typed[i]
      /\ SideBySide(argv, first_nonopt, optind, ArgsTo(Line, optind - 1))
  BY <1>1 DEF Layout, Gathered, Asked, Ahead
<1>4. Line.prog = prog /\ Line.posix = posix /\ Line.typed = typed
  BY LineIs
<1> DEFINE a == optind
           b == optind'
<1>5. /\ b \in a..Stop
      /\ \A j \in a..(b - 1) : NONOPTION_P(argv[j])
      /\ b = Stop \/ ~NONOPTION_P(argv[b])
  BY <1>0, SkipsTo
<1>6. PICK c \in a..Stop : c = b
  BY <1>5
<1> HIDE DEF b
<1>7. ASSUME NEW j \in a..(c - 1)
      PROVE  j \in 1..Len(typed) /\ NONOPTION_P(typed[j]) /\ argv[j] = typed[j] /\ ~Dashes(typed[j])
  <2>1. j \in a..Len(typed) /\ j \in 1..Len(typed)
    BY <1>0
  <2>2. NONOPTION_P(argv[j]) /\ argv[j] = typed[j]
    BY <1>3, <1>5, <1>6, <2>1
  <2>3. QED
    BY <2>1, <2>2 DEF NONOPTION_P
<1>8. /\ \A i \in a..c : i <= Len(typed) => ~IsValue(Line)[i]
      /\ \A i \in a..(c - 1) : OptionsOf(Line, i) = <<>>
  <2>1. CASE a = Stop
    <3>1. c = a /\ ~(a <= Len(typed)) /\ a..(c - 1) = {}
      BY <1>0, <2>1
    <3>2. \A i \in a..c : i = a
      BY <1>0, <3>1
    <3>3. QED
      BY <3>1, <3>2
  <2>2. CASE a # Stop
    <3>1. a \in 1..Len(typed) /\ c \in a..(Len(typed) + 1)
      BY <1>0, <2>2
    <3>2. ~IsValue(Line)[a]
      BY <1>3, <1>4, <3>1 DEF Between
    <3> HIDE DEF a
    <3>3. QED
      BY <1>0, <1>7, <3>1, <3>2, PlainRun
  <2>3. QED
    BY <2>1, <2>2
<1>9. \A i \in 1..(c - 1) : ~Ends(Line, i)
  <2>1. ASSUME NEW i \in 1..(c - 1) PROVE ~Ends(Line, i)
    <3>1. CASE i \in 1..(a - 1)
      BY <1>3, <3>1 DEF Between
    <3>2. CASE i \in a..(c - 1)
      BY <1>3, <1>4, <1>7, <3>2 DEF Ends
    <3>3. i \in 1..(a - 1) \/ i \in a..(c - 1)
      BY <1>0
    <3>4. QED
      BY <3>1, <3>2, <3>3
  <2>2. QED
    BY <2>1
<1>10. \A i \in a..(c - 1) : IsArg(Line, i)
  <2>1. c \in 1..(Len(typed) + 1)
    BY <1>0
  <2>2. EndOfOptions(Line) >= c /\ EndOfOptions(Line) \in 1..(Len(typed) + 1)
    BY <1>0, <1>9, <2>1, EndIsBehind, EndIs
  <2>3. ASSUME NEW i \in a..(c - 1) PROVE IsArg(Line, i)
    <3>1. i < EndOfOptions(Line) /\ i \in a..c
      BY <1>0, <2>1, <2>2
    <3>2. ~IsValue(Line)[i] /\ NONOPTION_P(typed[i])
      BY <1>7, <1>8, <3>1
    <3>3. QED
      BY <1>4, <3>1, <3>2 DEF IsArg
  <2>4. QED
    BY <2>3
<1>11. Between(Line, c, calls)
  <2> DEFINE m == a - 1
             n == c - 1
  <2>1. m \in 0..Len(typed) /\ n \in m..Len(typed) /\ (m + 1)..n = a..(c - 1)
    BY <1>0
  <2>2. \A i \in (m + 1)..n : OptionsOf(Line, i) = <<>>
    BY <1>8, <2>1
  <2>3. calls = OptionsTo(Line, m)
    BY <1>3 DEF Between
  <2> HIDE DEF m, n
  <2>4. OptionsTo(Line, n) = OptionsTo(Line, m)
    BY <1>0, <2>1, <2>2, QuietRun
  <2>5. calls = OptionsTo(Line, c - 1)
    BY <2>3, <2>4 DEF n
  <2>6. c <= Len(typed) => ~IsValue(Line)[c]
    <3>1. c \in a..c
      BY <1>0
    <3>2. QED
      BY <1>8, <3>1
  <2>7. QED
    BY <1>4, <1>9, <2>5, <2>6 DEF Between
<1>12. SideBySide(argv, first_nonopt, c, ArgsTo(Line, c - 1))
  <2>1. a \in 1..Stop /\ c \in a..Stop
    BY <1>0
  <2>2. SideBySide(argv, first_nonopt, a, ArgsTo(Line, a - 1))
    BY <1>3
  <2> HIDE DEF a
  <2>3. QED
    BY <1>7, <1>10, <2>1, <2>2, ArgsGather
<1>13. optind' = c
  BY <1>6 DEF b
<1>14. \A i \in c..Len(typed) : argv[i] = typed[i]
  <2>1. c..Len(typed) \subseteq a..Len(typed)
    BY <1>0
  <2>2. QED
    BY <1>3, <2>1
<1>15. c < Stop => ~NONOPTION_P(typed[c])
  <2>1. c < Stop => c # Stop /\ c \in c..Len(typed)
    BY <1>0
  <2>2. QED
    BY <1>5, <1>6, <1>14, <2>1
<1>16. Asked'
  BY <1>1, <1>2, <1>11, <1>13 DEF Asked
<1>17. Gathered'
  BY <1>1, <1>2, <1>12, <1>13 DEF Gathered
<1>18. Ahead'
  BY <1>1, <1>2, <1>3, <1>13, <1>14, <1>15 DEF Ahead
<1>19. HandedOut'
  BY <1>1 DEF HandedOut
<1>20. QED
  BY <1>16, <1>17, <1>18, <1>19 DEF Layout

LEMMA FindDashesLays ==
  ASSUME CliInv, CliInv', Layout, FindDashes, prog' = prog
  PROVE  Layout'
<1>0. /\ Len(typed) \in Nat /\ Len(argv) = Len(typed) /\ Stop = Len(typed) + 1
      /\ optind \in 1..Stop /\ first_nonopt \in 1..Stop /\ last_nonopt \in 1..Stop
      /\ bottom \in 1..Stop /\ top \in 1..Stop /\ optind \in Nat
      /\ first_nonopt \in Nat /\ last_nonopt \in Nat /\ bottom \in Nat /\ top \in Nat
      /\ argv \in Seq(Elements) /\ Tables /\ Lists /\ Walk
  BY Numbers
<1>1. /\ scan = "dashes" /\ nextchar = <<>>
      /\ UNCHANGED <<tableVars, argv, nextchar, calls>>
      /\ first_nonopt <= last_nonopt /\ last_nonopt <= optind
  BY <1>0 DEF FindDashes, Walk
<1>2. /\ Line' = Line /\ typed' = typed /\ posix' = posix /\ Stop' = Stop
      /\ DeclaredOptions' = DeclaredOptions
  BY <1>1, LineRests
<1>3. /\ Between(Line, optind, calls)
      /\ \A i \in optind..Len(typed) : argv[i] = typed[i]
      /\ posix => first_nonopt = last_nonopt
      /\ first_nonopt = last_nonopt \/ last_nonopt = optind
      /\ optind < Stop /\ NONOPTION_P(typed[optind]) => posix
      /\ SideBySide(argv, first_nonopt, last_nonopt, ArgsTo(Line, optind - 1))
  BY <1>1 DEF Layout, Gathered, Asked, Ahead
<1>4. Line.prog = prog /\ Line.posix = posix /\ Line.typed = typed
  BY LineIs
<1>5. CASE optind < Stop /\ Dashes(argv[optind])
  <2>1. optind \in 1..Len(typed) /\ optind \in optind..Len(typed) /\ optind <= Len(typed)
    BY <1>0, <1>5
  <2>2. Dashes(typed[optind]) /\ ~IsValue(Line)[optind]
    BY <1>3, <1>4, <1>5, <2>1 DEF Between
  <2>3. Ends(Line, optind)
    BY <1>4, <2>2 DEF Ends
  <2>4. EndOfOptions(Line) = optind
    BY <1>0, <1>3, <2>1, <2>3, EndIsAt DEF Between
  <2>5. ~IsArg(Line, optind)
    BY <1>0, <1>4, <2>2, <2>4 DEF IsArg
  <2>6. ArgsTo(Line, optind) = ArgsTo(Line, optind - 1) /\ ArgsTo(Line, optind) \in Seq(Words)
    <3>1. optind \in 0..Len(typed)
      BY <2>1
    <3>2. QED
      BY <1>0, <2>1, <2>5, <3>1, ArgsGrow
  <2> DEFINE empty == first_nonopt = last_nonopt
             n == optind + 1
             args == ArgsTo(Line, optind)
  <2>7. optind' = n /\ Rearrange(n, empty, "quoted") /\ argv' = argv
    BY <1>1, <1>5 DEF FindDashes
  <2>8. /\ empty \in BOOLEAN /\ n \in 1..Stop /\ last_nonopt <= n
        /\ n - 1 = optind /\ n - 2 = optind - 1
        /\ first_nonopt = last_nonopt => empty \/ last_nonopt = n
        /\ empty => first_nonopt = last_nonopt \/ last_nonopt # n
    BY <1>0, <1>1, <1>5
  <2>9. SideBySide(argv, first_nonopt, last_nonopt, args) /\ args \in Seq(Words)
    BY <1>3, <2>6
  <2> HIDE DEF empty, args
  <2>10. Behind(Line, n, calls)
    BY <1>3, <1>4, <2>2, <2>4, <2>8 DEF Behind, Between
  <2>11. \A i \in n..Len(typed) : argv[i] = typed[i]
    BY <1>0, <1>3
  <2> HIDE DEF n
  <2>12. /\ scan' \in {"quoted", "exchange"} /\ (scan' = "exchange" => resume' = "quoted")
         /\ scan' = "quoted" => SideBySide(argv', first_nonopt', optind', args)
         /\ scan' = "exchange" =>
              SideBySide(Exchanged(argv', bottom', last_nonopt', top'),
                         first_nonopt' + (optind' - last_nonopt'), optind', args)
    BY <1>1, <2>7, <2>8, <2>9, RearrangeGathers
  <2>13. Asked'
    BY <1>1, <1>2, <2>7, <2>10, <2>12 DEF Asked
  <2>14. Gathered'
    BY <1>1, <1>2, <2>7, <2>8, <2>12 DEF Gathered, args
  <2>15. Ahead'
    BY <1>1, <1>2, <2>7, <2>11, <2>12 DEF Ahead
  <2>16. HandedOut'
    BY <2>12 DEF HandedOut
  <2>17. QED
    BY <2>13, <2>14, <2>15, <2>16 DEF Layout
<1>6. CASE ~(optind < Stop /\ Dashes(argv[optind]))
  <2>1. /\ scan' = "take" /\ optind' = optind /\ argv' = argv
        /\ first_nonopt' = first_nonopt /\ last_nonopt' = last_nonopt
    BY <1>1, <1>6 DEF FindDashes, skipVars
  <2>2. optind = Stop => calls = DeclaredOptions
    <3>1. SUFFICES ASSUME optind = Stop PROVE calls = DeclaredOptions
      OBVIOUS
    <3>2. EndOfOptions(Line) >= optind /\ EndOfOptions(Line) \in 1..(Len(typed) + 1)
      BY <1>0, <1>3, <3>1, EndIsBehind, EndIs DEF Between
    <3>3. EndOfOptions(Line) = optind
      BY <1>0, <3>1, <3>2
    <3>4. QED
      BY <1>0, <1>3, <3>3, DeclaredAre DEF Between
  <2>3. optind < Stop => ~Dashes(typed[optind])
    <3>1. optind < Stop => optind \in optind..Len(typed)
      BY <1>0
    <3>2. QED
      BY <1>3, <1>6, <3>1
  <2>4. Asked'
    BY <1>1, <1>2, <1>3, <2>1, <2>2 DEF Asked
  <2>5. Gathered'
    BY <1>1, <1>2, <1>3, <2>1 DEF Gathered
  <2>6. Ahead'
    BY <1>1, <1>2, <1>3, <2>1, <2>3 DEF Ahead
  <2>7. HandedOut'
    BY <2>1 DEF HandedOut
  <2>8. QED
    BY <2>4, <2>5, <2>6, <2>7 DEF Layout
<1>7. QED
  BY <1>5, <1>6

LEMMA QuotedLays ==
  ASSUME CliInv, CliInv', Layout, Quoted, prog' = prog
  PROVE  Layout'
<1>0. /\ Len(typed) \in Nat /\ Len(argv) = Len(typed) /\ Stop = Len(typed) + 1
      /\ optind \in 1..Stop /\ first_nonopt \in 1..Stop /\ last_nonopt \in 1..Stop
      /\ bottom \in 1..Stop /\ top \in 1..Stop /\ optind \in Nat
      /\ first_nonopt \in Nat /\ last_nonopt \in Nat /\ bottom \in Nat /\ top \in Nat
      /\ argv \in Seq(Elements) /\ Tables /\ Lists /\ Walk
  BY Numbers
<1>1. /\ scan = "quoted" /\ last_nonopt' = Stop /\ optind' = Stop /\ scan' = "take"
      /\ nextchar = <<>>
      /\ UNCHANGED <<tableVars, argv, first_nonopt, nextchar, swapVars, calls>>
  BY <1>0 DEF Quoted, Walk
<1>2. /\ Line' = Line /\ typed' = typed /\ posix' = posix /\ Stop' = Stop
      /\ DeclaredOptions' = DeclaredOptions
  BY <1>1, LineRests
<1>3. /\ Behind(Line, optind, calls)
      /\ \A i \in optind..Len(typed) : argv[i] = typed[i]
      /\ SideBySide(argv, first_nonopt, optind, ArgsTo(Line, optind - 1))
  BY <1>1 DEF Layout, Gathered, Asked, Ahead
<1>4. calls = DeclaredOptions
  <2>1. EndOfOptions(Line) - 1 = optind - 2
    BY <1>0, <1>3 DEF Behind
  <2>2. QED
    BY <1>0, <1>3, <2>1, DeclaredAre DEF Behind
<1>5. \A i \in optind..(Stop - 1) : IsArg(Line, i) /\ argv[i] = typed[i]
  <2>1. ASSUME NEW i \in optind..(Stop - 1) PROVE IsArg(Line, i) /\ argv[i] = typed[i]
    <3>1. i \in optind..Len(typed) /\ i > optind - 1 /\ ~(i < optind - 1)
      BY <1>0
    <3>2. EndOfOptions(Line) = optind - 1
      BY <1>3 DEF Behind
    <3>3. QED
      BY <1>3, <3>1, <3>2 DEF IsArg
  <2>2. QED
    BY <2>1
<1>6. SideBySide(argv, first_nonopt, Stop, ArgsTo(Line, Stop - 1))
  <2>1. Stop \in optind..Stop
    BY <1>0
  <2>2. QED
    BY <1>0, <1>3, <1>5, <2>1, ArgsGather
<1>7. Asked'
  <2>1. ~(Stop < Stop)
    BY <1>0
  <2>2. QED
    BY <1>1, <1>2, <1>4, <2>1 DEF Asked
<1>8. Gathered'
  BY <1>1, <1>2, <1>6 DEF Gathered
<1>9. Ahead'
  <2>1. ~(Stop < Stop) /\ \A i \in Stop..Len(typed) : argv[i] = typed[i]
    BY <1>0
  <2>2. QED
    BY <1>1, <1>2, <2>1 DEF Ahead
<1>10. HandedOut'
  BY <1>1 DEF HandedOut
<1>11. QED
  BY <1>7, <1>8, <1>9, <1>10 DEF Layout

LEMMA TakeLays ==
  ASSUME CliInv, CliInv', Layout, Take, prog' = prog
  PROVE  Layout'
<1>0. /\ Len(typed) \in Nat /\ Len(argv) = Len(typed) /\ Stop = Len(typed) + 1
      /\ optind \in 1..Stop /\ first_nonopt \in 1..Stop /\ last_nonopt \in 1..Stop
      /\ bottom \in 1..Stop /\ top \in 1..Stop /\ optind \in Nat
      /\ first_nonopt \in Nat /\ last_nonopt \in Nat /\ bottom \in Nat /\ top \in Nat
      /\ argv \in Seq(Elements) /\ Tables /\ Lists /\ Walk
  BY Numbers
<1>1. /\ scan = "take" /\ nextchar = <<>>
      /\ first_nonopt <= last_nonopt /\ last_nonopt <= optind
      /\ UNCHANGED <<tableVars, argv, skipVars, swapVars, calls>>
      /\ first_nonopt' = first_nonopt /\ last_nonopt' = last_nonopt
  BY <1>0 DEF Take, Walk, skipVars
<1>2. /\ Line' = Line /\ typed' = typed /\ posix' = posix /\ Stop' = Stop
      /\ DeclaredOptions' = DeclaredOptions /\ DeclaredArgs' = DeclaredArgs
  BY <1>1, LineRests
<1>3. /\ optind < Stop => Between(Line, optind, calls) /\ ~Dashes(typed[optind])
      /\ optind = Stop => calls = DeclaredOptions
      /\ \A i \in optind..Len(typed) : argv[i] = typed[i]
      /\ first_nonopt = last_nonopt \/ last_nonopt = optind
      /\ optind < Stop /\ NONOPTION_P(typed[optind]) => posix
      /\ posix /\ optind < Stop => first_nonopt = last_nonopt
      /\ SideBySide(argv, first_nonopt, last_nonopt, ArgsTo(Line, optind - 1))
  BY <1>1 DEF Layout, Gathered, Asked, Ahead
<1>4. Line.prog = prog /\ Line.posix = posix /\ Line.typed = typed
  BY LineIs
<1>5. DeclaredArgs = ArgsTo(Line, Len(typed)) /\ DeclaredArgs \in Seq(Words)
      /\ DeclaredOptions = OptionsTo(Line, EndOfOptions(Line) - 1)
      /\ DeclaredOptions \in Seq(Calls)
  BY <1>0, DeclaredAre
<1>6. ASSUME NEW at \in 1..Stop, scan' = "args", optind' = at, calls = DeclaredOptions,
             nextchar' = nextchar, SideBySide(argv, at, Stop, DeclaredArgs)
      PROVE  Layout'
  <2>1. Handed(0)'
    <3> DEFINE none == SubSeq(DeclaredArgs, 1, 0)
               D == DeclaredArgs
    <3>1. D \in Seq(Words) /\ Stop - at = Len(D)
          /\ \A k \in 1..Len(D) : argv[at + k - 1].text = D[k]
      BY <1>5, <1>6 DEF SideBySide
    <3>2. 0 = Len(D) - (Stop - at)
      <4> HIDE DEF D
      <4>1. Len(D) \in Nat
        BY <3>1
      <4>2. QED
        BY <3>1, <4>1
    <3>3. \A k \in 1..(Stop - at) : argv[at + k - 1].text = D[0 + k]
      BY <3>1
    <3>4. ArgCalls(none) = <<>>
      <4>1. none = <<>>
        BY <3>1
      <4>2. QED
        BY <4>1 DEF ArgCalls
    <3>5. calls = DeclaredOptions \o ArgCalls(none)
      <4>1. DeclaredOptions \o <<>> = DeclaredOptions
        BY <1>5, ConcatEmptySeq
      <4>2. QED
        BY <1>6, <3>4, <4>1
    <3> HIDE DEF none
    <3>6. none' = none
      BY <1>2 DEF none
    <3>7. (ArgCalls(none))' = ArgCalls(none)
      BY <3>6
    <3>8. calls' = DeclaredOptions' \o (ArgCalls(none))'
      BY <1>1, <1>2, <3>5, <3>7
    <3>9. QED
      BY <1>1, <1>2, <1>6, <3>2, <3>3, <3>8 DEF Handed, none
  <2>2. HandedOut'
    <3>1. 0 \in 0..Len(DeclaredArgs')
      BY <1>2, <1>5
    <3>2. QED
      BY <1>6, <2>1, <3>1 DEF HandedOut
  <2>3. Asked'
    BY <1>1, <1>6 DEF Asked
  <2>4. Gathered' /\ Ahead'
    BY <1>6 DEF Gathered, Ahead
  <2>5. QED
    BY <2>2, <2>3, <2>4 DEF Layout
<1>7. CASE optind = Stop
  <2>1. /\ scan' = "args" /\ nextchar' = nextchar
        /\ optind' = IF first_nonopt # last_nonopt THEN first_nonopt ELSE optind
    <3>1. ~(optind < Stop)
      BY <1>0, <1>7
    <3>2. QED
      BY <1>7, <3>1 DEF Take
  <2>2. SideBySide(argv, first_nonopt, last_nonopt, DeclaredArgs)
    <3>1. optind - 1 = Len(typed)
      BY <1>0, <1>7
    <3>2. QED
      BY <1>3, <1>5, <3>1
  <2> DEFINE at == IF first_nonopt # last_nonopt THEN first_nonopt ELSE optind
  <2>3. SideBySide(argv, at, Stop, DeclaredArgs)
    <3>1. CASE first_nonopt # last_nonopt
      BY <1>3, <1>7, <2>2, <3>1
    <3>2. CASE first_nonopt = last_nonopt
      <4>1. Len(DeclaredArgs) = 0
        BY <1>0, <2>2, <3>2 DEF SideBySide
      <4>2. Stop - Stop = 0
        BY <1>0
      <4>3. QED
        BY <1>7, <3>2, <4>1, <4>2 DEF SideBySide
    <3>3. QED
      BY <3>1, <3>2
  <2>4. at \in 1..Stop /\ optind' = at /\ calls = DeclaredOptions
    BY <1>0, <1>3, <1>7, <2>1
  <2> HIDE DEF at
  <2>5. QED
    BY <1>6, <2>1, <2>3, <2>4
<1>8. CASE optind < Stop /\ NONOPTION_P(argv[optind])
  <2>0. optind \in 1..Len(typed) /\ optind \in optind..Len(typed) /\ optind # Stop
        /\ argv[optind] = typed[optind]
    BY <1>0, <1>3, <1>8
  <2>1. scan' = "args" /\ optind' = optind /\ nextchar' = nextchar
    BY <1>8, <2>0 DEF Take
  <2>2. posix /\ first_nonopt = last_nonopt /\ NONOPTION_P(typed[optind])
        /\ Between(Line, optind, calls)
    BY <1>3, <1>8, <2>0
  <2>3. ~IsValue(Line)[optind] /\ Ends(Line, optind)
    BY <1>4, <2>0, <2>2 DEF Ends, Between
  <2>4. EndOfOptions(Line) = optind
    BY <1>0, <2>0, <2>2, <2>3, EndIsAt DEF Between
  <2>5. calls = DeclaredOptions
    BY <1>5, <2>2, <2>4 DEF Between
  <2>6. \A i \in optind..(Stop - 1) : IsArg(Line, i) /\ argv[i] = typed[i]
    <3>1. ~Dashes(typed[optind])
      BY <1>3, <1>8
    <3>2. ASSUME NEW i \in optind..(Stop - 1) PROVE IsArg(Line, i) /\ argv[i] = typed[i]
      <4>1. i \in optind..Len(typed) /\ ~(i < optind) /\ (i > optind \/ i = optind)
        BY <1>0
      <4>2. QED
        BY <1>3, <1>4, <2>4, <3>1, <4>1 DEF IsArg
    <3>3. QED
      BY <3>2
  <2>7. SideBySide(argv, optind, Stop, DeclaredArgs)
    <3> DEFINE m == optind - 1
               n == Len(typed)
               old == ArgsTo(Line, m)
               new == ArgsTo(Line, n)
    <3>1. m \in 0..Len(typed) /\ n \in m..Len(typed) /\ n - m = Stop - optind
          /\ (m + 1)..n = optind..(Stop - 1) /\ m \in Nat /\ n \in Nat
      BY <1>0, <2>0
    <3>2. \A i \in (m + 1)..n : IsArg(Line, i)
      BY <2>6, <3>1
    <3>3. Len(old) = 0
      BY <1>0, <1>3, <2>2 DEF SideBySide
    <3>4. /\ Len(new) = Len(old) + (n - m)
          /\ \A k \in 1..(n - m) : new[Len(old) + k] = typed[m + k].text
      <4> HIDE DEF m, n
      <4> QED
        BY <1>0, <3>1, <3>2, ArgRun
    <3>5. new = DeclaredArgs
      BY <1>5
    <3> HIDE DEF old, new
    <3>6. Stop - optind = Len(new)
      BY <3>1, <3>3, <3>4
    <3>7. ASSUME NEW k \in 1..Len(new) PROVE argv[optind + k - 1].text = new[k]
      <4>1. k \in 1..(n - m) /\ optind + k - 1 \in optind..(Stop - 1)
            /\ m + k = optind + k - 1 /\ 0 + k = k
        BY <1>0, <3>1, <3>6
      <4>2. new[k] = typed[optind + k - 1].text
        BY <3>3, <3>4, <4>1
      <4>3. QED
        BY <2>6, <4>1, <4>2
    <3>8. QED
      BY <3>5, <3>6, <3>7 DEF SideBySide
  <2>8. QED
    BY <1>0, <1>6, <2>1, <2>5, <2>7
<1>9. CASE optind < Stop /\ ~NONOPTION_P(argv[optind])
  <2>0. optind \in 1..Len(typed) /\ optind \in optind..Len(typed) /\ optind # Stop
        /\ argv[optind] = typed[optind]
    BY <1>0, <1>3, <1>9
  <2> DEFINE keys == KeysOf(prog, typed[optind])
  <2>1. /\ scan' = "getopt" /\ optind' = optind
        /\ nextchar' = IF typed[optind].name = <<>> THEN typed[optind].keys
                       ELSE <<LongOption(typed[optind].name)>>
    BY <1>9, <2>0 DEF Take
  <2>2. /\ keys = nextchar' /\ keys \in Seq(Words)
        /\ OptionCalls(Line, optind) \in Seq(Calls)
    BY <1>0, <2>0, <2>1, KeysAreWords, OptionCallsAre
  <2>3. Between(Line, optind, calls) /\ ~Dashes(typed[optind]) /\ ~NONOPTION_P(typed[optind])
    BY <1>3, <1>9, <2>0
  <2>4. keys # <<>>
    <3>1. typed[optind].name # <<>> \/ typed[optind].keys # <<>>
      BY <2>3 DEF NONOPTION_P
    <3>2. QED
      BY <2>1, <2>2, <3>1
  <2>5. Inside(Line, optind, keys, calls)
    <3>1. ~IsValue(Line)[optind] /\ ~Ends(Line, optind)
      BY <1>4, <2>0, <2>3 DEF Ends, Between
    <3>2. \A i \in 1..optind : ~Ends(Line, i)
      <4>1. \A i \in 1..optind : i \in 1..(optind - 1) \/ i = optind
        BY <1>0
      <4>2. QED
        BY <2>3, <3>1, <4>1 DEF Between
    <3>3. /\ 0 \in 0..Len(keys) /\ keys = SubSeq(keys, 0 + 1, Len(keys))
      BY <2>2
    <3>4. calls = OptionsTo(Line, optind - 1) \o SubSeq(OptionCalls(Line, optind), 1, 0)
      <4>1. SubSeq(OptionCalls(Line, optind), 1, 0) = <<>>
        BY <2>2
      <4>2. OptionsTo(Line, optind - 1) \in Seq(Calls)
        <5>1. optind - 1 \in 0..Len(typed)
          BY <1>0, <2>0
        <5>2. QED
          BY <1>0, <5>1, OptionsGrow
      <4>3. OptionsTo(Line, optind - 1) \o <<>> = OptionsTo(Line, optind - 1)
        BY <4>2, ConcatEmptySeq
      <4>4. QED
        BY <2>3, <4>1, <4>3 DEF Between
    <3> HIDE DEF keys
    <3>5. Line.typed[optind] = typed[optind] /\ keys = KeysOf(Line.prog, Line.typed[optind])
      BY <1>4 DEF keys
    <3>6. QED
      BY <2>3, <3>1, <3>2, <3>3, <3>4, <3>5 DEF Inside
  <2> HIDE DEF keys
  <2>6. Asked'
    BY <1>1, <1>2, <2>1, <2>2, <2>4, <2>5 DEF Asked
  <2>7. Gathered'
    BY <1>1, <1>2, <1>3, <2>1 DEF Gathered
  <2>8. Ahead'
    BY <1>1, <1>2, <1>3, <1>9, <2>1 DEF Ahead
  <2>9. HandedOut'
    BY <2>1 DEF HandedOut
  <2>10. QED
    BY <2>6, <2>7, <2>8, <2>9 DEF Layout
<1>10. QED
  BY <1>0, <1>7, <1>8, <1>9

LEMMA OneMore ==
  ASSUME NEW S, NEW b \in Seq(S), NEW s \in Seq(S), NEW n \in 0..(Len(s) - 1)
  PROVE  Append(b \o SubSeq(s, 1, n), s[n + 1]) = b \o SubSeq(s, 1, n + 1)
<1> DEFINE t == SubSeq(s, 1, n)
           u == SubSeq(s, 1, n + 1)
           e == s[n + 1]
<1>0. Len(s) \in Nat /\ Len(b) \in Nat /\ n \in Nat /\ n + 1 <= Len(s) /\ e \in S
  OBVIOUS
<1>1. t \in Seq(S) /\ u \in Seq(S) /\ Len(t) = n /\ Len(u) = n + 1
  BY <1>0
<1>2. u[n + 1] = e /\ \A k \in 1..n : t[k] = s[k] /\ u[k] = s[k]
  BY <1>0
<1> HIDE DEF t, u, e
<1> DEFINE x == Append(b \o t, e)
           y == b \o u
<1>3. b \o t \in Seq(S) /\ x \in Seq(S) /\ y \in Seq(S) /\ Len(b \o t) = Len(b) + n
  BY <1>0, <1>1
<1>4. Len(x) = Len(b) + n + 1 /\ Len(y) = Len(b) + n + 1
  BY <1>0, <1>1, <1>3
<1>5. ASSUME NEW k \in 1..(Len(b) + n + 1) PROVE x[k] = y[k]
  <2>1. CASE k = Len(b) + n + 1
    <3>1. x[k] = e
      <4> DEFINE bt == b \o t
      <4>1. bt \in Seq(S) /\ k = Len(bt) + 1
        BY <1>0, <1>3, <2>1
      <4> HIDE DEF bt
      <4>2. Append(bt, e)[Len(bt) + 1] = e
        BY <4>1
      <4>3. QED
        BY <4>1, <4>2 DEF bt
    <3>2. y[k] = u[n + 1]
      BY <1>0, <1>1, <2>1
    <3>3. QED
      BY <1>2, <3>1, <3>2
  <2>2. CASE k \in 1..(Len(b) + n)
    <3>1. x[k] = (b \o t)[k]
      BY <1>0, <1>3, <2>2
    <3>2. (b \o t)[k] = IF k <= Len(b) THEN b[k] ELSE t[k - Len(b)]
      BY <1>0, <1>1, <2>2
    <3>3. y[k] = IF k <= Len(b) THEN b[k] ELSE u[k - Len(b)]
      BY <1>0, <1>1, <2>2
    <3>4. ~(k <= Len(b)) => t[k - Len(b)] = u[k - Len(b)]
      <4>1. ~(k <= Len(b)) => k - Len(b) \in 1..n
        BY <1>0, <2>2
      <4>2. QED
        BY <1>2, <4>1
    <3>5. QED
      BY <3>1, <3>2, <3>3, <3>4
  <2>3. k = Len(b) + n + 1 \/ k \in 1..(Len(b) + n)
    BY <1>0
  <2>4. QED
    BY <2>1, <2>2, <2>3
<1> HIDE DEF x, y
<1>6. x = y
  <2>1. x = [k \in 1..(Len(b) + n + 1) |-> x[k]] /\ y = [k \in 1..(Len(b) + n + 1) |-> y[k]]
    BY <1>3, <1>4
  <2>2. QED
    BY <1>5, <2>1
<1>7. QED
  BY <1>6 DEF x, y, t, u, e

\* An element that is an option or the value of one is no argument.
LEMMA NoArg ==
  ASSUME Tables, Lists, NEW i \in 1..Len(typed), \A j \in 1..i : ~Ends(Line, j),
         IsValue(Line)[i] \/ ~NONOPTION_P(typed[i])
  PROVE  ArgsTo(Line, i) = ArgsTo(Line, i - 1)
<1> DEFINE n == i + 1
<1>0. Len(typed) \in Nat
  BY DEF Lists
<1>1. n \in 1..(Len(typed) + 1) /\ n - 1 = i
  BY <1>0
<1>2. \A j \in 1..(n - 1) : ~Ends(Line, j)
  BY <1>1
<1>3. EndOfOptions(Line) >= n /\ EndOfOptions(Line) \in 1..(Len(typed) + 1)
  <2> HIDE DEF n
  <2> QED
    BY <1>1, <1>2, EndIsBehind, EndIs
<1>4. i < EndOfOptions(Line)
  BY <1>0, <1>1, <1>3
<1>5. ~IsArg(Line, i)
  BY <1>4, LineIs DEF IsArg
<1>6. QED
  BY <1>5, ArgsGrow

\* The options of an element that are left, and those parse_opt was given.
LEMMA InsideIs ==
  ASSUME Tables, Lists, NEW at \in 1..Len(typed), Inside(Line, at, nextchar, calls),
         nextchar # <<>>, NEW keys, keys = KeysOf(prog, typed[at])
  PROVE  \E n \in 0..(Len(keys) - 1) :
           /\ Head(nextchar) = keys[n + 1] /\ Len(nextchar) = Len(keys) - n
           /\ Tail(nextchar) = SubSeq(keys, n + 2, Len(keys))
           /\ \A val : Call(keys[n + 1], val)
                         /\ OptionCalls(Line, at)[n + 1] = <<keys[n + 1], val>>
                => calls' = OptionsTo(Line, at - 1) \o SubSeq(OptionCalls(Line, at), 1, n + 1)
<1> DEFINE base == OptionsTo(Line, at - 1)
           own == OptionCalls(Line, at)
<1>1. /\ keys \in Seq(Words) /\ own \in Seq(Calls) /\ Len(own) = Len(keys)
  BY KeysAreWords, OptionCallsAre
<1>2. base \in Seq(Calls)
  <2>1. at - 1 \in 0..Len(typed)
    BY DEF Lists
  <2>2. QED
    BY <2>1, OptionsGrow
<1>3. PICK n \in 0..Len(keys) :
        nextchar = SubSeq(keys, n + 1, Len(keys)) /\ calls = base \o SubSeq(own, 1, n)
  BY LineIs DEF Inside
<1> HIDE DEF base, own
<1>4. n \in Nat /\ Len(keys) \in Nat
  BY <1>1
<1>5. n # Len(keys)
  BY <1>1, <1>3, <1>4
<1>6. n \in 0..(Len(keys) - 1) /\ n \in 0..(Len(own) - 1)
  BY <1>1, <1>4, <1>5
<1>7. /\ Head(nextchar) = keys[n + 1] /\ Len(nextchar) = Len(keys) - n
      /\ Tail(nextchar) = SubSeq(keys, n + 2, Len(keys))
  BY <1>1, <1>3, <1>6
<1>8. ASSUME NEW val, Call(keys[n + 1], val), own[n + 1] = <<keys[n + 1], val>>
      PROVE  calls' = base \o SubSeq(own, 1, n + 1)
  <2>1. Append(base \o SubSeq(own, 1, n), own[n + 1]) = base \o SubSeq(own, 1, n + 1)
    BY <1>1, <1>2, <1>6, OneMore
  <2>2. calls' = Append(calls, own[n + 1])
    BY <1>8 DEF Call
  <2>3. QED
    BY <1>3, <2>1, <2>2
<1>9. QED
  BY <1>6, <1>7, <1>8 DEF base, own

\* The last option of an element has been handed out, and so has the value it
\* takes from the next one.
LEMMA OptionDone ==
  ASSUME CliInv, CliInv', Layout, UNCHANGED <<prog, tableVars, argv, skipVars>>,
         scan = "getopt", scan' = "getopt", nextchar # <<>>, nextchar' = <<>>,
         ~NONOPTION_P(typed[optind]),
         calls' = OptionsTo(Line, optind),
         NEW at \in 1..Stop, optind' = at,
         \/ at = optind + 1 /\ ~TakesNext(prog, typed[optind])
         \/ at = optind + 2 /\ TakesNext(prog, typed[optind])
  PROVE  Layout'
<1>0. /\ Len(typed) \in Nat /\ Len(argv) = Len(typed) /\ Stop = Len(typed) + 1
      /\ optind \in 1..Stop /\ first_nonopt \in 1..Stop /\ last_nonopt \in 1..Stop
      /\ bottom \in 1..Stop /\ top \in 1..Stop /\ optind \in Nat
      /\ first_nonopt \in Nat /\ last_nonopt \in Nat /\ bottom \in Nat /\ top \in Nat
      /\ argv \in Seq(Elements) /\ Tables /\ Lists /\ Walk
  BY Numbers
<1>1. optind \in 1..Len(typed) /\ optind < at
  BY <1>0
<1>2. /\ Line' = Line /\ typed' = typed /\ posix' = posix /\ Stop' = Stop
      /\ first_nonopt' = first_nonopt /\ last_nonopt' = last_nonopt /\ argv' = argv
  BY LineRests DEF skipVars
<1>3. /\ Inside(Line, optind, nextchar, calls)
      /\ \A i \in optind..Len(typed) : argv[i] = typed[i]
      /\ posix => first_nonopt = last_nonopt
      /\ SideBySide(argv, first_nonopt, last_nonopt, ArgsTo(Line, optind - 1))
  BY DEF Layout, Gathered, Asked, Ahead
<1>4. Line.prog = prog /\ Line.posix = posix /\ Line.typed = typed
  BY LineIs
<1>5. ~IsValue(Line)[optind] /\ \A i \in 1..optind : ~Ends(Line, i)
  BY <1>3 DEF Inside
<1>6. ArgsTo(Line, optind) = ArgsTo(Line, optind - 1)
  BY <1>0, <1>1, <1>5, NoArg
<1>7. \A i \in 2..Len(typed) :
        IsValue(Line)[i] <=> ~IsValue(Line)[i - 1] /\ TakesNext(prog, typed[i - 1])
  BY <1>0, ValuesAre
<1>8. ASSUME optind + 1 <= Len(typed)
      PROVE  IsValue(Line)[optind + 1] <=> TakesNext(prog, typed[optind])
  <2> DEFINE k == optind + 1
  <2>1. k \in 2..Len(typed) /\ k - 1 = optind
    BY <1>0, <1>1, <1>8
  <2> HIDE DEF k
  <2>2. IsValue(Line)[k] <=> TakesNext(prog, typed[optind])
    BY <1>5, <1>7, <2>1
  <2>3. QED
    BY <2>2 DEF k
<1>9. /\ \A i \in 1..(at - 1) : ~Ends(Line, i)
      /\ at <= Len(typed) => ~IsValue(Line)[at]
      /\ calls' = OptionsTo(Line, at - 1)
      /\ ArgsTo(Line, at - 1) = ArgsTo(Line, optind - 1)
  <2>1. CASE at = optind + 1 /\ ~TakesNext(prog, typed[optind])
    <3>1. at - 1 = optind
      BY <1>0, <2>1
    <3>2. QED
      BY <1>5, <1>6, <1>8, <2>1, <3>1
  <2>2. CASE at = optind + 2 /\ TakesNext(prog, typed[optind])
    <3> DEFINE k == optind + 1
    <3>1. /\ k \in 1..Len(typed) /\ k <= Len(typed) /\ at - 1 = k /\ k - 1 = optind
          /\ 1..k = 1..optind \cup {k}
      BY <1>0, <1>1, <2>2
    <3>2. IsValue(Line)[k]
      BY <1>8, <2>2, <3>1
    <3>3. at <= Len(typed) => at \in 2..Len(typed)
      BY <1>0, <1>1
    <3> HIDE DEF k
    <3>4. \A i \in 1..k : ~Ends(Line, i)
      <4>1. ~Ends(Line, k)
        BY <3>2 DEF Ends
      <4>2. QED
        BY <1>5, <3>1, <4>1
    <3>5. at <= Len(typed) => ~IsValue(Line)[at]
      BY <1>7, <3>1, <3>2, <3>3
    <3>6. OptionsTo(Line, k) = OptionsTo(Line, optind)
      <4>1. OptionsOf(Line, k) = <<>>
        BY <1>0, <3>1, <3>2, OptionsOfAre
      <4>2. optind \in 0..Len(typed)
        BY <1>1
      <4>3. OptionsTo(Line, optind) \o <<>> = OptionsTo(Line, optind)
        BY <1>0, <4>2, OptionsGrow, ConcatEmptySeq
      <4>4. OptionsTo(Line, k) = OptionsTo(Line, k - 1) \o OptionsOf(Line, k)
        BY <1>0, <3>1, OptionsGrow
      <4>5. QED
        BY <3>1, <4>1, <4>3, <4>4
    <3>7. ArgsTo(Line, k) = ArgsTo(Line, k - 1)
      BY <1>0, <3>1, <3>2, <3>4, NoArg
    <3>8. QED
      BY <1>6, <3>1, <3>4, <3>5, <3>6, <3>7
  <2>3. QED
    BY <2>1, <2>2
<1>10. Between(Line, at, calls')
  BY <1>4, <1>9 DEF Between
<1>11. \A i \in at..Len(typed) : argv[i] = typed[i]
  BY <1>0, <1>1, <1>3
<1>12. Asked'
  BY <1>2, <1>10 DEF Asked
<1>13. Gathered'
  BY <1>2, <1>3, <1>9 DEF Gathered
<1>14. Ahead'
  BY <1>2, <1>3, <1>11 DEF Ahead
<1>15. HandedOut'
  BY DEF HandedOut
<1>16. QED
  BY <1>12, <1>13, <1>14, <1>15 DEF Layout

LEMMA OptionLays ==
  ASSUME CliInv, CliInv', Layout, Option, prog' = prog
  PROVE  Layout'
<1>0. /\ Len(typed) \in Nat /\ Len(argv) = Len(typed) /\ Stop = Len(typed) + 1
      /\ optind \in 1..Stop /\ first_nonopt \in 1..Stop /\ last_nonopt \in 1..Stop
      /\ bottom \in 1..Stop /\ top \in 1..Stop /\ optind \in Nat
      /\ first_nonopt \in Nat /\ last_nonopt \in Nat /\ bottom \in Nat /\ top \in Nat
      /\ argv \in Seq(Elements) /\ Tables /\ Lists /\ Walk
  BY Numbers
<1>1. /\ scan = "getopt" /\ nextchar # <<>> /\ optind < Stop
      /\ UNCHANGED <<tableVars, argv, skipVars, swapVars>>
      /\ first_nonopt' = first_nonopt /\ last_nonopt' = last_nonopt
  BY <1>0 DEF Option, Walk, skipVars
<1>2. /\ Line' = Line /\ typed' = typed /\ posix' = posix /\ Stop' = Stop
  BY <1>1, LineRests
<1>3. /\ Inside(Line, optind, nextchar, calls)
      /\ \A i \in optind..Len(typed) : argv[i] = typed[i]
      /\ posix => first_nonopt = last_nonopt
      /\ SideBySide(argv, first_nonopt, last_nonopt, ArgsTo(Line, optind - 1))
  BY <1>1 DEF Layout, Gathered, Asked, Ahead
<1>4. Line.prog = prog /\ Line.posix = posix /\ Line.typed = typed
  BY LineIs
<1>5. optind \in 1..Len(typed)
  BY <1>0, <1>1
<1>6. /\ ~NONOPTION_P(typed[optind]) /\ ~IsValue(Line)[optind]
      /\ \A i \in 1..optind : ~Ends(Line, i)
  BY <1>3, <1>4 DEF Inside
<1> DEFINE keys == KeysOf(prog, typed[optind])
           own == OptionCalls(Line, optind)
           base == OptionsTo(Line, optind - 1)
           e == typed[optind]
<1>7. PICK n \in 0..(Len(keys) - 1) :
           /\ Head(nextchar) = keys[n + 1] /\ Len(nextchar) = Len(keys) - n
           /\ Tail(nextchar) = SubSeq(keys, n + 2, Len(keys))
           /\ \A val : Call(keys[n + 1], val) /\ own[n + 1] = <<keys[n + 1], val>>
                => calls' = base \o SubSeq(own, 1, n + 1)
  <2> HIDE DEF keys
  <2>1. keys = KeysOf(prog, typed[optind])
    BY DEF keys
  <2>2. QED
    BY <1>0, <1>1, <1>3, <1>5, <2>1, InsideIs
<1>8. keys \in Seq(Words) /\ own \in Seq(Calls) /\ Len(own) = Len(keys)
  BY <1>0, <1>5, KeysAreWords, OptionCallsAre
<1>22. \A k \in 1..Len(keys) :
        own[k] = <<keys[k], IF k # Len(keys) THEN ""
                            ELSE IF TakesNext(prog, e) /\ optind < Len(typed)
                                 THEN typed[optind + 1].text ELSE e.val>>
  BY <1>0, <1>5, OptionCallsAre
<1>23. Len(keys) \in Nat /\ n \in Nat /\ n + 1 <= Len(keys)
  <2> HIDE DEF keys
  <2>1. Len(keys) \in Nat
    BY <1>8
  <2>2. n \in 0..(Len(keys) - 1)
    BY <1>7
  <2>3. QED
    BY <2>1, <2>2
<1>9. TakesNext(prog, e) <=>
        keys # <<>> /\ keys[Len(keys)] \in WithValue[prog] /\ e.val = ""
  BY DEF TakesNext, Last
<1>10. needs = WithValue[prog]
  BY <1>0 DEF Tables
<1>11. base \o own = OptionsTo(Line, optind)
  <2>1. OptionsOf(Line, optind) = own
    BY <1>0, <1>5, <1>6, OptionsOfAre
  <2>2. QED
    BY <1>0, <1>5, <2>1, OptionsGrow
<1> DEFINE c == keys[n + 1]
           last == n + 1 = Len(keys)
           after == IF last THEN optind + 1 ELSE optind
<1>12. argv[optind] = e /\ (optind + 1 < Stop => argv[optind + 1] = typed[optind + 1])
  <2>1. optind \in optind..Len(typed) /\ (optind + 1 < Stop => optind + 1 \in optind..Len(typed))
    BY <1>0, <1>5
  <2>2. QED
    BY <1>3, <2>1
<1>13. n \in Nat /\ Len(keys) \in Nat /\ n + 1 \in 1..Len(keys) /\ keys # <<>>
       /\ (Len(nextchar) = 1 <=> last)
  <2> HIDE DEF keys
  <2>1. n \in Nat /\ Len(keys) \in Nat /\ n + 1 \in 1..Len(keys)
    BY <1>23
  <2>2. keys # <<>>
    BY <1>8, <2>1
  <2>3. Len(nextchar) = Len(keys) - n
    BY <1>7
  <2>4. QED
    BY <2>1, <2>2, <2>3
<1> HIDE DEF keys, own, base, e
<1>14. \/ scan' = "error" /\ UNCHANGED <<optind, nextchar, calls>>
       \/ /\ c \notin needs /\ (last => e.val = "") /\ Call(c, "")
          /\ optind' = after /\ nextchar' = Tail(nextchar) /\ scan' = scan
       \/ /\ c \in needs /\ last /\ e.val # "" /\ Call(c, e.val)
          /\ optind' = optind + 1 /\ nextchar' = <<>> /\ scan' = scan
       \/ /\ c \in needs /\ last /\ e.val = "" /\ optind + 1 < Stop
          /\ Call(c, typed[optind + 1].text)
          /\ optind' = optind + 2 /\ nextchar' = <<>> /\ scan' = scan
  <2>1. c = Head(nextchar)
    BY <1>7
  <2>2. \A x \in Nat : x + 1 + 1 = x + 2
    OBVIOUS
  <2>3. (optind + 1) + 1 = optind + 2
    BY <1>0
  <2> HIDE DEF c, last
  <2>4. QED
    BY <1>12, <1>13, <2>1, <2>3 DEF Option
<1>15. CASE scan' = "error" /\ UNCHANGED <<optind, nextchar, calls>>
  <2>1. Asked'
    BY <1>1, <1>2, <1>3, <1>15 DEF Asked
  <2>2. Gathered'
    BY <1>1, <1>2, <1>3, <1>15 DEF Gathered
  <2>3. Ahead'
    BY <1>1, <1>2, <1>3, <1>15 DEF Ahead
  <2>4. HandedOut'
    BY <1>15 DEF HandedOut
  <2>5. QED
    BY <2>1, <2>2, <2>3, <2>4 DEF Layout
<1>16. CASE /\ c \notin needs /\ ~last /\ Call(c, "")
            /\ optind' = optind /\ nextchar' = Tail(nextchar) /\ scan' = scan
  <2>1. own[n + 1] = <<c, "">>
    BY <1>22, <1>13, <1>16
  <2>2. calls' = base \o SubSeq(own, 1, n + 1)
    BY <1>7, <1>16, <2>1
  <2>3. Inside(Line, optind, nextchar', calls')
    <3> DEFINE m == n + 1
    <3>1. m \in 0..Len(keys) /\ m + 1 = n + 2
      BY <1>13
    <3>2. nextchar' = SubSeq(keys, m + 1, Len(keys))
      BY <1>7, <1>16, <3>1
    <3> HIDE DEF m
    <3>3. calls' = base \o SubSeq(own, 1, m)
      BY <2>2 DEF m
    <3>4. Line.typed[optind] = typed[optind] /\ keys = KeysOf(Line.prog, Line.typed[optind])
      BY <1>4 DEF keys
    <3>5. QED
      BY <1>6, <3>1, <3>2, <3>3, <3>4 DEF Inside, own, base
  <2>4. nextchar' # <<>>
    <3>0. n + 1 # Len(keys)
      BY <1>16
    <3>1. /\ Len(keys) \in Nat /\ n \in Nat /\ n + 2 <= Len(keys)
      <4> DEFINE x == Len(keys)
      <4>1. x \in Nat /\ n \in Nat /\ n + 1 <= x /\ n + 1 # x
        BY <1>23, <3>0, Zenon
      <4> HIDE DEF x
      <4>2. n + 2 <= x
        BY <4>1
      <4>3. QED
        BY <4>1, <4>2 DEF x
    <3>2. SubSeq(keys, n + 2, Len(keys)) # <<>>
      <4>1. keys \in Seq(Words)
        BY <1>8
      <4>2. Len(SubSeq(keys, n + 2, Len(keys))) # 0
        <5>1. \A t \in Seq(Words), a \in Nat : 1 <= a /\ a <= Len(t)
                => Len(SubSeq(t, a, Len(t))) = Len(t) - a + 1
          OBVIOUS
        <5>2. n + 2 \in Nat /\ 1 <= n + 2
          BY <3>1
        <5>3. Len(SubSeq(keys, n + 2, Len(keys))) = Len(keys) - (n + 2) + 1
          BY <3>1, <4>1, <5>1, <5>2, Zenon
        <5>4. \A x \in Nat, k \in Nat : k + 2 <= x => x - (k + 2) + 1 # 0
          OBVIOUS
        <5>5. QED
          BY <3>1, <5>3, <5>4, Zenon
      <4>3. QED
        BY <4>2
    <3>3. nextchar' = SubSeq(keys, n + 2, Len(keys))
      BY <1>7, <1>16
    <3>4. QED
      BY <3>2, <3>3
  <2>5. Asked'
    BY <1>1, <1>2, <1>16, <2>3, <2>4 DEF Asked
  <2>6. Gathered'
    BY <1>1, <1>2, <1>3, <1>16 DEF Gathered
  <2>7. Ahead'
    BY <1>1, <1>2, <1>3, <1>16 DEF Ahead
  <2>8. HandedOut'
    BY <1>1, <1>16 DEF HandedOut
  <2>9. QED
    BY <2>5, <2>6, <2>7, <2>8 DEF Layout
<1>17. ASSUME last, NEW val, Call(c, val), scan' = scan, nextchar' = <<>>,
              NEW at \in 1..Stop, optind' = at,
              \/ at = optind + 1 /\ ~TakesNext(prog, e) /\ val = e.val
              \/ at = optind + 2 /\ TakesNext(prog, e) /\ val = typed[optind + 1].text
       PROVE  Layout'
  <2>1. at = optind + 2 => optind < Len(typed)
    BY <1>0
  <2>2. own[n + 1] = <<c, val>>
    BY <1>22, <1>13, <1>17, <2>1
  <2>3. calls' = base \o SubSeq(own, 1, n + 1)
    BY <1>7, <1>17, <2>2
  <2>4. SubSeq(own, 1, n + 1) = own
    <3>0. own \in Seq(Calls)
      BY <1>8
    <3>1. n + 1 = Len(own)
      BY <1>8, <1>17
    <3>2. SubSeq(own, 1, Len(own)) = own
      BY <3>0
    <3>3. QED
      BY <3>1, <3>2
  <2>5. calls' = OptionsTo(Line, optind)
    BY <1>11, <2>3, <2>4
  <2>6. \/ at = optind + 1 /\ ~TakesNext(prog, typed[optind])
        \/ at = optind + 2 /\ TakesNext(prog, typed[optind])
    BY <1>17 DEF e
  <2>7. scan' = "getopt"
    BY <1>1, <1>17
  <2>8. QED
    BY <1>1, <1>6, <1>17, <2>5, <2>6, <2>7, OptionDone
<1>18. CASE /\ c \notin needs /\ last /\ e.val = "" /\ Call(c, "")
            /\ optind' = optind + 1 /\ nextchar' = Tail(nextchar) /\ scan' = scan
  <2>1. nextchar' = <<>>
    <3>0. n + 1 = Len(keys)
      BY <1>18
    <3>1. n + 2 = Len(keys) + 1
      BY <1>23, <3>0
    <3>2. SubSeq(keys, n + 2, Len(keys)) = <<>>
      BY <1>8, <1>23, <3>1
    <3>3. nextchar' = SubSeq(keys, n + 2, Len(keys))
      BY <1>7, <1>18
    <3>4. QED
      BY <3>2, <3>3
  <2>2. ~TakesNext(prog, e)
    BY <1>9, <1>10, <1>18
  <2>3. optind + 1 \in 1..Stop
    BY <1>0, <1>5
  <2>4. QED
    BY <1>17, <1>18, <2>1, <2>2, <2>3
<1>19. CASE /\ c \in needs /\ last /\ e.val # "" /\ Call(c, e.val)
            /\ optind' = optind + 1 /\ nextchar' = <<>> /\ scan' = scan
  <2>1. ~TakesNext(prog, e)
    BY <1>9, <1>19
  <2>2. optind + 1 \in 1..Stop
    BY <1>0, <1>5
  <2>3. QED
    BY <1>17, <1>19, <2>1, <2>2
<1>20. CASE /\ c \in needs /\ last /\ e.val = "" /\ optind + 1 < Stop
            /\ Call(c, typed[optind + 1].text)
            /\ optind' = optind + 2 /\ nextchar' = <<>> /\ scan' = scan
  <2>0. keys # <<>> /\ keys[Len(keys)] \in WithValue[prog] /\ e.val = ""
    BY <1>10, <1>13, <1>20
  <2>1. TakesNext(prog, e)
    BY <1>9, <2>0, Zenon
  <2>2. optind + 2 \in 1..Stop
    <3>1. optind + 1 < Stop
      BY <1>20
    <3>2. QED
      BY <1>0, <3>1
  <2>3. QED
    BY <1>17, <1>20, <2>1, <2>2
<1>21. QED
  <2> HIDE DEF c, last
  <2> QED
    BY <1>14, <1>15, <1>16, <1>18, <1>19, <1>20

LEMMA ArgLays ==
  ASSUME CliInv, CliInv', Layout, Arg, prog' = prog
  PROVE  Layout'
<1>0. /\ Len(typed) \in Nat /\ Len(argv) = Len(typed) /\ Stop = Len(typed) + 1
      /\ optind \in 1..Stop /\ first_nonopt \in 1..Stop /\ last_nonopt \in 1..Stop
      /\ bottom \in 1..Stop /\ top \in 1..Stop /\ optind \in Nat
      /\ first_nonopt \in Nat /\ last_nonopt \in Nat /\ bottom \in Nat /\ top \in Nat
      /\ argv \in Seq(Elements) /\ Tables /\ Lists /\ Walk
  BY Numbers
<1>1. /\ scan = "args" /\ scan' = "args" /\ nextchar = <<>> /\ nextchar' = <<>>
      /\ optind < Stop /\ optind' = optind + 1 /\ Call("arg", argv[optind].text)
      /\ UNCHANGED <<tableVars, argv>>
  BY <1>0 DEF Arg, Walk
<1>2. /\ Stop' = Stop
      /\ DeclaredOptions' = DeclaredOptions /\ DeclaredArgs' = DeclaredArgs
  BY <1>1, LineRests
<1>3. PICK m \in 0..Len(DeclaredArgs) : Handed(m)
  BY <1>1 DEF Layout, HandedOut
<1> DEFINE D == DeclaredArgs
           O == DeclaredOptions
           old == ArgCalls(SubSeq(D, 1, m))
           new == ArgCalls(SubSeq(D, 1, m + 1))
           all == ArgCalls(D)
<1>4. D \in Seq(Words) /\ O \in Seq(Calls)
  BY <1>0, DeclaredAre
<1>5. /\ m = Len(D) - (Stop - optind)
      /\ \A k \in 1..(Stop - optind) : argv[optind + k - 1].text = D[m + k]
      /\ calls = O \o old
  BY <1>3 DEF Handed
<1> HIDE DEF D, O
<1>6. /\ m \in Nat /\ Len(D) \in Nat /\ m + 1 \in 1..Len(D) /\ m \in 0..(Len(D) - 1)
      /\ m + 1 = Len(D) - (Stop - (optind + 1))
  <2>1. Len(D) \in Nat /\ m \in Nat
    BY <1>4
  <2>2. PICK x \in Nat : x = Stop - optind /\ x >= 1 /\ x - 1 = Stop - (optind + 1)
    <3>1. Stop \in Nat /\ optind \in Nat /\ optind < Stop
      BY <1>0, <1>1
    <3>2. QED
      BY <3>1
  <2>3. m = Len(D) - x
    BY <1>5, <2>2
  <2>4. /\ m + 1 \in 1..Len(D) /\ m \in 0..(Len(D) - 1)
        /\ m + 1 = Len(D) - (x - 1)
    BY <2>1, <2>2, <2>3
  <2>5. QED
    BY <2>1, <2>2, <2>4
<1>7. argv[optind].text = D[m + 1]
  <2>1. 1 \in 1..(Stop - optind) /\ optind + 1 - 1 = optind
    BY <1>0, <1>1
  <2>2. QED
    BY <1>5, <2>1
<1>8. \A k \in 1..(Stop - (optind + 1)) : argv[(optind + 1) + k - 1].text = D[(m + 1) + k]
  <2>1. ASSUME NEW k \in 1..(Stop - (optind + 1))
        PROVE  argv[(optind + 1) + k - 1].text = D[(m + 1) + k]
    <3>1. k + 1 \in 1..(Stop - optind) /\ optind + (k + 1) - 1 = (optind + 1) + k - 1
          /\ m + (k + 1) = (m + 1) + k
      BY <1>0, <1>1, <1>6
    <3>2. QED
      BY <1>5, <3>1
  <2>2. QED
    BY <2>1
<1>9. calls' = O \o new
  <2>1. all = [k \in 1..Len(D) |-> <<"arg", D[k]>>]
    BY <1>4 DEF ArgCalls
  <2>2. \A k \in 1..Len(D) : <<"arg", D[k]>> \in Calls
    <3>0. "arg" \in Words
      BY DEF Words
    <3>1. "arg" \in Words /\ \A k \in 1..Len(D) : D[k] \in Words
      BY <1>4, <3>0
    <3>2. QED
      BY <3>1 DEF Calls
  <2>3. all \in Seq(Calls) /\ Len(all) = Len(D) /\ all[m + 1] = <<"arg", D[m + 1]>>
    BY <1>6, <2>1, <2>2
  <2>4. old = SubSeq(all, 1, m) /\ new = SubSeq(all, 1, m + 1)
    <3>1. ASSUME NEW j \in 0..Len(D) PROVE ArgCalls(SubSeq(D, 1, j)) = SubSeq(all, 1, j)
      <4> DEFINE s == SubSeq(D, 1, j)
                 t == SubSeq(all, 1, j)
      <4>0. j \in Nat /\ Len(D) \in Nat /\ j <= Len(D)
        BY <1>6
      <4>1. s \in Seq(Words) /\ Len(s) = j /\ DOMAIN s = 1..j /\ \A k \in 1..j : s[k] = D[k]
        BY <1>4, <4>0
      <4>2. t = [k \in 1..j |-> all[k]]
        <5> HIDE DEF all
        <5> QED
          BY <2>3, <4>0
      <4>3. \A k \in 1..j : all[k] = <<"arg", D[k]>>
        BY <2>1, <4>0
      <4> HIDE DEF s, t, all
      <4>4. ArgCalls(s) = [k \in 1..j |-> <<"arg", D[k]>>]
        BY <4>1 DEF ArgCalls
      <4>5. QED
        BY <4>2, <4>3, <4>4 DEF s, t
    <3> HIDE DEF all
    <3>2. m \in 0..Len(D) /\ m + 1 \in 0..Len(D)
      BY <1>6
    <3>3. QED
      BY <3>1, <3>2
  <2> HIDE DEF all, old, new
  <2>5. Append(O \o SubSeq(all, 1, m), all[m + 1]) = O \o SubSeq(all, 1, m + 1)
    <3>1. m \in 0..(Len(all) - 1)
      BY <1>6, <2>3
    <3>2. QED
      BY <1>4, <2>3, <3>1, OneMore
  <2>6. calls' = Append(calls, all[m + 1])
    BY <1>1, <1>7, <2>3 DEF Call
  <2>7. QED
    BY <1>5, <2>4, <2>5, <2>6
<1>10. Handed(m + 1)'
  <2> HIDE DEF new
  <2>1. D' = D /\ O' = O
    BY <1>2 DEF D, O
  <2>2. new' = new
    BY <2>1 DEF new
  <2>3. calls' = O' \o new'
    BY <1>9, <2>1, <2>2
  <2>4. QED
    BY <1>1, <1>2, <1>6, <1>8, <2>1, <2>3 DEF Handed, D, O, new
<1>11. HandedOut'
  <2>1. m + 1 \in 0..Len(DeclaredArgs')
    BY <1>2, <1>6 DEF D
  <2>2. QED
    BY <1>1, <1>10, <2>1 DEF HandedOut
<1>12. Asked' /\ Gathered' /\ Ahead'
  BY <1>1 DEF Asked, Gathered, Ahead
<1>13. QED
  BY <1>11, <1>12 DEF Layout

LEMMA EndLays ==
  ASSUME CliInv, CliInv', Layout, End, prog' = prog
  PROVE  Layout'
<1>0. /\ Len(typed) \in Nat /\ Stop = Len(typed) + 1 /\ Tables /\ Lists /\ Walk
  BY Numbers
<1>1. /\ scan = "args" /\ scan' = "done" /\ nextchar = <<>> /\ nextchar' = <<>>
      /\ optind = Stop /\ Call("end", "") /\ UNCHANGED tableVars
  BY <1>0 DEF End, Walk
<1>2. Declared' = Declared
  BY <1>1, LineRests
<1>3. PICK m \in 0..Len(DeclaredArgs) : Handed(m)
  BY <1>1 DEF Layout, HandedOut
<1>4. /\ DeclaredArgs \in Seq(Words) /\ DeclaredOptions \in Seq(Calls)
      /\ Declared = DeclaredOptions \o ArgCalls(DeclaredArgs) \o << <<"end", "">> >>
  BY <1>0, DeclaredAre
<1>5. calls = DeclaredOptions \o ArgCalls(DeclaredArgs)
  <2> DEFINE D == DeclaredArgs
  <2>0. D \in Seq(Words) /\ m = Len(D) - (Stop - optind)
    BY <1>3, <1>4 DEF Handed
  <2> HIDE DEF D
  <2>1. D \in Seq(Words) /\ Len(D) \in Nat
    <3>1. D \in Seq(Words)
      BY <2>0, Zenon
    <3>2. QED
      BY <3>1
  <2>2. Stop - optind = 0
    <3>1. Stop \in Nat
      BY <1>0
    <3>2. Stop - Stop = 0
      BY <3>1
    <3>3. QED
      BY <1>1, <3>2
  <2>3. m = Len(D)
    BY <2>0, <2>1, <2>2
  <2>4. SubSeq(D, 1, m) = D
    BY <2>1, <2>3
  <2>5. QED
    BY <1>3, <2>4 DEF Handed, D
<1>6. calls' = Declared
  <2>1. calls \in Seq(Calls)
    BY <1>0 DEF Lists, Calls
  <2> DEFINE e == <<"end", "">>
  <2>2. e \in Calls
    BY DEF Calls, Words
  <2> HIDE DEF e
  <2>3. Append(calls, e) = calls \o <<e>>
    BY <2>1, <2>2
  <2>4. calls' = calls \o <<e>>
    BY <1>1, <2>3 DEF Call, e
  <2>5. QED
    BY <1>4, <1>5, <2>4 DEF e
<1>7. HandedOut'
  BY <1>1, <1>2, <1>6 DEF HandedOut
<1>8. Asked' /\ Gathered' /\ Ahead'
  BY <1>1 DEF Asked, Gathered, Ahead
<1>9. QED
  BY <1>7, <1>8 DEF Layout

LEMMA InitLays ==
  ASSUME Init, CliInv
  PROVE  Layout
<1>0. Len(typed) \in Nat /\ Stop = Len(typed) + 1 /\ Tables /\ Lists
  BY Numbers
<1>1. /\ argv = typed /\ optind = 1 /\ first_nonopt = 1 /\ last_nonopt = 1
      /\ nextchar = <<>> /\ scan = "getopt" /\ calls = <<>>
  BY DEF Init, GetoptInit
<1>2. Between(Line, optind, calls)
  <2>1. /\ 1..(optind - 1) = {} /\ optind - 1 = 0
        /\ optind <= Len(typed) => ~IsValue(Line)[optind]
    BY <1>0, <1>1, ValuesAre
  <2>2. calls = OptionsTo(Line, optind - 1)
    BY <1>0, <1>1, <2>1, OptionsGrow
  <2>3. QED
    BY <2>1, <2>2, LineIs DEF Between
<1>3. SideBySide(argv, first_nonopt, last_nonopt, ArgsTo(Line, optind - 1))
  <2>1. optind - 1 = 0 /\ ArgsTo(Line, 0) = <<>> /\ last_nonopt - first_nonopt = 0
    BY <1>0, <1>1, ArgsGrow
  <2>2. QED
    BY <2>1 DEF SideBySide
<1>4. Asked
  BY <1>1, <1>2 DEF Asked
<1>5. Gathered
  BY <1>1, <1>3 DEF Gathered
<1>6. Ahead
  BY <1>1 DEF Ahead
<1>7. HandedOut
  BY <1>1 DEF HandedOut
<1>8. QED
  BY <1>4, <1>5, <1>6, <1>7 DEF Layout

\* What getopt has, nobody else touches.
LEMMA LayoutRests ==
  ASSUME CliInv, CliInv', Layout, UNCHANGED <<prog, getoptVars>>
  PROVE  Layout'
<1>1. UNCHANGED <<posix, typed, argv, optind, first_nonopt, last_nonopt, nextchar, scan,
                  resume, bottom, top, calls>>
  BY DEF getoptVars, tableVars, skipVars, swapVars
<1>2. /\ Line' = Line /\ Stop' = Stop /\ Declared' = Declared
      /\ DeclaredOptions' = DeclaredOptions /\ DeclaredArgs' = DeclaredArgs
  BY LineRests DEF getoptVars
<1>3. Asked' /\ Gathered' /\ Ahead'
  BY <1>1, <1>2 DEF Layout, Asked, Gathered, Ahead
<1>4. ASSUME NEW m \in 0..Len(DeclaredArgs), Handed(m) PROVE Handed(m)'
  <2> DEFINE done == ArgCalls(SubSeq(DeclaredArgs, 1, m))
  <2>1. done' = done
    BY <1>2
  <2>2. calls = DeclaredOptions \o done
    BY <1>4 DEF Handed
  <2> HIDE DEF done
  <2>3. calls' = DeclaredOptions' \o done'
    BY <1>1, <1>2, <2>1, <2>2
  <2>4. QED
    BY <1>1, <1>2, <1>4, <2>3 DEF Handed, done
<1>5. HandedOut'
  BY <1>1, <1>2, <1>4 DEF Layout, HandedOut
<1>6. QED
  BY <1>3, <1>5 DEF Layout

LEMMA NextLays ==
  ASSUME CliInv, CliInv', Layout, [Next]_vars
  PROVE  Layout'
<1>1. CASE Parse
  <2>1. prog' = prog
    BY <1>1 DEF Parse
  <2>2. CASE Exchange
    BY <2>1, <2>2, ExchangeLays
  <2>3. CASE Advance
    BY <2>1, <2>3, AdvanceLays
  <2>4. CASE Skip
    BY <2>1, <2>4, SkipLays
  <2>5. CASE FindDashes
    BY <2>1, <2>5, FindDashesLays
  <2>6. CASE Quoted
    BY <2>1, <2>6, QuotedLays
  <2>7. CASE Take
    BY <2>1, <2>7, TakeLays
  <2>8. CASE Option
    BY <2>1, <2>8, OptionLays
  <2>9. CASE Arg
    BY <2>1, <2>9, ArgLays
  <2>10. CASE End
    BY <2>1, <2>10, EndLays
  <2>11. QED
    BY <1>1, <2>2, <2>3, <2>4, <2>5, <2>6, <2>7, <2>8, <2>9, <2>10 DEF Parse, GetoptStep
<1>2. CASE BadOption \/ MainVerb \/ MainSign \/ UNCHANGED vars
  <2>1. UNCHANGED <<prog, getoptVars>>
    BY <1>2 DEF BadOption, MainVerb, MainSign, vars, cliVars
  <2>2. QED
    BY <2>1, LayoutRests
<1>3. QED
  BY <1>1, <1>2 DEF Next

LEMMA LayoutHolds == Spec => []Layout
<1>1. Init => Layout
  BY InitLays, InitEstablishes
<1>2. CliInv /\ CliInv' /\ Layout /\ [Next]_vars => Layout'
  BY NextLays
<1>3. QED
  BY <1>1, <1>2, CliInvHolds, PTL DEF Spec

-----------------------------------------------------------------------------
(* The calls are a beginning of those that were declared. *)

LEMMA Splits ==
  ASSUME NEW S, NEW s \in Seq(S), NEW k \in 0..Len(s)
  PROVE  /\ SubSeq(s, 1, k) \in Seq(S) /\ SubSeq(s, k + 1, Len(s)) \in Seq(S)
         /\ s = SubSeq(s, 1, k) \o SubSeq(s, k + 1, Len(s))
<1> DEFINE a == SubSeq(s, 1, k)
           b == SubSeq(s, k + 1, Len(s))
           n == Len(s)
<1>0. n \in Nat /\ k \in Nat /\ k <= n
  OBVIOUS
<1>1. /\ a \in Seq(S) /\ Len(a) = k /\ \A i \in 1..k : a[i] = s[i]
      /\ b \in Seq(S) /\ Len(b) = n - k /\ \A i \in 1..(n - k) : b[i] = s[k + i]
  BY <1>0
<1> HIDE DEF a, b
<1> DEFINE c == a \o b
<1>2. c \in Seq(S) /\ Len(c) = n
      /\ \A i \in 1..n : c[i] = IF i <= k THEN a[i] ELSE b[i - k]
  BY <1>0, <1>1, ConcatProperties
<1> HIDE DEF c
<1>3. ASSUME NEW i \in 1..n PROVE c[i] = s[i]
  <2>1. i <= k => i \in 1..k
    BY <1>0
  <2>2. ~(i <= k) => i - k \in 1..(n - k) /\ k + (i - k) = i
    BY <1>0
  <2>3. QED
    BY <1>1, <1>2, <2>1, <2>2
<1>4. c = s
  <2>1. c = [i \in 1..n |-> c[i]] /\ s = [i \in 1..n |-> s[i]]
    BY <1>2
  <2>2. QED
    BY <1>3, <2>1
<1>5. QED
  BY <1>1, <1>4 DEF a, b, c

Begins(a, c) == \E b \in Seq(Calls) : c = a \o b

LEMMA BeginsIsPrefix ==
  ASSUME NEW a \in Seq(Calls), NEW c, Begins(a, c)
  PROVE  IsPrefix(a, c)
<1>1. PICK b \in Seq(Calls) : c = a \o b
  BY DEF Begins
<1>2. /\ c \in Seq(Calls) /\ Len(c) = Len(a) + Len(b) /\ Len(a) \in Nat /\ Len(b) \in Nat
      /\ \A i \in 1..(Len(a) + Len(b)) : c[i] = IF i <= Len(a) THEN a[i] ELSE b[i - Len(a)]
  BY <1>1, ConcatProperties
<1>3. \A i \in 1..Len(a) : c[i] = a[i]
  BY <1>2
<1>4. Len(a) <= Len(c)
  BY <1>2
<1>5. SubSeq(a, 1, Len(a)) = SubSeq(c, 1, Len(a))
  <2>1. SubSeq(c, 1, Len(a)) = [i \in 1..Len(a) |-> c[i]]
    BY <1>2, <1>4
  <2>2. SubSeq(a, 1, Len(a)) = [i \in 1..Len(a) |-> a[i]]
    BY <1>2
  <2>3. QED
    BY <1>3, <2>1, <2>2
<1>6. QED
  BY <1>4, <1>5 DEF IsPrefix

LEMMA BeginsMore ==
  ASSUME NEW a \in Seq(Calls), NEW c \in Seq(Calls), Begins(a, c), NEW b \in Seq(Calls)
  PROVE  Begins(a, c \o b)
<1>1. PICK d \in Seq(Calls) : c = a \o d
  BY DEF Begins
<1>2. c \o b = a \o (d \o b) /\ d \o b \in Seq(Calls)
  BY <1>1, ConcatAssociative, ConcatProperties
<1>3. QED
  BY <1>2 DEF Begins

LEMMA BeginsItself ==
  ASSUME NEW a \in Seq(Calls) PROVE Begins(a, a)
<1>1. a \o <<>> = a /\ <<>> \in Seq(Calls)
  BY ConcatEmptySeq
<1>2. QED
  BY <1>1 DEF Begins

LEMMA OptionsBegin ==
  ASSUME Tables, Lists, NEW m \in 0..Len(typed), NEW n \in m..Len(typed)
  PROVE  Begins(OptionsTo(Line, m), OptionsTo(Line, n))
<1> DEFINE T == {k \in m..Len(typed) : ~Begins(OptionsTo(Line, m), OptionsTo(Line, k))}
<1>0. Len(typed) \in Nat
  BY DEF Lists
<1>1. SUFFICES ASSUME T # {} PROVE FALSE
  OBVIOUS
<1>2. T \subseteq Nat
  BY <1>0
<1>3. PICK k \in T : \A j \in T : k <= j
  <2> HIDE DEF T
  <2> QED
    BY <1>1, <1>2, LeastOf
<1>4. k \in m..Len(typed) /\ ~Begins(OptionsTo(Line, m), OptionsTo(Line, k))
  BY <1>3
<1>5. \A j \in 0..Len(typed) : OptionsTo(Line, j) \in Seq(Calls)
  BY OptionsGrow
<1>6. k # m
  BY <1>4, <1>5, BeginsItself
<1>7. k \in 1..Len(typed) /\ k - 1 \in 0..Len(typed) /\ k - 1 \in m..Len(typed) /\ ~(k <= k - 1)
  BY <1>0, <1>4, <1>6
<1>8. Begins(OptionsTo(Line, m), OptionsTo(Line, k - 1))
  BY <1>3, <1>7
<1>9. OptionsTo(Line, k) = OptionsTo(Line, k - 1) \o OptionsOf(Line, k)
      /\ OptionsOf(Line, k) \in Seq(Calls)
  BY <1>7, OptionsGrow, OptionsOfAre
<1>10. Begins(OptionsTo(Line, m), OptionsTo(Line, k))
  BY <1>5, <1>7, <1>8, <1>9, BeginsMore
<1>11. QED
  BY <1>4, <1>10

\* An option element is among those that were declared, with all before it.
LEMMA DeclaresTo ==
  ASSUME Tables, Lists, NEW m \in 1..Len(typed), \A i \in 1..m : ~Ends(Line, i)
  PROVE  Begins(OptionsTo(Line, m), DeclaredOptions) /\ m < EndOfOptions(Line)
<1> DEFINE at == m + 1
           E == EndOfOptions(Line)
           n == E - 1
<1>0. Len(typed) \in Nat
  BY DEF Lists
<1>1. at \in 1..(Len(typed) + 1) /\ at - 1 = m
  BY <1>0
<1>2. E >= at
  <2>1. \A i \in 1..(at - 1) : ~Ends(Line, i)
    BY <1>1
  <2> HIDE DEF at
  <2>2. QED
    BY <1>1, <2>1, EndIsBehind
<1>3. E \in 1..(Len(typed) + 1)
  BY EndIs
<1> HIDE DEF E
<1>4. m \in 0..Len(typed) /\ n \in m..Len(typed) /\ m < E
  BY <1>0, <1>2, <1>3
<1>5. DeclaredOptions = OptionsTo(Line, n)
  BY DeclaredAre DEF E
<1> HIDE DEF n
<1>6. Begins(OptionsTo(Line, m), DeclaredOptions)
  BY <1>4, <1>5, OptionsBegin
<1>7. QED
  BY <1>4, <1>6 DEF E

\* Before the arguments, the calls are a beginning of the declared options.
LEMMA OptionsAreBegun ==
  ASSUME CliInv, Layout, scan \notin {"args", "done"}
  PROVE  Begins(calls, DeclaredOptions)
<1>0. /\ Len(typed) \in Nat /\ Stop = Len(typed) + 1 /\ optind \in 1..Stop
      /\ Tables /\ Lists /\ Walk
  BY Numbers
<1> DEFINE N == Len(typed)
           E == EndOfOptions(Line)
           O == DeclaredOptions
<1>1. O = OptionsTo(Line, E - 1) /\ O \in Seq(Calls)
  BY <1>0, DeclaredAre
<1>2. E \in 1..(N + 1)
  BY <1>0, EndIs
<1>3. calls \in Seq(Calls)
  BY <1>0 DEF Lists, Calls
<1> HIDE DEF O
<1>4. ASSUME NEW at \in 1..Stop, Between(Line, at, calls) PROVE Begins(calls, O)
  <2>1. /\ calls = OptionsTo(Line, at - 1) /\ at \in 1..(N + 1)
        /\ \A i \in 1..(at - 1) : ~Ends(Line, i)
    BY <1>0, <1>4 DEF Between
  <2>2. E >= at
    BY <1>0, <2>1, EndIsBehind
  <2> DEFINE m == at - 1
             n == E - 1
  <2> HIDE DEF E
  <2>3. m \in 0..N /\ n \in m..N
    BY <1>0, <1>2, <2>1, <2>2
  <2>4. calls = OptionsTo(Line, m) /\ O = OptionsTo(Line, n)
    BY <1>1, <2>1
  <2> HIDE DEF m, n
  <2>5. QED
    BY <1>0, <2>3, <2>4, OptionsBegin
<1>5. ASSUME nextchar # <<>> PROVE Begins(calls, O)
  <2>0. optind \in 1..N
    BY <1>0, <1>5 DEF Walk
  <2>1. Inside(Line, optind, nextchar, calls)
    BY <1>5 DEF Layout, Asked
  <2> DEFINE own == OptionCalls(Line, optind)
             base == OptionsTo(Line, optind - 1)
             keys == KeysOf(prog, typed[optind])
  <2>2. PICK k \in 0..Len(keys) : calls = base \o SubSeq(own, 1, k)
    BY <2>1, LineIs DEF Inside
  <2>3. own \in Seq(Calls) /\ Len(own) = Len(keys)
    BY <1>0, <2>0, OptionCallsAre
  <2>4. base \in Seq(Calls) /\ OptionsTo(Line, optind) = base \o own
    <3>1. optind - 1 \in 0..N
      BY <1>0, <2>0
    <3>2. OptionsOf(Line, optind) = own
      BY <1>0, <2>0, <2>1, OptionsOfAre DEF Inside
    <3>3. QED
      BY <1>0, <2>0, <3>1, <3>2, OptionsGrow
  <2> HIDE DEF own, base, keys
  <2>5. Begins(calls, base \o own)
    <3> DEFINE a == SubSeq(own, 1, k)
               b == SubSeq(own, k + 1, Len(own))
    <3>1. a \in Seq(Calls) /\ b \in Seq(Calls) /\ own = a \o b
      <4>1. own \in Seq(Calls) /\ k \in 0..Len(own)
        BY <2>3
      <4>2. QED
        BY <4>1, Splits
    <3> HIDE DEF a, b
    <3>2. base \o own = (base \o a) \o b
      <4>1. base \in Seq(Calls)
        BY <2>4
      <4>2. (base \o a) \o b = base \o (a \o b)
        BY <3>1, <4>1, ConcatAssociative
      <4>3. QED
        BY <3>1, <4>2
    <3>3. calls = base \o a
      BY <2>2 DEF a
    <3>4. QED
      BY <3>1, <3>2, <3>3 DEF Begins
  <2>6. PICK d \in Seq(Calls) : O = OptionsTo(Line, optind) \o d
    BY <1>0, <2>0, <2>1, DeclaresTo DEF Begins, Inside, O
  <2>7. QED
    <3>1. base \o own \in Seq(Calls)
      BY <2>3, <2>4, ConcatProperties
    <3>2. Begins(calls, (base \o own) \o d)
      BY <1>3, <2>5, <3>1, BeginsMore
    <3>3. QED
      BY <2>4, <2>6, <3>2
<1>6. ASSUME Behind(Line, optind, calls) PROVE Begins(calls, O)
  <2>1. E = optind - 1 /\ calls = OptionsTo(Line, optind - 2)
    BY <1>6 DEF Behind
  <2>2. E - 1 = optind - 2
    BY <1>0, <2>1
  <2>3. calls = O
    BY <1>1, <2>1, <2>2
  <2>4. QED
    BY <1>3, <2>3, BeginsItself
<1>7. CASE nextchar = <<>>
  <2>1. \/ Between(Line, optind, calls) \/ Behind(Line, optind, calls) \/ calls = O
    <3>1. scan \in Scans /\ resume \in {"skip", "quoted"} /\ scan # "error"
      BY <1>0, <1>7 DEF Walk, Layout, Asked
    <3>2. scan = "take" => optind < Stop \/ optind = Stop
      BY <1>0
    <3>3. QED
      BY <1>7, <3>1, <3>2 DEF Layout, Asked, Scans, O
  <2>2. QED
    BY <1>0, <1>3, <1>4, <1>6, <2>1, BeginsItself DEF O
<1>8. QED
  BY <1>5, <1>7 DEF O

LEMMA CallsBegin ==
  ASSUME CliInv, Layout
  PROVE  Begins(calls, Declared)
<1>0. /\ Len(typed) \in Nat /\ Stop = Len(typed) + 1 /\ optind \in 1..Stop
      /\ Tables /\ Lists /\ Walk
  BY Numbers
<1> DEFINE N == Len(typed)
           E == EndOfOptions(Line)
           O == DeclaredOptions
           D == DeclaredArgs
           all == ArgCalls(D)
           end == << <<"end", "">> >>
<1>1. /\ O = OptionsTo(Line, E - 1) /\ O \in Seq(Calls) /\ D \in Seq(Words)
      /\ Declared = O \o all \o end
  BY <1>0, DeclaredAre
<1>2. E \in 1..(N + 1)
  BY <1>0, EndIs
<1>3. calls \in Seq(Calls)
  BY <1>0 DEF Lists, Calls
<1>4. end \in Seq(Calls)
  <2> DEFINE e == <<"end", "">>
  <2>1. e \in Calls
    BY DEF Calls, Words
  <2> HIDE DEF e
  <2>2. <<e>> \in Seq(Calls)
    BY <2>1
  <2>3. QED
    BY <2>2 DEF e
<1>5. all \in Seq(Calls)
  <2> HIDE DEF D
  <2>1. "arg" \in Words
    BY DEF Words
  <2>2. D \in Seq(Words)
    BY <1>1
  <2>3. \A k \in 1..Len(D) : <<"arg", D[k]>> \in Calls
    BY <2>1, <2>2 DEF Calls
  <2>4. all = [k \in 1..Len(D) |-> <<"arg", D[k]>>]
    BY <2>2 DEF ArgCalls
  <2> HIDE DEF all
  <2>5. QED
    BY <2>2, <2>3, <2>4
<1> HIDE DEF O, all, end
<1>6. ASSUME Begins(calls, O) PROVE Begins(calls, Declared)
  <2>1. O \o all \in Seq(Calls)
    BY <1>1, <1>5, ConcatProperties
  <2>2. Begins(calls, O \o all)
    BY <1>1, <1>3, <1>5, <1>6, BeginsMore
  <2>3. Begins(calls, (O \o all) \o end)
    BY <1>3, <1>4, <2>1, <2>2, BeginsMore
  <2>4. QED
    BY <1>1, <2>3
<1>7. CASE scan = "args"
  <2>1. PICK m \in 0..Len(D) : Handed(m)
    BY <1>7 DEF Layout, HandedOut
  <2> HIDE DEF D
  <2> DEFINE s == SubSeq(D, 1, m)
             old == ArgCalls(s)
  <2>2. calls = O \o old
    BY <2>1 DEF Handed, D, O
  <2>3. D \in Seq(Words) /\ all = ArgCalls(D)
    BY <1>1 DEF all
  <2>4. s \in Seq(Words) /\ Len(s) = m /\ \A k \in 1..m : s[k] = D[k]
    BY <2>3
  <2>5. /\ all = [k \in 1..Len(D) |-> <<"arg", D[k]>>]
        /\ old = [k \in 1..m |-> <<"arg", s[k]>>]
    <3> HIDE DEF s
    <3> QED
      BY <2>3, <2>4 DEF ArgCalls
  <2>6. old = SubSeq(all, 1, m) /\ Len(all) = Len(D)
    <3>0. Len(D) \in Nat /\ m \in Nat /\ m <= Len(D)
      BY <2>3
    <3>1. Len(all) = Len(D) /\ \A k \in 1..m : all[k] = <<"arg", D[k]>>
      BY <2>5, <3>0
    <3>2. SubSeq(all, 1, m) = [k \in 1..m |-> all[k]]
      BY <1>5, <3>0, <3>1
    <3> HIDE DEF s
    <3>3. old = [k \in 1..m |-> <<"arg", D[k]>>]
      BY <2>4, <2>5
    <3> HIDE DEF old
    <3>4. QED
      BY <3>1, <3>2, <3>3
  <2> HIDE DEF old, s
  <2>7. PICK b \in Seq(Calls) : old \in Seq(Calls) /\ all = old \o b
    <3> DEFINE b == SubSeq(all, m + 1, Len(all))
    <3>1. m \in 0..Len(all)
      BY <2>6
    <3>2. b \in Seq(Calls) /\ SubSeq(all, 1, m) \in Seq(Calls) /\ all = SubSeq(all, 1, m) \o b
      BY <1>5, <3>1, Splits
    <3>3. QED
      BY <2>6, <3>2
  <2>8. O \o all = calls \o b
    <3>1. O \in Seq(Calls) /\ old \in Seq(Calls) /\ b \in Seq(Calls)
      BY <1>1, <2>7
    <3>2. (O \o old) \o b = O \o (old \o b)
      BY <3>1, ConcatAssociative
    <3>3. QED
      BY <2>2, <2>7, <3>2
  <2>9. Begins(calls, O \o all) /\ O \o all \in Seq(Calls)
    BY <1>1, <1>5, <2>8, ConcatProperties DEF Begins
  <2>10. QED
    BY <1>1, <1>3, <1>4, <2>9, BeginsMore
<1>8. CASE scan = "done"
  <2>1. calls = Declared
    BY <1>8 DEF Layout, HandedOut
  <2>2. QED
    BY <1>3, <2>1, BeginsItself
<1>9. CASE scan \notin {"args", "done"}
  BY <1>6, <1>9, OptionsAreBegun DEF O
<1>10. QED
  BY <1>7, <1>8, <1>9

(***************************************************************************)
(* parse_opt is called for the options in the order they were typed, each  *)
(* with its own value, then for the arguments in their order: however      *)
(* exchange has moved them around, for every vocabulary and every length   *)
(* the calls are those that reading the line from left to right gives.     *)
(***************************************************************************)
THEOREM CallsAreAsTyped == Spec => []ParsesAsTyped
<1>1. CliInv /\ Layout => ParsesAsTyped
  <2> SUFFICES ASSUME CliInv, Layout PROVE ParsesAsTyped
    OBVIOUS
  <2>1. calls \in Seq(Calls)
    BY DEF CliInv, Lists, Calls
  <2>2. IsPrefix(calls, Declared)
    BY <2>1, CallsBegin, BeginsIsPrefix
  <2>3. scan = "done" => calls = Declared
    BY DEF Layout, HandedOut
  <2>4. QED
    BY <2>2, <2>3 DEF ParsesAsTyped
<1>2. QED
  BY <1>1, CliInvHolds, LayoutHolds, PTL
-----------------------------------------------------------------------------
(* What a program has understood of the command line, and that it begins     *)
(* with what was typed: the arguments are a function of the calls.           *)


\* Whether getopt is still asked for options, and those that are known so far.
Asks == scan \notin {"args", "done"}
Told == IF Asks THEN calls ELSE DeclaredOptions

\* The arguments hold what the calls s say.
Heard(s, a) ==
  /\ a.verb = "none" => VerbsGiven(s) = {}
  /\ a.verb # "none" =>
       \E i \in DOMAIN s : VerbsGiven(s) = {i} /\ s[i][1] = a.verb
  /\ \/ Given(s, "b") = {} /\ a.baud = "115200"
     \/ \E i \in Given(s, "b") : a.baud = s[i][2] /\ \A j \in Given(s, "b") : j <= i
  /\ a.late_baud <=> Given(s, "l") # {}

\* How many arguments parse_opt has been given.
HandedOver == Len(DeclaredArgs) - (Stop - optind)

\* What an option that is not a verb, and one that is, adds to what was heard.
LEMMA OptionHeard ==
  ASSUME Tables, Parsed, NEW c \in known, NEW v \in Words, ParseOpt(c, v),
         prog # "ws63sign", result = "parsing", NEW s \in Seq(Calls), NEW t,
         t = Append(s, <<c, v>>), Heard(s, arguments)
  PROVE  /\ result' \in {"parsing", "usage", "failure"}
         /\ result' = "parsing" => Heard(t, arguments')
         /\ result' = "usage" =>
              \E i, j \in DOMAIN t : i # j /\ i \in VerbsGiven(t) /\ j \in VerbsGiven(t)
<1>0. /\ arguments \in Arguments /\ prog \in {"ws63flash", "ws63fwpkg", "ws63sign"}
      /\ c \in Options[prog] /\ c \in Words /\ c # "arg" /\ c # "end"
  BY TablesAre, CliAssumption DEF Parsed, Tables
<1> DEFINE n == Len(s)
<1>1. /\ n \in Nat /\ DOMAIN s = 1..n /\ DOMAIN t = 1..(n + 1)
      /\ \A i \in DOMAIN s : t[i] = s[i]
      /\ t[n + 1][1] = c /\ t[n + 1][2] = v
      /\ \A k : Given(t, k) = IF c = k THEN Given(s, k) \cup {n + 1} ELSE Given(s, k)
      /\ VerbsGiven(t) = IF c \in VerbKeys THEN VerbsGiven(s) \cup {n + 1} ELSE VerbsGiven(s)
  <2> DEFINE e == <<c, v>>
  <2>1. e \in Calls /\ e[1] = c /\ e[2] = v
    BY <1>0 DEF Calls
  <2>2. t = Append(s, e)
    OBVIOUS
  <2> HIDE DEF e
  <2>3. /\ n \in Nat /\ s = [i \in 1..n |-> s[i]] /\ t \in Seq(Calls) /\ Len(t) = n + 1
        /\ t[n + 1] = e /\ \A i \in 1..n : t[i] = s[i]
    BY <2>1, <2>2, AppendProperties
  <2>4. DOMAIN s = 1..n /\ DOMAIN t = 1..(n + 1)
    BY <2>3
  <2> HIDE DEF n
  <2>5. 1..(n + 1) = 1..n \cup {n + 1} /\ n + 1 \notin 1..n
    BY <2>3
  <2>6. ASSUME NEW k
        PROVE Given(t, k) = IF c = k THEN Given(s, k) \cup {n + 1} ELSE Given(s, k)
    BY <2>1, <2>3, <2>4, <2>5 DEF Given
  <2>7. VerbsGiven(t) = IF c \in VerbKeys THEN VerbsGiven(s) \cup {n + 1} ELSE VerbsGiven(s)
    BY <2>1, <2>3, <2>4, <2>5 DEF VerbsGiven
  <2>8. QED
    BY <2>1, <2>3, <2>4, <2>6, <2>7
<1>2. n + 1 \in DOMAIN t /\ DOMAIN s \subseteq DOMAIN t /\ n + 1 \notin DOMAIN s
      /\ \A i \in DOMAIN s : i <= n + 1
  BY <1>1
<1>3. VerbsGiven(s) \subseteq DOMAIN s /\ \A k : Given(s, k) \subseteq DOMAIN s
  BY DEF VerbsGiven, Given
<1> HIDE DEF n
<1>4. ASSUME c \notin VerbKeys
      PROVE  /\ VerbsGiven(t) = VerbsGiven(s)
             /\ \A a : a.verb = arguments.verb =>
                  /\ a.verb = "none" => VerbsGiven(t) = {}
                  /\ a.verb # "none" =>
                       \E i \in DOMAIN t : VerbsGiven(t) = {i} /\ t[i][1] = a.verb
  <2>1. VerbsGiven(t) = VerbsGiven(s)
    BY <1>1, <1>4
  <2>2. QED
    BY <1>1, <1>2, <2>1 DEF Heard
<1>5. ASSUME c # "b"
      PROVE  \A a : a.baud = arguments.baud =>
               \/ Given(t, "b") = {} /\ a.baud = "115200"
               \/ \E i \in Given(t, "b") :
                    a.baud = t[i][2] /\ \A j \in Given(t, "b") : j <= i
  <2>1. Given(t, "b") = Given(s, "b")
    BY <1>1, <1>5
  <2>2. \A i \in Given(s, "b") : t[i] = s[i]
    BY <1>1, <1>3
  <2>3. QED
    BY <2>1, <2>2 DEF Heard
<1>6. ASSUME c # "l"
      PROVE  \A a : a.late_baud = arguments.late_baud => (a.late_baud <=> Given(t, "l") # {})
  BY <1>1, <1>6 DEF Heard
<1>7. CASE c \in VerbKeys
  <2>1. SetVerb(c)
    BY <1>0, <1>7 DEF ParseOpt, FlashOption, FwpkgOption, TakeArgument, VerbKeys
  <2>2. CASE arguments.verb # "none"
    <3>1. result' = "usage"
      BY <2>1, <2>2 DEF SetVerb, Exit
    <3>2. PICK i \in DOMAIN s : VerbsGiven(s) = {i}
      BY <2>2 DEF Heard
    <3>3. i # n + 1 /\ i \in VerbsGiven(t) /\ n + 1 \in VerbsGiven(t)
      BY <1>1, <1>2, <1>7, <3>2
    <3>4. QED
      BY <1>2, <3>1, <3>3
  <2>3. CASE arguments.verb = "none"
    <3>1. arguments' = [arguments EXCEPT !.verb = c] /\ result' = "parsing"
      BY <2>1, <2>3 DEF SetVerb, Accept
    <3>2. /\ arguments'.verb = c /\ arguments'.baud = arguments.baud
          /\ arguments'.late_baud = arguments.late_baud
      BY <1>0, <3>1 DEF Arguments
    <3>3. VerbsGiven(t) = {n + 1} /\ t[n + 1][1] = c
      BY <1>1, <1>7, <2>3 DEF Heard
    <3>4. c # "none" /\ c # "b" /\ c # "l"
      BY <1>7 DEF VerbKeys
    <3>5. Heard(t, arguments')
      BY <1>2, <1>5, <1>6, <3>2, <3>3, <3>4 DEF Heard
    <3>6. QED
      BY <3>1, <3>5
  <2>4. QED
    BY <2>2, <2>3
<1>8. CASE c = "b"
  <2>1. FlashOption(c, v)
    BY <1>0, <1>8 DEF ParseOpt, FwpkgOption, TakeArgument, VerbKeys
  <2>2. IF v \in Bauds THEN Accept([arguments EXCEPT !.baud = v]) ELSE Exit("failure")
    BY <1>8, <2>1 DEF FlashOption, VerbKeys
  <2>3. CASE v \in Bauds
    <3>1. arguments' = [arguments EXCEPT !.baud = v] /\ result' = "parsing"
      BY <2>2, <2>3 DEF Accept
    <3>2. /\ arguments'.verb = arguments.verb /\ arguments'.baud = v
          /\ arguments'.late_baud = arguments.late_baud
      BY <1>0, <3>1 DEF Arguments
    <3>3. n + 1 \in Given(t, "b") /\ \A j \in Given(t, "b") : j <= n + 1
      <4>1. Given(t, "b") = Given(s, "b") \cup {n + 1}
        BY <1>1, <1>8
      <4>2. n + 1 <= n + 1
        BY <1>1
      <4>3. QED
        BY <1>2, <1>3, <4>1, <4>2
    <3>4. c \notin VerbKeys /\ c # "l"
      BY <1>8 DEF VerbKeys
    <3>5. Heard(t, arguments')
      BY <1>1, <1>4, <1>6, <3>2, <3>3, <3>4 DEF Heard
    <3>6. QED
      BY <3>1, <3>5
  <2>4. CASE v \notin Bauds
    BY <2>2, <2>4 DEF Exit
  <2>5. QED
    BY <2>3, <2>4
<1>9. CASE c = "l"
  <2>1. Accept([arguments EXCEPT !.late_baud = TRUE])
    BY <1>0, <1>9 DEF ParseOpt, FlashOption, FwpkgOption, TakeArgument, VerbKeys
  <2>2. arguments' = [arguments EXCEPT !.late_baud = TRUE] /\ result' = "parsing"
    BY <2>1 DEF Accept
  <2>3. /\ arguments'.verb = arguments.verb /\ arguments'.baud = arguments.baud
        /\ arguments'.late_baud = TRUE
    BY <1>0, <2>2 DEF Arguments
  <2>4. c \notin VerbKeys /\ c # "b" /\ Given(t, "l") # {}
    BY <1>1, <1>9 DEF VerbKeys
  <2>5. Heard(t, arguments')
    BY <1>4, <1>5, <2>3, <2>4 DEF Heard
  <2>6. QED
    BY <2>2, <2>5
<1>10. CASE c \notin VerbKeys \cup {"b", "l"}
  <2>1. /\ arguments'.verb = arguments.verb /\ arguments'.baud = arguments.baud
        /\ arguments'.late_baud = arguments.late_baud /\ result' = "parsing"
    <3>1. \/ arguments' = arguments
          \/ \E fd : arguments' = [arguments EXCEPT !.out = fd]
      BY <1>0, <1>10 DEF ParseOpt, FlashOption, FwpkgOption, TakeArgument, Accept
    <3>2. result' = "parsing"
      BY <1>0, <1>10 DEF ParseOpt, FlashOption, FwpkgOption, TakeArgument, Accept
    <3>3. QED
      BY <1>0, <3>1, <3>2 DEF Arguments
  <2>2. Heard(t, arguments')
    BY <1>4, <1>5, <1>6, <1>10, <2>1 DEF Heard
  <2>3. QED
    BY <2>1, <2>2
<1>11. QED
  BY <1>7, <1>8, <1>9, <1>10

LEMMA LineBad ==
  ASSUME NEW i
  PROVE  IsBad(Line, i) <=>
           /\ ~IsValue(Line)[i] /\ KeysOf(prog, typed[i]) # <<>>
           /\ \/ TakesNext(prog, typed[i]) /\ i = Len(typed)
              \/ Last(KeysOf(prog, typed[i])) \notin WithValue[prog] /\ typed[i].val # ""
  BY LineIs DEF IsBad

\* What getopt makes of the next option, and whether it could use it.
LEMMA OptionReads ==
  ASSUME CliInv, Layout, Option
  PROVE  /\ optind \in 1..Len(typed) /\ optind < EndOfOptions(Line)
         /\ \/ /\ scan' = "error" /\ UNCHANGED <<optind, nextchar, calls>>
               /\ Head(nextchar) \notin known \/ IsBad(Line, optind)
            \/ scan' = "getopt" /\ optind' = optind
            \/ scan' = "getopt" /\ ~IsBad(Line, optind) /\ optind' = optind + 1
            \/ /\ scan' = "getopt" /\ ~IsBad(Line, optind) /\ IsValue(Line)[optind + 1]
               /\ optind' = optind + 2
<1>0. /\ Len(typed) \in Nat /\ Len(argv) = Len(typed) /\ Stop = Len(typed) + 1
      /\ optind \in 1..Stop /\ optind \in Nat /\ Tables /\ Lists /\ Walk
  BY Numbers
<1>1. scan = "getopt" /\ nextchar # <<>> /\ optind < Stop
  BY <1>0 DEF Option, Walk
<1>2. optind \in 1..Len(typed) /\ optind \in optind..Len(typed)
  BY <1>0, <1>1
<1>3. Inside(Line, optind, nextchar, calls) /\ argv[optind] = typed[optind]
  BY <1>1, <1>2 DEF Layout, Asked, Ahead
<1>4. ~IsValue(Line)[optind] /\ optind < EndOfOptions(Line)
  BY <1>0, <1>2, <1>3, DeclaresTo DEF Inside
<1> DEFINE keys == KeysOf(prog, typed[optind])
           e == typed[optind]
           c == Head(nextchar)
           last == Len(nextchar) = 1
<1>5. PICK n \in 0..(Len(keys) - 1) :
        Head(nextchar) = keys[n + 1] /\ Len(nextchar) = Len(keys) - n
  <2> HIDE DEF keys
  <2>1. keys = KeysOf(prog, typed[optind])
    BY DEF keys
  <2>2. QED
    BY <1>0, <1>1, <1>2, <1>3, <2>1, InsideIs
<1>6. keys \in Seq(Words)
  BY <1>0, <1>2, KeysAreWords
<1>7. keys # <<>> /\ (last => Last(keys) = c)
  <2> HIDE DEF keys
  <2>1. Len(keys) \in Nat
    BY <1>6
  <2>2. n + 1 \in 1..Len(keys) /\ (last => n + 1 = Len(keys))
    BY <1>5, <2>1
  <2>3. keys # <<>>
    BY <1>6, <2>2
  <2>4. QED
    BY <1>5, <2>2, <2>3 DEF Last
<1>8. needs = WithValue[prog]
  BY <1>0 DEF Tables
<1>9. TakesNext(prog, e) <=> keys # <<>> /\ Last(keys) \in needs /\ e.val = ""
  BY <1>8 DEF TakesNext
<1>10. ASSUME last
       PROVE  IsBad(Line, optind) <=> \/ c \in needs /\ e.val = "" /\ optind = Len(typed)
                                      \/ c \notin needs /\ e.val # ""
  <2>1. IsBad(Line, optind) <=>
          /\ ~IsValue(Line)[optind] /\ keys # <<>>
          /\ \/ TakesNext(prog, e) /\ optind = Len(typed)
             \/ Last(keys) \notin WithValue[prog] /\ e.val # ""
    BY LineBad
  <2>2. Last(keys) = c /\ keys # <<>>
    BY <1>7, <1>10
  <2> HIDE DEF keys, c, e, last
  <2>3. TakesNext(prog, e) <=> c \in needs /\ e.val = ""
    BY <1>9, <2>2
  <2>4. QED
    BY <1>4, <1>8, <2>1, <2>2, <2>3
<1> HIDE DEF keys, e, c
<1>11. \/ /\ scan' = "error" /\ UNCHANGED <<optind, nextchar, calls>>
          /\ \/ c \notin known
             \/ last /\ c \in needs /\ e.val = "" /\ optind + 1 = Stop
             \/ last /\ c \notin needs /\ e.val # ""
       \/ scan' = "getopt" /\ optind' = optind
       \/ /\ scan' = "getopt" /\ last /\ c \notin needs /\ e.val = ""
          /\ optind' = optind + 1
       \/ /\ scan' = "getopt" /\ last /\ c \in needs /\ e.val # ""
          /\ optind' = optind + 1
       \/ /\ scan' = "getopt" /\ last /\ c \in needs /\ e.val = "" /\ optind + 1 < Stop
          /\ optind' = optind + 2
  <2>1. (optind + 1) + 1 = optind + 2
    BY <1>0
  <2>2. argv[optind].val = e.val
    BY <1>3 DEF e
  <2>3. QED
    BY <1>1, <2>1, <2>2 DEF Option, c
<1>12. optind + 1 = Stop <=> optind = Len(typed)
  BY <1>0
<1>13. ASSUME last, c \in needs, e.val = "", optind + 1 < Stop
       PROVE  IsValue(Line)[optind + 1]
  <2>1. TakesNext(prog, typed[optind])
    BY <1>7, <1>9, <1>13 DEF e
  <2> DEFINE k == optind + 1
  <2>2. k \in 2..Len(typed) /\ k - 1 = optind
    <3>1. optind + 1 < Stop
      BY <1>13
    <3>2. QED
      BY <1>0, <1>2, <3>1
  <2> HIDE DEF k
  <2>3. IsValue(Line)[k] <=> ~IsValue(Line)[k - 1] /\ TakesNext(prog, typed[k - 1])
    BY <1>0, <2>2, ValuesAre
  <2>4. QED
    BY <1>4, <2>1, <2>2, <2>3 DEF k
<1>14. optind + 1 < Stop => optind # Len(typed)
  BY <1>0
<1> HIDE DEF last
<1>15. QED
  BY <1>2, <1>4, <1>10, <1>11, <1>12, <1>13, <1>14 DEF c

\* Every option so far exists and could be used; the one getopt stops at could not.
Sound ==
  /\ \A i \in 1..(EndOfOptions(Line) - 1) : i < optind \/ ~Asks => ~IsBad(Line, i)
  /\ scan = "error" => Head(nextchar) \notin known \/ IsBad(Line, optind)
  /\ \A i \in DOMAIN Told : Told[i][1] \in Options[prog]

LEMMA PlainIsGood ==
  ASSUME NEW i, NONOPTION_P(typed[i])
  PROVE  ~IsBad(Line, i)
<1>1. KeysOf(prog, typed[i]) = <<>>
  BY DEF NONOPTION_P, KeysOf
<1>2. QED
  BY <1>1, LineBad

\* getopt goes over to the arguments when it has returned all options.
LEMMA AllIsTold ==
  ASSUME CliInv, CliInv', Layout', scan' = "args", UNCHANGED <<prog, tableVars, calls>>,
         \A i \in DOMAIN calls : calls[i][1] \in Options[prog]
  PROVE  DeclaredOptions = calls /\ HandedOver' = 0
<1>0. /\ Tables /\ Lists /\ "arg" \notin Options[prog]
  BY Numbers, TablesAre, CliAssumption DEF Tables
<1>1. /\ Line' = Line /\ DeclaredOptions' = DeclaredOptions /\ DeclaredArgs' = DeclaredArgs
      /\ calls' = calls
  BY LineRests
<1>2. DeclaredOptions \in Seq(Calls) /\ DeclaredArgs \in Seq(Words)
  BY <1>0, DeclaredAre
<1> DEFINE D == DeclaredArgs
           O == DeclaredOptions
<1>3. PICK m \in 0..Len(D) : Handed(m)'
  BY <1>1 DEF Layout, HandedOut
<1> DEFINE s == SubSeq(D, 1, m)
<1>4. m = HandedOver' /\ calls = O \o ArgCalls(s)
  BY <1>1, <1>3 DEF Handed, HandedOver
<1> HIDE DEF D, O
<1>5. s \in Seq(Words) /\ Len(s) = m
  BY <1>2 DEF D
<1> HIDE DEF s
<1>6. ASSUME m # 0 PROVE FALSE
  <2> DEFINE r == ArgCalls(s)
             n == Len(O) + 1
  <2>1. 1 \in 1..Len(s)
    BY <1>5, <1>6
  <2>2. r = [k \in 1..Len(s) |-> <<"arg", s[k]>>]
    BY <1>5 DEF ArgCalls
  <2>3. r \in Seq(Calls)
    <3>1. "arg" \in Words
      BY DEF Words
    <3>2. \A k \in 1..Len(s) : <<"arg", s[k]>> \in Calls
      BY <1>5, <3>1 DEF Calls
    <3> HIDE DEF r
    <3>3. QED
      BY <1>5, <2>2, <3>2
  <2>4. r[1][1] = "arg" /\ Len(r) = Len(s)
    <3> HIDE DEF r
    <3>1. QED
      BY <1>5, <2>1, <2>2
  <2> HIDE DEF r
  <2>5. /\ Len(O) \in Nat /\ Len(r) \in Nat /\ 1 <= Len(r)
    BY <1>2, <2>1, <2>3, <2>4 DEF O
  <2>6. /\ DOMAIN calls = 1..(Len(O) + Len(r))
        /\ \A i \in 1..(Len(O) + Len(r)) :
             calls[i] = IF i <= Len(O) THEN O[i] ELSE r[i - Len(O)]
    <3>1. O \in Seq(Calls) /\ calls = O \o r
      BY <1>2, <1>4 DEF O, r
    <3>2. QED
      BY <2>3, <3>1, ConcatProperties
  <2>7. n \in 1..(Len(O) + Len(r)) /\ ~(n <= Len(O)) /\ n - Len(O) = 1
    BY <2>5
  <2> HIDE DEF n
  <2>8. n \in DOMAIN calls /\ calls[n] = r[1]
    BY <2>6, <2>7
  <2>9. QED
    BY <1>0, <2>4, <2>8
<1>7. ArgCalls(s) = <<>>
  <2>1. s = <<>>
    BY <1>5, <1>6
  <2>2. QED
    BY <2>1 DEF ArgCalls
<1>8. QED
  BY <1>2, <1>4, <1>6, <1>7, ConcatEmptySeq DEF O

\* A step of getopt after which it still has found nothing wrong.
LEMMA SoundStays ==
  ASSUME CliInv, CliInv', Layout', Sound, Asks, UNCHANGED <<prog, tableVars>>,
         scan' \notin {"error", "done"},
         \A i \in 1..(EndOfOptions(Line) - 1) :
           optind <= i /\ (i < optind' \/ scan' = "args") => ~IsBad(Line, i),
         \/ calls' = calls
         \/ scan' # "args" /\ \E c \in known \cap Words, v \in Words : Call(c, v)
  PROVE  Sound'
<1>0. optind \in Nat /\ EndOfOptions(Line) \in Nat /\ Tables /\ Lists
  BY Numbers, EndIs
<1>1. /\ Line' = Line /\ DeclaredOptions' = DeclaredOptions /\ DeclaredArgs' = DeclaredArgs
      /\ prog' = prog
  BY LineRests
<1>2. ASSUME NEW i \in 1..(EndOfOptions(Line) - 1), i < optind' \/ scan' = "args"
      PROVE  ~IsBad(Line, i)
  <2>1. optind <= i \/ i < optind
    BY <1>0
  <2>2. QED
    BY <1>2, <2>1 DEF Sound
<1>3. \A i \in DOMAIN calls : calls[i][1] \in Options[prog]
  BY DEF Sound, Told, Asks
<1>4. \A i \in DOMAIN Told' : Told'[i][1] \in Options[prog]
  <2>1. CASE scan' = "args"
    <3>1. calls' = calls
      BY <2>1
    <3>2. DeclaredOptions = calls
      BY <1>3, <2>1, <3>1, AllIsTold
    <3>3. QED
      BY <1>1, <1>3, <2>1, <3>2 DEF Told, Asks
  <2>2. CASE scan' # "args"
    <3>1. Told' = calls'
      BY <2>2 DEF Told, Asks
    <3>2. CASE calls' = calls
      BY <1>3, <3>1, <3>2
    <3>3. ASSUME NEW c \in known \cap Words, NEW v \in Words, Call(c, v)
          PROVE  \A i \in DOMAIN calls' : calls'[i][1] \in Options[prog]
      <4> DEFINE e == <<c, v>>
      <4>1. e \in Words \X Words /\ e[1] = c
        OBVIOUS
      <4>2. calls' = Append(calls, e) /\ calls \in Seq(Words \X Words)
        BY <1>0, <3>3 DEF Call, Lists
      <4>3. c \in Options[prog]
        BY <1>0 DEF Tables
      <4> HIDE DEF e
      <4>4. /\ DOMAIN calls' = 1..(Len(calls) + 1) /\ DOMAIN calls = 1..Len(calls)
            /\ Len(calls) \in Nat
            /\ \A i \in 1..Len(calls) : calls'[i] = calls[i]
            /\ calls'[Len(calls) + 1] = e
        <5> DEFINE S == Words \X Words
        <5> HIDE DEF S
        <5>1. e \in S /\ calls \in Seq(S)
          BY <4>1, <4>2 DEF S
        <5>2. QED
          BY <4>2, <5>1, AppendProperties
      <4>5. \A i \in 1..(Len(calls) + 1) : i \in 1..Len(calls) \/ i = Len(calls) + 1
        BY <4>4
      <4>6. QED
        BY <1>3, <4>1, <4>3, <4>4, <4>5
    <3>4. QED
      BY <2>2, <3>1, <3>2, <3>3
  <2>3. QED
    BY <2>1, <2>2
<1>5. QED
  BY <1>1, <1>2, <1>4 DEF Sound, Asks

LEMMA SoundSkip ==
  ASSUME CliInv, CliInv', Layout, Layout', Sound, Skip, prog' = prog
  PROVE  Sound'
<1>0. /\ Len(typed) \in Nat /\ Len(argv) = Len(typed) /\ Stop = Len(typed) + 1
      /\ optind \in 1..Stop /\ optind \in Nat /\ Lists /\ Walk
  BY Numbers
<1>1. /\ scan = "skip" /\ scan' = "dashes" /\ calls' = calls
      /\ UNCHANGED <<prog, tableVars>>
  BY DEF Skip
<1>2. /\ optind' \in optind..Stop
      /\ \A j \in optind..(optind' - 1) : NONOPTION_P(argv[j])
  BY <1>0, SkipsTo
<1>3. \A j \in optind..Len(typed) : argv[j] = typed[j]
  BY <1>1 DEF Layout, Ahead
<1>4. ASSUME NEW i \in 1..(EndOfOptions(Line) - 1), optind <= i, i < optind'
      PROVE  ~IsBad(Line, i)
  <2>1. i \in Nat /\ optind <= i /\ i < optind'
    <3>1. EndOfOptions(Line) \in Nat
      BY <1>0, EndIs
    <3>2. QED
      BY <1>4, <3>1
  <2>2. i \in optind..(optind' - 1) /\ i \in optind..Len(typed)
    <3>1. optind' \in optind..Stop
      BY <1>2
    <3>2. \A a, b, n, k \in Nat : a <= k /\ k < b /\ b \in a..(n + 1)
                                 => k \in a..(b - 1) /\ k \in a..n
      OBVIOUS
    <3>3. optind' \in Nat /\ optind' \in optind..(Len(typed) + 1)
      BY <1>0, <3>1
    <3>4. QED
      BY <1>0, <2>1, <3>2, <3>3, Zenon
  <2>3. QED
    BY <1>2, <1>3, <2>2, PlainIsGood
<1>5. QED
  BY <1>1, <1>4, SoundStays DEF Asks

LEMMA SoundDashes ==
  ASSUME CliInv, CliInv', Layout, Layout', Sound, FindDashes, prog' = prog
  PROVE  Sound'
<1>0. /\ optind \in Nat /\ EndOfOptions(Line) \in Nat
  BY Numbers, EndIs
<1>1. /\ scan = "dashes" /\ scan' \in {"take", "quoted", "exchange"} /\ calls' = calls
      /\ UNCHANGED <<prog, tableVars>>
  BY DEF FindDashes, Rearrange
<1>2. \/ optind' = optind
      \/ /\ optind' = optind + 1
         /\ scan' = "quoted" \/ (scan' = "exchange" /\ resume' = "quoted")
  BY DEF FindDashes, Rearrange
<1>3. CASE optind' = optind
  <2>1. \A i \in 1..(EndOfOptions(Line) - 1) :
          ~(optind <= i /\ (i < optind' \/ scan' = "args"))
    BY <1>0, <1>1, <1>3
  <2>2. QED
    BY <1>1, <2>1, SoundStays DEF Asks
<1>4. CASE /\ optind' = optind + 1
           /\ scan' = "quoted" \/ (scan' = "exchange" /\ resume' = "quoted")
  <2>1. EndOfOptions(Line') = optind' - 1
    BY <1>4 DEF Layout, Asked, Behind
  <2>2. EndOfOptions(Line) = optind
    BY <1>0, <1>1, <1>4, <2>1, LineRests
  <2>3. \A i \in 1..(EndOfOptions(Line) - 1) :
          ~(optind <= i /\ (i < optind' \/ scan' = "args"))
    BY <1>0, <2>2
  <2>4. QED
    BY <1>1, <2>3, SoundStays DEF Asks
<1>5. QED
  BY <1>2, <1>3, <1>4

LEMMA SoundTake ==
  ASSUME CliInv, CliInv', Layout, Layout', Sound, Take, prog' = prog
  PROVE  Sound'
<1>0. /\ Len(typed) \in Nat /\ Len(argv) = Len(typed) /\ Stop = Len(typed) + 1
      /\ optind \in 1..Stop /\ optind \in Nat /\ Lists /\ Walk
      /\ EndOfOptions(Line) \in 1..(Len(typed) + 1)
  BY Numbers, EndIs
<1>1. /\ scan = "take" /\ scan' \in {"args", "getopt"} /\ calls' = calls
      /\ UNCHANGED <<prog, tableVars>>
  BY DEF Take
<1>2. CASE scan' = "getopt"
  <2>1. optind' = optind
    BY <1>2 DEF Take
  <2>2. \A i \in 1..(EndOfOptions(Line) - 1) :
          ~(optind <= i /\ (i < optind' \/ scan' = "args"))
    BY <1>0, <1>2, <2>1
  <2>3. QED
    BY <1>1, <1>2, <2>2, SoundStays DEF Asks
<1>3. CASE scan' = "args"
  <2>1. EndOfOptions(Line) <= optind
    <3>1. CASE optind = Stop
      BY <1>0, <3>1
    <3>2. CASE optind < Stop /\ NONOPTION_P(argv[optind])
      <4>1. optind \in 1..Len(typed) /\ optind \in optind..Len(typed)
        BY <1>0, <3>2
      <4>2. /\ NONOPTION_P(typed[optind]) /\ posix /\ Between(Line, optind, calls)
        BY <1>1, <3>2, <4>1 DEF Layout, Ahead, Asked
      <4>3. Ends(Line, optind)
        BY <4>1, <4>2, LineIs DEF Ends, Between
      <4>4. \A i \in 1..(EndOfOptions(Line) - 1) : ~Ends(Line, i)
        BY <1>0, EndIs
      <4> DEFINE E == EndOfOptions(Line)
      <4>5. E \in Nat /\ ~(optind \in 1..(E - 1))
        BY <1>0, <4>3, <4>4
      <4> HIDE DEF E
      <4>6. E <= optind
        BY <1>0, <4>1, <4>5
      <4>7. QED
        BY <4>6 DEF E
    <3>3. QED
      BY <1>3, <3>1, <3>2 DEF Take
  <2>2. \A i \in 1..(EndOfOptions(Line) - 1) :
          ~(optind <= i /\ (i < optind' \/ scan' = "args"))
    BY <1>0, <2>1
  <2>3. QED
    BY <1>1, <1>3, <2>2, SoundStays DEF Asks
<1>4. QED
  BY <1>1, <1>2, <1>3

LEMMA SoundOption ==
  ASSUME CliInv, CliInv', Layout, Layout', Sound, Option, prog' = prog
  PROVE  Sound'
<1>0. /\ Len(typed) \in Nat /\ optind \in Nat /\ EndOfOptions(Line) \in Nat
      /\ Tables /\ Lists /\ Walk
  BY Numbers, EndIs
<1>1. scan = "getopt" /\ UNCHANGED <<prog, tableVars>>
  BY DEF Option
<1>2. CASE /\ scan' = "error" /\ UNCHANGED <<optind, nextchar, calls>>
           /\ Head(nextchar) \notin known \/ IsBad(Line, optind)
  <2>1. Line' = Line /\ known' = known /\ prog' = prog
    BY <1>1, LineRests DEF tableVars
  <2>2. Told' = Told
    BY <1>1, <1>2 DEF Told, Asks
  <2>3. QED
    BY <1>1, <1>2, <2>1, <2>2 DEF Sound, Asks
<1>3. CASE scan' = "getopt"
  <2>1. \/ calls' = calls \/ \E c \in known \cap Words, v \in Words : Call(c, v)
    BY <1>0, OptionWalks DEF Still
  <2>2. ASSUME NEW i \in 1..(EndOfOptions(Line) - 1), optind <= i, i < optind'
        PROVE  ~IsBad(Line, i)
    <3>1. CASE optind' = optind
      BY <1>0, <2>2, <3>1
    <3>2. CASE optind' = optind + 1 /\ ~IsBad(Line, optind)
      <4>1. i = optind
        BY <1>0, <2>2, <3>2
      <4>2. QED
        BY <3>2, <4>1
    <3>3. CASE /\ optind' = optind + 2 /\ ~IsBad(Line, optind)
               /\ IsValue(Line)[optind + 1]
      <4>1. i = optind \/ i = optind + 1
        BY <1>0, <2>2, <3>3
      <4>2. ASSUME i = optind + 1 PROVE ~IsBad(Line, i)
        BY <3>3, <4>2, LineBad
      <4>3. QED
        BY <3>3, <4>1, <4>2
    <3>4. QED
      BY <1>3, <3>1, <3>2, <3>3, OptionReads
  <2>3. QED
    BY <1>1, <1>3, <2>1, <2>2, SoundStays DEF Asks
<1>4. QED
  BY <1>2, <1>3, OptionReads

LEMMA SoundKept ==
  ASSUME CliInv, CliInv', Layout, Layout', Sound, [Next]_vars
  PROVE  Sound'
<1>0. /\ Len(typed) \in Nat /\ Len(argv) = Len(typed) /\ Stop = Len(typed) + 1
      /\ optind \in Nat /\ EndOfOptions(Line) \in 1..(Len(typed) + 1) /\ Walk
  BY Numbers, EndIs
<1>1. ASSUME UNCHANGED <<prog, tableVars>>, ~Asks, scan' \in {"args", "done"}
      PROVE  Sound'
  <2>1. Line' = Line /\ DeclaredOptions' = DeclaredOptions /\ prog' = prog
    BY <1>1, LineRests
  <2>2. Told' = Told
    BY <1>1, <2>1 DEF Told, Asks
  <2>3. QED
    BY <1>1, <2>1, <2>2 DEF Sound, Asks
<1>2. CASE Parse
  <2>0. prog' = prog
    BY <1>2 DEF Parse
  <2>1. CASE Exchange \/ Advance \/ Quoted
    <3>1. /\ Asks /\ scan' \notin {"error", "args", "done"} /\ calls' = calls
          /\ UNCHANGED <<prog, tableVars>>
      BY <1>0, <2>0, <2>1 DEF Exchange, Advance, Rearrange, Quoted, Asks, Walk
    <3>2. optind' = optind \/ EndOfOptions(Line) <= optind
      <4>1. CASE Quoted
        <5>1. EndOfOptions(Line) = optind - 1
          BY <4>1 DEF Quoted, Layout, Asked, Behind
        <5>2. QED
          BY <1>0, <5>1
      <4>2. QED
        BY <2>1, <4>1 DEF Exchange, Advance
    <3>3. \A i \in 1..(EndOfOptions(Line) - 1) :
            ~(optind <= i /\ (i < optind' \/ scan' = "args"))
      BY <1>0, <3>1, <3>2
    <3>4. QED
      BY <3>1, <3>3, SoundStays
  <2>2. CASE Skip
    BY <2>0, <2>2, SoundSkip
  <2>3. CASE FindDashes
    BY <2>0, <2>3, SoundDashes
  <2>4. CASE Take
    BY <2>0, <2>4, SoundTake
  <2>5. CASE Option
    BY <2>0, <2>5, SoundOption
  <2>6. CASE Arg \/ End
    BY <1>1, <2>0, <2>6 DEF Arg, End, Asks
  <2>7. QED
    BY <1>2, <2>1, <2>2, <2>3, <2>4, <2>5, <2>6 DEF Parse, GetoptStep
<1>3. CASE BadOption \/ MainVerb \/ MainSign \/ UNCHANGED vars
  <2>1. /\ UNCHANGED <<prog, tableVars>> /\ calls' = calls /\ scan' = scan
        /\ optind' = optind /\ nextchar' = nextchar
    BY <1>3 DEF BadOption, MainVerb, MainSign, vars, cliVars, getoptVars
  <2>2. /\ Line' = Line /\ DeclaredOptions' = DeclaredOptions /\ prog' = prog
        /\ known' = known
    BY <2>1, LineRests DEF tableVars
  <2>3. Told' = Told
    BY <2>1, <2>2 DEF Told, Asks
  <2>4. QED
    BY <2>1, <2>2, <2>3 DEF Sound, Asks
<1>4. QED
  BY <1>2, <1>3 DEF Next

LEMMA InitSounds ==
  ASSUME Init, CliInv
  PROVE  Sound
<1>1. optind = 1 /\ scan = "getopt" /\ calls = <<>>
  BY DEF Init, GetoptInit
<1>2. EndOfOptions(Line) \in Nat
  BY Numbers, EndIs
<1>3. QED
  BY <1>1, <1>2 DEF Sound, Told, Asks

\* parse_opt has nothing against the line.
Taken(verb) ==
  Says(verb) /\ Len(DeclaredArgs) \in ArgMin[verb]..ArgMax[verb]

\* Just the lines without a BIN are shown and not taken.
LEMMA TakenIsUsable ==
  ASSUME NEW verb \in VerbKeys, Len(DeclaredArgs) \in Nat
  PROVE  /\ Taken(verb) => Usable(verb) /\ ~WithoutBin(verb)
         /\ Usable(verb) => Taken(verb) \/ WithoutBin(verb)
<1>1. MAX_PARTITION_CNT \in Nat /\ MAX_PARTITION_CNT >= 3
  BY CliAssumption
<1>2. verb = "f" \/ verb = "w" \/ verb = "e" \/ verb = "p" \/ verb = "i"
  BY DEF VerbKeys
<1> DEFINE n == Len(DeclaredArgs)
<1> HIDE DEF n
<1>3. n \in Nat
  BY DEF n
<1>4. /\ n \in ArgMin[verb]..ArgMax[verb] =>
           /\ n \in ShownMin[verb]..ArgMax[verb]
           /\ ~(verb \in {"w", "i"} /\ n = ShownMin[verb])
      /\ n \in ShownMin[verb]..ArgMax[verb] =>
           \/ n \in ArgMin[verb]..ArgMax[verb]
           \/ verb \in {"w", "i"} /\ n = ShownMin[verb]
  BY <1>1, <1>2, <1>3 DEF ArgMin, ArgMax, ShownMin
<1>5. QED
  BY <1>4 DEF n, Taken, Usable, WithoutBin

\* What was typed means the same as long as it is not touched.
LEMMA TakenRests ==
  ASSUME CliInv, CliInv', UNCHANGED <<prog, tableVars>>, NEW verb
  PROVE  Taken(verb)' <=> Taken(verb)
<1>1. /\ Line' = Line /\ DeclaredOptions' = DeclaredOptions /\ DeclaredArgs' = DeclaredArgs
      /\ known' = known
  BY LineRests DEF tableVars
<1>2. ArgMax' = ArgMax /\ ArgMin' = ArgMin
  BY DEF ArgMax, ArgMin
<1>3. BadValue' <=> BadValue
  BY <1>1 DEF BadValue
<1>4. QED
  BY <1>1, <1>2, <1>3 DEF Taken, Says

LEMMA ConcatHas ==
  ASSUME NEW a \in Seq(Calls), NEW b \in Seq(Calls), NEW i \in 1..Len(a)
  PROVE  i \in DOMAIN (a \o b) /\ (a \o b)[i] = a[i]
<1>1. /\ a \o b \in Seq(Calls) /\ Len(a \o b) = Len(a) + Len(b)
      /\ Len(a) \in Nat /\ Len(b) \in Nat
      /\ (a \o b)[i] = a[i]
  <2>1. Len(a) \in Nat /\ Len(b) \in Nat
    OBVIOUS
  <2>2. i \in 1..(Len(a) + Len(b)) /\ i <= Len(a)
    BY <2>1
  <2>3. QED
    BY <2>1, <2>2, ConcatProperties
<1>2. i \in 1..(Len(a) + Len(b))
  BY <1>1
<1>3. QED
  BY <1>1, <1>2

\* Nothing runs after an option that getopt stops at.
LEMMA StoppedIsUnusable ==
  ASSUME CliInv, Layout, Sound, scan = "error", NEW verb
  PROVE  ~Taken(verb)
<1>0. /\ Len(typed) \in Nat /\ Stop = Len(typed) + 1 /\ optind \in 1..Stop
      /\ Tables /\ Lists /\ Walk
  BY Numbers
<1>1. nextchar # <<>> /\ Inside(Line, optind, nextchar, calls)
  BY DEF Layout, Asked
<1>2. optind \in 1..Len(typed)
  BY <1>0, <1>1 DEF Walk
<1>3. /\ Begins(OptionsTo(Line, optind), DeclaredOptions) /\ optind < EndOfOptions(Line)
      /\ ~IsValue(Line)[optind]
  BY <1>0, <1>1, <1>2, DeclaresTo DEF Inside
<1>4. CASE IsBad(Line, optind)
  <2>1. optind \in 1..(EndOfOptions(Line) - 1)
    <3>1. EndOfOptions(Line) \in Nat
      BY <1>0, EndIs
    <3>2. QED
      BY <1>2, <1>3, <3>1
  <2>2. BadValue
    BY <1>4, <2>1 DEF BadValue
  <2>3. QED
    BY <2>2 DEF Taken, Says
<1>5. CASE Head(nextchar) \notin known
  <2> DEFINE keys == KeysOf(prog, typed[optind])
             own == OptionCalls(Line, optind)
             base == OptionsTo(Line, optind - 1)
             all == OptionsTo(Line, optind)
  <2>1. PICK n \in 0..(Len(keys) - 1) : Head(nextchar) = keys[n + 1]
    <3> HIDE DEF keys
    <3>1. keys = KeysOf(prog, typed[optind])
      BY DEF keys
    <3>2. QED
      BY <1>0, <1>1, <1>2, <3>1, InsideIs
  <2>2. /\ keys \in Seq(Words) /\ own \in Seq(Calls) /\ Len(own) = Len(keys)
        /\ \A k \in 1..Len(keys) : own[k][1] = keys[k]
    <3>1. /\ own \in Seq(Calls) /\ Len(own) = Len(keys)
          /\ \A k \in 1..Len(keys) :
               own[k] = <<keys[k],
                          IF k # Len(keys) THEN ""
                          ELSE IF TakesNext(prog, typed[optind]) /\ optind < Len(typed)
                               THEN typed[optind + 1].text ELSE typed[optind].val>>
      BY <1>0, <1>2, OptionCallsAre
    <3>2. keys \in Seq(Words)
      BY <1>0, <1>2, KeysAreWords
    <3> HIDE DEF keys, own
    <3>3. ASSUME NEW k \in 1..Len(keys) PROVE own[k][1] = keys[k]
      <4> DEFINE v == IF k # Len(keys) THEN ""
                      ELSE IF TakesNext(prog, typed[optind]) /\ optind < Len(typed)
                           THEN typed[optind + 1].text ELSE typed[optind].val
      <4>1. own[k] = <<keys[k], v>>
        BY <3>1
      <4> HIDE DEF v
      <4>2. QED
        BY <4>1
    <3>4. QED
      BY <3>1, <3>2, <3>3
  <2>3. base \in Seq(Calls) /\ all = base \o own
    <3>1. optind - 1 \in 0..Len(typed)
      BY <1>0, <1>2
    <3>2. OptionsOf(Line, optind) = own
      BY <1>0, <1>2, <1>3, OptionsOfAre
    <3>3. QED
      BY <1>0, <1>2, <3>1, <3>2, OptionsGrow
  <2>4. PICK rest \in Seq(Calls) : DeclaredOptions = all \o rest
    BY <1>3 DEF Begins
  <2> HIDE DEF keys, own, base, all
  <2> DEFINE k == n + 1
             i == Len(base) + k
  <2>5. k \in 1..Len(own)
    <3>1. Len(own) \in Nat
      BY <2>2
    <3>2. QED
      BY <2>1, <2>2, <3>1
  <2> HIDE DEF k
  <2>6. /\ all \in Seq(Calls) /\ i \in 1..Len(all) /\ all[i] = own[k]
    <3>1. /\ all \in Seq(Calls) /\ Len(all) = Len(base) + Len(own)
          /\ \A j \in 1..(Len(base) + Len(own)) :
               all[j] = IF j <= Len(base) THEN base[j] ELSE own[j - Len(base)]
      <4>1. base \in Seq(Calls) /\ own \in Seq(Calls) /\ all = base \o own
        BY <2>2, <2>3
      <4>2. QED
        BY <4>1, ConcatProperties
    <3>2. Len(base) \in Nat /\ Len(own) \in Nat
      BY <2>2, <2>3
    <3>3. i \in 1..(Len(base) + Len(own)) /\ ~(i <= Len(base)) /\ i - Len(base) = k
      BY <2>5, <3>2
    <3> HIDE DEF i
    <3>4. QED
      BY <3>1, <3>3
  <2> HIDE DEF i
  <2>7. i \in DOMAIN DeclaredOptions /\ DeclaredOptions[i] = own[k]
    BY <2>4, <2>6, ConcatHas
  <2>8. own[k][1] = Head(nextchar)
    BY <2>1, <2>2, <2>5 DEF k
  <2>9. QED
    BY <1>5, <2>7, <2>8 DEF Taken, Says
<1>6. QED
  BY <1>4, <1>5 DEF Sound

\* Nor after a second verb.
LEMMA TwoVerbsAreUnusable ==
  ASSUME NEW s \in Seq(Calls), Begins(s, DeclaredOptions),
         NEW i \in DOMAIN s, NEW j \in DOMAIN s, i # j,
         i \in VerbsGiven(s), j \in VerbsGiven(s), NEW verb
  PROVE  ~Taken(verb)
<1>1. PICK rest \in Seq(Calls) : DeclaredOptions = s \o rest
  BY DEF Begins
<1>2. ASSUME NEW k \in DOMAIN s, k \in VerbsGiven(s)
      PROVE  k \in VerbsGiven(DeclaredOptions)
  <2>1. k \in 1..Len(s)
    OBVIOUS
  <2>2. k \in DOMAIN DeclaredOptions /\ DeclaredOptions[k] = s[k]
    BY <1>1, <2>1, ConcatHas
  <2>3. QED
    BY <1>2, <2>2 DEF VerbsGiven
<1>3. i \in VerbsGiven(DeclaredOptions) /\ j \in VerbsGiven(DeclaredOptions)
  BY <1>2
<1>4. QED
  BY <1>3 DEF Taken, Says

\* Nor for a verb that was not heard.
LEMMA HeardIsTaken ==
  ASSUME Heard(DeclaredOptions, arguments), arguments.verb # "none", NEW verb, Taken(verb)
  PROVE  verb = arguments.verb
  BY DEF Heard, Taken, Says

(***************************************************************************)
(* What the two programs with verbs have understood: as long as they go on *)
(* the arguments hold what the calls said, and they give up only on a line *)
(* that no verb can use.                                                   *)
(***************************************************************************)
Understood ==
  prog # "ws63sign" =>
    /\ result \in {"parsing", "run"} =>
         /\ Heard(Told, arguments)
         /\ scan = "args" => arguments.args = SubSeq(DeclaredArgs, 1, HandedOver)
         /\ scan = "done" => arguments.args = DeclaredArgs
    /\ result = "usage" => \A verb \in VerbKeys : ~Taken(verb)

LEMMA QuietUnderstood ==
  ASSUME CliInv, CliInv', Layout', Sound, Understood, Asks, scan' # "done",
         result = "parsing",
         UNCHANGED <<prog, tableVars, calls, arguments, result>>
  PROVE  Understood'
<1>1. /\ DeclaredOptions' = DeclaredOptions /\ DeclaredArgs' = DeclaredArgs
      /\ DeclaredArgs \in Seq(Words)
  BY LineRests, DeclaredAre DEF CliInv
<1>2. \A i \in DOMAIN calls : calls[i][1] \in Options[prog]
  BY DEF Sound, Told, Asks
<1>3. scan' = "args" => DeclaredOptions = calls /\ HandedOver' = 0
  BY <1>2, AllIsTold
<1>4. Told' = Told
  BY <1>1, <1>3 DEF Told, Asks
<1>5. arguments.args = <<>>
  BY DEF CliInv, Parsed, Asks
<1>6. SubSeq(DeclaredArgs, 1, 0) = <<>>
  BY <1>1
<1>7. ASSUME prog # "ws63sign" PROVE Heard(Told', arguments')
  BY <1>4, <1>7 DEF Understood
<1>8. ASSUME scan' = "args"
      PROVE  arguments'.args = SubSeq(DeclaredArgs', 1, HandedOver')
  BY <1>1, <1>3, <1>5, <1>6, <1>8
<1>9. QED
  BY <1>7, <1>8 DEF Understood

\* OptionsAreBegun, as an invariant: a step needs it of the state it leads to.
Begun == Asks => Begins(calls, DeclaredOptions)

LEMMA OptionUnderstood ==
  ASSUME CliInv, CliInv', Begun', Understood, scan = "getopt", scan' = "getopt",
         UNCHANGED <<prog, tableVars>>, result = "parsing",
         NEW c \in known \cap Words, NEW v \in Words, Call(c, v), ParseOpt(c, v)
  PROVE  Understood'
<1>1. Told = calls /\ Told' = calls' /\ Asks'
  BY DEF Told, Asks
<1>2. calls \in Seq(Calls) /\ calls' = Append(calls, <<c, v>>) /\ Tables /\ Parsed
  BY DEF CliInv, Lists, Calls, Call
<1>3. ASSUME prog # "ws63sign" PROVE Understood'
  <2>1. Heard(calls, arguments)
    BY <1>1, <1>3 DEF Understood
  <2>2. /\ result' \in {"parsing", "usage", "failure"}
        /\ result' = "parsing" => Heard(calls', arguments')
        /\ result' = "usage" =>
             \E i, j \in DOMAIN calls' :
               i # j /\ i \in VerbsGiven(calls') /\ j \in VerbsGiven(calls')
    BY <1>2, <1>3, <2>1, OptionHeard
  <2>3. ASSUME result' = "usage", NEW verb PROVE ~Taken(verb)'
    <3>1. PICK s \in Seq(Calls) : s = calls'
      BY <1>1 DEF CliInv, Lists, Calls
    <3>2. PICK i, j \in DOMAIN s : i # j /\ i \in VerbsGiven(s) /\ j \in VerbsGiven(s)
      BY <2>2, <2>3, <3>1
    <3>3. Begins(s, DeclaredOptions)
      BY <1>1, <3>1, LineRests DEF Begun
    <3>4. ~Taken(verb)
      BY <3>2, <3>3, TwoVerbsAreUnusable
    <3>5. QED
      BY <3>4, TakenRests
  <2>4. QED
    BY <1>1, <2>2, <2>3 DEF Understood
<1>4. QED
  BY <1>3 DEF Understood

\* How many arguments have been given, and the next one.
LEMMA NextArgument ==
  ASSUME CliInv, Layout, scan = "args"
  PROVE  /\ HandedOver \in 0..Len(DeclaredArgs) /\ DeclaredArgs \in Seq(Words)
         /\ optind < Stop =>
              /\ HandedOver + 1 \in 1..Len(DeclaredArgs)
              /\ argv[optind].text = DeclaredArgs[HandedOver + 1]
         /\ optind = Stop => HandedOver = Len(DeclaredArgs)
<1>0. /\ Len(typed) \in Nat /\ Stop = Len(typed) + 1 /\ optind \in 1..Stop
      /\ Tables /\ Lists
  BY Numbers
<1> DEFINE D == DeclaredArgs
<1>1. D \in Seq(Words)
  BY <1>0, DeclaredAre
<1>2. PICK m \in 0..Len(D) :
        /\ m = Len(D) - (Stop - optind)
        /\ \A k \in 1..(Stop - optind) : argv[optind + k - 1].text = D[m + k]
  BY DEF Layout, HandedOut, Handed
<1>3. HandedOver = m
  BY <1>2 DEF HandedOver
<1> HIDE DEF D
<1>4. Len(D) \in Nat
  BY <1>1
<1>5. ASSUME optind < Stop
      PROVE  m + 1 \in 1..Len(D) /\ argv[optind].text = D[m + 1]
  <2>1. 1 \in 1..(Stop - optind) /\ optind + 1 - 1 = optind /\ m + 1 \in 1..Len(D)
    BY <1>0, <1>2, <1>4, <1>5
  <2>2. argv[optind + 1 - 1].text = D[m + 1]
    BY <1>2, <2>1
  <2>3. QED
    BY <2>1, <2>2
<1>6. optind = Stop => m = Len(D)
  BY <1>0, <1>2, <1>4
<1>7. QED
  BY <1>1, <1>2, <1>3, <1>5, <1>6 DEF D

LEMMA ArgUnderstood ==
  ASSUME CliInv, CliInv', Layout, Understood, Arg, result = "parsing", prog' = prog,
         NEW v \in Words, v = argv[optind].text, ParseOpt("arg", v)
  PROVE  Understood'
<1>0. /\ optind < Stop /\ optind' = optind + 1 /\ scan = "args" /\ scan' = "args"
      /\ UNCHANGED tableVars
  BY DEF Arg
<1>1. /\ DeclaredOptions' = DeclaredOptions /\ DeclaredArgs' = DeclaredArgs /\ Stop' = Stop
  BY <1>0, LineRests
<1>2. /\ Len(typed) \in Nat /\ Stop = Len(typed) + 1 /\ optind \in Nat
  BY Numbers
<1> DEFINE D == DeclaredArgs
           m == HandedOver
<1>3. /\ D \in Seq(Words) /\ m + 1 \in 1..Len(D) /\ v = D[m + 1] /\ m \in 0..Len(D)
  BY <1>0, NextArgument
<1>4. HandedOver' = m + 1
  <2>1. Len(D) \in Nat
    BY <1>3
  <2>2. \A a, b, c \in Nat : a - (b - (c + 1)) = (a - (b - c)) + 1
    OBVIOUS
  <2>3. Stop \in Nat
    BY <1>2
  <2>4. Len(D) - (Stop - (optind + 1)) = (Len(D) - (Stop - optind)) + 1
    BY <1>2, <2>1, <2>2, <2>3, Zenon
  <2>5. QED
    BY <1>0, <1>1, <2>4 DEF HandedOver
<1>5. Told' = Told /\ Told = DeclaredOptions
  BY <1>0, <1>1 DEF Told, Asks
<1>6. arguments \in Arguments
  BY DEF CliInv, Parsed
<1> HIDE DEF D, m
<1>7. ASSUME prog # "ws63sign" PROVE Understood'
  <2>1. Heard(Told, arguments) /\ arguments.args = SubSeq(D, 1, m)
    BY <1>0, <1>7 DEF Understood, D, m
  <2>2. TakeArgument("arg", v)
    BY <1>7 DEF ParseOpt, FlashOption, FwpkgOption, VerbKeys
  <2>3. CASE /\ arguments.verb # "none" /\ Len(arguments.args) >= ArgMax[arguments.verb]
             /\ Exit("usage")
    <3>1. ASSUME NEW verb, Taken(verb) PROVE FALSE
      <4>1. Len(arguments.args) = m /\ Len(D) \in Nat /\ m \in Nat /\ m + 1 <= Len(D)
        BY <1>3, <2>1
      <4>2. verb = arguments.verb
        BY <1>5, <2>1, <2>3, <3>1, HeardIsTaken
      <4>3. Len(D) \in ArgMin[arguments.verb]..ArgMax[arguments.verb]
        BY <3>1, <4>2 DEF Taken, Says, D
      <4>4. arguments.verb \in VerbKeys
        BY <1>6, <2>3 DEF Arguments
      <4>5. ArgMax[arguments.verb] \in Nat /\ ArgMin[arguments.verb] \in Nat
        BY <4>4, LimitsAre
      <4>6. \A a, n, lo, hi \in Nat : n \in lo..hi /\ a + 1 <= n => ~(a >= hi)
        OBVIOUS
      <4>7. m >= ArgMax[arguments.verb]
        BY <2>3, <4>1
      <4>8. QED
        BY <4>1, <4>3, <4>5, <4>6, <4>7, Zenon
    <3>2. result' = "usage"
      BY <2>3 DEF Exit
    <3>3. \A verb \in VerbKeys : ~Taken(verb)'
      BY <1>0, <3>1, TakenRests
    <3>4. QED
      BY <3>2, <3>3 DEF Understood
  <2>4. CASE Accept([arguments EXCEPT !.args = Append(@, v)])
    <3>1. arguments' = [arguments EXCEPT !.args = Append(@, v)] /\ result' = "parsing"
      BY <2>4 DEF Accept
    <3>2. /\ arguments'.verb = arguments.verb /\ arguments'.baud = arguments.baud
          /\ arguments'.late_baud = arguments.late_baud
          /\ arguments'.args = Append(arguments.args, v)
      BY <1>6, <3>1 DEF Arguments
    <3>3. Heard(Told', arguments')
      BY <1>5, <2>1, <3>2 DEF Heard
    <3>4. arguments'.args = SubSeq(D, 1, m + 1)
      <4>1. \A s \in Seq(Words), n \in Nat : n + 1 \in 1..Len(s)
                => Append(SubSeq(s, 1, n), s[n + 1]) = SubSeq(s, 1, n + 1)
        OBVIOUS
      <4>2. m \in Nat
        BY <1>3
      <4>3. Append(SubSeq(D, 1, m), D[m + 1]) = SubSeq(D, 1, m + 1)
        BY <1>3, <4>1, <4>2, Zenon
      <4>4. QED
        BY <1>3, <2>1, <3>2, <4>3
    <3>5. arguments'.args = SubSeq(DeclaredArgs', 1, HandedOver')
      BY <1>1, <1>4, <3>4 DEF D
    <3>6. QED
      BY <1>0, <3>1, <3>3, <3>5 DEF Understood
  <2>5. QED
    BY <2>2, <2>3, <2>4 DEF TakeArgument
<1>8. QED
  BY <1>7 DEF Understood

LEMMA EndUnderstood ==
  ASSUME CliInv, CliInv', Layout, Understood, End, result = "parsing", prog' = prog,
         NEW v \in Words, ParseOpt("end", v)
  PROVE  Understood'
<1>0. optind = Stop /\ scan = "args" /\ scan' = "done" /\ UNCHANGED tableVars
  BY DEF End
<1>1. DeclaredOptions' = DeclaredOptions /\ DeclaredArgs' = DeclaredArgs
  BY <1>0, LineRests
<1> DEFINE D == DeclaredArgs
<1>2. D \in Seq(Words) /\ HandedOver = Len(D)
  BY <1>0, NextArgument
<1>3. Told' = Told /\ Told = DeclaredOptions
  BY <1>0, <1>1 DEF Told, Asks
<1>4. arguments \in Arguments
  BY DEF CliInv, Parsed
<1> HIDE DEF D
<1>5. ASSUME prog # "ws63sign" PROVE Understood'
  <2>1. Heard(Told, arguments) /\ arguments.args = SubSeq(D, 1, HandedOver)
    BY <1>0, <1>5 DEF Understood, D
  <2>2. arguments.args = D
    <3>1. SubSeq(D, 1, Len(D)) = D
      BY <1>2
    <3>2. QED
      BY <1>2, <2>1, <3>1
  <2>3. TakeArgument("end", v)
    BY <1>5 DEF ParseOpt, FlashOption, FwpkgOption, VerbKeys
  <2>4. CASE /\ arguments.verb # "none" /\ Len(arguments.args) < ArgMin[arguments.verb]
             /\ Exit("usage")
    <3>1. ASSUME NEW verb, Taken(verb) PROVE FALSE
      <4>1. verb = arguments.verb
        BY <1>3, <2>1, <2>4, <3>1, HeardIsTaken
      <4>2. Len(D) \in ArgMin[arguments.verb]..ArgMax[arguments.verb]
        BY <3>1, <4>1 DEF Taken, Says, D
      <4>3. arguments.verb \in VerbKeys
        BY <1>4, <2>4 DEF Arguments
      <4>4. ArgMax[arguments.verb] \in Nat /\ ArgMin[arguments.verb] \in Nat
        BY <4>3, LimitsAre
      <4>5. \A n, lo, hi \in Nat : n \in lo..hi => ~(n < lo)
        OBVIOUS
      <4>6. Len(D) \in Nat /\ Len(D) < ArgMin[arguments.verb]
        BY <1>2, <2>2, <2>4
      <4>7. QED
        BY <4>2, <4>4, <4>5, <4>6, Zenon
    <3>2. result' = "usage"
      BY <2>4 DEF Exit
    <3>3. \A verb \in VerbKeys : ~Taken(verb)'
      BY <1>0, <3>1, TakenRests
    <3>4. QED
      BY <3>2, <3>3 DEF Understood
  <2>5. CASE Accept(arguments)
    <3>1. arguments' = arguments /\ result' = "parsing"
      BY <2>5 DEF Accept
    <3>2. Heard(Told', arguments')
      BY <1>3, <2>1, <3>1
    <3>3. arguments'.args = DeclaredArgs'
      BY <1>1, <2>2, <3>1 DEF D
    <3>4. QED
      BY <1>0, <3>1, <3>2, <3>3 DEF Understood
  <2>6. QED
    BY <2>3, <2>4, <2>5 DEF TakeArgument
<1>6. QED
  BY <1>5 DEF Understood

LEMMA RestUnderstood ==
  ASSUME CliInv, CliInv', Understood, UNCHANGED <<prog, getoptVars>>,
         prog # "ws63sign" => arguments' = arguments,
         prog # "ws63sign" /\ result' = "run" => result \in {"parsing", "run"},
         prog # "ws63sign" /\ result' = "parsing" => result = "parsing",
         prog # "ws63sign" /\ result' = "usage" => \A verb \in VerbKeys : ~Taken(verb)
  PROVE  Understood'
<1>1. UNCHANGED <<prog, tableVars, argv, optind, scan, calls>>
  BY DEF getoptVars
<1>2. /\ DeclaredOptions' = DeclaredOptions /\ DeclaredArgs' = DeclaredArgs /\ Stop' = Stop
  BY <1>1, LineRests
<1>3. Told' = Told /\ HandedOver' = HandedOver
  BY <1>1, <1>2 DEF Told, Asks, HandedOver
<1>4. \A verb : Taken(verb)' <=> Taken(verb)
  BY <1>1, TakenRests
<1>5. QED
  BY <1>1, <1>2, <1>3, <1>4 DEF Understood

LEMMA UnderstoodKept ==
  ASSUME CliInv, CliInv', Layout, Layout', Begun', Sound, Understood, [Next]_vars
  PROVE  Understood'
<1>0. Tables /\ Lists /\ Walk /\ Parsed
  BY DEF CliInv
<1>1. CASE Parse
  <2>0. result = "parsing" /\ prog' = prog
    BY <1>1 DEF Parse
  <2>1. UNCHANGED tableVars
    BY <1>1 DEF Parse, GetoptStep, Exchange, Advance, Skip, FindDashes, Quoted, Take,
                Option, Arg, End
  <2>2. CASE Still
    <3>1. Asks /\ calls' = calls /\ scan' # "done"
      BY <2>2 DEF Still, Asks
    <3>2. UNCHANGED <<arguments, errno, result>>
      BY <1>1, <3>1 DEF Parse
    <3>3. QED
      BY <2>0, <2>1, <3>1, <3>2, QuietUnderstood
  <2>3. CASE Option
    <3>1. ASSUME ~Still
          PROVE  /\ scan = "getopt" /\ scan' = "getopt"
                 /\ \E c \in known \cap Words, v \in Words : Call(c, v)
      BY <1>0, <2>3, <3>1, OptionWalks
    <3>2. ASSUME scan = "getopt", scan' = "getopt",
                 NEW c \in known \cap Words, NEW v \in Words, Call(c, v)
          PROVE  Understood'
      <4>1. ParseOpt(c, v)
        BY <1>0, <1>1, <3>2, CallIsParsed
      <4>2. QED
        BY <2>0, <2>1, <3>2, <4>1, OptionUnderstood
    <3>3. QED
      BY <2>2, <3>1, <3>2
  <2>4. CASE Arg
    <3>1. Call("arg", argv[optind].text) /\ optind \in 1..Len(argv) /\ "arg" \in Words
      <4>1. optind \in 1..Stop /\ Stop = Len(argv) + 1 /\ Len(argv) \in Nat /\ optind < Stop
        BY <2>4, Numbers DEF Arg
      <4>2. QED
        BY <2>4, <4>1 DEF Arg, Words
    <3>2. argv[optind].text \in Words
      BY <1>0, <3>1, ElementWords
    <3>3. ParseOpt("arg", argv[optind].text)
      BY <1>0, <1>1, <3>1, <3>2, CallIsParsed
    <3>4. QED
      BY <2>0, <2>4, <3>2, <3>3, ArgUnderstood
  <2>5. CASE End
    <3>1. Call("end", "") /\ "end" \in Words /\ "" \in Words
      BY <2>5 DEF End, Words
    <3>2. ParseOpt("end", "")
      BY <1>0, <1>1, <3>1, CallIsParsed
    <3>3. QED
      BY <2>0, <2>5, <3>1, <3>2, EndUnderstood
  <2>6. CASE Exchange \/ Advance \/ Skip \/ FindDashes \/ Quoted \/ Take
    BY <1>0, <2>2, <2>6, ExchangeWalks, AdvanceWalks, SkipWalks, FindDashesWalks,
       QuotedWalks, TakeWalks
  <2>7. QED
    BY <1>1, <2>3, <2>4, <2>5, <2>6 DEF Parse, GetoptStep
<1>2. CASE BadOption
  <2>1. /\ scan = "error" /\ arguments' = arguments /\ result' = "usage"
        /\ UNCHANGED <<prog, getoptVars>>
    BY <1>2 DEF BadOption, Exit
  <2>2. \A verb \in VerbKeys : ~Taken(verb)
    BY <2>1, StoppedIsUnusable
  <2>3. QED
    BY <2>1, <2>2, RestUnderstood
<1>3. CASE MainVerb
  <2>1. /\ arguments' = arguments /\ result = "parsing" /\ result' \in {"failure", "run"}
        /\ UNCHANGED <<prog, getoptVars>>
    BY <1>3 DEF MainVerb, Exit
  <2>2. QED
    BY <2>1, RestUnderstood
<1>4. CASE MainSign
  <2>1. prog = "ws63sign" /\ UNCHANGED <<prog, getoptVars>>
    BY <1>4 DEF MainSign
  <2>2. QED
    BY <2>1, RestUnderstood
<1>5. CASE UNCHANGED vars
  <2>1. UNCHANGED <<prog, getoptVars>> /\ arguments' = arguments /\ result' = result
    BY <1>5 DEF vars, cliVars
  <2>2. prog # "ws63sign" /\ result = "usage" => \A verb \in VerbKeys : ~Taken(verb)
    BY DEF Understood
  <2>3. QED
    BY <2>1, <2>2, RestUnderstood
<1>6. QED
  BY <1>1, <1>2, <1>3, <1>4, <1>5 DEF Next

LEMMA InitUnderstands ==
  ASSUME Init
  PROVE  Understood
<1>1. /\ scan = "getopt" /\ calls = <<>> /\ result = "parsing"
      /\ arguments.verb = "none" /\ arguments.baud = "115200" /\ arguments.late_baud = FALSE
  BY DEF Init, GetoptInit
<1>2. Told = calls /\ VerbsGiven(calls) = {} /\ \A k : Given(calls, k) = {}
  BY <1>1 DEF Told, Asks, VerbsGiven, Given
<1>3. Heard(Told, arguments)
  BY <1>1, <1>2 DEF Heard
<1>4. QED
  BY <1>1, <1>3 DEF Understood

LEMMA GreatestIs ==
  ASSUME NEW T, T \subseteq Nat, NEW m \in T, \A y \in T : y <= m
  PROVE  Max(T) = m
<1>1. m >= m /\ \A y \in T : m >= y
  OBVIOUS
<1>2. Max(T) \in T /\ \A y \in T : Max(T) >= y
  BY <1>1 DEF Max
<1>3. Max(T) \in Nat /\ m \in Nat /\ Max(T) >= m /\ Max(T) <= m
  BY <1>2
<1>4. \A a, b \in Nat : a >= b /\ a <= b => a = b
  OBVIOUS
<1>5. QED
  BY <1>3, <1>4, Zenon

LEMMA BegunHolds == Spec => []Begun
<1>1. CliInv /\ Layout => Begun
  BY OptionsAreBegun DEF Begun, Asks
<1>2. QED
  BY <1>1, CliInvHolds, LayoutHolds, PTL

LEMMA UnderstoodHolds == Spec => [](Sound /\ Understood)
<1>1. Init => Sound /\ Understood
  BY InitEstablishes, InitSounds, InitUnderstands
<1>2. /\ CliInv /\ CliInv' /\ Layout /\ Layout' /\ Begun' /\ Sound /\ Understood
      /\ [Next]_vars
      => Sound' /\ Understood'
  BY SoundKept, UnderstoodKept
<1>3. QED
  BY <1>1, <1>2, CliInvHolds, LayoutHolds, BegunHolds, PTL DEF Spec

(***************************************************************************)
(* A program begins its work only for one verb with as many arguments as   *)
(* the manual pages show, every option being known, and with the values    *)
(* that were typed; it refuses only what is not so, and --write and        *)
(* --inject without a BIN.                                                 *)
(***************************************************************************)
THEOREM RunsAsTyped == Spec => []RunsWhatWasTyped
<1>1. CliInv /\ Sound /\ Understood => RunsWhatWasTyped
  <2> SUFFICES ASSUME CliInv, Sound, Understood, prog # "ws63sign"
               PROVE  /\ result = "run" =>
                           /\ Usable(arguments.verb) /\ ~WithoutBin(arguments.verb)
                           /\ arguments.args = DeclaredArgs
                           /\ arguments.baud = LastGiven(DeclaredOptions, "b", "115200")
                           /\ arguments.late_baud = (Given(DeclaredOptions, "l") # {})
                      /\ result = "usage" =>
                           \A verb \in VerbKeys : Usable(verb) => WithoutBin(verb)
    BY DEF RunsWhatWasTyped
  <2>0. Len(DeclaredArgs) \in Nat
    <3>1. DeclaredArgs \in Seq(Words)
      BY DeclaredAre DEF CliInv
    <3>2. QED
      BY <3>1
  <2>1. ASSUME result = "run"
        PROVE  /\ Usable(arguments.verb) /\ ~WithoutBin(arguments.verb)
               /\ arguments.args = DeclaredArgs
               /\ arguments.baud = LastGiven(DeclaredOptions, "b", "115200")
               /\ arguments.late_baud = (Given(DeclaredOptions, "l") # {})
    <3>1. scan = "done" /\ arguments \in Arguments /\ arguments.verb # "none"
      BY <2>1 DEF CliInv, Parsed
    <3>2. Told = DeclaredOptions /\ ~Asks
      BY <3>1 DEF Told, Asks
    <3>3. Heard(DeclaredOptions, arguments) /\ arguments.args = DeclaredArgs
      BY <2>1, <3>1, <3>2 DEF Understood
    <3>4. Len(DeclaredArgs) \in ArgMin[arguments.verb]..ArgMax[arguments.verb]
      <4>1. arguments.verb \in VerbKeys
        BY <3>1 DEF Arguments
      <4>2. /\ Len(arguments.args) <= ArgMax[arguments.verb]
            /\ Len(arguments.args) >= ArgMin[arguments.verb]
            /\ Len(arguments.args) \in Nat
        BY <2>1, <3>1 DEF CliInv, Parsed, Arguments
      <4>3. QED
        BY <3>3, <4>1, <4>2, LimitsAre
    <3>5. \A i \in DOMAIN DeclaredOptions : DeclaredOptions[i][1] \in known
      BY <3>2 DEF Sound, CliInv, Tables
    <3>6. ~BadValue
      BY <3>2 DEF Sound, BadValue
    <3>7. Usable(arguments.verb) /\ ~WithoutBin(arguments.verb)
      <4>1. Taken(arguments.verb) /\ arguments.verb \in VerbKeys
        BY <3>1, <3>3, <3>4, <3>5, <3>6 DEF Taken, Says, Heard, Arguments
      <4>2. QED
        BY <2>0, <4>1, TakenIsUsable
    <3>8. arguments.baud = LastGiven(DeclaredOptions, "b", "115200")
      <4> DEFINE s == DeclaredOptions
                 T == Given(s, "b")
      <4>1. T \subseteq Nat
        <5>1. s \in Seq(Calls)
          BY DeclaredAre DEF CliInv
        <5> HIDE DEF s
        <5>2. QED
          BY <5>1 DEF Given
      <4>2. CASE T = {} /\ arguments.baud = "115200"
        BY <4>2 DEF LastGiven
      <4>3. ASSUME NEW i \in T, arguments.baud = s[i][2], \A j \in T : j <= i
            PROVE  arguments.baud = LastGiven(s, "b", "115200")
        <5>1. T # {}
          BY <4>3
        <5> HIDE DEF T
        <5>2. Max(T) = i
          BY <4>1, <4>3, GreatestIs
        <5>3. QED
          BY <4>3, <5>1, <5>2 DEF LastGiven, T
      <4>4. QED
        BY <3>3, <4>2, <4>3 DEF Heard
    <3>9. arguments.late_baud \in BOOLEAN
      BY <3>1 DEF Arguments
    <3>10. QED
      BY <3>3, <3>7, <3>8, <3>9 DEF Heard
  <2>2. ASSUME result = "usage", NEW verb \in VerbKeys, Usable(verb)
        PROVE  WithoutBin(verb)
    BY <2>0, <2>2, TakenIsUsable DEF Understood
  <2>3. QED
    BY <2>1, <2>2
<1>2. QED
  BY <1>1, CliInvHolds, UnderstoodHolds, PTL

-----------------------------------------------------------------------------
(* ws63sign *)

\* The input is the first argument, unless errno says that it could not be opened.
Seen ==
  prog = "ws63sign" =>
    /\ result = "parsing" /\ ~errno =>
         /\ Asks => arguments.inf = "none"
         /\ scan = "args" /\ HandedOver = 0 => arguments.inf = "none"
         /\ scan = "args" /\ HandedOver # 0 =>
              arguments.inf = DeclaredArgs[1] /\ arguments.inf # "none"
         /\ scan = "done" => arguments.inf = DeclaredArgs[1]
    /\ result = "run" => arguments.inf = DeclaredArgs[1] /\ arguments.out = "a.signed"

LEMMA SignParseSees ==
  ASSUME CliInv, CliInv', Layout, Layout', Sound, Seen, Parse, prog = "ws63sign"
  PROVE  Seen'
<1>0. /\ Tables /\ Lists /\ Walk /\ Parsed /\ arguments \in Arguments
      /\ result = "parsing" /\ prog' = prog /\ errno \in BOOLEAN
  BY DEF CliInv, Parse, Parsed
<1>1. UNCHANGED tableVars
  BY DEF Parse, GetoptStep, Exchange, Advance, Skip, FindDashes, Quoted, Take,
         Option, Arg, End
<1>2. DeclaredArgs' = DeclaredArgs /\ Stop' = Stop
  BY <1>0, <1>1, LineRests
<1>3. CASE Still
  <2>1. Asks /\ calls' = calls /\ scan' # "done"
    BY <1>3 DEF Still, Asks
  <2>2. UNCHANGED <<arguments, errno, result>>
    BY <2>1 DEF Parse
  <2>3. scan' = "args" => HandedOver' = 0
    <3>1. \A i \in DOMAIN calls : calls[i][1] \in Options[prog]
      BY <2>1 DEF Sound, Told
    <3>2. QED
      BY <1>0, <1>1, <2>1, <3>1, AllIsTold
  <2>4. QED
    BY <1>0, <1>2, <2>1, <2>2, <2>3 DEF Seen
<1>4. CASE Option
  <2>1. ASSUME NEW c \in known \cap Words, NEW v \in Words, Call(c, v)
        PROVE  Seen'
    <3>1. c = "o"
      BY <1>0 DEF Tables, Options
    <3>2. ParseOpt(c, v)
      BY <1>0, <2>1, CallIsParsed
    <3>3. errno' = TRUE /\ result' \in {"parsing", "usage"}
      BY <1>0, <3>1, <3>2 DEF ParseOpt, SignOption
    <3>4. QED
      BY <3>3 DEF Seen
  <2>2. QED
    BY <1>0, <1>3, <1>4, <2>1, OptionWalks
<1>5. CASE Arg
  <2> DEFINE v == argv[optind].text
  <2>1. /\ optind < Stop /\ optind' = optind + 1 /\ scan = "args" /\ scan' = "args"
        /\ Call("arg", v)
    BY <1>5 DEF Arg
  <2>2. /\ optind \in 1..Len(argv) /\ Stop \in Nat /\ optind \in Nat
        /\ argv \in Seq(Elements)
    BY <2>1, Numbers
  <2>3. v \in Words /\ v # "none" /\ "arg" \in Words
    <3>1. argv[optind] \in Elements
      BY <2>2
    <3>2. QED
      BY <3>1 DEF Elements, Texts, Words
  <2>4. /\ HandedOver \in 0..Len(DeclaredArgs) /\ DeclaredArgs \in Seq(Words)
        /\ v = DeclaredArgs[HandedOver + 1]
    BY <2>1, NextArgument
  <2>5. HandedOver' = HandedOver + 1 /\ HandedOver + 1 # 0
    <3> DEFINE n == Len(DeclaredArgs)
    <3>1. n \in Nat
      BY <2>4
    <3>2. \A a, b, c \in Nat : a - (b - (c + 1)) = (a - (b - c)) + 1
      OBVIOUS
    <3>3. HandedOver' = n - (Stop - (optind + 1)) /\ HandedOver = n - (Stop - optind)
      BY <1>2, <2>1 DEF HandedOver
    <3> HIDE DEF n
    <3>4. n - (Stop - (optind + 1)) = (n - (Stop - optind)) + 1
      BY <2>2, <3>1, <3>2, Zenon
    <3>5. HandedOver \in Nat
      BY <2>4
    <3>6. QED
      BY <3>3, <3>4, <3>5
  <2>6. SignOption("arg", v)
    <3>1. ParseOpt("arg", v)
      BY <1>0, <2>1, <2>3, CallIsParsed
    <3>2. QED
      BY <1>0, <3>1 DEF ParseOpt
  <2> HIDE DEF v
  <2>7. \/ result' = "usage"
        \/ errno' = TRUE /\ result' = "parsing"
        \/ /\ arguments.inf = "none" /\ arguments' = [arguments EXCEPT !.inf = v]
           /\ result' = "parsing" /\ errno' = errno
    BY <1>0, <2>6 DEF SignOption, Exit, Accept
  <2>8. CASE /\ arguments.inf = "none" /\ arguments' = [arguments EXCEPT !.inf = v]
             /\ result' = "parsing" /\ errno' = errno
    <3>1. arguments'.inf = v
      BY <1>0, <2>8 DEF Arguments
    <3>2. ~errno => HandedOver = 0
      BY <1>0, <2>1, <2>8 DEF Seen
    <3>3. ~errno => arguments'.inf = DeclaredArgs'[1]
      <4>1. 0 + 1 = 1
        OBVIOUS
      <4>2. QED
        BY <1>2, <2>4, <3>1, <3>2, <4>1
    <3>4. QED
      BY <2>1, <2>3, <2>5, <2>8, <3>1, <3>3 DEF Seen, Asks
  <2>9. QED
    BY <2>7, <2>8 DEF Seen
<1>6. CASE End
  <2>1. optind = Stop /\ scan = "args" /\ scan' = "done" /\ Call("end", "")
    BY <1>6 DEF End
  <2>2. SignOption("end", "")
    <3>1. "end" \in Words /\ "" \in Words
      BY DEF Words
    <3>2. ParseOpt("end", "")
      BY <1>0, <2>1, <3>1, CallIsParsed
    <3>3. QED
      BY <1>0, <3>2 DEF ParseOpt
  <2>3. /\ arguments' = arguments /\ (errno' <=> errno)
        /\ result' = IF arguments.inf = "none" THEN "usage" ELSE "parsing"
    BY <1>0, <2>2 DEF SignOption
  <2>4. result' = "parsing" /\ ~errno => arguments.inf = DeclaredArgs[1]
    BY <1>0, <2>1, <2>3 DEF Seen
  <2>5. QED
    BY <1>2, <2>1, <2>3, <2>4 DEF Seen, Asks
<1>7. CASE Exchange \/ Advance \/ Skip \/ FindDashes \/ Quoted \/ Take
  BY <1>0, <1>3, <1>7, ExchangeWalks, AdvanceWalks, SkipWalks, FindDashesWalks,
     QuotedWalks, TakeWalks
<1>8. QED
  BY <1>4, <1>5, <1>6, <1>7 DEF Parse, GetoptStep

LEMMA SeenKept ==
  ASSUME CliInv, CliInv', Layout, Layout', Sound, Seen, [Next]_vars
  PROVE  Seen'
<1>0. prog' = prog /\ arguments \in Arguments
  BY DEF Next, Parse, BadOption, MainVerb, MainSign, vars, cliVars, CliInv, Parsed
<1>1. CASE prog # "ws63sign"
  BY <1>0, <1>1 DEF Seen
<1>2. CASE prog = "ws63sign" /\ Parse
  BY <1>2, SignParseSees
<1>3. CASE prog = "ws63sign" /\ BadOption
  <2>1. result' = "usage"
    BY <1>3 DEF BadOption, Exit
  <2>2. QED
    BY <2>1 DEF Seen
<1>4. CASE prog = "ws63sign" /\ MainSign
  <2>1. /\ UNCHANGED <<prog, tableVars>> /\ scan = "done" /\ result = "parsing"
        /\ result' \in {"failure", "run"}
        /\ result' = "run" => ~errno /\ arguments' = [arguments EXCEPT !.out = "a.signed"]
    BY <1>4 DEF MainSign, Exit, getoptVars
  <2>2. DeclaredArgs' = DeclaredArgs
    BY <2>1, LineRests
  <2>3. ASSUME result' = "run"
        PROVE  arguments'.inf = DeclaredArgs[1] /\ arguments'.out = "a.signed"
    <3>1. arguments'.inf = arguments.inf /\ arguments'.out = "a.signed"
      BY <1>0, <2>1, <2>3 DEF Arguments
    <3>2. arguments.inf = DeclaredArgs[1]
      BY <1>4, <2>1, <2>3 DEF Seen
    <3>3. QED
      BY <3>1, <3>2
  <2>4. QED
    BY <2>1, <2>2, <2>3 DEF Seen
<1>5. CASE UNCHANGED vars
  <2>1. UNCHANGED <<prog, tableVars, optind, argv, scan, arguments, errno, result>>
    BY <1>5 DEF vars, cliVars, getoptVars
  <2>2. DeclaredArgs' = DeclaredArgs /\ Stop' = Stop
    BY <2>1, LineRests
  <2>3. QED
    BY <2>1, <2>2 DEF Seen, HandedOver, Asks
<1>6. QED
  BY <1>1, <1>2, <1>3, <1>4, <1>5 DEF Next, MainVerb

(***************************************************************************)
(* ws63sign signs the first file that was named into a.signed, although    *)
(* parse_opt takes the next one for its input when the first cannot be     *)
(* opened: errno is then set, and the program ends.                        *)
(***************************************************************************)
THEOREM SignsFirstFile == Spec => []SignsTheFirst
<1>1. Init => Seen
  BY DEF Init, GetoptInit, Seen, Asks
<1>2. CliInv /\ CliInv' /\ Layout /\ Layout' /\ Sound /\ Seen /\ [Next]_vars => Seen'
  BY SeenKept
<1>3. Seen => SignsTheFirst
  BY DEF Seen, SignsTheFirst
<1>4. QED
  BY <1>1, <1>2, <1>3, CliInvHolds, LayoutHolds, UnderstoodHolds, PTL DEF Spec
=============================================================================
