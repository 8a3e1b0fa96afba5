---------------------------- MODULE Sha256Proofs ----------------------------
(***************************************************************************)
(* sha256_process_bytes neither loses nor repeats a byte of the stream,    *)
(* its counters are right, and sha256_finish_ctx hashes the padded message *)
(* of the standard, for every block size, every word and every length.     *)
(***************************************************************************)
EXTENDS Sha256, SequenceTheorems, TLAPS

-----------------------------------------------------------------------------
(* Division *)

LEMMA Division ==
  ASSUME NEW a \in Int, NEW b \in Nat \ {0}
  PROVE  /\ a \div b \in Int /\ a % b \in 0..(b - 1)
         /\ a = b * (a \div b) + (a % b)
         /\ a >= 0 => a \div b \in Nat
<1>1. /\ a \div b \in Int /\ a % b \in 0..(b - 1)
      /\ a = b * (a \div b) + (a % b)
  OBVIOUS
<1>2. ASSUME a >= 0, a \div b <= -1 PROVE FALSE
  <2>1. b * (a \div b) <= -b
    BY <1>1, <1>2
  <2> QED BY <1>1, <1>2, <2>1
<1> QED BY <1>1, <1>2

LEMMA Unique ==
  ASSUME NEW a \in Int, NEW b \in Nat \ {0}, NEW q \in Int, NEW r \in 0..(b - 1),
         a = b * q + r
  PROVE  a \div b = q /\ a % b = r
<1> DEFINE p == a \div b
           s == a % b
<1>1. p \in Int /\ s \in 0..(b - 1) /\ a = b * p + s
  BY Division
<1> HIDE DEF p, s
<1>2. b * q \in Int /\ b * p \in Int
  BY <1>1
<1>3. s - r < b /\ r - s < b
  BY <1>1
<1>4. CASE q - p >= 1
  <2>1. b * (q - p) >= b
    BY <1>1, <1>4
  <2>2. b * (q - p) = b * q - b * p
    BY <1>1
  <2> QED BY <1>1, <1>2, <1>3, <2>1, <2>2
<1>5. CASE p - q >= 1
  <2>1. b * (p - q) >= b
    BY <1>1, <1>5
  <2>2. b * (p - q) = b * p - b * q
    BY <1>1
  <2> QED BY <1>1, <1>2, <1>3, <2>1, <2>2
<1>6. p = q
  BY <1>1, <1>4, <1>5
<1>7. s = r
  BY <1>1, <1>2, <1>6
<1> QED BY <1>6, <1>7 DEF p, s

LEMMA Small ==
  ASSUME NEW b \in Nat \ {0}, NEW r \in 0..(b - 1)
  PROVE  r \div b = 0 /\ r % b = r
<1>1. r \in Int /\ r = b * 0 + r
  OBVIOUS
<1> QED BY <1>1, Unique

\* A multiple of b does not change a remainder.
LEMMA AddMultiple ==
  ASSUME NEW a \in Int, NEW b \in Nat \ {0}, NEW k \in Int
  PROVE  /\ (a + b * k) % b = a % b
         /\ (a + b * k) \div b = (a \div b) + k
<1> DEFINE q == a \div b
           r == a % b
<1>1. q \in Int /\ r \in 0..(b - 1) /\ a = b * q + r
  BY Division
<1> HIDE DEF q, r
<1>2. b * (q + k) = b * q + b * k /\ b * q \in Int /\ b * k \in Int
  BY <1>1
<1>3. a + b * k = b * (q + k) + r
  BY <1>1, <1>2
<1>4. a + b * k \in Int /\ q + k \in Int
  BY <1>1, <1>2
<1>5. (a + b * k) \div b = q + k /\ (a + b * k) % b = r
  BY <1>1, <1>3, <1>4, Unique
<1> QED BY <1>5 DEF q, r

LEMMA AddRemainder ==
  ASSUME NEW a \in Int, NEW c \in Int, NEW b \in Nat \ {0}
  PROVE  ((a % b) + c) % b = (a + c) % b
<1> DEFINE q == a \div b
           r == a % b
<1>1. q \in Int /\ r \in 0..(b - 1) /\ a = b * q + r
  BY Division
<1> HIDE DEF q, r
<1>2. a + c = (r + c) + b * q /\ r + c \in Int
  <2> DEFINE m == b * q
  <2>1. m \in Int /\ r \in Int /\ a = m + r
    BY <1>1
  <2> HIDE DEF m
  <2>2. a + c = (r + c) + m /\ r + c \in Int
    BY <2>1
  <2> QED BY <2>2 DEF m
<1>3. (a + c) % b = (r + c) % b
  <2> DEFINE e == r + c
  <2>1. e \in Int /\ a + c = e + b * q
    BY <1>2
  <2> HIDE DEF e
  <2>2. (e + b * q) % b = e % b
    BY <1>1, <2>1, AddMultiple
  <2> QED BY <2>1, <2>2 DEF e
<1> QED BY <1>3 DEF r

-----------------------------------------------------------------------------
(* Blocks *)

LEMMA Constants ==
  /\ Block \in Nat \ {0} /\ Block > 2 /\ LenField = 2
  /\ Word \in Nat \ {0} /\ Word > 2 * Block
  /\ Word \div 8 \in Nat \ {0} /\ Word = 8 * (Word \div 8)
<1>1. /\ Block \in Nat \ {0} /\ Block > 2 /\ LenField = 2
      /\ Word \in Nat \ {0} /\ Word > 2 * Block /\ Word % 8 = 0
  BY Sha256Assumption
<1>2. Word \div 8 \in Int /\ Word = 8 * (Word \div 8) + (Word % 8)
  BY <1>1, Division
<1> DEFINE w == Word \div 8
<1>3. w \in Int /\ Word = 8 * w
  BY <1>1, <1>2
<1> HIDE DEF w
<1>4. w \in Nat \ {0}
  BY <1>1, <1>3
<1> QED BY <1>1, <1>3, <1>4 DEF w

LEMMA WholeBlocks ==
  ASSUME NEW n \in Nat
  PROVE  /\ Whole(n) \in 0..n /\ Whole(n) % Block = 0
         /\ n - Whole(n) < Block
         /\ n % Block = 0 => Whole(n) = n
<1> DEFINE q == n \div Block
           r == n % Block
<1>1. Block \in Nat \ {0}
  BY Constants
<1>2. /\ q \in Nat /\ r \in 0..(Block - 1) /\ n = Block * q + r
      /\ Whole(n) = n - r
  <2>1. n \in Int /\ n >= 0
    OBVIOUS
  <2> QED BY <1>1, <2>1, Division DEF Whole
<1> HIDE DEF q, r
<1>3. Block * q \in Nat
  BY <1>1, <1>2
<1>4. Whole(n) = Block * q /\ n - Whole(n) = r
  BY <1>1, <1>2, <1>3
<1>5. Whole(n) % Block = 0
  <2>1. Whole(n) \in Int /\ Whole(n) = Block * q + 0 /\ 0 \in 0..(Block - 1)
    BY <1>1, <1>3, <1>4
  <2> DEFINE m == Whole(n)
  <2>2. m \in Int /\ m = Block * q + 0 /\ 0 \in 0..(Block - 1) /\ q \in Int
    BY <1>2, <2>1
  <2> HIDE DEF m
  <2>3. m % Block = 0
    BY <1>1, <2>2, Unique
  <2> QED BY <2>3 DEF m
<1>6. /\ Whole(n) \in 0..n /\ n - Whole(n) < Block
      /\ r = 0 => Whole(n) = n
  BY <1>1, <1>2, <1>3, <1>4
<1> QED BY <1>5, <1>6 DEF r

LEMMA SumOfBlocks ==
  ASSUME NEW a \in Nat, NEW b \in Nat, a % Block = 0, b % Block = 0
  PROVE  (a + b) % Block = 0
<1>1. Block \in Nat \ {0} /\ a \in Int /\ b \in Int
  BY Constants
<1>2. ((a % Block) + b) % Block = (a + b) % Block
  BY <1>1, AddRemainder
<1> QED BY <1>2

\* Three sequences can be put together from either end.
Three(a, b, d, S) == a \in Seq(S) /\ b \in Seq(S) /\ d \in Seq(S)

LEMMA Assoc ==
  ASSUME NEW S, NEW a, NEW b, NEW d, Three(a, b, d, S)
  PROVE  (a \o b) \o d = a \o (b \o d)
BY ConcatAssociative DEF Three

\* A sequence is its first n elements and the rest.
LEMMA Parts ==
  ASSUME NEW S, NEW s \in Seq(S), NEW n \in 0..Len(s)
  PROVE  /\ First(s, n) \in Seq(S) /\ Rest(s, n) \in Seq(S)
         /\ Len(First(s, n)) = n /\ Len(Rest(s, n)) = Len(s) - n
         /\ First(s, n) \o Rest(s, n) = s
         /\ n = 0 => First(s, n) = <<>> /\ Rest(s, n) = s
         /\ n = Len(s) => First(s, n) = s /\ Rest(s, n) = <<>>
<1>1. Len(s) \in Nat
  OBVIOUS
<1>2. First(s, n) \in Seq(S) /\ Len(First(s, n)) = n
      /\ \A i \in 1..n : First(s, n)[i] = s[i]
  BY <1>1 DEF First
<1>3. Rest(s, n) \in Seq(S) /\ Len(Rest(s, n)) = Len(s) - n
      /\ \A i \in 1..(Len(s) - n) : Rest(s, n)[i] = s[n + i]
  BY <1>1 DEF Rest
<1> DEFINE t == First(s, n) \o Rest(s, n)
<1>4. /\ t \in Seq(S) /\ Len(t) = Len(s)
      /\ \A i \in 1..Len(s) : t[i] = IF i <= n THEN First(s, n)[i]
                                     ELSE Rest(s, n)[i - n]
  BY <1>1, <1>2, <1>3, ConcatProperties
<1>5. \A i \in 1..Len(s) : t[i] = s[i]
  BY <1>1, <1>2, <1>3, <1>4
<1>6. t = s
  BY <1>4, <1>5, SeqEqual
<1>7. n = 0 => First(s, n) = <<>> /\ Rest(s, n) = s
  <2>1. n = 0 => Rest(s, n) = s
    BY <1>1, <1>3, SeqEqual
  <2>2. n = 0 => First(s, n) = <<>>
    BY <1>2
  <2> QED BY <2>1, <2>2
<1>8. n = Len(s) => First(s, n) = s /\ Rest(s, n) = <<>>
  BY <1>1, <1>2, <1>3, SeqEqual
<1> QED BY <1>2, <1>3, <1>6, <1>7, <1>8

-----------------------------------------------------------------------------
(* The counters *)

\* lo and hi are the low and the next word of n.
Counts(c, n) == c.lo = n % Word /\ c.hi = (n \div Word) % Word

LEMMA CountAdds ==
  ASSUME NEW n \in Nat, NEW m \in Nat, NEW c, Counts(c, n)
  PROVE  LET lo == (c.lo + m) % Word
         IN /\ lo = (n + m) % Word
            /\ (c.hi + (m \div Word) + (IF lo < m % Word THEN 1 ELSE 0)) % Word
               = ((n + m) \div Word) % Word
<1> DEFINE q == n \div Word
           r == n % Word
           p == m \div Word
           s == m % Word
           lo == (c.lo + m) % Word
           carry == IF lo < s THEN 1 ELSE 0
<1>1. Word \in Nat \ {0} /\ n \in Int /\ m \in Int
  BY Constants
<1>2. /\ q \in Int /\ r \in 0..(Word - 1) /\ n = Word * q + r
      /\ p \in Int /\ s \in 0..(Word - 1) /\ m = Word * p + s
  BY <1>1, Division
<1>3. c.lo = r /\ c.hi = q % Word
  BY DEF Counts
<1>4. lo = (n + m) % Word
  BY <1>1, <1>3, AddRemainder
<1> HIDE DEF q, r, p, s
<1>5. n + m = Word * (q + p) + (r + s)
  <2> DEFINE a == Word * q
             b == Word * p
  <2>1. a \in Int /\ b \in Int /\ Word * (q + p) = a + b
    BY <1>1, <1>2
  <2>2. n = a + r /\ m = b + s
    BY <1>2
  <2> HIDE DEF a, b
  <2> QED BY <1>2, <2>1, <2>2
<1>6. lo = (n + m) % Word /\ (n + m) \div Word = q + p + carry
  <2>1. CASE r + s < Word
    <3>1. r + s \in 0..(Word - 1) /\ q + p \in Int /\ n + m \in Int
      BY <1>1, <1>2, <2>1
    <3>2. (n + m) \div Word = q + p /\ (n + m) % Word = r + s
      BY <1>1, <1>5, <3>1, Unique
    <3>3. carry = 0
      BY <1>2, <1>4, <3>2
    <3> HIDE DEF carry
    <3> QED BY <1>2, <1>4, <3>2, <3>3
  <2>2. CASE r + s >= Word
    <3>1. r + s - Word \in 0..(Word - 1) /\ q + p + 1 \in Int /\ n + m \in Int
      BY <1>1, <1>2, <2>2
    <3>2. n + m = Word * (q + p + 1) + (r + s - Word)
      <4>1. Word * (q + p + 1) = Word * (q + p) + Word /\ Word * (q + p) \in Int
        BY <1>1, <1>2
      <4> QED BY <1>1, <1>2, <1>5, <4>1
    <3>3. (n + m) \div Word = q + p + 1 /\ (n + m) % Word = r + s - Word
      BY <1>1, <3>1, <3>2, Unique
    <3>4. r + s - Word < s
      BY <1>1, <1>2
    <3>5. carry = 1
      BY <1>4, <3>3, <3>4
    <3> HIDE DEF carry
    <3> QED BY <1>4, <3>3, <3>5
  <2> QED BY <1>1, <1>2, <2>1, <2>2
<1>7. (c.hi + p + carry) % Word = ((n + m) \div Word) % Word
  <2> DEFINE d == p + carry
  <2>1. d \in Int
    BY <1>2
  <2> HIDE DEF d
  <2>2. ((q % Word) + d) % Word = (q + d) % Word
    BY <1>1, <1>2, <2>1, AddRemainder
  <2>3. q % Word \in Int
    BY <1>1, <1>2, Division
  <2>4. c.hi + p + carry = (q % Word) + d /\ q + p + carry = q + d
    BY <1>2, <1>3, <2>3 DEF d
  <2> QED BY <1>6, <2>2, <2>4
<1> QED BY <1>4, <1>7 DEF p, s

-----------------------------------------------------------------------------
(* What a context holds *)

\* All bytes that were given to it.
Message(c) == c.state \o c.buffer

\* Only whole blocks are hashed and counted, and no more than one is kept.
Sound(c, S) ==
  /\ c \in [state : Seq(S), lo : Nat, hi : Nat, buffer : Seq(S)]
  /\ Len(c.state) % Block = 0 /\ Len(c.buffer) <= Block
  /\ Counts(c, Len(c.state))

LEMMA SoundTypes ==
  ASSUME NEW S, NEW c, Sound(c, S)
  PROVE  /\ c.state \in Seq(S) /\ c.buffer \in Seq(S)
         /\ c.lo \in Nat /\ c.hi \in Nat
         /\ Len(c.state) \in Nat /\ Len(c.buffer) \in 0..Block
         /\ Message(c) \in Seq(S)
         /\ Len(Message(c)) = Len(c.state) + Len(c.buffer)
<1>1. /\ c.state \in Seq(S) /\ c.buffer \in Seq(S)
      /\ c.lo \in Nat /\ c.hi \in Nat /\ Len(c.buffer) <= Block
  BY DEF Sound
<1> QED BY <1>1, Constants, ConcatProperties DEF Message

\* The context after blocks were hashed, with what then stays in the buffer.
LEMMA BlocksHashed ==
  ASSUME NEW S, NEW c, Sound(c, S), NEW d \in Seq(S), Len(d) % Block = 0,
         NEW b \in Seq(S), Len(b) <= Block
  PROVE  LET e == [ProcessBlock(c, d) EXCEPT !.buffer = b]
         IN Sound(e, S) /\ e.state = c.state \o d /\ e.buffer = b
<1> DEFINE n == Len(c.state)
           m == Len(d)
           lo == (c.lo + m) % Word
           hi == (c.hi + (m \div Word) + (IF lo < m % Word THEN 1 ELSE 0)) % Word
           e == [ProcessBlock(c, d) EXCEPT !.buffer = b]
<1>1. n \in Nat /\ m \in Nat /\ n % Block = 0 /\ Counts(c, n)
  BY DEF Sound
<1>2. c \in [state : Seq(S), lo : Nat, hi : Nat, buffer : Seq(S)]
  BY DEF Sound
<1>3. e = [c EXCEPT !.lo = lo, !.hi = hi, !.state = c.state \o d, !.buffer = b]
  BY <1>2 DEF ProcessBlock, Count
<1>4. lo = (n + m) % Word /\ hi = ((n + m) \div Word) % Word
  BY <1>1, CountAdds
<1> HIDE DEF lo, hi, e
<1>5. lo \in Nat /\ hi \in Nat
  <2> DEFINE k == n + m
  <2>1. Word \in Nat \ {0} /\ k \in Int
    BY <1>1, Constants
  <2> HIDE DEF k
  <2>2. k % Word \in 0..(Word - 1) /\ k \div Word \in Int
    BY <2>1, Division
  <2> DEFINE j == k \div Word
  <2>3. j \in Int
    BY <2>2
  <2> HIDE DEF j
  <2>4. j % Word \in 0..(Word - 1)
    BY <2>1, <2>3, Division
  <2>5. lo = k % Word /\ hi = j % Word
    BY <1>4 DEF k, j
  <2> HIDE DEF k
  <2> QED BY <2>1, <2>2, <2>4, <2>5
<1>6. c.state \o d \in Seq(S) /\ Len(c.state \o d) = n + m
  BY <1>2, ConcatProperties
<1>7. /\ e \in [state : Seq(S), lo : Nat, hi : Nat, buffer : Seq(S)]
      /\ e.state = c.state \o d /\ e.buffer = b /\ e.lo = lo /\ e.hi = hi
  BY <1>2, <1>3, <1>5, <1>6
<1>8. Len(e.state) = n + m
  BY <1>6, <1>7
<1>9. (n + m) % Block = 0
  <2>1. m % Block = 0
    OBVIOUS
  <2> HIDE DEF n, m
  <2> QED BY <1>1, <2>1, SumOfBlocks
<1>10. Counts(e, Len(e.state))
  BY <1>4, <1>7, <1>8 DEF Counts
<1>11. Sound(e, S)
  BY <1>7, <1>8, <1>9, <1>10 DEF Sound
<1> QED BY <1>7, <1>11 DEF e

\* A context of which only the buffer changes.
LEMMA BufferKept ==
  ASSUME NEW S, NEW c, Sound(c, S), NEW b \in Seq(S), Len(b) <= Block
  PROVE  LET e == [c EXCEPT !.buffer = b]
         IN Sound(e, S) /\ e.state = c.state /\ e.buffer = b
BY DEF Sound, Counts

(***************************************************************************)
(* The buffer is filled up; two full blocks empty it.                      *)
(***************************************************************************)
LEMMA TopUpWorks ==
  ASSUME NEW S, NEW c, Sound(c, S), NEW d \in Seq(S)
  PROVE  LET e == TopUp(c, d)
         IN /\ Sound(e, S) /\ Message(e) = Message(c) \o d
            /\ Len(c.buffer) + Len(d) = 2 * Block => e.buffer = <<>>
<1> DEFINE all == c.buffer \o d
           n == Len(all)
           w == Whole(n)
           f == First(all, w)
           r == Rest(all, w)
           e == TopUp(c, d)
<1>1. /\ c.state \in Seq(S) /\ c.buffer \in Seq(S) /\ all \in Seq(S)
      /\ n = Len(c.buffer) + Len(d) /\ n \in Nat
  <2>1. c.state \in Seq(S) /\ c.buffer \in Seq(S) /\ Len(c.buffer) \in 0..Block
    BY SoundTypes
  <2> QED BY <2>1
<1>2. Block \in Nat \ {0}
  BY Constants
<1>3. CASE n > Block
  <2>1. /\ w \in 0..n /\ w % Block = 0 /\ n - w < Block
        /\ n % Block = 0 => w = n
    <3> HIDE DEF n
    <3> QED BY <1>1, WholeBlocks
  <2>2. /\ f \in Seq(S) /\ r \in Seq(S) /\ f \o r = all
        /\ Len(f) = w /\ Len(r) = n - w
        /\ w = n => r = <<>>
    <3>1. w \in 0..Len(all) /\ all \in Seq(S)
      BY <1>1, <2>1
    <3>2. n = Len(all)
      OBVIOUS
    <3> HIDE DEF all, w, n
    <3>3. /\ f \in Seq(S) /\ r \in Seq(S) /\ f \o r = all
          /\ Len(f) = w /\ Len(r) = Len(all) - w
          /\ w = Len(all) => r = <<>>
      BY <3>1, Parts
    <3> QED BY <3>2, <3>3
  <2>3. e = [ProcessBlock(c, f) EXCEPT !.buffer = r]
    BY <1>3 DEF TopUp
  <2>4. n = 2 * Block => n % Block = 0
    <3> HIDE DEF n
    <3> SUFFICES ASSUME n = 2 * Block PROVE n % Block = 0
      OBVIOUS
    <3>1. n = Block * 2 + 0 /\ 0 \in 0..(Block - 1) /\ n \in Int
      BY <1>1, <1>2
    <3> QED BY <1>2, <3>1, Unique
  <2> HIDE DEF f, r, e, all, w
  <2>5. Sound(e, S) /\ e.state = c.state \o f /\ e.buffer = r
    <3>1. Len(f) % Block = 0 /\ Len(r) <= Block
      BY <1>1, <1>2, <2>1, <2>2
    <3>2. f \in Seq(S) /\ r \in Seq(S)
      BY <2>2
    <3>3. LET x == [ProcessBlock(c, f) EXCEPT !.buffer = r]
          IN Sound(x, S) /\ x.state = c.state \o f /\ x.buffer = r
      BY <3>1, <3>2, BlocksHashed
    <3> QED BY <2>3, <3>3
  <2>6. Message(e) = Message(c) \o d
    <3>1. f \o r = c.buffer \o d
      BY <2>2 DEF all
    <3>2. Message(c) \o d = (c.state \o f) \o r
      <4> DEFINE a == c.state
                 b == c.buffer
      <4>1. Three(a, f, r, S) /\ Three(a, b, d, S)
        BY <1>1, <2>2 DEF Three
      <4> HIDE DEF a, b
      <4>2. (a \o f) \o r = a \o (f \o r)
        BY <4>1, Assoc
      <4>3. (a \o b) \o d = a \o (b \o d)
        BY <4>1, Assoc
      <4> QED BY <3>1, <4>2, <4>3 DEF a, b, Message
    <3> QED BY <2>5, <3>2 DEF Message
  <2>7. n = 2 * Block => e.buffer = <<>>
    BY <2>1, <2>2, <2>4, <2>5
  <2> QED BY <1>1, <2>5, <2>6, <2>7 DEF e
<1>4. CASE ~(n > Block)
  <2>1. e = [c EXCEPT !.buffer = all] /\ n <= Block
    BY <1>1, <1>2, <1>4 DEF TopUp
  <2>2. Sound(e, S) /\ e.state = c.state /\ e.buffer = all
    <3> HIDE DEF all, e
    <3>1. all \in Seq(S) /\ Len(all) <= Block
      BY <1>1, <2>1
    <3>2. LET x == [c EXCEPT !.buffer = all]
          IN Sound(x, S) /\ x.state = c.state /\ x.buffer = all
      BY <3>1, BufferKept
    <3> QED BY <2>1, <3>2
  <2>3. Message(e) = Message(c) \o d
    <3>1. c.state \o (c.buffer \o d) = (c.state \o c.buffer) \o d
      <4> DEFINE a == c.state
                 b == c.buffer
      <4>1. Three(a, b, d, S)
        BY <1>1 DEF Three
      <4> HIDE DEF a, b
      <4>2. a \o (b \o d) = (a \o b) \o d
        BY <4>1, Assoc
      <4> QED BY <4>2 DEF a, b
    <3> QED BY <2>2, <3>1 DEF Message
  <2>4. n # 2 * Block
    BY <1>1, <1>2, <1>4
  <2> QED BY <1>1, <2>2, <2>3, <2>4
<1> QED BY <1>3, <1>4

(***************************************************************************)
(* Whole blocks are hashed straight from the caller, and what is left over *)
(* fits into the buffer, which stays empty.                                *)
(***************************************************************************)
LEMMA DirectWorks ==
  ASSUME NEW S, NEW c, Sound(c, S), c.buffer = <<>>,
         NEW d \in Seq(S), Len(d) >= Block, NEW aligned \in BOOLEAN
  PROVE  LET e == Direct(c, d, aligned)
             m == DirectLen(Len(d), aligned)
         IN /\ Sound(e, S) /\ e.buffer = <<>> /\ m \in 0..Len(d)
            /\ e.state = c.state \o First(d, m)
            /\ Len(d) - m <= Block
<1> DEFINE k == IF aligned THEN Len(d) ELSE Len(d) - 1
           m == Whole(k)
           f == First(d, m)
           e == Direct(c, d, aligned)
<1>1. Block \in Nat \ {0} /\ Len(d) \in Nat /\ k \in Nat /\ k <= Len(d) /\ k >= Len(d) - 1
  BY Constants
<1>2. m = DirectLen(Len(d), aligned)
  BY DEF DirectLen
<1>3. m \in 0..k /\ m % Block = 0 /\ k - m < Block
  <2> HIDE DEF k
  <2> QED BY <1>1, WholeBlocks
<1> HIDE DEF k
<1>4. m \in 0..Len(d) /\ Len(d) - m <= Block
  <2> HIDE DEF m
  <2> QED BY <1>1, <1>3
<1>5. f \in Seq(S) /\ Len(f) = m
  <2> HIDE DEF m
  <2> QED BY <1>4, Parts
<1>6. <<>> \in Seq(S) /\ Len(<<>>) <= Block /\ Len(f) % Block = 0
  BY <1>1, <1>3, <1>5
<1>7. e = [ProcessBlock(c, f) EXCEPT !.buffer = <<>>]
  <2>1. CASE aligned
    <3>1. e = ProcessBlock(c, f)
      BY <2>1 DEF Direct, k
    <3>2. c \in [state : Seq(S), lo : Nat, hi : Nat, buffer : Seq(S)]
      BY DEF Sound
    <3>3. ProcessBlock(c, f) = [ProcessBlock(c, f) EXCEPT !.buffer = <<>>]
      BY <3>2 DEF ProcessBlock, Count
    <3> QED BY <3>1, <3>3
  <2>2. CASE ~aligned
    <3> DEFINE b == ProcessBlock(c, f).buffer
               g == [i \in DOMAIN b |-> IF m = 0 THEN b[i] ELSE d[m - Block + i]]
    <3>1. e = [ProcessBlock(c, f) EXCEPT !.buffer = g]
      BY <2>2 DEF Direct, k
    <3>2. b = <<>>
      <4>1. c \in [state : Seq(S), lo : Nat, hi : Nat, buffer : Seq(S)]
        BY DEF Sound
      <4> QED BY <4>1 DEF ProcessBlock, Count
    <3>3. g = <<>>
      <4> HIDE DEF b
      <4> QED BY <3>2
    <3> QED BY <3>1, <3>3
  <2> QED BY <2>1, <2>2
<1>8. Sound(e, S) /\ e.state = c.state \o f /\ e.buffer = <<>>
  <2> DEFINE b == <<>>
  <2>1. e = [ProcessBlock(c, f) EXCEPT !.buffer = b] /\ b \in Seq(S) /\ Len(b) <= Block
    BY <1>6, <1>7
  <2> HIDE DEF e, f, b
  <2>2. Sound(e, S) /\ e.state = c.state \o f /\ e.buffer = b
    BY <1>5, <1>6, <2>1, BlocksHashed
  <2> QED BY <2>2 DEF b
<1> QED BY <1>2, <1>4, <1>8

(***************************************************************************)
(* What is left over stays in the buffer, but for a full block that it     *)
(* completes.                                                              *)
(***************************************************************************)
LEMMA KeepWorks ==
  ASSUME NEW S, NEW c, Sound(c, S), NEW d \in Seq(S),
         Len(c.buffer) + Len(d) <= 2 * Block
  PROVE  Sound(Keep(c, d), S) /\ Message(Keep(c, d)) = Message(c) \o d
<1> DEFINE all == c.buffer \o d
           f == First(all, Block)
           r == Rest(all, Block)
           e == Keep(c, d)
<1>1. /\ c.state \in Seq(S) /\ c.buffer \in Seq(S) /\ all \in Seq(S)
      /\ Len(all) = Len(c.buffer) + Len(d) /\ Len(d) \in Nat
      /\ Len(c.buffer) \in 0..Block
  <2>1. c.state \in Seq(S) /\ c.buffer \in Seq(S) /\ Len(c.buffer) \in 0..Block
    BY SoundTypes
  <2> QED BY <2>1
<1>2. Block \in Nat \ {0}
  BY Constants
<1>3. CASE d # <<>> /\ Len(all) >= Block
  <2>1. Block \in 0..Len(all)
    BY <1>1, <1>2, <1>3
  <2>2. /\ f \in Seq(S) /\ r \in Seq(S) /\ f \o r = all
        /\ Len(f) = Block /\ Len(r) = Len(all) - Block
    <3> HIDE DEF all
    <3>1. all \in Seq(S)
      BY <1>1
    <3> QED BY <2>1, <3>1, Parts
  <2>3. e = [ProcessBlock(c, f) EXCEPT !.buffer = r]
    BY <1>3 DEF Keep
  <2>4. Len(f) % Block = 0 /\ Len(r) <= Block
    <3>1. Block = Block * 1 + 0 /\ 0 \in 0..(Block - 1) /\ Block \in Int
      BY <1>2
    <3>2. Block % Block = 0
      BY <1>2, <3>1, Unique
    <3> QED BY <1>1, <1>2, <2>2, <3>2
  <2> HIDE DEF f, r, e, all
  <2>5. Sound(e, S) /\ e.state = c.state \o f /\ e.buffer = r
    <3>1. f \in Seq(S) /\ r \in Seq(S)
      BY <2>2
    <3>2. LET x == [ProcessBlock(c, f) EXCEPT !.buffer = r]
          IN Sound(x, S) /\ x.state = c.state \o f /\ x.buffer = r
      BY <2>4, <3>1, BlocksHashed
    <3> QED BY <2>3, <3>2
  <2>6. f \o r = c.buffer \o d
    BY <2>2 DEF all
  <2>7. Message(e) = Message(c) \o d
    <3>1. Message(c) \o d = (c.state \o f) \o r
      <4> DEFINE a == c.state
                 b == c.buffer
      <4>1. Three(a, f, r, S) /\ Three(a, b, d, S)
        BY <1>1, <2>2 DEF Three
      <4> HIDE DEF a, b
      <4>2. (a \o f) \o r = a \o (f \o r)
        BY <4>1, Assoc
      <4>3. (a \o b) \o d = a \o (b \o d)
        BY <4>1, Assoc
      <4> QED BY <2>6, <4>2, <4>3 DEF a, b, Message
    <3> QED BY <2>5, <3>1 DEF Message
  <2> QED BY <2>5, <2>7 DEF e
<1>4. CASE ~(d # <<>> /\ Len(all) >= Block)
  <2>1. e = [c EXCEPT !.buffer = all]
    BY <1>4 DEF Keep
  <2>2. Len(all) <= Block
    <3>1. CASE d = <<>>
      <4>1. Len(d) = 0
        BY <3>1
      <4> QED BY <1>1, <4>1
    <3>2. CASE d # <<>>
      BY <1>1, <1>2, <1>4, <3>2
    <3> QED BY <3>1, <3>2
  <2>3. Sound(e, S) /\ e.state = c.state /\ e.buffer = all
    <3> HIDE DEF all, e
    <3>1. all \in Seq(S) /\ Len(all) <= Block
      BY <1>1, <2>2
    <3>2. LET x == [c EXCEPT !.buffer = all]
          IN Sound(x, S) /\ x.state = c.state /\ x.buffer = all
      BY <3>1, BufferKept
    <3> QED BY <2>1, <3>2
  <2>4. Message(e) = Message(c) \o d
    <3>1. c.state \o (c.buffer \o d) = (c.state \o c.buffer) \o d
      <4> DEFINE a == c.state
                 b == c.buffer
      <4>1. Three(a, b, d, S)
        BY <1>1 DEF Three
      <4> HIDE DEF a, b
      <4>2. a \o (b \o d) = (a \o b) \o d
        BY <4>1, Assoc
      <4> QED BY <4>2 DEF a, b
    <3> QED BY <2>3, <3>1 DEF Message
  <2> QED BY <2>3, <2>4
<1> QED BY <1>3, <1>4

(***************************************************************************)
(* sha256_process_bytes: the bytes go behind those that were given before, *)
(* none is lost or hashed twice, and only whole blocks are hashed.         *)
(***************************************************************************)
THEOREM ProcessBytesWorks ==
  ASSUME NEW S, NEW c, Sound(c, S), NEW data \in Seq(S), NEW aligned \in BOOLEAN
  PROVE  LET e == ProcessBytes(c, data, aligned)
         IN Sound(e, S) /\ Message(e) = Message(c) \o data
<1> DEFINE room == 2 * Block - Len(c.buffer)
           add == IF c.buffer = <<>> THEN 0
                  ELSE IF room > Len(data) THEN Len(data) ELSE room
           head == First(data, add)
           c1 == IF c.buffer = <<>> THEN c ELSE TopUp(c, head)
           d1 == Rest(data, add)
           direct == IF Len(d1) >= Block THEN DirectLen(Len(d1), aligned) ELSE 0
           c2 == IF Len(d1) >= Block THEN Direct(c1, d1, aligned) ELSE c1
           mid == First(d1, direct)
           tail == Rest(d1, direct)
<1>1. ProcessBytes(c, data, aligned) = Keep(c2, tail)
  BY DEF ProcessBytes
<1>2. /\ c.buffer \in Seq(S) /\ Len(c.buffer) \in 0..Block
      /\ Block \in Nat \ {0} /\ Len(data) \in Nat
      /\ room \in Nat /\ Len(c.buffer) + room = 2 * Block
  <2>1. c.buffer \in Seq(S) /\ Len(c.buffer) \in 0..Block
    BY SoundTypes
  <2>2. Block \in Nat \ {0}
    BY Constants
  <2> QED BY <2>1, <2>2
<1> HIDE DEF room
<1>3. add \in 0..Len(data)
  BY <1>2
<1>4. /\ head \in Seq(S) /\ d1 \in Seq(S) /\ head \o d1 = data
      /\ Len(head) = add /\ Len(d1) = Len(data) - add
      /\ add = 0 => head = <<>>
      /\ add = Len(data) => d1 = <<>>
  <2> HIDE DEF add
  <2> QED BY <1>3, Parts
<1>5. /\ Sound(c1, S) /\ Message(c1) = Message(c) \o head
      /\ c1.buffer = <<>> \/ d1 = <<>>
  <2>1. CASE c.buffer = <<>>
    <3>1. c1 = c /\ head = <<>>
      BY <1>4, <2>1
    <3> HIDE DEF head, c1, d1
    <3>2. Message(c) \in Seq(S)
      BY SoundTypes
    <3>3. Message(c) \o <<>> = Message(c)
      BY <3>2, ConcatEmptySeq
    <3> QED BY <2>1, <3>1, <3>3
  <2>2. CASE c.buffer # <<>>
    <3>1. c1 = TopUp(c, head)
      BY <2>2
    <3>2. add = Len(data) \/ Len(c.buffer) + add = 2 * Block
      <4>1. add = Len(data) \/ add = room
        BY <2>2
      <4> HIDE DEF add
      <4> QED BY <1>2, <4>1
    <3> HIDE DEF head, c1, d1, add
    <3>3. /\ Sound(c1, S) /\ Message(c1) = Message(c) \o head
          /\ Len(c.buffer) + Len(head) = 2 * Block => c1.buffer = <<>>
      BY <1>4, <3>1, TopUpWorks
    <3> QED BY <1>4, <3>2, <3>3
  <2> QED BY <2>1, <2>2
<1> HIDE DEF add, head, c1, d1
<1>6. /\ direct \in 0..Len(d1) /\ Sound(c2, S)
      /\ Message(c2) = Message(c1) \o mid
      /\ Len(c2.buffer) + (Len(d1) - direct) <= 2 * Block
  <2>1. CASE Len(d1) >= Block
    <3>1. d1 # <<>>
      BY <1>2, <2>1
    <3>2. c1.buffer = <<>> /\ c1.state \in Seq(S)
      BY <1>5, <3>1, SoundTypes
    <3>3. c2 = Direct(c1, d1, aligned) /\ direct = DirectLen(Len(d1), aligned)
      BY <2>1
    <3> HIDE DEF c2, direct
    <3>4. /\ Sound(c2, S) /\ c2.buffer = <<>> /\ direct \in 0..Len(d1)
          /\ c2.state = c1.state \o mid /\ Len(d1) - direct <= Block
      <4>1. d1 \in Seq(S) /\ Sound(c1, S) /\ c1.buffer = <<>>
        BY <1>4, <1>5, <3>2
      <4> QED BY <2>1, <3>3, <4>1, DirectWorks
    <3>5. Message(c1) = c1.state
      BY <3>2, ConcatEmptySeq DEF Message
    <3>6. Message(c2) = c2.state
      <4>1. c2.state \in Seq(S)
        BY <3>4, SoundTypes
      <4> QED BY <3>4, <4>1, ConcatEmptySeq DEF Message
    <3>7. Len(c2.buffer) = 0
      BY <3>4
    <3> QED BY <1>2, <1>4, <3>4, <3>5, <3>6, <3>7
  <2>2. CASE ~(Len(d1) >= Block)
    <3>1. c2 = c1 /\ direct = 0 /\ Len(d1) \in Nat
      BY <1>4, <2>2
    <3> HIDE DEF c2, direct
    <3>2. mid = <<>>
      BY <1>4, <3>1, Parts
    <3> HIDE DEF mid
    <3>3. Message(c1) \in Seq(S) /\ Len(c1.buffer) \in 0..Block
      BY <1>5, SoundTypes
    <3>4. Message(c1) \o <<>> = Message(c1)
      BY <3>3, ConcatEmptySeq
    <3> QED BY <1>2, <1>5, <2>2, <3>1, <3>2, <3>3, <3>4
  <2> QED BY <2>1, <2>2
<1> HIDE DEF direct, c2
<1>7. /\ mid \in Seq(S) /\ tail \in Seq(S) /\ mid \o tail = d1
      /\ Len(tail) = Len(d1) - direct
  <2>1. d1 \in Seq(S) /\ direct \in 0..Len(d1)
    BY <1>4, <1>6
  <2> QED BY <2>1, Parts
<1> HIDE DEF mid, tail
<1>8. Sound(Keep(c2, tail), S) /\ Message(Keep(c2, tail)) = Message(c2) \o tail
  BY <1>6, <1>7, KeepWorks
<1>9. Message(c2) \o tail = Message(c) \o data
  <2> DEFINE m == Message(c)
             h == m \o head
  <2>1. m \in Seq(S)
    BY SoundTypes
  <2> HIDE DEF m
  <2>2. /\ head \in Seq(S) /\ d1 \in Seq(S) /\ mid \in Seq(S) /\ tail \in Seq(S)
        /\ h \in Seq(S)
    BY <1>4, <1>7, <2>1, ConcatProperties
  <2>3. m \o (head \o d1) = h \o d1
    <3>1. Three(m, head, d1, S)
      BY <2>1, <2>2 DEF Three
    <3> QED BY <3>1, Assoc
  <2> HIDE DEF h
  <2>4. h \o (mid \o tail) = (h \o mid) \o tail
    <3>1. Three(h, mid, tail, S)
      BY <2>2 DEF Three
    <3> QED BY <3>1, Assoc
  <2>5. m \o data = (h \o mid) \o tail
    BY <1>4, <1>7, <2>3, <2>4
  <2>6. Message(c2) = h \o mid
    BY <1>5, <1>6 DEF h, m
  <2> QED BY <2>5, <2>6 DEF m
<1> QED BY <1>1, <1>8, <1>9

-----------------------------------------------------------------------------
(* The end of the message *)

\* The counters give the length in bits: 2^3 carries three bits from lo to hi.
LEMMA BitLength ==
  ASSUME NEW n \in Nat
  PROVE  LET lo == n % Word
             hi == (n \div Word) % Word
         IN /\ (8 * hi + (lo \div (Word \div 8))) % Word
               = ((8 * n) \div Word) % Word
            /\ (8 * lo) % Word = (8 * n) % Word
<1> DEFINE w == Word \div 8
           q == n \div Word
           lo == n % Word
           hi == q % Word
           j == q \div Word
           t == lo \div w
           u == lo % w
<1>1. Word \in Nat \ {0} /\ w \in Nat \ {0} /\ Word = 8 * w
  BY Constants
<1>2. q \in Int /\ lo \in 0..(Word - 1) /\ n = Word * q + lo
  BY <1>1, Division
<1> HIDE DEF w, q, lo
<1>3. hi \in 0..(Word - 1) /\ j \in Int /\ q = Word * j + hi
  BY <1>1, <1>2, Division
<1>4. t \in Int /\ u \in 0..(w - 1) /\ lo = w * t + u
  BY <1>1, <1>2, Division
<1> HIDE DEF hi, j, t, u
<1>5. 8 * n = Word * (8 * q) + 8 * lo
  <2> DEFINE m == Word * q
  <2>1. m \in Int /\ n = m + lo
    BY <1>1, <1>2
  <2>2. Word * (8 * q) = 8 * m
    BY <1>1, <1>2
  <2> HIDE DEF m
  <2> QED BY <1>2, <2>1, <2>2
<1>6. (8 * lo) % Word = (8 * n) % Word /\ (8 * n) \div Word = ((8 * lo) \div Word) + 8 * q
  <2> DEFINE a == 8 * lo
             k == 8 * q
  <2>1. a \in Int /\ k \in Int /\ 8 * n = a + Word * k
    BY <1>1, <1>2, <1>5
  <2> HIDE DEF a, k
  <2>2. (a + Word * k) % Word = a % Word /\ (a + Word * k) \div Word = (a \div Word) + k
    BY <1>1, <2>1, AddMultiple
  <2> QED BY <2>1, <2>2 DEF a, k
<1>7. (8 * lo) \div Word = t
  <2>1. 8 * lo = Word * t + 8 * u
    <3> DEFINE m == w * t
    <3>1. m \in Int /\ lo = m + u
      BY <1>1, <1>4
    <3>2. Word * t = 8 * m
      BY <1>1, <1>4
    <3>3. u \in Int
      BY <1>4
    <3> HIDE DEF m
    <3> QED BY <3>1, <3>2, <3>3
  <2>2. 8 * u \in 0..(Word - 1)
    BY <1>1, <1>4
  <2> DEFINE a == 8 * lo
             v == 8 * u
  <2>3. a \in Int /\ a = Word * t + v /\ v \in 0..(Word - 1)
    BY <1>2, <2>1, <2>2
  <2> HIDE DEF a, v
  <2>4. a \div Word = t
    BY <1>1, <1>4, <2>3, Unique
  <2> QED BY <2>4 DEF a
<1>8. (8 * hi + t) % Word = (t + 8 * q) % Word
  <2> DEFINE e == 8 * hi + t
             k == 8 * j
  <2>1. e \in Int /\ k \in Int
    BY <1>3, <1>4
  <2>2. t + 8 * q = e + Word * k
    <3> DEFINE m == Word * j
    <3>1. m \in Int /\ q = m + hi
      BY <1>1, <1>3
    <3>2. Word * k = 8 * m
      BY <1>1, <1>3
    <3> HIDE DEF m
    <3> QED BY <1>3, <1>4, <3>1, <3>2
  <2> HIDE DEF e, k
  <2>3. (e + Word * k) % Word = e % Word
    BY <1>1, <2>1, AddMultiple
  <2> QED BY <2>2, <2>3 DEF e
<1> QED BY <1>6, <1>7, <1>8 DEF w, q, lo, hi, t

\* 0x80 and zeros up to the place of the length.
LEMMA FillWorks ==
  ASSUME NEW n \in Nat, n % Block = 0, NEW bytes \in 0..Block
  PROVE  Size(bytes) - LenField - bytes
           = Block - (((n + bytes) + LenField) % Block)
<1>1. Block \in Nat \ {0} /\ Block > 2 /\ LenField = 2
  BY Constants
<1> DEFINE e == bytes + 2
<1>2. e \in Int /\ (n + bytes) + LenField = n + e
  BY <1>1
<1> HIDE DEF e
<1>3. ((n % Block) + e) % Block = (n + e) % Block
  <2>1. n \in Int
    OBVIOUS
  <2> QED BY <1>1, <1>2, <2>1, AddRemainder
<1>4. ((n + bytes) + LenField) % Block = e % Block
  BY <1>2, <1>3
<1>5. CASE e < Block
  <2>1. e \in 0..(Block - 1)
    BY <1>1, <1>5 DEF e
  <2>2. e % Block = e
    BY <1>1, <2>1, Small
  <2>3. Size(bytes) = Block
    BY <1>1, <1>5 DEF Size, e
  <2> QED BY <1>1, <1>4, <2>2, <2>3 DEF e
<1>6. CASE e >= Block
  <2>1. e - Block \in 0..(Block - 1) /\ e = Block * 1 + (e - Block)
    BY <1>1, <1>6 DEF e
  <2>2. e % Block = e - Block
    BY <1>1, <1>2, <2>1, Unique
  <2>3. Size(bytes) = 2 * Block
    BY <1>1, <1>6 DEF Size, e
  <2> QED BY <1>1, <1>4, <2>2, <2>3 DEF e
<1> QED BY <1>2, <1>5, <1>6, <1>1

(***************************************************************************)
(* sha256_finish_ctx: 0x80, zeros and the length are added as the standard *)
(* says, be the buffer empty, full or nearly so.                           *)
(***************************************************************************)
THEOREM FinishWorks ==
  ASSUME NEW S, NEW c, Sound(c, S)
  PROVE  Finish(c) = Padded(Message(c))
<1> DEFINE n == Len(c.state)
           bytes == Len(c.buffer)
           m == Message(c)
           len == n + bytes
           counted == Count(c, bytes)
<1>1. /\ n \in Nat /\ bytes \in 0..Block /\ Len(m) = len
      /\ c \in [state : Seq(S), lo : Nat, hi : Nat, buffer : Seq(S)]
      /\ n % Block = 0 /\ Counts(c, n)
  BY SoundTypes DEF Sound
<1>2. len \in Nat
  BY <1>1
<1>3. counted.lo = len % Word /\ counted.hi = (len \div Word) % Word
  <2> DEFINE lo == (c.lo + bytes) % Word
             hi == (c.hi + (bytes \div Word)
                    + (IF lo < bytes % Word THEN 1 ELSE 0)) % Word
  <2>1. counted = [c EXCEPT !.lo = lo, !.hi = hi]
    BY DEF Count
  <2>2. bytes \in Nat
    BY <1>1
  <2> HIDE DEF bytes, n
  <2>3. lo = (n + bytes) % Word /\ hi = ((n + bytes) \div Word) % Word
    <3>1. n \in Nat /\ Counts(c, n)
      BY <1>1
    <3> QED BY <2>2, <3>1, CountAdds, Zenon
  <2> HIDE DEF lo, hi
  <2>4. counted.lo = lo /\ counted.hi = hi
    BY <1>1, <2>1
  <2> QED BY <2>3, <2>4
<1>4. LengthWords(counted) = <<Byte("len", ((8 * len) \div Word) % Word),
                               Byte("len", (8 * len) % Word)>>
  <2> HIDE DEF len, counted
  <2> QED BY <1>2, <1>3, BitLength DEF LengthWords
<1>5. Size(bytes) - LenField - bytes = Block - ((Len(m) + LenField) % Block)
  <2>1. Size(bytes) - LenField - bytes = Block - ((len + LenField) % Block)
    <3> HIDE DEF n, bytes
    <3> QED BY <1>1, FillWorks
  <2> QED BY <1>1, <2>1
<1>6. Finish(c) = m \o Fill(Size(bytes) - LenField - bytes) \o LengthWords(counted)
  BY DEF Finish, Message
<1>7. Padded(m) = m \o Fill(Block - ((Len(m) + LenField) % Block))
                    \o <<Byte("len", ((8 * Len(m)) \div Word) % Word),
                         Byte("len", (8 * Len(m)) % Word)>>
  BY DEF Padded
<1> QED BY <1>1, <1>4, <1>5, <1>6, <1>7
=============================================================================
