------------------------------- MODULE Sha256 -------------------------------
(***************************************************************************)
(* How src/lib/sha256.c cuts a stream of bytes into blocks.  The           *)
(* compression function is not interpreted: the state of a context is the  *)
(* sequence of all bytes it was applied to.  A byte is a pair of a kind    *)
(* and a number, so that the bytes of the image differ from the padding.   *)
(***************************************************************************)
EXTENDS Integers, Sequences

CONSTANTS
  Block,      \* 64
  LenField,   \* 8 bytes for the length, here two words
  Word        \* 2^32, what the counters are modulo

ASSUME Sha256Assumption ==
  /\ Block \in Nat /\ LenField = 2 /\ Block > LenField
  /\ Word \in Nat /\ Word % 8 = 0 /\ Word > 2 * Block

Byte(kind, n) == <<kind, n>>
Fill(n) == [i \in 1..n |-> Byte(IF i = 1 THEN "0x80" ELSE "zero", 0)]
Zeros(n) == [i \in 1..n |-> Byte("zero", 0)]

First(s, n) == SubSeq(s, 1, n)
Rest(s, n)  == SubSeq(s, n + 1, Len(s))
Whole(n)    == n - (n % Block)                        \* n & ~63

\* buffer holds its first buflen bytes.
InitCtx == [state |-> <<>>, lo |-> 0, hi |-> 0, buffer |-> <<>>]

\* Mutant: the carry is forgotten.
CountNoCarry(c, len) == [c EXCEPT !.lo = (@ + len) % Word]

\* The counters are words: a carry goes from lo to hi.
Count(c, len) ==
  LET lo == (c.lo + len) % Word IN
  [c EXCEPT !.lo = lo,
            !.hi = (@ + (len \div Word) + (IF lo < len % Word THEN 1 ELSE 0)) % Word]

ProcessBlock(c, data) == [Count(c, Len(data)) EXCEPT !.state = @ \o data]

\* Mutant: the buffer is emptied only when it is full.
TopUpWhenFull(c, data) ==
  [c EXCEPT !.state = IF Len(c.buffer) + Len(data) < 2 * Block THEN @
                      ELSE @ \o c.buffer \o data,
            !.buffer = IF Len(@) + Len(data) < 2 * Block THEN @ \o data ELSE <<>>]

\* Fill up the buffer, which holds two blocks, and empty it when it has more
\* than one.
TopUp(c, data) ==
  LET all == c.buffer \o data IN
  IF Len(all) > Block
  THEN [ProcessBlock(c, First(all, Whole(Len(all))))
          EXCEPT !.buffer = Rest(all, Whole(Len(all)))]
  ELSE [c EXCEPT !.buffer = all]

\* Whole blocks straight from the caller.  When the address is not aligned
\* they go through the buffer, and the last one is left over.
Direct(c, data, aligned) ==
  IF aligned THEN ProcessBlock(c, First(data, Whole(Len(data))))
  ELSE LET n == Whole(Len(data) - 1)
           used == First(data, n)
       IN [ProcessBlock(c, used)
             EXCEPT !.buffer = [i \in DOMAIN @ |-> IF n = 0 THEN @[i]
                                                   ELSE data[n - Block + i]]]

\* Mutant: the caller's pointer moves over the block that is left over.
DirectLenWhole(len, aligned) == Whole(len)
DirectLen(len, aligned) == IF aligned THEN Whole(len) ELSE Whole(len - 1)

\* What is left over goes to the buffer.  With nothing left over the buffer
\* may keep a whole block.
Keep(c, data) ==
  LET all == c.buffer \o data IN
  IF data # <<>> /\ Len(all) >= Block
  THEN [ProcessBlock(c, First(all, Block)) EXCEPT !.buffer = Rest(all, Block)]
  ELSE [c EXCEPT !.buffer = all]

ProcessBytes(c, data, aligned) ==
  LET add == IF c.buffer = <<>> THEN 0
             ELSE IF 2 * Block - Len(c.buffer) > Len(data) THEN Len(data)
             ELSE 2 * Block - Len(c.buffer)
      c1 == IF c.buffer = <<>> THEN c ELSE TopUp(c, First(data, add))
      d1 == Rest(data, add)
      direct == IF Len(d1) >= Block THEN DirectLen(Len(d1), aligned) ELSE 0
      c2 == IF Len(d1) >= Block THEN Direct(c1, d1, aligned) ELSE c1
  IN Keep(c2, Rest(d1, direct))

\* The length of the message in bits, as two words.
LengthWords(c) ==
  <<Byte("len", (8 * c.hi + (c.lo \div (Word \div 8))) % Word),
    Byte("len", (8 * c.lo) % Word)>>

\* Mutant: 56 bytes still leave room for 0x80 and the length.
SizeOffByOne(bytes) == IF bytes <= Block - LenField THEN Block ELSE 2 * Block
Size(bytes) == IF bytes < Block - LenField THEN Block ELSE 2 * Block

\* sha256_finish_ctx: the digest, as the bytes it is computed from.
Finish(c) ==
  LET bytes == Len(c.buffer)
      counted == Count(c, bytes)
  IN c.state \o c.buffer \o Fill(Size(bytes) - LenField - bytes)
             \o LengthWords(counted)

(***************************************************************************)
(* The padded message of the standard: the message, 0x80, as few zeros as  *)
(* make whole blocks, and the length in bits.                              *)
(***************************************************************************)
Padded(m) ==
  LET bits == 8 * Len(m)
      n == Block - ((Len(m) + LenField) % Block)
  IN m \o Fill(n) \o <<Byte("len", (bits \div Word) % Word),
                       Byte("len", bits % Word)>>
=============================================================================
