---------------------------- MODULE YmodemProofs ----------------------------
(***************************************************************************)
(* Proofs about Ymodem for every image size, block size, numbering modulus *)
(* and fault budget.                                                       *)
(***************************************************************************)
EXTENDS Ymodem, SequenceTheorems, FiniteSetTheorems, TLAPS

-----------------------------------------------------------------------------
(* Arithmetic of blocks *)

\* Division with remainder, in the form the block count needs.
LEMMA DivMod ==
  ASSUME NEW n \in Nat, NEW b \in Nat \ {0}
  PROVE  /\ n \div b \in Nat /\ n % b \in 0..(b - 1)
         /\ n = b * (n \div b) + (n % b)
OBVIOUS

\* total_blk blocks hold the image, one block less does not.
LEMMA BlockCount ==
  /\ total_blk \in Nat
  /\ total_blk * BlkSize >= Size
  /\ total_blk > 0 => (total_blk - 1) * BlkSize < Size
<1> DEFINE n == Size + BlkSize - 1
<1>1. n \in Nat /\ Size \in Nat /\ BlkSize \in Nat \ {0}
  BY YmodemAssumption
<1>2. /\ total_blk \in Nat /\ n % BlkSize \in 0..(BlkSize - 1)
      /\ n = BlkSize * total_blk + (n % BlkSize)
  BY <1>1, DivMod DEF total_blk
<1>3. QED
  BY <1>1, <1>2
\* The count rounds the quotient up.
LEMMA RoundUp ==
  ASSUME NEW b \in Nat \ {0}, NEW q \in Nat, NEW r \in 0..(b - 1),
         NEW t \in Nat \ {0},
         t * b >= b * q + r, (t - 1) * b < b * q + r
  PROVE  t = (IF r = 0 THEN q ELSE q + 1)
<1>1. ASSUME t <= q - 1 PROVE FALSE
  <2>1. t * b <= (q - 1) * b
    BY <1>1
  <2>2. QED BY <2>1
<1>2. ASSUME t = q, r # 0 PROVE FALSE
  BY <1>2
<1>3. ASSUME t - 1 >= q + 1 PROVE FALSE
  <2>1. (t - 1) * b >= (q + 1) * b
    BY <1>3
  <2>2. QED BY <2>1
<1>4. ASSUME t = q + 1, r = 0 PROVE FALSE
  BY <1>4
<1>5. QED
  BY <1>1, <1>2, <1>3, <1>4

\* Where block i ends, and that a block before the last one is full.
LEMMA BlockBytes ==
  ASSUME NEW i \in 1..total_blk
  PROVE  /\ rlen(i) \in Nat
         /\ (i - 1) * BlkSize + rlen(i) <= Size
         /\ i < total_blk => rlen(i) = BlkSize
         /\ FileBlock(i) = Slice((i - 1) * BlkSize, rlen(i))
<1>1. /\ Size \in Nat /\ BlkSize \in Nat \ {0} /\ total_blk \in Nat \ {0}
      /\ total_blk * BlkSize >= Size
      /\ (total_blk - 1) * BlkSize < Size
  BY YmodemAssumption, BlockCount
<1>2. /\ Size \div BlkSize \in Nat /\ Size % BlkSize \in 0..(BlkSize - 1)
      /\ Size = BlkSize * (Size \div BlkSize) + (Size % BlkSize)
  BY <1>1, DivMod
<1>3. rlen(i) \in Nat /\ (i < total_blk => rlen(i) = BlkSize)
  BY <1>1, <1>2 DEF rlen
<1>4. CASE i < total_blk
  <2>1. i * BlkSize <= (total_blk - 1) * BlkSize
    BY <1>1, <1>4
  <2>2. (i - 1) * BlkSize + BlkSize = i * BlkSize
    BY <1>1
  <2>3. (i - 1) * BlkSize + rlen(i) <= Size
    BY <1>1, <1>3, <1>4, <2>1, <2>2
  <2>4. (i - 1) * BlkSize \in Nat
    BY <1>1
  <2>5. ~(Size - (i - 1) * BlkSize < BlkSize)
    BY <1>1, <1>3, <1>4, <2>3, <2>4
  <2>6. QED
    BY <1>3, <1>4, <2>3, <2>5 DEF FileBlock
<1>5. CASE i = total_blk
  <2>1. total_blk = IF Size % BlkSize = 0 THEN Size \div BlkSize
                                          ELSE Size \div BlkSize + 1
    BY <1>1, <1>2, RoundUp
  <2>2. (i - 1) * BlkSize + rlen(i) = Size
    <3>1. CASE Size % BlkSize = 0
      <4>1. rlen(i) = BlkSize
        BY <3>1 DEF rlen
      <4>2. i = Size \div BlkSize
        BY <1>5, <2>1, <3>1
      <4>3. Size = BlkSize * (Size \div BlkSize)
        BY <1>1, <1>2, <3>1
      <4>4. Size = BlkSize * i
        BY <4>2, <4>3
      <4>5. i \in Nat /\ (i - 1) * BlkSize + BlkSize = BlkSize * i
        BY <1>1, <1>5
      <4>6. QED BY <4>1, <4>4, <4>5
    <3>2. CASE Size % BlkSize # 0
      <4>1. rlen(i) = Size % BlkSize
        BY <1>5, <3>2 DEF rlen
      <4>2. i - 1 = Size \div BlkSize
        BY <1>2, <1>5, <2>1, <3>2
      <4>3. QED BY <1>1, <1>2, <4>1, <4>2
    <3>3. QED BY <3>1, <3>2
  <2>3. (i - 1) * BlkSize \in Nat /\ rlen(i) <= BlkSize
    BY <1>1, <1>2 DEF rlen
  <2>4. Size - (i - 1) * BlkSize = rlen(i)
    BY <1>1, <1>3, <2>2, <2>3
  <2>5. FileBlock(i) = Slice((i - 1) * BlkSize, rlen(i))
    <3>1. CASE rlen(i) < BlkSize
      BY <2>4, <3>1 DEF FileBlock
    <3>2. CASE rlen(i) = BlkSize
      BY <1>1, <2>4, <3>2 DEF FileBlock
    <3>3. QED
      BY <1>1, <1>3, <2>3, <3>1, <3>2
  <2>6. QED
    BY <1>1, <1>3, <1>5, <2>2, <2>3, <2>5
<1>6. QED
  BY <1>1, <1>4, <1>5

\* The FILE always holds the image, or more.
LongEnough == \A a \in Avails : a >= Size

\* With the whole image on file, fread returns all of the next block.
LEMMA FullRead ==
  ASSUME NEW i \in 1..total_blk, avail \in Nat, avail >= Size,
         fpos = (i - 1) * BlkSize
  PROVE  /\ Got(i) = rlen(i)
         /\ Slice(fpos, Got(i)) = FileBlock(i)
<1>1. /\ rlen(i) \in Nat /\ (i - 1) * BlkSize + rlen(i) <= Size
      /\ fpos \in Nat
  BY BlockBytes, BlockCount, YmodemAssumption
<1>2. Got(i) = rlen(i)
  BY <1>1, YmodemAssumption DEF Got
<1>3. QED
  BY <1>2, BlockBytes

-----------------------------------------------------------------------------
(* Types *)

\* Taking the head of a queue.
LEMMA Take ==
  ASSUME NEW T, NEW q \in Seq(T), q # <<>>
  PROVE  /\ Head(q) \in T /\ Head(q) = q[1]
         /\ Len(q) \in Nat /\ Len(q) > 0
         /\ Tail(q) \in Seq(T) /\ Len(Tail(q)) = Len(q) - 1
         /\ \A k \in 1..Len(Tail(q)) : Tail(q)[k] = q[k + 1]
OBVIOUS

\* Putting one thing into a queue.
LEMMA Put ==
  ASSUME NEW T, NEW q \in Seq(T), NEW e \in T
  PROVE  /\ q \o <<e>> \in Seq(T) /\ Append(q, e) \in Seq(T)
         /\ Len(q) \in Nat
         /\ Len(q \o <<e>>) = Len(q) + 1
         /\ \A k \in 1..Len(q) : (q \o <<e>>)[k] = q[k]
         /\ (q \o <<e>>)[Len(q) + 1] = e
OBVIOUS

\* Putting two.
LEMMA PutTwo ==
  ASSUME NEW T, NEW q \in Seq(T), NEW d \in T, NEW e \in T
  PROVE  /\ q \o <<d, e>> \in Seq(T)
         /\ Len(q) \in Nat
         /\ Len(q \o <<d, e>>) = Len(q) + 2
         /\ \A k \in 1..Len(q) : (q \o <<d, e>>)[k] = q[k]
         /\ (q \o <<d, e>>)[Len(q) + 1] = d
         /\ (q \o <<d, e>>)[Len(q) + 2] = e
<1> DEFINE s == <<d, e>>
<1>1. s \in Seq(T) /\ Len(s) = 2 /\ s[1] = d /\ s[2] = e
  OBVIOUS
<1>2. Len(q) \in Nat
  OBVIOUS
<1> HIDE DEF s
<1>3. /\ q \o s \in Seq(T) /\ Len(q \o s) = Len(q) + Len(s)
      /\ \A k \in 1..(Len(q) + Len(s)) :
           (q \o s)[k] = IF k <= Len(q) THEN q[k] ELSE s[k - Len(q)]
  BY <1>1, ConcatProperties
<1>4. /\ (q \o s)[Len(q) + 1] = d
      /\ (q \o s)[Len(q) + 2] = e
      /\ \A k \in 1..Len(q) : (q \o s)[k] = q[k]
  BY <1>1, <1>2, <1>3
<1>5. QED
  BY <1>1, <1>2, <1>3, <1>4 DEF s

\* Block numbers on the wire are below the modulus.
LEMMA BlockType ==
  ASSUME NEW kind \in {"info", "data", "eot", "null"}, NEW n \in Nat,
         NEW dat \in [from : Nat, got : Nat]
  PROVE  Block(kind, n, dat) \in Blocks
<1>1. n % NumMod \in 0..(NumMod - 1)
  BY YmodemAssumption, DivMod
<1>2. QED
  BY <1>1 DEF Block, Blocks

LEMMA FixedBlocks ==
  InfoBlock \in Blocks /\ NullBlock \in Blocks /\ EotByte \in Blocks
BY BlockType DEF InfoBlock, NullBlock, EotByte, NoData, Slice

LEMMA InitType == Init => TypeOK
<1> SUFFICES ASSUME Init PROVE TypeOK
  OBVIOUS
<1>1. budget \in [corrupt : Nat, noise : Nat, loss : Nat, resize : Nat]
  BY YmodemAssumption DEF Init
<1>2. blkbuf \in Blocks
  BY FixedBlocks DEF Init
<1>3. i_blk \in 0..(total_blk + 1) /\ i_blk <= total_blk
  BY BlockCount DEF Init
<1>4. /\ toDev \in Seq(Blocks) /\ toHost \in Seq(Bytes)
      /\ rcvd \in Seq([from : Nat, got : Nat])
  BY DEF Init
<1>5. /\ fpos \in Nat /\ age \in Nat /\ ackAge \in Nat /\ late \in BOOLEAN
      /\ pc \in {"wait_c", "blk_xmit", "wait_ack", "done"}
      /\ stage \in {"info", "data", "eot", "null"}
      /\ ret \in {"none", "success", "failure", "error"}
      /\ phase \in {"boot", "invite", "data", "end", "closed"}
      /\ avail \in Avails
  BY DEF Init
<1>6. QED
  BY <1>1, <1>2, <1>3, <1>4, <1>5 DEF TypeOK

\* fread returns between nothing and what it was asked for.
LEMMA GotType ==
  ASSUME NEW i \in 1..total_blk, fpos \in Nat, avail \in Nat
  PROVE  Got(i) \in Nat /\ Got(i) <= rlen(i)
BY BlockBytes, YmodemAssumption DEF Got

LEMMA SaturateType ==
  ASSUME NEW t \in Nat, NEW limit \in Nat
  PROVE  Saturate(t, limit) \in Nat
BY DEF Saturate

\* Moving on to the next block keeps the types.
LEMMA NextBlockType ==
  ASSUME TypeOK, NEW i \in 1..(total_blk + 1), NextBlock(i),
         ret \in {"none", "success", "failure", "error"}
  PROVE  /\ pc' \in {"blk_xmit", "done"}
         /\ stage' \in {"info", "data", "eot", "null"}
         /\ i_blk' \in 0..(total_blk + 1)
         /\ stage' \in {"info", "data"} => i_blk' <= total_blk
         /\ fpos' \in Nat /\ blkbuf' \in Blocks /\ age' \in Nat
         /\ ret' \in {"none", "success", "failure", "error"}
<1>1. total_blk \in Nat
  BY BlockCount
<1>2. CASE i <= total_blk /\ SendBlock(i)
  <2>1. fpos \in Nat /\ Got(i) \in Nat
    BY <1>1, <1>2, GotType, YmodemAssumption DEF TypeOK
  <2>2. Slice(fpos, Got(i)) \in [from : Nat, got : Nat]
    BY <2>1 DEF Slice
  <2>3. Block("data", i, Slice(fpos, Got(i))) \in Blocks
    BY <2>2, <1>1, BlockType
  <2>4. QED
    BY <1>1, <1>2, <2>1, <2>3 DEF SendBlock, Load
<1>3. CASE i < total_blk /\ Return("failure") /\ fpos' = fpos + Got(i)
           /\ UNCHANGED <<stage, i_blk, blkbuf, age>>
  BY <1>1, <1>3, GotType, YmodemAssumption DEF TypeOK, Return
<1>4. CASE i > total_blk /\ SendEot(i)
  BY <1>1, <1>4, FixedBlocks DEF TypeOK, SendEot, Load
<1>5. QED
  BY <1>2, <1>3, <1>4 DEF NextBlock

\* Taking a byte from the host's queue, or putting the answers of the
\* receiver there, keeps its type.
LEMMA HostQueueType ==
  ASSUME toHost \in Seq(Bytes)
  PROVE  /\ toHost # <<>> => Tail(toHost) \in Seq(Bytes)
         /\ \A b \in Bytes : toHost \o <<b>> \in Seq(Bytes)
         /\ toHost \o <<"ACK", "C">> \in Seq(Bytes)
<1>1. "ACK" \in Bytes /\ "C" \in Bytes
  BY DEF Bytes
<1>2. QED
  BY <1>1, Take, Put, PutTwo

LEMMA DevQueueType ==
  ASSUME toDev \in Seq(Blocks), blkbuf \in Blocks
  PROVE  /\ toDev # <<>> => /\ Tail(toDev) \in Seq(Blocks)
                            /\ Head(toDev) \in Blocks
                            /\ Head(toDev).dat \in [from : Nat, got : Nat]
         /\ Append(toDev, blkbuf) \in Seq(Blocks)
<1>1. toDev # <<>> => Tail(toDev) \in Seq(Blocks) /\ Head(toDev) \in Blocks
  BY Take
<1>2. \A b \in Blocks : b.dat \in [from : Nat, got : Nat]
  BY DEF Blocks
<1>3. QED
  BY <1>1, <1>2, Put

\* Committing a fault leaves a smaller budget.
LEMMA SpendType ==
  ASSUME budget \in [corrupt : Nat, noise : Nat, loss : Nat, resize : Nat]
  PROVE  /\ budget.corrupt > 0 => [budget EXCEPT !.corrupt = @ - 1]
                \in [corrupt : Nat, noise : Nat, loss : Nat, resize : Nat]
         /\ budget.noise > 0 => [budget EXCEPT !.noise = @ - 1]
                \in [corrupt : Nat, noise : Nat, loss : Nat, resize : Nat]
         /\ budget.resize > 0 => [budget EXCEPT !.resize = @ - 1]
                \in [corrupt : Nat, noise : Nat, loss : Nat, resize : Nat]
         /\ budget.loss > 0 => [budget EXCEPT !.loss = @ - 1]
                \in [corrupt : Nat, noise : Nat, loss : Nat, resize : Nat]
OBVIOUS

LEMMA NextType == TypeOK /\ [Next]_vars => TypeOK'
<1> SUFFICES ASSUME TypeOK, [Next]_vars PROVE TypeOK'
  OBVIOUS
<1> USE DEF HostKeeps, hostVars, devVars, DevKeeps, Answer
<1>1. CASE WaitC
  <2>1. toHost' \in Seq(Bytes)
    BY <1>1, HostQueueType DEF WaitC, TypeOK
  <2>2. CASE Head(toHost) = "C"
    <3>1. 0 \in 0..(total_blk + 1) /\ 0 <= total_blk /\ InfoBlock \in Blocks
      BY BlockCount, FixedBlocks
    <3>2. QED
      BY <1>1, <2>1, <2>2, <3>1, SMTT(30) DEF WaitC, Load, TypeOK
  <2>3. CASE Head(toHost) # "C"
    BY <1>1, <2>1, <2>3 DEF WaitC, TypeOK
  <2>4. QED
    BY <2>2, <2>3
<1>2. CASE WaitCTimeout
  BY <1>2 DEF WaitCTimeout, Return, TypeOK
<1>3. CASE BlkXmit
  <2>1. toDev' \in Seq(Blocks)
    BY <1>3, DevQueueType DEF BlkXmit, TypeOK
  <2>2. CASE age > XmitTimeout
    BY <1>3, <2>1, <2>2 DEF BlkXmit, Return, TypeOK
  <2>3. CASE ~(age > XmitTimeout)
    BY <1>3, <2>1, <2>3 DEF BlkXmit, TypeOK
  <2>4. QED
    BY <2>2, <2>3
<1>4. CASE EotXmit
  BY <1>4, DevQueueType DEF EotXmit, TypeOK
<1>5. CASE Acked
  <2>1. toHost' \in Seq(Bytes)
    BY <1>5, HostQueueType DEF Acked, TypeOK
  <2>2. CASE stage \in {"info", "data"}
    <3>1. NextBlock(i_blk + 1) /\ i_blk + 1 \in 1..(total_blk + 1)
      BY <1>5, <2>2, BlockCount DEF Acked, TypeOK
    <3>2. QED
      BY <1>5, <2>1, <3>1, NextBlockType DEF Acked, TypeOK
  <2>3. CASE stage = "eot"
    BY <1>5, <2>1, <2>3, FixedBlocks DEF Acked, Load, TypeOK
  <2>4. CASE stage = "null"
    BY <1>5, <2>1, <2>4 DEF Acked, Return, TypeOK
  <2>5. QED
    BY <2>2, <2>3, <2>4 DEF TypeOK
<1>6. CASE Naked
  BY <1>6, HostQueueType DEF Naked, TypeOK
<1>7. CASE StrayByte
  BY <1>7, HostQueueType DEF StrayByte, TypeOK
<1>8. CASE IoError
  BY <1>8 DEF IoError, Return, TypeOK
<1>9. CASE Tick
  BY <1>9, SaturateType, YmodemAssumption DEF Tick, TypeOK
<1>10. CASE Boot
  <2>1. toHost \in Seq(Bytes) /\ toDev \in Seq(Blocks) /\ blkbuf \in Blocks
    BY DEF TypeOK
  <2>2. toHost' \in Seq(Bytes)
    <3>1. \/ toHost' = toHost
          \/ \E b \in {"C", "stray"} : toHost' = toHost \o <<b>>
      BY <1>10 DEF Boot, Answer
    <3>2. "C" \in Bytes /\ "stray" \in Bytes
      BY DEF Bytes
    <3>3. QED
      BY <2>1, <3>1, <3>2, HostQueueType
  <2>3. toDev' \in Seq(Blocks)
    <3>1. toDev' = toDev \/ (toDev # <<>> /\ toDev' = Tail(toDev))
      BY <1>10 DEF Boot
    <3>2. QED
      BY <2>1, <3>1, DevQueueType
  <2>4. /\ phase' \in {"boot", "invite"}
        /\ UNCHANGED <<hostVars, rcvd, budget, avail, late>>
    BY <1>10 DEF Boot, DevKeeps
  <2>5. QED
    BY <2>2, <2>3, <2>4 DEF TypeOK, hostVars
<1>11. CASE Invite
  BY <1>11, HostQueueType DEF Invite, TypeOK, Bytes
<1>12. CASE Receive
  <2>1. toDev' \in Seq(Blocks) /\ Head(toDev).dat \in [from : Nat, got : Nat]
    BY <1>12, DevQueueType DEF Receive, TypeOK
  <2>2. toHost' \in Seq(Bytes)
    BY <1>12, HostQueueType DEF Receive, TypeOK, Bytes
  <2>3. rcvd' \in Seq([from : Nat, got : Nat])
    <3>1. rcvd' = rcvd \/ rcvd' = Append(rcvd, Head(toDev).dat)
      BY <1>12 DEF Receive
    <3>2. rcvd \in Seq([from : Nat, got : Nat])
      BY DEF TypeOK
    <3> DEFINE dat == Head(toDev).dat
    <3>3. Append(rcvd, dat) \in Seq([from : Nat, got : Nat])
      <4> HIDE DEF dat
      <4>1. dat \in [from : Nat, got : Nat]
        BY <2>1 DEF dat
      <4>2. QED BY <3>2, <4>1
    <3>4. QED
      BY <3>1, <3>2, <3>3
  <2>4. phase' \in {"boot", "invite", "data", "end", "closed"}
    BY <1>12 DEF Receive, TypeOK
  <2>5. QED
    BY <1>12, <2>1, <2>2, <2>3, <2>4 DEF Receive, TypeOK
<1>13. CASE Corrupt
  <2>1. budget' \in [corrupt : Nat, noise : Nat, loss : Nat, resize : Nat]
    BY <1>13, SpendType DEF Corrupt, TypeOK
  <2>2. QED
    BY <1>13, <2>1, HostQueueType, DevQueueType DEF Corrupt, TypeOK, Bytes
<1>14. CASE Noise
  <2>1. budget' \in [corrupt : Nat, noise : Nat, loss : Nat, resize : Nat]
    BY <1>14, SpendType DEF Noise, TypeOK
  <2>2. QED
    BY <1>14, <2>1, HostQueueType DEF Noise, TypeOK, Bytes
<1>15. CASE Lose
  <2>1. budget' \in [corrupt : Nat, noise : Nat, loss : Nat, resize : Nat]
    BY <1>15, SpendType DEF Lose, TypeOK
  <2>2. toHost \in Seq(Bytes) /\ toDev \in Seq(Blocks) /\ blkbuf \in Blocks
    BY DEF TypeOK
  <2>3. /\ toDev' = toDev \/ (toDev # <<>> /\ toDev' = Tail(toDev))
        /\ toHost' = toHost \/ (toHost # <<>> /\ toHost' = Tail(toHost))
        /\ UNCHANGED <<hostVars, devVars, avail, late>>
    BY <1>15 DEF Lose, DevKeeps
  <2>4. toDev' \in Seq(Blocks) /\ toHost' \in Seq(Bytes)
    BY <2>2, <2>3, HostQueueType, DevQueueType
  <2>5. QED
    BY <2>1, <2>3, <2>4 DEF TypeOK, hostVars, devVars
<1>16. CASE UNCHANGED vars
  BY <1>16 DEF vars, TypeOK
<1>17. CASE Resize
  <2>1. budget' \in [corrupt : Nat, noise : Nat, loss : Nat, resize : Nat]
    BY <1>17, SpendType DEF Resize, TypeOK
  <2>2. QED
    BY <1>17, <2>1 DEF Resize, TypeOK
<1>18. QED
  BY <1>1, <1>2, <1>3, <1>4, <1>5, <1>6, <1>7, <1>8, <1>9, <1>10, <1>11,
     <1>12, <1>13, <1>14, <1>15, <1>16, <1>17
  DEF Next, HostStep, DevStep, LineFault

(***************************************************************************)
(* Every variable of a transfer keeps its type: in particular ymodem_xfer  *)
(* never numbers a block past total_blk and never reads before the start   *)
(* of the file, for every size of image and every fault.                   *)
(***************************************************************************)
THEOREM TypeCorrect == Spec => []TypeOK
<1>1. Init => TypeOK
  BY InitType
<1>2. TypeOK /\ [Next]_vars => TypeOK'
  BY NextType
<1>3. QED
  BY <1>1, <1>2, PTL DEF Spec

-----------------------------------------------------------------------------
(* What the host's queue holds *)

\* A queue without answers gives no answer.
LEMMA TakeIdle ==
  ASSUME NEW q \in Seq(Bytes), q # <<>>, NoAnswer(q)
  PROVE  Head(q) \in {"C", "stray"} /\ NoAnswer(Tail(q))
BY Take DEF NoAnswer

\* A queue with one answer gives that answer, or keeps it.
LEMMA TakeAnswer ==
  ASSUME NEW q \in Seq(Bytes), q # <<>>,
         NEW a \in {"ACK", "NAK"}, OneAnswer(q, a)
  PROVE  /\ Head(q) \in {a, "C", "stray"}
         /\ Head(q) = a => NoAnswer(Tail(q))
         /\ Head(q) # a => OneAnswer(Tail(q), a)
<1>1. PICK k \in 1..Len(q) :
        /\ q[k] = a
        /\ \A j \in 1..Len(q) : j # k => q[j] \in {"C", "stray"}
  BY DEF OneAnswer
<1>2. /\ Head(q) = q[1] /\ Len(q) \in Nat /\ Len(q) > 0
      /\ Len(Tail(q)) = Len(q) - 1
      /\ \A j \in 1..Len(Tail(q)) : Tail(q)[j] = q[j + 1]
  BY Take
<1>3. Head(q) \in {a, "C", "stray"}
  BY <1>1, <1>2
<1>4. ASSUME Head(q) = a PROVE NoAnswer(Tail(q))
  <2>1. k = 1
    BY <1>1, <1>2, <1>4
  <2>2. QED
    BY <1>1, <1>2, <2>1 DEF NoAnswer
<1>5. ASSUME Head(q) # a PROVE OneAnswer(Tail(q), a)
  <2>1. k # 1 /\ k - 1 \in 1..Len(Tail(q)) /\ Tail(q)[k - 1] = a
    BY <1>1, <1>2, <1>5
  <2>2. \A j \in 1..Len(Tail(q)) : j # k - 1 => Tail(q)[j] \in {"C", "stray"}
    BY <1>1, <1>2
  <2>3. QED
    BY <2>1, <2>2 DEF OneAnswer
<1>6. QED
  BY <1>3, <1>4, <1>5

\* A byte that answers nothing changes nothing.
LEMMA AddStray ==
  ASSUME NEW q \in Seq(Bytes), NEW e \in {"C", "stray"},
         NEW a \in {"ACK", "NAK"}
  PROVE  /\ NoAnswer(q) => NoAnswer(q \o <<e>>)
         /\ OneAnswer(q, a) => OneAnswer(q \o <<e>>, a)
<1> DEFINE r == q \o <<e>>
<1>1. /\ Len(q) \in Nat /\ Len(r) = Len(q) + 1
      /\ \A k \in 1..Len(q) : r[k] = q[k]
      /\ r[Len(q) + 1] = e
  BY Put DEF Bytes
<1> HIDE DEF r
<1>2. NoAnswer(q) => NoAnswer(r)
  BY <1>1 DEF NoAnswer
<1>3. ASSUME OneAnswer(q, a) PROVE OneAnswer(r, a)
  <2>1. PICK k \in 1..Len(q) :
          /\ q[k] = a
          /\ \A j \in 1..Len(q) : j # k => q[j] \in {"C", "stray"}
    BY <1>3 DEF OneAnswer
  <2>2. k \in 1..Len(r) /\ r[k] = a
    BY <1>1, <2>1
  <2>3. \A j \in 1..Len(r) : j # k => r[j] \in {"C", "stray"}
    BY <1>1, <2>1
  <2>4. QED
    BY <2>2, <2>3 DEF OneAnswer
<1>4. QED
  BY <1>2, <1>3 DEF r

\* An answer put into a queue without one is the only one.
LEMMA AddAnswer ==
  ASSUME NEW q \in Seq(Bytes), NoAnswer(q)
  PROVE  /\ \A a \in {"ACK", "NAK"} : OneAnswer(q \o <<a>>, a)
         /\ OneAnswer(q \o <<"ACK", "C">>, "ACK")
<1>1. ASSUME NEW a \in {"ACK", "NAK"} PROVE OneAnswer(q \o <<a>>, a)
  <2> DEFINE r == q \o <<a>>
  <2>1. /\ Len(q) \in Nat /\ Len(r) = Len(q) + 1
        /\ \A k \in 1..Len(q) : r[k] = q[k]
        /\ r[Len(q) + 1] = a
    BY Put DEF Bytes
  <2> HIDE DEF r
  <2>2. Len(q) + 1 \in 1..Len(r)
    BY <2>1
  <2>3. \A j \in 1..Len(r) : j # Len(q) + 1 => r[j] \in {"C", "stray"}
    BY <2>1 DEF NoAnswer
  <2>4. OneAnswer(r, a)
    BY <2>1, <2>2, <2>3 DEF OneAnswer
  <2>5. QED
    BY <2>4 DEF r
<1>2. OneAnswer(q \o <<"ACK", "C">>, "ACK")
  <2> DEFINE r == q \o <<"ACK", "C">>
  <2>1. /\ Len(q) \in Nat /\ Len(r) = Len(q) + 2
        /\ \A k \in 1..Len(q) : r[k] = q[k]
        /\ r[Len(q) + 1] = "ACK" /\ r[Len(q) + 2] = "C"
    BY PutTwo DEF Bytes
  <2> HIDE DEF r
  <2>2. Len(q) + 1 \in 1..Len(r)
    BY <2>1
  <2>3. \A j \in 1..Len(r) : j # Len(q) + 1 => r[j] \in {"C", "stray"}
    BY <2>1 DEF NoAnswer
  <2>4. OneAnswer(r, "ACK")
    BY <2>1, <2>2, <2>3 DEF OneAnswer
  <2>5. QED
    BY <2>4 DEF r
<1>3. QED
  BY <1>1, <1>2

-----------------------------------------------------------------------------
(* Stop and wait *)

LEMMA InitInStep == Init => InStep
<1> SUFFICES ASSUME Init PROVE InStep
  OBVIOUS
<1>1. Len(rcvd) = 0 /\ Len(toHost) = 0
  BY DEF Init
<1>2. Loaded /\ Idle
  BY <1>1 DEF Init, Loaded, Idle, NoAnswer, Wanted
<1>3. QED
  BY <1>1, <1>2 DEF Init, InStep, StopAndWait

\* The host has returned exactly when ret says so.
LEMMA DoneStep ==
  ASSUME TypeOK, InStep, [Next]_vars
  PROVE  pc' = "done" <=> ret' # "none"
<1> USE DEF InStep, hostVars
<1>1. CASE WaitC
  BY <1>1 DEF WaitC, Load
<1>2. CASE WaitCTimeout
  BY <1>2 DEF WaitCTimeout, Return
<1>3. CASE BlkXmit
  BY <1>3 DEF BlkXmit, Return
<1>4. CASE EotXmit
  BY <1>4 DEF EotXmit
<1>5. CASE Acked
  BY <1>5 DEF Acked, NextBlock, SendBlock, SendEot, Load, Return
<1>6. CASE Naked
  BY <1>6 DEF Naked
<1>7. CASE StrayByte
  BY <1>7 DEF StrayByte
<1>8. CASE IoError
  BY <1>8 DEF IoError, Return
<1>9. CASE Tick
  BY <1>9 DEF Tick
<1>10. CASE DevStep \/ LineFault \/ Resize
  BY <1>10 DEF DevStep, LineFault, Boot, Invite, Receive, Corrupt, Noise, Lose,
               Resize, DevKeeps
<1>11. CASE UNCHANGED vars
  BY <1>11 DEF vars
<1>12. QED
  BY <1>1, <1>2, <1>3, <1>4, <1>5, <1>6, <1>7, <1>8, <1>9, <1>10, <1>11
  DEF Next, HostStep

\* Where the next block starts in the file.
LEMMA NextFpos ==
  ASSUME TypeOK, Loaded, stage \in {"info", "data"}, i_blk + 1 <= total_blk
  PROVE  i_blk + 1 \in 1..total_blk /\ fpos = ((i_blk + 1) - 1) * BlkSize
<1>1. /\ total_blk \in Nat /\ i_blk \in Nat /\ BlkSize \in Nat
      /\ (i_blk + 1) - 1 = i_blk
  BY BlockCount, YmodemAssumption DEF TypeOK
<1>2. CASE stage = "info"
  BY <1>1, <1>2 DEF Loaded
<1>3. CASE stage = "data"
  <2>1. /\ i_blk \in 1..total_blk /\ i_blk < total_blk
        /\ fpos = (i_blk - 1) * BlkSize + rlen(i_blk)
    BY <1>1, <1>3 DEF Loaded
  <2>2. rlen(i_blk) = BlkSize
    BY <2>1, BlockBytes
  <2>3. (i_blk - 1) * BlkSize + BlkSize = i_blk * BlkSize
    BY <1>1
  <2>4. QED
    BY <1>1, <2>1, <2>2, <2>3
<1>4. QED
  BY <1>2, <1>3

\* An ACK read in step means the receiver has taken the block in blkbuf.
LEMMA AckMeansTaken ==
  ASSUME TypeOK, StopAndWait, Acked
  PROVE  toDev = <<>> /\ NoAnswer(toHost') /\ Taken
<1>1. /\ Awaiting /\ toHost # <<>> /\ Head(toHost) = "ACK"
      /\ toHost' = Tail(toHost) /\ toHost \in Seq(Bytes)
  BY DEF StopAndWait, Acked, TypeOK
<1>2. ~NoAnswer(toHost) /\ ~OneAnswer(toHost, "NAK")
  BY <1>1, TakeIdle, TakeAnswer
<1>3. toDev = <<>> /\ OneAnswer(toHost, "ACK") /\ Taken
  BY <1>1, <1>2 DEF Awaiting
<1>4. QED
  BY <1>1, <1>3, TakeAnswer

\* With the whole image on file, moving on after an ACK stays in step.
LEMMA AckedInStep ==
  ASSUME avail >= Size, TypeOK, StopAndWait, Acked, ret' \in {"none", "success"}
  PROVE  StopAndWait'
<1>1. toDev = <<>> /\ NoAnswer(toHost') /\ Taken
  BY AckMeansTaken
<1>2. toDev' = <<>> /\ UNCHANGED <<phase, rcvd>>
  BY <1>1 DEF Acked, HostKeeps, devVars
<1>3. \A k \in 1..Len(rcvd') : rcvd'[k] = FileBlock(k)
  BY <1>2 DEF StopAndWait
<1>4. total_blk \in Nat /\ i_blk \in Nat /\ Loaded
  BY BlockCount DEF TypeOK, StopAndWait
<1>5. CASE stage \in {"info", "data"} /\ i_blk + 1 <= total_blk
  <2>1. i_blk + 1 \in 1..total_blk /\ fpos = ((i_blk + 1) - 1) * BlkSize
    BY <1>4, <1>5, NextFpos
  <2>2. Got(i_blk + 1) = rlen(i_blk + 1) /\ Slice(fpos, Got(i_blk + 1)) = FileBlock(i_blk + 1)
    BY <2>1, FullRead, YmodemAssumption DEF TypeOK
  <2>3. NextBlock(i_blk + 1)
    BY <1>5 DEF Acked
  <2>4. ~(i_blk + 1 < total_blk /\ Got(i_blk + 1) < BlkSize)
    BY <2>1, <2>2, BlockBytes, YmodemAssumption
  <2>5. /\ Load("data", i_blk + 1, Block("data", i_blk + 1, FileBlock(i_blk + 1)))
        /\ fpos' = fpos + rlen(i_blk + 1)
    BY <1>4, <2>1, <2>2, <2>3, <2>4 DEF NextBlock, SendBlock
  <2>6. Loaded'
    BY <2>1, <2>5 DEF Load, Loaded
  <2>7. phase = "data" /\ Len(rcvd) = i_blk
    BY <1>1, <1>4, <1>5 DEF Taken, Loaded
  <2>8. Idle'
    BY <1>1, <1>2, <1>4, <2>5, <2>7 DEF Load, Idle, Wanted, NoAnswer
  <2>9. QED
    BY <1>3, <2>5, <2>6, <2>8 DEF Load, StopAndWait
<1>6. CASE stage \in {"info", "data"} /\ ~(i_blk + 1 <= total_blk)
  <2>1. i_blk = total_blk
    BY <1>4, <1>6 DEF Loaded
  <2>2. Load("eot", i_blk + 1, EotByte)
    BY <1>4, <1>6 DEF Acked, NextBlock, SendEot
  <2>3. phase = "data" /\ Len(rcvd) = total_blk
    BY <1>1, <1>6, <1>4, <2>1 DEF Taken, Loaded
  <2>4. Loaded' /\ Idle'
    BY <1>1, <1>2, <2>1, <2>2, <2>3 DEF Load, Loaded, Idle, Wanted, NoAnswer
  <2>5. QED
    BY <1>3, <2>2, <2>4 DEF Load, StopAndWait
<1>7. CASE stage = "eot"
  <2>1. Load("null", i_blk, NullBlock) /\ i_blk = total_blk + 1
    BY <1>4, <1>7 DEF Acked, Loaded
  <2>2. phase = "end" /\ Len(rcvd) = total_blk
    BY <1>1, <1>7 DEF Taken
  <2>3. Loaded' /\ Idle'
    BY <1>1, <1>2, <2>1, <2>2 DEF Load, Loaded, Idle, Wanted, NoAnswer
  <2>4. QED
    BY <1>3, <2>1, <2>3 DEF Load, StopAndWait
<1>8. CASE stage = "null"
  <2>1. pc' = "done" /\ UNCHANGED <<stage, i_blk, fpos, blkbuf>>
    BY <1>8 DEF Acked, Return
  <2>2. Loaded' /\ Taken' /\ stage' = "null" /\ NoAnswer(toHost)'
    BY <1>1, <1>2, <1>4, <1>8, <2>1 DEF Loaded, Taken, NoAnswer
  <2>3. QED
    BY <1>2, <1>3, <2>1, <2>2 DEF StopAndWait
<1>9. QED
  BY <1>5, <1>6, <1>7, <1>8 DEF TypeOK

\* While the host is in step, a block under way is the one it waits for.
LEMMA UnderWay ==
  ASSUME StopAndWait, TypeOK, toDev # <<>>
  PROVE  /\ pc = "wait_ack" /\ toDev = <<blkbuf>> /\ Tail(toDev) = <<>>
         /\ Head(toDev) = blkbuf /\ NoAnswer(toHost) /\ Wanted /\ Loaded
<1>1. Awaiting /\ pc = "wait_ack" /\ Loaded
  BY DEF StopAndWait, TypeOK, Idle
<1>2. toDev = <<blkbuf>> /\ NoAnswer(toHost) /\ Wanted
  BY <1>1 DEF Awaiting
<1>3. QED
  BY <1>1, <1>2

\* The receiver takes the block in blkbuf and acknowledges it once.
LEMMA ReceiveTakes ==
  ASSUME TypeOK, StopAndWait, Receive
  PROVE  /\ toDev' = <<>> /\ OneAnswer(toHost', "ACK") /\ Taken'
         /\ stage = "data" => /\ Len(rcvd) = i_blk - 1 /\ i_blk \in 1..total_blk
                             /\ rcvd' = Append(rcvd, FileBlock(i_blk))
         /\ stage # "data" => rcvd' = rcvd
         /\ pc = "wait_ack"
<1>1. /\ pc = "wait_ack" /\ Tail(toDev) = <<>> /\ Head(toDev) = blkbuf
      /\ NoAnswer(toHost) /\ Wanted /\ Loaded
  BY UnderWay DEF Receive
<1>2. toDev' = <<>> /\ phase # "boot" /\ UNCHANGED <<stage, i_blk>>
  BY <1>1 DEF Receive, DevKeeps, hostVars
<1>3. toHost \in Seq(Bytes)
  BY DEF TypeOK
<1>4. total_blk \in Nat /\ i_blk \in Nat /\ Len(rcvd) \in Nat
  BY BlockCount DEF TypeOK
<1>5. CASE stage = "info"
  <2>1. phase = "invite" /\ blkbuf.kind = "info" /\ Len(rcvd) = 0
    BY <1>1, <1>2, <1>5 DEF Wanted, Loaded, InfoBlock, Block
  <2>2. /\ toHost' = toHost \o <<"ACK", "C">> /\ phase' = "data"
        /\ rcvd' = rcvd
    BY <1>1, <2>1 DEF Receive, Answer
  <2>3. QED
    BY <1>1, <1>2, <1>3, <1>5, <2>1, <2>2, AddAnswer DEF Taken
<1>6. CASE stage = "data"
  <2>1. /\ phase = "data" /\ Len(rcvd) = i_blk - 1 /\ i_blk \in 1..total_blk
        /\ blkbuf.kind = "data" /\ blkbuf.num = i_blk % NumMod
        /\ blkbuf.dat = FileBlock(i_blk)
    BY <1>1, <1>6 DEF Wanted, Loaded, Block
  <2>2. expected = i_blk
    BY <1>4, <2>1 DEF expected
  <2>3. /\ toHost' = toHost \o <<"ACK">> /\ UNCHANGED phase
        /\ rcvd' = Append(rcvd, FileBlock(i_blk))
    BY <1>1, <2>1, <2>2 DEF Receive, Answer
  <2>4. Len(rcvd') = i_blk
    BY <1>4, <2>1, <2>3 DEF TypeOK
  <2>5. QED
    BY <1>1, <1>2, <1>3, <1>6, <2>1, <2>3, <2>4, AddAnswer DEF Taken
<1>7. CASE stage = "eot"
  <2>1. phase = "data" /\ Len(rcvd) = total_blk /\ blkbuf.kind = "eot"
    BY <1>1, <1>7 DEF Wanted, Loaded, EotByte, Block
  <2>2. /\ toHost' = toHost \o <<"ACK", "C">> /\ phase' = "end"
        /\ rcvd' = rcvd
    BY <1>1, <2>1 DEF Receive, Answer
  <2>3. QED
    BY <1>1, <1>2, <1>3, <1>7, <2>1, <2>2, AddAnswer DEF Taken
<1>8. CASE stage = "null"
  <2>1. phase = "end" /\ Len(rcvd) = total_blk /\ blkbuf.kind = "null"
    BY <1>1, <1>8 DEF Wanted, Loaded, NullBlock, Block
  <2>2. /\ toHost' = toHost \o <<"ACK">> /\ phase' = "closed"
        /\ rcvd' = rcvd
    BY <1>1, <2>1 DEF Receive, Answer
  <2>3. QED
    BY <1>1, <1>2, <1>3, <1>8, <2>1, <2>2, AddAnswer DEF Taken
<1>9. QED
  BY <1>5, <1>6, <1>7, <1>8 DEF TypeOK

LEMMA ReceiveInStep ==
  ASSUME TypeOK, StopAndWait, Receive
  PROVE  StopAndWait'
<1>1. Awaiting' /\ pc' = "wait_ack"
  BY ReceiveTakes DEF Awaiting, Receive, DevKeeps, hostVars
<1>2. Loaded'
  BY DEF Receive, DevKeeps, hostVars, StopAndWait, Loaded
<1>3. \A k \in 1..Len(rcvd') : rcvd'[k] = FileBlock(k)
  <2>1. CASE stage = "data"
    <3>1. /\ Len(rcvd) = i_blk - 1 /\ i_blk \in 1..total_blk
          /\ rcvd' = Append(rcvd, FileBlock(i_blk))
      BY <2>1, ReceiveTakes
    <3>2. \A k \in 1..Len(rcvd) : rcvd[k] = FileBlock(k)
      BY DEF StopAndWait
    <3>3. rcvd \in Seq([from : Nat, got : Nat])
      BY DEF TypeOK
    <3> DEFINE dat == FileBlock(i_blk)
    <3>4. /\ Len(Append(rcvd, dat)) = Len(rcvd) + 1
          /\ \A k \in 1..Len(rcvd) : Append(rcvd, dat)[k] = rcvd[k]
          /\ Append(rcvd, dat)[Len(rcvd) + 1] = dat
      <4> HIDE DEF dat
      <4>1. QED BY <3>3
    <3>5. QED
      BY <3>1, <3>2, <3>4, BlockCount
  <2>2. CASE stage # "data"
    BY <2>2, ReceiveTakes DEF StopAndWait
  <2>3. QED
    BY <2>1, <2>2
<1>4. QED
  BY <1>1, <1>2, <1>3 DEF StopAndWait

\* A damaged block is refused, and the receiver still wants it.
LEMMA CorruptInStep ==
  ASSUME TypeOK, StopAndWait, Corrupt
  PROVE  StopAndWait'
<1>1. /\ pc = "wait_ack" /\ Tail(toDev) = <<>>
      /\ NoAnswer(toHost) /\ Wanted /\ Loaded
  BY UnderWay DEF Corrupt
<1>2. OneAnswer(toHost \o <<"NAK">>, "NAK")
  BY <1>1, AddAnswer DEF TypeOK
<1>3. /\ toDev' = <<>> /\ OneAnswer(toHost', "NAK")
      /\ UNCHANGED <<pc, stage, i_blk, fpos, blkbuf, phase, rcvd>>
  BY <1>1, <1>2 DEF Corrupt, Answer, DevKeeps, hostVars, devVars
<1>4. Wanted' /\ Loaded'
  BY <1>1, <1>3 DEF Wanted, Loaded
<1>5. QED
  BY <1>1, <1>3, <1>4 DEF Awaiting, StopAndWait

\* A byte towards the host that answers nothing leaves it in step.
LEMMA StrayInStep ==
  ASSUME TypeOK, StopAndWait, NEW e \in {"C", "stray"},
         toHost' = toHost \o <<e>>,
         UNCHANGED <<hostVars, toDev, devVars>>
  PROVE  StopAndWait'
<1>1. /\ NoAnswer(toHost) => NoAnswer(toHost')
      /\ \A a \in {"ACK", "NAK"} : OneAnswer(toHost, a) => OneAnswer(toHost', a)
  BY AddStray DEF TypeOK
<1>2. (Loaded' <=> Loaded) /\ (Wanted' <=> Wanted) /\ (Taken' <=> Taken)
  BY DEF hostVars, devVars, Loaded, Wanted, Taken
<1>3. Idle => Idle'
  BY <1>1, <1>2 DEF Idle
<1>4. Awaiting => Awaiting'
  BY <1>1, <1>2 DEF Awaiting, hostVars
<1>5. QED
  BY <1>1, <1>2, <1>3, <1>4 DEF StopAndWait, hostVars, devVars

\* Losing the block or its answer leaves the host waiting, still in step.
LEMMA LoseInStep ==
  ASSUME TypeOK, StopAndWait, Lose
  PROVE  StopAndWait'
<1>1. UNCHANGED <<pc, stage, i_blk, fpos, blkbuf, phase, rcvd>>
  BY DEF Lose, DevKeeps, hostVars, devVars
<1>2. (Loaded' <=> Loaded) /\ (Wanted' <=> Wanted) /\ (Taken' <=> Taken)
  BY <1>1 DEF Loaded, Wanted, Taken
<1>3. CASE toDev # <<>> /\ toDev' = Tail(toDev) /\ UNCHANGED toHost
  <2>1. /\ pc = "wait_ack" /\ Tail(toDev) = <<>>
        /\ NoAnswer(toHost) /\ Wanted /\ Loaded
    BY <1>3, UnderWay
  <2>2. Awaiting'
    BY <1>2, <1>3, <2>1 DEF Awaiting
  <2>3. QED
    BY <1>1, <1>2, <2>1, <2>2 DEF StopAndWait
<1>4. CASE toHost # <<>> /\ toHost' = Tail(toHost) /\ UNCHANGED toDev
  <2>1. toHost \in Seq(Bytes)
    BY DEF TypeOK
  <2>2. /\ NoAnswer(toHost) => NoAnswer(toHost')
        /\ \A a \in {"ACK", "NAK"} :
             OneAnswer(toHost, a) => NoAnswer(toHost') \/ OneAnswer(toHost', a)
    BY <1>4, <2>1, TakeIdle, TakeAnswer
  <2>3. (Idle => Idle') /\ (Awaiting => Awaiting')
    BY <1>1, <1>2, <1>4, <2>2 DEF Idle, Awaiting
  <2>4. QED
    BY <1>1, <1>2, <1>4, <2>2, <2>3 DEF StopAndWait
<1>5. QED
  BY <1>3, <1>4 DEF Lose

\* Boot text and the switch to the YMODEM receiver.
LEMMA BootInStep ==
  ASSUME TypeOK, StopAndWait, Boot
  PROVE  StopAndWait'
<1>1. UNCHANGED <<hostVars, rcvd>> /\ phase = "boot"
  BY DEF Boot, DevKeeps
<1>2. CASE toDev' = toDev /\ phase' = phase
           /\ \E b \in {"C", "stray"} : toHost' = toHost \o <<b>>
  BY <1>1, <1>2, StrayInStep DEF devVars
<1>3. CASE toDev # <<>> /\ toDev' = Tail(toDev) /\ UNCHANGED <<toHost, phase>>
  <2>1. /\ pc = "wait_ack" /\ Tail(toDev) = <<>>
        /\ NoAnswer(toHost) /\ Wanted /\ Loaded
    BY <1>3, UnderWay
  <2>2. Awaiting' /\ Loaded'
    BY <1>1, <1>3, <2>1 DEF Awaiting, Wanted, Loaded, hostVars
  <2>3. QED
    BY <1>1, <2>1, <2>2 DEF StopAndWait, hostVars
<1>4. CASE phase' = "invite" /\ UNCHANGED <<toDev, toHost>>
  <2>1. ~Taken /\ (Wanted => Wanted') /\ (Loaded' <=> Loaded)
    BY <1>1, <1>4 DEF Taken, Wanted, Loaded, hostVars
  <2>2. (Idle => Idle') /\ (Awaiting => Awaiting')
    BY <1>1, <1>4, <2>1 DEF Idle, Awaiting, hostVars
  <2>3. QED
    BY <1>1, <1>4, <2>1, <2>2 DEF StopAndWait, hostVars
<1>5. QED
  BY <1>2, <1>3, <1>4 DEF Boot, Answer

\* A byte skipped in the wait for 'C', or the 'C' itself.
LEMMA WaitCInStep ==
  ASSUME TypeOK, StopAndWait, WaitC
  PROVE  StopAndWait'
<1>1. /\ stage = "info" /\ Idle /\ Loaded /\ toHost \in Seq(Bytes)
      /\ toHost # <<>> /\ toHost' = Tail(toHost)
      /\ UNCHANGED <<toDev, phase, rcvd>>
  BY DEF WaitC, StopAndWait, TypeOK, HostKeeps, devVars
<1>2. NoAnswer(toHost')
  BY <1>1, TakeIdle DEF Idle
<1>3. UNCHANGED <<stage, i_blk, fpos, blkbuf>> /\ pc' \in {"wait_c", "blk_xmit"}
  BY <1>1 DEF WaitC, Load, Loaded, hostVars
<1>4. Idle' /\ Loaded'
  BY <1>1, <1>2, <1>3 DEF Idle, Wanted, Loaded
<1>5. QED
  BY <1>1, <1>3, <1>4 DEF StopAndWait

\* Sending the block in blkbuf, for the first time or again.
LEMMA XmitInStep ==
  ASSUME TypeOK, StopAndWait, BlkXmit \/ EotXmit, ret' \in {"none", "success"}
  PROVE  StopAndWait'
<1>1. /\ Idle /\ Loaded
      /\ toDev' = Append(toDev, blkbuf) /\ pc' = "wait_ack"
      /\ UNCHANGED <<stage, i_blk, fpos, blkbuf, toHost, phase, rcvd>>
  BY DEF BlkXmit, EotXmit, StopAndWait, HostKeeps, devVars, Return
<1>2. toDev' = <<blkbuf>> /\ Wanted' /\ Loaded' /\ NoAnswer(toHost')
  BY <1>1 DEF Idle, Wanted, Loaded
<1>3. QED
  BY <1>1, <1>2 DEF StopAndWait, Awaiting

\* A NAK read in step means the receiver still wants the block.
LEMMA NakedInStep ==
  ASSUME TypeOK, StopAndWait, Naked
  PROVE  StopAndWait'
<1>1. /\ Awaiting /\ Loaded /\ toHost \in Seq(Bytes) /\ toHost # <<>>
      /\ Head(toHost) = "NAK" /\ toHost' = Tail(toHost) /\ pc' = "blk_xmit"
      /\ UNCHANGED <<stage, i_blk, fpos, blkbuf, toDev, phase, rcvd>>
  BY DEF Naked, StopAndWait, TypeOK, HostKeeps, devVars
<1>2. ~NoAnswer(toHost) /\ ~OneAnswer(toHost, "ACK")
  BY <1>1, TakeIdle, TakeAnswer
<1>3. toDev = <<>> /\ OneAnswer(toHost, "NAK") /\ Wanted
  BY <1>1, <1>2 DEF Awaiting
<1>4. NoAnswer(toHost')
  BY <1>1, <1>3, TakeAnswer
<1>5. Idle' /\ Loaded'
  BY <1>1, <1>3, <1>4 DEF Idle, Wanted, Loaded
<1>6. QED
  BY <1>1, <1>5 DEF StopAndWait

\* A stray byte skipped in time.
LEMMA SkipInStep ==
  ASSUME TypeOK, StopAndWait, StrayByte, ~late'
  PROVE  StopAndWait'
<1>1. /\ Awaiting /\ toHost \in Seq(Bytes) /\ toHost # <<>>
      /\ Head(toHost) \notin {"ACK", "NAK"} /\ toHost' = Tail(toHost)
      /\ UNCHANGED <<pc, stage, i_blk, fpos, blkbuf, toDev, phase, rcvd>>
  BY DEF StrayByte, StopAndWait, TypeOK, HostKeeps, devVars
<1>2. /\ NoAnswer(toHost) => NoAnswer(toHost')
      /\ \A a \in {"ACK", "NAK"} :
           OneAnswer(toHost, a) => OneAnswer(toHost', a)
  BY <1>1, TakeIdle, TakeAnswer
<1>3. (Loaded' <=> Loaded) /\ (Wanted' <=> Wanted) /\ (Taken' <=> Taken)
  BY <1>1 DEF Loaded, Wanted, Taken
<1>4. Awaiting'
  BY <1>1, <1>2, <1>3 DEF Awaiting
<1>5. QED
  BY <1>1, <1>3, <1>4 DEF StopAndWait, StrayByte

\* A second passing, another length of the file, or nothing at all.
LEMMA TickInStep ==
  ASSUME StopAndWait, Tick \/ Resize \/ UNCHANGED vars
  PROVE  StopAndWait'
<1>1. UNCHANGED <<pc, stage, i_blk, fpos, blkbuf, toDev, toHost, phase, rcvd>>
  BY DEF Tick, Resize, vars, hostVars, devVars
<1>2. /\ (Loaded' <=> Loaded) /\ (Wanted' <=> Wanted) /\ (Taken' <=> Taken)
      /\ (Idle' <=> Idle) /\ (Awaiting' <=> Awaiting)
  BY <1>1 DEF Loaded, Wanted, Taken, Idle, Awaiting
<1>3. QED
  BY <1>1, <1>2 DEF StopAndWait

LEMMA StepInStep ==
  ASSUME LongEnough, TypeOK, InStep, [Next]_vars
  PROVE  InStep'
<1>1. pc' = "done" <=> ret' # "none"
  BY DoneStep
<1>2. ASSUME ~late', ret' \in {"none", "success"}
      PROVE  StopAndWait'
  <2>1. ~late
    <3>1. late => late'
      BY DEF Next, HostStep, DevStep, LineFault, WaitC, WaitCTimeout, BlkXmit,
             EotXmit, Acked, Naked, StrayByte, IoError, Tick, Boot, Invite,
             Receive, Corrupt, Noise, Lose, Resize, DevKeeps, vars
    <3>2. QED
      BY <1>2, <3>1
  <2>2. ret \in {"none", "success"}
    <3>1. ret = ret' \/ pc # "done"
      BY DEF Next, HostStep, DevStep, LineFault, WaitC, WaitCTimeout, BlkXmit,
             EotXmit, Acked, Naked, StrayByte, IoError, Tick, Boot, Invite,
             Receive, Corrupt, Noise, Lose, Resize, DevKeeps, vars, hostVars
    <3>2. QED
      BY <1>2, <3>1 DEF InStep
  <2>3. StopAndWait
    BY <2>1, <2>2 DEF InStep
  <2>4. CASE WaitC
    BY <2>3, <2>4, WaitCInStep
  <2>5. CASE WaitCTimeout \/ IoError
    BY <1>2, <2>5 DEF WaitCTimeout, IoError, Return
  <2>6. CASE BlkXmit \/ EotXmit
    BY <1>2, <2>3, <2>6, XmitInStep
  <2>7. CASE Acked
    BY <1>2, <2>3, <2>7, AckedInStep DEF TypeOK, LongEnough
  <2>8. CASE Naked
    BY <2>3, <2>8, NakedInStep
  <2>9. CASE StrayByte
    BY <1>2, <2>3, <2>9, SkipInStep
  <2>10. CASE Tick \/ Resize \/ UNCHANGED vars
    BY <2>3, <2>10, TickInStep
  <2>11. CASE Boot
    BY <2>3, <2>11, BootInStep
  <2>12. CASE Invite \/ Noise
    <3>1. /\ \E e \in {"C", "stray"} : toHost' = toHost \o <<e>>
          /\ UNCHANGED <<hostVars, toDev, devVars>>
      BY <2>12 DEF Invite, Noise, Answer, DevKeeps, devVars
    <3>2. QED
      BY <2>3, <3>1, StrayInStep
  <2>13. CASE Receive
    BY <2>3, <2>13, ReceiveInStep
  <2>14. CASE Corrupt
    BY <2>3, <2>14, CorruptInStep
  <2>15. CASE Lose
    BY <2>3, <2>15, LoseInStep
  <2>16. QED
    BY <2>4, <2>5, <2>6, <2>7, <2>8, <2>9, <2>10, <2>11, <2>12, <2>13, <2>14,
       <2>15
    DEF Next, HostStep, DevStep, LineFault
<1>3. QED
  BY <1>1, <1>2 DEF InStep

(***************************************************************************)
(* With the whole image on file, and as long as no wait for an answer has  *)
(* given up on a stray byte, one block or one answer is outstanding, for   *)
(* every size of image, every numbering modulus of at least two and every  *)
(* number of damaged blocks, stray bytes and losses.                       *)
(***************************************************************************)
THEOREM AlwaysInStep ==
  ASSUME LongEnough
  PROVE  Spec => []InStep
<1>1. Init => TypeOK /\ InStep
  BY InitType, InitInStep
<1>2. TypeOK /\ InStep /\ [Next]_vars => TypeOK' /\ InStep'
  BY NextType, StepInStep
<1>3. QED
  BY <1>1, <1>2, PTL DEF Spec

(***************************************************************************)
(* EXIT_SUCCESS from ymodem_xfer means that the chip holds every block of  *)
(* the image and has closed the transfer.                                  *)
(***************************************************************************)
THEOREM SuccessIsStored ==
  ASSUME LongEnough
  PROVE  Spec => []SuccessMeansStored
<1>1. InStep => SuccessMeansStored
  BY DEF InStep, StopAndWait, Taken, SuccessMeansStored, Complete
<1>2. QED
  BY <1>1, AlwaysInStep, PTL

(***************************************************************************)
(* ymodem_xfer leaves a block only when the chip has stored it.            *)
(***************************************************************************)
THEOREM NeverRunsAhead ==
  ASSUME LongEnough
  PROVE  Spec => NoRunAhead
<1>1. ASSUME TypeOK, InStep, [Next]_vars
      PROVE  [i_blk' > i_blk /\ i_blk > 0 /\ ~late => Len(rcvd) >= i_blk]_vars
  <2> SUFFICES ASSUME i_blk' > i_blk, i_blk > 0, ~late
               PROVE  Len(rcvd) >= i_blk
    OBVIOUS
  <2>1. i_blk \in Nat /\ total_blk \in Nat
    BY <1>1, BlockCount DEF TypeOK
  <2>2. i_blk' # i_blk
    BY <2>1
  <2>3. WaitC \/ Acked
    BY <1>1, <2>2 DEF Next, HostStep, DevStep, LineFault, WaitCTimeout, BlkXmit,
             EotXmit, Naked, StrayByte, IoError, Tick, Boot, Invite,
             Receive, Corrupt, Noise, Lose, Resize, DevKeeps, vars, hostVars
  <2>4. CASE WaitC
    BY <1>1, <2>1, <2>2, <2>4 DEF WaitC, Load, hostVars
  <2>5. CASE Acked
    <3>1. ret \in {"none", "success"}
      BY <1>1, <2>5 DEF InStep, Acked
    <3>2. Taken /\ Loaded
      BY <1>1, <2>5, <3>1, AckMeansTaken DEF InStep, StopAndWait
    <3>3. stage \in {"info", "data"}
      BY <2>2, <2>5 DEF Acked, Load, Return
    <3>4. QED
      BY <2>1, <3>2, <3>3 DEF Taken, Loaded
  <2>6. QED
    BY <2>3, <2>4, <2>5
<1>2. Spec => []TypeOK
  BY TypeCorrect
<1>3. Spec => []InStep
  BY AlwaysInStep
<1>4. QED
  BY <1>1, <1>2, <1>3, PTL DEF Spec, NoRunAhead

-----------------------------------------------------------------------------
(* Refinement of FileTransfer *)

\* Once the host is unsure it stays unsure, and the chip only ever adds.
LEMMA UnsureStep ==
  ASSUME TypeOK, InStep, [Next]_vars, Outcome = "unsure"
  PROVE  [Promise!Next]_<<rcvd, Outcome>>
<1>1. Outcome' = "unsure"
  <2>1. late => late'
    BY DEF Next, HostStep, DevStep, LineFault, WaitC, WaitCTimeout, BlkXmit,
           EotXmit, Acked, Naked, StrayByte, IoError, Tick, Boot, Invite,
           Receive, Corrupt, Noise, Lose, Resize, DevKeeps, vars
  <2>2. ret = ret' \/ pc # "done"
    BY DEF Next, HostStep, DevStep, LineFault, WaitC, WaitCTimeout, BlkXmit,
           EotXmit, Acked, Naked, StrayByte, IoError, Tick, Boot, Invite,
           Receive, Corrupt, Noise, Lose, Resize, DevKeeps, vars, hostVars
  <2>3. late \/ ret \notin {"none", "success"}
    BY DEF Outcome
  <2>4. late' \/ ret' \notin {"none", "success"}
    BY <2>1, <2>2, <2>3 DEF InStep
  <2>5. QED
    BY <2>4 DEF Outcome
<1>2. rcvd' = rcvd \/ \E d \in [from : Nat, got : Nat] : rcvd' = Append(rcvd, d)
  <2>1. CASE Receive
    <3>1. Head(toDev).dat \in [from : Nat, got : Nat]
      BY <2>1, DevQueueType DEF Receive, TypeOK
    <3>2. rcvd' = rcvd \/ rcvd' = Append(rcvd, Head(toDev).dat)
      BY <2>1 DEF Receive
    <3>3. QED
      BY <3>1, <3>2
  <2>2. CASE ~Receive
    BY <2>2 DEF Next, HostStep, DevStep, LineFault, WaitC, WaitCTimeout, BlkXmit,
           EotXmit, Acked, Naked, StrayByte, IoError, Tick, Boot, Invite,
           Corrupt, Noise, Lose, Resize, HostKeeps, devVars, vars
  <2>3. QED
    BY <2>1, <2>2
<1>3. ASSUME NEW d \in [from : Nat, got : Nat], rcvd' = Append(rcvd, d)
      PROVE  Len(rcvd') > Len(rcvd) /\ \A k \in 1..Len(rcvd) : rcvd'[k] = rcvd[k]
  BY <1>3 DEF TypeOK
<1>4. QED
  BY <1>1, <1>2, <1>3 DEF Promise!Next, Promise!Stray

\* In step, the chip stores the next block of the image or nothing, and the
\* host reports success only when the chip has all of it.
LEMMA SureStep ==
  ASSUME LongEnough, TypeOK, InStep, [Next]_vars, Outcome # "unsure"
  PROVE  [Promise!Next]_<<rcvd, Outcome>>
<1>1. ~late /\ ret \in {"none", "success"} /\ StopAndWait
  BY DEF Outcome, InStep, TypeOK
<1>2. CASE Receive
  <2>1. /\ stage = "data" => /\ Len(rcvd) = i_blk - 1 /\ i_blk \in 1..total_blk
                             /\ rcvd' = Append(rcvd, FileBlock(i_blk))
        /\ stage # "data" => rcvd' = rcvd
        /\ pc = "wait_ack"
    BY <1>1, <1>2, ReceiveTakes
  <2>2. UNCHANGED <<ret, late>> /\ Outcome' = Outcome /\ Outcome = "running"
    BY <1>1, <1>2, <2>1 DEF Receive, DevKeeps, hostVars, Outcome, InStep
  <2>3. CASE stage = "data"
    <3>1. Len(rcvd) + 1 = i_blk /\ Len(rcvd) < total_blk
      BY <2>1, <2>3, BlockCount
    <3>2. rcvd' = Append(rcvd, FileBlock(Len(rcvd) + 1))
      BY <2>1, <2>3, <3>1
    <3>3. QED
      BY <2>2, <3>1, <3>2 DEF Promise!Next, Promise!Store
  <2>4. QED
    BY <2>1, <2>2, <2>3
<1>3. CASE ~Receive
  <2>1. rcvd' = rcvd
    BY <1>3 DEF Next, HostStep, DevStep, LineFault, WaitC, WaitCTimeout, BlkXmit,
           EotXmit, Acked, Naked, StrayByte, IoError, Tick, Boot, Invite,
           Corrupt, Noise, Lose, Resize, HostKeeps, devVars, vars
  <2>2. CASE Outcome' = Outcome
    BY <2>1, <2>2
  <2>3. CASE Outcome' # Outcome
    <3>1. ret = "none"
      <4>1. SUFFICES ASSUME ret = "success" PROVE FALSE
        BY <1>1
      <4>2. pc = "done"
        BY <4>1 DEF InStep
      <4>3. UNCHANGED <<ret, late>>
        BY <4>2 DEF Next, HostStep, DevStep, LineFault, WaitC, WaitCTimeout,
           BlkXmit, EotXmit, Acked, Naked, StrayByte, IoError, Tick, Boot,
           Invite, Receive, Corrupt, Noise, Lose, Resize, DevKeeps, vars, hostVars
      <4>4. QED
        BY <2>3, <4>3 DEF Outcome
    <3>2. Outcome = "running"
      BY <1>1, <3>1 DEF Outcome
    <3>3. CASE Outcome' = "unsure"
      BY <2>1, <3>2, <3>3 DEF Promise!Next, Promise!Report
    <3>4. CASE Outcome' # "unsure"
      <4>1. ret' = "success" /\ ~late'
        BY <2>3, <3>2, <3>4 DEF Outcome
      <4>2. InStep'
        BY StepInStep
      <4>3. Len(rcvd) = total_blk
        BY <2>1, <4>1, <4>2 DEF InStep, StopAndWait, Taken
      <4>4. Outcome' = "delivered"
        BY <4>1 DEF Outcome
      <4>5. QED
        BY <2>1, <3>2, <4>3, <4>4 DEF Promise!Next, Promise!Report
    <3>5. QED
      BY <3>3, <3>4
  <2>4. QED
    BY <2>2, <2>3
<1>4. QED
  BY <1>2, <1>3

(***************************************************************************)
(* A call of ymodem_xfer keeps the promise of FileTransfer: the chip       *)
(* stores the blocks of the image in order, each once, and EXIT_SUCCESS    *)
(* is reported only when it has them all.                                  *)
(***************************************************************************)
THEOREM Implements ==
  ASSUME LongEnough
  PROVE  Spec => KeepsPromise
<1>1. Init => Promise!Init
  BY DEF Init, Promise!Init, Outcome
<1>2. TypeOK /\ InStep /\ [Next]_vars => [Promise!Next]_<<rcvd, Outcome>>
  BY UnsureStep, SureStep
<1>3. Spec => []TypeOK
  BY TypeCorrect
<1>4. Spec => []InStep
  BY AlwaysInStep
<1>5. QED
  BY <1>1, <1>2, <1>3, <1>4, PTL
  DEF Spec, KeepsPromise, Promise!Spec, Promise!ftVars

-----------------------------------------------------------------------------
(* Whatever the host knows: where it reads, and what the chip stores *)

\* The position of the FILE, as far as the block number tells.
Reading ==
  /\ pc = "done" <=> ret # "none"
  /\ pc = "wait_c" => stage = "info"
  /\ ret = "success" => stage = "null"
  /\ stage = "info" => i_blk = 0 /\ (ret # "failure" => fpos = 0)
  /\ stage = "data" => i_blk \in 1..total_blk
  /\ stage = "data" /\ ret # "failure" =>
       /\ fpos >= (i_blk - 1) * BlkSize
       /\ i_blk < total_blk => fpos = i_blk * BlkSize
  /\ stage \in {"eot", "null"} => fpos >= (total_blk - 1) * BlkSize

\* Block i is read from where it begins, and is full unless it is the last.
LEMMA NextRead ==
  ASSUME TypeOK, Reading, ret # "failure", stage \in {"info", "data"},
         i_blk + 1 <= total_blk
  PROVE  /\ i_blk + 1 \in 1..total_blk
         /\ fpos = ((i_blk + 1) - 1) * BlkSize
         /\ fpos \in Nat /\ Got(i_blk + 1) \in Nat
         /\ Got(i_blk + 1) <= rlen(i_blk + 1)
         /\ i_blk + 1 < total_blk => rlen(i_blk + 1) = BlkSize
<1>1. /\ total_blk \in Nat /\ i_blk \in Nat /\ BlkSize \in Nat \ {0}
      /\ avail \in Nat /\ fpos \in Nat /\ (i_blk + 1) - 1 = i_blk
  BY BlockCount, YmodemAssumption DEF TypeOK
<1>2. i_blk + 1 \in 1..total_blk
  BY <1>1
<1>3. fpos = i_blk * BlkSize
  BY <1>1 DEF Reading
<1>4. QED
  BY <1>1, <1>2, <1>3, GotType, BlockBytes

LEMMA AckedReading ==
  ASSUME TypeOK, Reading, Acked
  PROVE  Reading'
<1> DEFINE i == i_blk + 1
<1>1. /\ pc = "wait_ack" /\ ret = "none"
      /\ total_blk \in Nat /\ i_blk \in Nat /\ fpos \in Nat
      /\ BlkSize \in Nat \ {0} /\ i \in Nat /\ i_blk = i - 1
  BY BlockCount, YmodemAssumption DEF Acked, Reading, TypeOK
<1>2. CASE stage \in {"info", "data"} /\ i <= total_blk /\ SendBlock(i)
           /\ (i = total_blk \/ Got(i) >= BlkSize)
  <2>1. /\ i \in 1..total_blk /\ fpos = (i - 1) * BlkSize
        /\ Got(i) \in Nat /\ Got(i) <= rlen(i)
        /\ i < total_blk => rlen(i) = BlkSize
    BY <1>1, <1>2, NextRead
  <2>2. /\ stage' = "data" /\ i_blk' = i /\ pc' = "blk_xmit" /\ ret' = "none"
        /\ fpos' = fpos + Got(i)
    BY <1>1, <1>2 DEF SendBlock, Load
  <2>3. fpos' >= (i - 1) * BlkSize
    BY <1>1, <2>1, <2>2
  <2>4. i < total_blk => fpos' = i * BlkSize
    <3>1. ASSUME i < total_blk PROVE Got(i) = BlkSize
      BY <1>1, <1>2, <2>1, <3>1
    <3>2. (i - 1) * BlkSize + BlkSize = i * BlkSize
      BY <1>1
    <3>3. QED
      BY <2>1, <2>2, <3>1, <3>2
  <2>5. QED
    BY <2>1, <2>2, <2>3, <2>4 DEF Reading
<1>3. CASE /\ stage \in {"info", "data"}
           /\ Return("failure") /\ UNCHANGED <<stage, i_blk>>
  BY <1>1, <1>3 DEF Reading, Return
<1>4. CASE stage \in {"info", "data"} /\ i > total_blk /\ SendEot(i)
  <2>1. /\ stage' = "eot" /\ pc' = "blk_xmit" /\ ret' = "none" /\ fpos' = fpos
    BY <1>1, <1>4 DEF SendEot, Load
  <2>2. fpos >= (total_blk - 1) * BlkSize
    <3>1. CASE stage = "info"
      <4>1. total_blk = 0 /\ fpos = 0
        BY <1>1, <1>4, <3>1 DEF Reading
      <4>2. QED
        BY <1>1, <4>1
    <3>2. CASE stage = "data"
      <4>1. i_blk = total_blk
        BY <1>1, <1>4, <3>2 DEF Reading
      <4>2. QED
        BY <1>1, <3>2, <4>1 DEF Reading
    <3>3. QED
      BY <1>4, <3>1, <3>2
  <2>3. QED
    BY <2>1, <2>2 DEF Reading
<1>5. CASE stage = "eot" /\ Load("null", i_blk, NullBlock) /\ UNCHANGED <<fpos, ret>>
  BY <1>1, <1>5 DEF Reading, Load
<1>6. CASE stage = "null" /\ Return("success") /\ UNCHANGED <<stage, i_blk, fpos>>
  BY <1>1, <1>6 DEF Reading, Return
<1>7. QED
  BY <1>2, <1>3, <1>4, <1>5, <1>6 DEF Acked, NextBlock

\* A return with an error, or a step that leaves the host's place alone.
LEMMA OtherReading ==
  ASSUME Reading, UNCHANGED <<stage, i_blk, fpos>>,
         \/ /\ UNCHANGED ret /\ (pc' = "done" <=> pc = "done")
            /\ pc' = "wait_c" => pc = "wait_c"
         \/ pc # "done" /\ Return("error")
  PROVE  Reading'
BY DEF Reading, Return

LEMMA NextReading ==
  ASSUME TypeOK, Reading, [Next]_vars
  PROVE  Reading'
<1>1. CASE Acked
  BY <1>1, AckedReading
<1>2. CASE WaitC
  <2>1. CASE Head(toHost) = "C"
    <3>1. stage' = "info" /\ i_blk' = 0 /\ fpos' = fpos /\ ret' = ret /\ pc' = "blk_xmit"
      BY <1>2, <2>1 DEF WaitC, Load
    <3>2. ret = "none"
      BY <1>2 DEF WaitC, Reading
    <3>3. fpos = 0
      BY <1>2, <3>2 DEF WaitC, Reading
    <3>4. QED
      BY <3>1, <3>2, <3>3 DEF Reading
  <2>2. CASE Head(toHost) # "C"
    BY <1>2, <2>2, OtherReading DEF WaitC, hostVars
  <2>3. QED
    BY <2>1, <2>2
<1>3. CASE WaitCTimeout \/ BlkXmit \/ IoError
  BY <1>3, OtherReading DEF WaitCTimeout, BlkXmit, IoError
<1>4. CASE EotXmit \/ Naked \/ StrayByte \/ Tick
  BY <1>4, OtherReading DEF EotXmit, Naked, StrayByte, Tick
<1>5. CASE DevStep \/ LineFault \/ Resize \/ UNCHANGED vars
  <2>1. UNCHANGED hostVars
    BY <1>5 DEF DevStep, LineFault, Boot, Invite, Receive, Corrupt, Noise, Lose,
                Resize, DevKeeps, vars
  <2>2. QED
    BY <2>1, OtherReading DEF hostVars
<1>6. QED
  BY <1>1, <1>2, <1>3, <1>4, <1>5 DEF Next, HostStep
-----------------------------------------------------------------------------
(* Order *)

\* b carries a block of the image and the number of this block.
DataOfImage(b) ==
  \E i \in 1..total_blk : b.num = i % NumMod /\ Carries(b.dat, i)

Ordered ==
  /\ budget.resize <= MaxResize
  /\ blkbuf.kind = "data" => DataOfImage(blkbuf)
  /\ \A k \in 1..Len(toDev) : toDev[k].kind = "data" => DataOfImage(toDev[k])
  /\ InOrder

\* A file that was not left alone is never one again.
LEMMA NotIntactStays ==
  ASSUME TypeOK, budget.resize <= MaxResize, [Next]_vars
  PROVE  budget'.resize <= MaxResize /\ (~Intact => ~Intact')
<1>1. budget \in [corrupt : Nat, noise : Nat, loss : Nat, resize : Nat]
      /\ MaxResize \in Nat
  BY YmodemAssumption DEF TypeOK
<1>2. CASE Resize
  <2>1. budget'.resize = budget.resize - 1 /\ budget.resize \in Nat
    BY <1>1, <1>2 DEF Resize
  <2>2. QED
    BY <1>1, <2>1 DEF Intact
<1>3. CASE UNCHANGED avail /\ budget'.resize = budget.resize
  BY <1>3 DEF Intact
<1>4. CASE HostStep \/ IoError \/ Tick \/ Boot \/ Invite \/ Receive \/ UNCHANGED vars
  <2>1. UNCHANGED <<avail, budget>>
    BY <1>4 DEF HostStep, WaitC, WaitCTimeout, BlkXmit, EotXmit, Acked, Naked,
                StrayByte, IoError, Tick, Boot, Invite, Receive, HostKeeps,
                DevKeeps, vars
  <2>2. QED
    BY <1>3, <2>1
<1>5. CASE Corrupt \/ LineFault
  <2>1. UNCHANGED avail /\ budget'.resize = budget.resize
    BY <1>1, <1>5 DEF Corrupt, LineFault, Noise, Lose, DevKeeps
  <2>2. QED
    BY <1>3, <2>1
<1>6. QED
  BY <1>2, <1>4, <1>5 DEF Next, DevStep

\* What carried a block still does.
LEMMA CarriesStays ==
  ASSUME ~Intact => ~Intact', NEW b
  PROVE  /\ DataOfImage(b) => \E i \in 1..total_blk :
                                b.num = i % NumMod
                                /\ (\/ b.dat = FileBlock(i)
                                    \/ /\ i = total_blk /\ ~Intact'
                                       /\ b.dat.from = FileBlock(i).from)
BY DEF DataOfImage, Carries

\* Block i, as it is read from the FILE.
LEMMA ReadCarries ==
  ASSUME TypeOK, NEW i \in 1..total_blk, fpos = (i - 1) * BlkSize,
         i = total_blk \/ Got(i) >= BlkSize
  PROVE  Carries(Slice(fpos, Got(i)), i)
<1>1. /\ fpos \in Nat /\ avail \in Nat /\ BlkSize \in Nat /\ i \in Nat
      /\ Got(i) \in Nat /\ Got(i) <= rlen(i) /\ total_blk \in Nat
  BY YmodemAssumption, GotType, BlockCount DEF TypeOK
<1>2. /\ i < total_blk => rlen(i) = BlkSize
      /\ FileBlock(i) = Slice((i - 1) * BlkSize, rlen(i)) /\ rlen(i) \in Nat
  BY BlockBytes
<1>3. CASE i < total_blk
  <2>1. Got(i) = rlen(i)
    BY <1>1, <1>2, <1>3
  <2>2. QED
    BY <1>2, <2>1 DEF Carries
<1>4. CASE i = total_blk /\ avail >= Size
  BY <1>1, <1>4, FullRead DEF Carries
<1>5. CASE i = total_blk /\ ~(avail >= Size)
  <2>1. Slice(fpos, Got(i)).from = FileBlock(i).from
    BY <1>2 DEF Slice
  <2>2. QED
    BY <1>5, <2>1 DEF Carries, Intact
<1>6. QED
  BY <1>1, <1>3, <1>4, <1>5

\* Numbers do not wrap in a short image, so the receiver takes the block that
\* follows those it has, or none.
LEMMA NumberTells ==
  ASSUME total_blk < NumMod, NEW i \in 1..total_blk, NEW n \in 0..total_blk,
         i % NumMod = (n + 1) % NumMod
  PROVE  i = n + 1
<1>1. NumMod \in Nat \ {0} /\ total_blk \in Nat /\ i \in Nat /\ i < NumMod
  BY BlockCount, YmodemAssumption
<1>2. i % NumMod = i
  BY <1>1
<1>3. CASE n + 1 < NumMod
  BY <1>1, <1>2, <1>3
<1>4. CASE n + 1 = NumMod
  <2>1. (n + 1) % NumMod = 0
    BY <1>1, <1>4
  <2>2. QED
    BY <1>1, <1>2, <2>1
<1>5. QED
  BY <1>1, <1>3, <1>4

\* A step that leaves the block and the queue as they are, or takes the head
\* of the queue, or sends the block.
LEMMA QueueOrdered ==
  ASSUME TypeOK, Ordered, ~Intact => ~Intact', budget'.resize <= MaxResize,
         UNCHANGED <<blkbuf, rcvd>>,
         \/ toDev' = toDev
         \/ toDev # <<>> /\ toDev' = Tail(toDev)
         \/ toDev' = Append(toDev, blkbuf)
  PROVE  Ordered'
<1>1. blkbuf'.kind = "data" => DataOfImage(blkbuf)'
  BY CarriesStays DEF Ordered, DataOfImage, Carries
<1>2. InOrder'
  BY DEF Ordered, InOrder, Carries
<1>3. ASSUME NEW b, b.kind = "data",
             b = blkbuf \/ \E k \in 1..Len(toDev) : b = toDev[k]
      PROVE  DataOfImage(b)
  BY <1>3 DEF Ordered
<1>4. ASSUME NEW k \in 1..Len(toDev')
      PROVE  toDev'[k] = blkbuf \/ \E j \in 1..Len(toDev) : toDev'[k] = toDev[j]
  <2>1. toDev \in Seq(Blocks) /\ blkbuf \in Blocks
    BY DEF TypeOK
  <2>2. CASE toDev' = toDev
    BY <1>4, <2>2
  <2>3. CASE toDev # <<>> /\ toDev' = Tail(toDev)
    <3>1. k + 1 \in 1..Len(toDev) /\ toDev'[k] = toDev[k + 1]
      BY <1>4, <2>1, <2>3
    <3>2. QED
      BY <3>1
  <2>4. CASE toDev' = Append(toDev, blkbuf)
    BY <1>4, <2>1, <2>4
  <2>5. QED
    BY <2>2, <2>3, <2>4
<1>5. ASSUME NEW k \in 1..Len(toDev'), toDev'[k].kind = "data"
      PROVE  DataOfImage(toDev[k])'
  <2> DEFINE b == toDev'[k]
  <2>1. DataOfImage(b)
    BY <1>3, <1>4, <1>5
  <2>2. QED
    BY <2>1, CarriesStays DEF DataOfImage, Carries
<1>6. QED
  BY <1>1, <1>2, <1>5 DEF Ordered

\* A block of the image that is stored is the next one.
LEMMA ReceiveOrdered ==
  ASSUME total_blk < NumMod, TypeOK, Ordered, Receive, ~Intact => ~Intact'
  PROVE  Ordered'
<1>1. /\ toDev # <<>> /\ toDev' = Tail(toDev) /\ UNCHANGED <<blkbuf, budget, avail>>
      /\ toDev \in Seq(Blocks) /\ Intact' = Intact
  BY DEF Receive, DevKeeps, hostVars, TypeOK, Intact
<1>2. CASE rcvd' = rcvd
  BY <1>1, <1>2, QueueOrdered DEF Ordered
<1>3. CASE rcvd' = Append(rcvd, Head(toDev).dat) /\ Head(toDev).kind = "data"
           /\ Head(toDev).num = expected % NumMod
  <2> DEFINE b == Head(toDev)
  <2>1. DataOfImage(b)
    <3>1. 1 \in 1..Len(toDev) /\ b = toDev[1]
      BY <1>1
    <3>2. QED
      BY <1>3, <3>1 DEF Ordered
  <2>2. PICK i \in 1..total_blk : b.num = i % NumMod /\ Carries(b.dat, i)
    BY <2>1 DEF DataOfImage
  <2>3. Len(rcvd) \in 0..total_blk /\ rcvd \in Seq([from : Nat, got : Nat])
        /\ total_blk \in Nat
    BY BlockCount DEF Ordered, InOrder, TypeOK
  <2>4. i = Len(rcvd) + 1
    <3>1. i % NumMod = (Len(rcvd) + 1) % NumMod
      BY <1>3, <2>2 DEF expected
    <3>2. QED
      BY <2>3, <3>1, NumberTells
  <2>5. b.dat \in [from : Nat, got : Nat]
    BY <1>1, DevQueueType DEF TypeOK
  <2>6. Len(rcvd') = i /\ rcvd'[i] = b.dat
        /\ \A k \in 1..Len(rcvd) : rcvd'[k] = rcvd[k]
    BY <1>3, <2>3, <2>4, <2>5
  <2>7. InOrder'
    <3>1. \A k \in 1..Len(rcvd) : Carries(rcvd[k], k)
      BY DEF Ordered, InOrder
    <3>2. ASSUME NEW k \in 1..i PROVE Carries(rcvd'[k], k)
      BY <2>2, <2>3, <2>4, <2>6, <3>1
    <3>3. ASSUME NEW k \in 1..Len(rcvd') PROVE Carries(rcvd[k], k)'
      BY <1>1, <2>6, <3>2 DEF Carries
    <3>4. QED
      BY <2>2, <2>3, <2>6, <3>3 DEF InOrder
  <2>8. \A k \in 1..Len(toDev') : toDev'[k].kind = "data" => DataOfImage(toDev[k])'
    <3>1. ASSUME NEW k \in 1..Len(toDev')
          PROVE  k + 1 \in 1..Len(toDev) /\ toDev'[k] = toDev[k + 1]
      BY <1>1
    <3>2. QED
      BY <1>1, <3>1 DEF Ordered, DataOfImage, Carries
  <2>9. blkbuf'.kind = "data" => DataOfImage(blkbuf)'
    BY <1>1 DEF Ordered, DataOfImage, Carries
  <2>10. QED
    BY <1>1, <2>7, <2>8, <2>9 DEF Ordered
<1>4. QED
  BY <1>2, <1>3 DEF Receive

\* The host loads another block, or none.
LEMMA LoadOrdered ==
  ASSUME TypeOK, Reading, Ordered, WaitC \/ Acked, ~Intact => ~Intact'
  PROVE  Ordered'
<1>1. UNCHANGED <<toDev, rcvd, avail, budget>> /\ Intact' = Intact
  BY DEF WaitC, Acked, HostKeeps, devVars, Intact
<1>2. blkbuf' = blkbuf \/ blkbuf'.kind # "data" \/ DataOfImage(blkbuf')
  <2>1. CASE WaitC
    BY <2>1 DEF WaitC, Load, InfoBlock, Block, hostVars
  <2>2. CASE Acked
    <3> DEFINE i == i_blk + 1
    <3>1. pc = "wait_ack" /\ ret = "none"
      BY <2>2 DEF Acked, Reading
    <3>2. CASE stage \in {"info", "data"} /\ i <= total_blk /\ SendBlock(i)
               /\ (i = total_blk \/ Got(i) >= BlkSize)
      <4>1. i \in 1..total_blk /\ fpos = (i - 1) * BlkSize
        BY <3>1, <3>2, NextRead
      <4>2. Carries(Slice(fpos, Got(i)), i)
        BY <3>2, <4>1, ReadCarries
      <4>3. blkbuf' = Block("data", i, Slice(fpos, Got(i)))
        BY <3>2 DEF SendBlock, Load
      <4>4. blkbuf'.num = i % NumMod /\ blkbuf'.dat = Slice(fpos, Got(i))
        BY <4>3 DEF Block
      <4>5. QED
        BY <4>1, <4>2, <4>4 DEF DataOfImage
    <3>3. CASE Return("failure") /\ blkbuf' = blkbuf
      BY <3>3
    <3>4. CASE SendEot(i) \/ Load("null", i_blk, NullBlock)
      BY <3>4 DEF SendEot, Load, EotByte, NullBlock, Block
    <3>5. CASE blkbuf' = blkbuf
      BY <3>5
    <3>6. QED
      BY <2>2, <3>2, <3>3, <3>4, <3>5 DEF Acked, NextBlock
  <2>3. QED
    BY <2>1, <2>2
<1>3. blkbuf'.kind = "data" => DataOfImage(blkbuf)'
  BY <1>1, <1>2 DEF Ordered, DataOfImage, Carries
<1>4. QED
  BY <1>1, <1>3 DEF Ordered, InOrder, DataOfImage, Carries

LEMMA NextOrdered ==
  ASSUME total_blk < NumMod, TypeOK, Reading, Ordered, [Next]_vars
  PROVE  Ordered'
<1>1. budget'.resize <= MaxResize /\ (~Intact => ~Intact')
  BY NotIntactStays DEF Ordered
<1>2. CASE WaitC \/ Acked
  BY <1>1, <1>2, LoadOrdered
<1>3. CASE Receive
  BY <1>1, <1>3, ReceiveOrdered
<1>4. CASE ~(WaitC \/ Acked) /\ ~Receive
  <2>1. /\ UNCHANGED <<blkbuf, rcvd>>
        /\ \/ toDev' = toDev
           \/ toDev # <<>> /\ toDev' = Tail(toDev)
           \/ toDev' = Append(toDev, blkbuf)
    BY <1>4 DEF Next, HostStep, DevStep, LineFault, WaitCTimeout, BlkXmit, EotXmit,
           Naked, StrayByte, IoError, Tick, Boot, Invite, Corrupt, Noise, Lose,
           Resize, HostKeeps, DevKeeps, hostVars, devVars, vars
  <2>2. QED
    BY <1>1, <2>1, QueueOrdered
<1>5. QED
  BY <1>2, <1>3, <1>4

LEMMA InitOrdered == Init => Reading /\ Ordered
<1> SUFFICES ASSUME Init PROVE Reading /\ Ordered
  OBVIOUS
<1>1. Len(rcvd) = 0 /\ Len(toDev) = 0 /\ total_blk \in Nat /\ MaxResize \in Nat
  BY BlockCount, YmodemAssumption DEF Init
<1>2. QED
  BY <1>1 DEF Init, Reading, Ordered, InOrder, InfoBlock, Block

(***************************************************************************)
(* EXIT_SUCCESS is never returned for a file that ran out before its last  *)
(* block, however often it changed its length: whatever was damaged, lost  *)
(* or inserted on the line, the host has read up to there.                 *)
(***************************************************************************)
THEOREM NoticesShortFile == Spec => []ShortFileRefused
<1>1. Init => TypeOK /\ Reading
  BY InitType, InitOrdered
<1>2. TypeOK /\ Reading /\ [Next]_vars => TypeOK' /\ Reading'
  BY NextType, NextReading
<1>3. TypeOK /\ Reading => ShortFileRefused
  BY DEF Reading, ShortFileRefused
<1>4. QED
  BY <1>1, <1>2, <1>3, PTL DEF Spec

(***************************************************************************)
(* The chip stores the blocks of an image in order, each once and with its *)
(* own bytes, for every mixture of damage, stray bytes, losses, repeats    *)
(* and changes of the file, also after a wait gave up on a stray byte, if  *)
(* the numbers of its blocks do not wrap (in the code, up to 255 blocks).  *)
(***************************************************************************)
THEOREM StoresInOrder ==
  ASSUME total_blk < NumMod
  PROVE  Spec => []InOrder
<1>1. Init => TypeOK /\ Reading /\ Ordered
  BY InitType, InitOrdered
<1>2. TypeOK /\ Reading /\ Ordered /\ [Next]_vars => TypeOK' /\ Reading' /\ Ordered'
  BY NextType, NextReading, NextOrdered
<1>3. Ordered => InOrder
  BY DEF Ordered
<1>4. QED
  BY <1>1, <1>2, <1>3, PTL DEF Spec
-----------------------------------------------------------------------------
(* Repeats on a line that damages and loses nothing *)

\* b is block i of the transfer: the file info, the blocks of the image, EOT,
\* and the block that ends the session.
InPlace(b, i) ==
  \/ i = 0 /\ b = InfoBlock
  \/ /\ i \in 1..total_blk /\ b.kind = "data"
     /\ b.num = i % NumMod /\ Carries(b.dat, i)
  \/ i = total_blk + 1 /\ b = EotByte
  \/ i = total_blk + 2 /\ b = NullBlock

\* The place of the block the host is at ...
HostPlace == IF stage = "null" THEN total_blk + 2 ELSE i_blk

\* ... and how far it may be ahead of what it has sent.
Ahead == IF pc = "wait_ack" \/ ret = "success" THEN 0 ELSE 1

Early == phase \in {"boot", "invite"}

\* The place of the last block the chip took.
ChipPlace ==
  CASE Early            -> -1
    [] phase = "data"   -> Len(rcvd)
    [] phase = "end"    -> total_blk + 1
    [] phase = "closed" -> total_blk + 2

\* The host holds the block of its place.
Placed ==
  /\ stage \in {"eot", "null"} => i_blk = total_blk + 1
  /\ InPlace(blkbuf, HostPlace)

\* What is on its way to the chip leads, without a gap and never backwards,
\* from the place of the chip to the place of the host.
Trail(g) ==
  /\ \A k \in 1..Len(toDev) : InPlace(toDev[k], g[k])
  /\ \A k \in 1..(Len(toDev) - 1) : g[k + 1] \in {g[k], g[k] + 1}
  /\ toDev # <<>> => /\ g[1] \in {ChipPlace, ChipPlace + 1}
                     /\ g[Len(toDev)] \in {HostPlace - Ahead, HostPlace}
  /\ toDev = <<>> /\ ~Early => ChipPlace \in {HostPlace - Ahead, HostPlace}
  /\ Early => \A k \in 1..Len(toDev) : g[k] = 0

\* The chip has what its phase says, and before the info it acknowledged
\* nothing.
ChipHas ==
  /\ InOrder
  /\ Early => rcvd = <<>>
  /\ phase \in {"end", "closed"} => Len(rcvd) = total_blk

NotAsked ==
  Early => stage = "info" /\ \A k \in 1..Len(toHost) : toHost[k] # "ACK"

Clean ==
  Undamaged => ChipHas /\ NotAsked
               /\ \E g \in Seq(Int) : Len(g) = Len(toDev) /\ Trail(g)

\* Faults are only ever used up.
Spent ==
  /\ budget.resize <= MaxResize /\ budget.corrupt <= MaxCorrupt
  /\ budget.loss <= MaxLoss

CleanInv == TypeOK /\ Reading /\ Placed /\ Spent /\ Clean

LEMMA PlaceTypes ==
  ASSUME TypeOK
  PROVE  /\ total_blk \in Nat /\ i_blk \in Int /\ HostPlace \in Int
         /\ Ahead \in {0, 1} /\ Len(toDev) \in Nat /\ Len(rcvd) \in Nat
         /\ ChipPlace \in Int
         /\ Early => ChipPlace = -1
         /\ phase = "data" => ~Early /\ ChipPlace = Len(rcvd)
         /\ phase = "end" => ~Early /\ ChipPlace = total_blk + 1
         /\ phase = "closed" => ~Early /\ ChipPlace = total_blk + 2
<1>1. /\ total_blk \in Nat /\ i_blk \in Nat /\ Len(toDev) \in Nat /\ Len(rcvd) \in Nat
      /\ phase \in {"boot", "invite", "data", "end", "closed"}
  <2>1. total_blk \in Nat
    BY BlockCount
  <2>2. toDev \in Seq(Blocks) /\ rcvd \in Seq([from : Nat, got : Nat])
        /\ i_blk \in 0..(total_blk + 1)
        /\ phase \in {"boot", "invite", "data", "end", "closed"}
    BY DEF TypeOK
  <2>3. QED
    BY <2>1, <2>2
<1>2. HostPlace \in Int /\ Ahead \in {0, 1}
  BY <1>1 DEF HostPlace, Ahead
<1>3. QED
  BY <1>1, <1>2 DEF ChipPlace, Early

\* A block stays what it is, also when the FILE changes.
LEMMA PlaceStays ==
  ASSUME ~Intact => ~Intact', NEW b, NEW i, InPlace(b, i)
  PROVE  \/ i = 0 /\ b = InfoBlock
         \/ /\ i \in 1..total_blk /\ b.kind = "data" /\ b.num = i % NumMod
            /\ \/ b.dat = FileBlock(i)
               \/ i = total_blk /\ ~Intact' /\ b.dat.from = FileBlock(i).from
         \/ i = total_blk + 1 /\ b = EotByte
         \/ i = total_blk + 2 /\ b = NullBlock
BY DEF InPlace, Carries

LEMMA SpentStays ==
  ASSUME TypeOK, Spent, [Next]_vars
  PROVE  Spent' /\ (Undamaged' => Undamaged /\ ~Corrupt /\ ~Lose)
<1>1. /\ budget \in [corrupt : Nat, noise : Nat, loss : Nat, resize : Nat]
      /\ MaxCorrupt \in Nat /\ MaxLoss \in Nat /\ MaxResize \in Nat
  BY YmodemAssumption DEF TypeOK
<1>2. /\ Corrupt => budget'.corrupt = budget.corrupt - 1
      /\ Lose => budget'.loss = budget.loss - 1
  BY <1>1 DEF Corrupt, Lose
<1>3. CASE Corrupt
  <2>1. /\ budget'.corrupt = budget.corrupt - 1 /\ budget'.resize = budget.resize
        /\ budget'.loss = budget.loss
    BY <1>1, <1>3 DEF Corrupt
  <2>2. QED
    BY <1>1, <2>1 DEF Spent, Undamaged
<1>4. CASE Lose
  <2>1. /\ budget'.loss = budget.loss - 1 /\ budget'.resize = budget.resize
        /\ budget'.corrupt = budget.corrupt
    BY <1>1, <1>4 DEF Lose
  <2>2. QED
    BY <1>1, <2>1 DEF Spent, Undamaged
<1>5. CASE Noise \/ Resize
  <2>1. /\ budget'.loss = budget.loss /\ budget'.corrupt = budget.corrupt
        /\ budget'.resize = budget.resize \/ budget'.resize = budget.resize - 1
    BY <1>1, <1>5 DEF Noise, Resize
  <2>2. ~Corrupt /\ ~Lose
    BY <1>1, <1>2, <2>1
  <2>3. QED
    BY <1>1, <2>1, <2>2 DEF Spent, Undamaged
<1>6. CASE HostStep \/ IoError \/ Tick \/ Boot \/ Invite \/ Receive \/ UNCHANGED vars
  <2>1. budget' = budget
    BY <1>6 DEF HostStep, WaitC, WaitCTimeout, BlkXmit, EotXmit, Acked, Naked,
                StrayByte, IoError, Tick, Boot, Invite, Receive, HostKeeps,
                DevKeeps, vars
  <2>2. ~Corrupt /\ ~Lose
    BY <1>1, <1>2, <2>1
  <2>3. QED
    BY <2>1, <2>2 DEF Spent, Undamaged
<1>7. QED
  BY <1>3, <1>4, <1>5, <1>6 DEF Next, DevStep, LineFault

LEMMA LeastOf ==
  ASSUME NEW T, T \subseteq Nat, T # {}
  PROVE  \E x \in T : \A y \in T : x <= y
<1> DEFINE R == {ss \in Nat \X Nat : ss[1] < ss[2]}
<1>1. IsWellFoundedOn(R, Nat)
  BY NatLessThanWellFounded, Zenon DEF OpToRel
<1>2. \A x \in Nat, y \in Nat : y < x => <<y, x>> \in R
  OBVIOUS
<1> HIDE DEF R
<1>3. PICK x \in T : \A y \in T : ~ (<<y, x>> \in R)
  BY <1>1, WFMin
<1>4. ASSUME NEW y \in T PROVE x <= y
  <2>1. x \in Nat /\ y \in Nat /\ <<y, x>> \notin R
    BY <1>3
  <2>2. ~(y < x)
    BY <2>1, <1>2, Zenon
  <2>3. QED
    BY <2>1, <2>2
<1>5. QED
  BY <1>3, <1>4

\* A trail without gaps passes every place between its ends.
LEMMA NoGap ==
  ASSUME NEW n \in Nat \ {0}, NEW g \in Seq(Int), Len(g) = n, NEW i \in Int,
         g[1] <= i, i <= g[n],
         \A k \in 1..(n - 1) : g[k + 1] \in {g[k], g[k] + 1}
  PROVE  \E k \in 1..n : g[k] = i
<1> DEFINE T == {k \in 1..n : i <= g[k]}
<1>1. T \subseteq Nat /\ n \in T
  OBVIOUS
<1>2. PICK k \in T : \A j \in T : k <= j
  <2> HIDE DEF T
  <2>1. T # {}
    BY <1>1
  <2>2. QED
    BY <1>1, <2>1, LeastOf
<1>3. k \in 1..n /\ i <= g[k]
  OBVIOUS
<1>4. CASE k = 1
  <2>1. g[1] \in Int
    OBVIOUS
  <2>2. QED
    BY <1>3, <1>4, <2>1
<1>5. CASE k # 1
  <2>1. k - 1 \in 1..(n - 1) /\ k - 1 \in 1..n /\ ~(k <= k - 1) /\ (k - 1) + 1 = k
    BY <1>3, <1>5
  <2>2. ~(i <= g[k - 1])
    BY <1>2, <2>1
  <2>3. g[(k - 1) + 1] \in {g[k - 1], g[k - 1] + 1}
    BY <2>1
  <2>4. g[k - 1] \in Int /\ g[k] \in Int
    BY <1>3, <2>1
  <2>5. QED
    BY <1>3, <2>1, <2>2, <2>3, <2>4
<1>6. QED
  BY <1>4, <1>5

\* The places the last block that is not yet taken may have.
Near(x) == x \in {HostPlace - Ahead, HostPlace}

\* A step that leaves the block of the host alone and does not make the host
\* wait for an answer.
LEMMA HostStays ==
  ASSUME TypeOK, Placed, ~Intact => ~Intact', UNCHANGED <<stage, i_blk, blkbuf>>,
         Ahead' = Ahead \/ Ahead' = 1
  PROVE  Placed' /\ HostPlace' = HostPlace /\ \A x \in Int : Near(x) => Near(x)'
<1>1. HostPlace' = HostPlace /\ HostPlace \in Int /\ Ahead \in {0, 1}
  BY PlaceTypes DEF HostPlace
<1>2. InPlace(blkbuf, HostPlace)'
  BY <1>1, PlaceStays DEF Placed, InPlace, Carries
<1>3. Placed'
  BY <1>2 DEF Placed
<1>4. \A x \in Int : Near(x) => Near(x)'
  BY <1>1 DEF Near
<1>5. QED
  BY <1>1, <1>3, <1>4

\* An answer takes the host one place further, or ends the transfer.
LEMMA AckedPlace ==
  ASSUME TypeOK, Reading, Placed, Acked, ~Intact => ~Intact'
  PROVE  /\ Placed' /\ HostPlace' \in {HostPlace, HostPlace + 1}
         /\ HostPlace' = HostPlace \/ Ahead' = 1
<1> DEFINE i == i_blk + 1
<1>1. /\ pc = "wait_ack" /\ ret = "none" /\ total_blk \in Nat /\ i_blk \in Int
      /\ avail' = avail /\ Intact' = Intact
  BY PlaceTypes DEF Acked, Reading, HostKeeps, Intact
<1>2. CASE stage \in {"info", "data"} /\ i <= total_blk /\ SendBlock(i)
           /\ (i = total_blk \/ Got(i) >= BlkSize)
  <2>1. i \in 1..total_blk /\ fpos = (i - 1) * BlkSize
    BY <1>1, <1>2, NextRead
  <2>2. Carries(Slice(fpos, Got(i)), i)
    BY <1>2, <2>1, ReadCarries
  <2>3. /\ blkbuf' = Block("data", i, Slice(fpos, Got(i)))
        /\ stage' = "data" /\ i_blk' = i /\ pc' = "blk_xmit" /\ ret' = "none"
    BY <1>1, <1>2 DEF SendBlock, Load
  <2>4. /\ blkbuf'.kind = "data" /\ blkbuf'.num = i % NumMod
        /\ blkbuf'.dat = Slice(fpos, Got(i))
    BY <2>3 DEF Block
  <2>5. PICK j \in 1..total_blk : j = i
    BY <2>1
  <2>6. HostPlace' = j /\ HostPlace = i_blk /\ Ahead' = 1
    BY <1>2, <2>3, <2>5 DEF HostPlace, Ahead
  <2>7. InPlace(blkbuf, HostPlace)'
    <3>1. Carries(blkbuf.dat, j)'
      BY <1>1, <2>2, <2>4, <2>5 DEF Carries
    <3>2. blkbuf'.kind = "data" /\ blkbuf'.num = j % NumMod
      BY <2>4, <2>5
    <3>3. InPlace(blkbuf, j)'
      BY <3>1, <3>2 DEF InPlace
    <3>4. QED
      BY <2>6, <3>3
  <2>8. QED
    BY <1>1, <2>3, <2>5, <2>6, <2>7 DEF Placed
<1>3. CASE UNCHANGED <<stage, i_blk, blkbuf>>
  <2>1. HostPlace' = HostPlace
    BY <1>3 DEF HostPlace
  <2>2. InPlace(blkbuf, HostPlace)'
    BY <1>3, <2>1, PlaceStays DEF Placed, InPlace, Carries
  <2>3. QED
    BY <1>3, <2>1, <2>2 DEF Placed
<1>4. CASE stage \in {"info", "data"} /\ i > total_blk /\ SendEot(i)
  <2>1. i = total_blk + 1
    BY <1>1, <1>4 DEF TypeOK
  <2>2. /\ stage' = "eot" /\ pc' = "blk_xmit" /\ ret' = "none" /\ i_blk' = i
        /\ blkbuf' = EotByte
    BY <1>1, <1>4 DEF SendEot, Load
  <2>3. HostPlace' = i /\ HostPlace = i_blk /\ Ahead' = 1
    BY <1>4, <2>2 DEF HostPlace, Ahead
  <2>4. QED
    BY <1>1, <2>1, <2>2, <2>3 DEF Placed, InPlace
<1>5. CASE stage = "eot" /\ Load("null", i_blk, NullBlock) /\ UNCHANGED ret
  <2>1. /\ stage' = "null" /\ pc' = "blk_xmit" /\ ret' = "none" /\ i_blk' = i_blk
        /\ blkbuf' = NullBlock /\ i_blk = total_blk + 1
    BY <1>1, <1>5 DEF Load, Placed
  <2>2. HostPlace' = total_blk + 2 /\ HostPlace = total_blk + 1 /\ Ahead' = 1
    BY <1>5, <2>1 DEF HostPlace, Ahead
  <2>3. QED
    BY <1>1, <2>1, <2>2 DEF Placed, InPlace
<1>6. QED
  BY <1>2, <1>3, <1>4, <1>5 DEF Acked, NextBlock

\* A block is sent, or the host stays near what it has sent, or the chip or the
\* line move.
LEMMA HostMoves ==
  ASSUME TypeOK, Reading, Placed, Spent, [Next]_vars
  PROVE  /\ Placed'
         /\ \/ DevStep \/ LineFault
            \/ toDev' = toDev /\ UNCHANGED devVars /\ \A x \in Int : Near(x) => Near(x)'
            \/ /\ UNCHANGED devVars /\ toDev' = Append(toDev, blkbuf) /\ HostPlace' = HostPlace
               /\ Ahead = 1 /\ Ahead' = 0
<1>1. ~Intact => ~Intact'
  BY NotIntactStays DEF Spent
<1>2. CASE Acked
  <2>1. /\ Placed' /\ HostPlace' \in {HostPlace, HostPlace + 1}
        /\ HostPlace' = HostPlace \/ Ahead' = 1
    BY <1>1, <1>2, AckedPlace
  <2>2. HostPlace \in Int /\ Ahead = 0
    BY <1>2, PlaceTypes DEF Acked, Ahead
  <2>3. HostPlace' = HostPlace => Ahead' \in {0, 1}
    BY DEF Ahead
  <2>4. \A x \in Int : Near(x) => Near(x)'
    BY <2>1, <2>2, <2>3 DEF Near
  <2>5. toDev' = toDev /\ UNCHANGED devVars
    BY <1>2 DEF Acked, HostKeeps
  <2>6. QED
    BY <2>1, <2>4, <2>5
<1>3. CASE WaitC
  <2>1. stage = "info" /\ i_blk = 0 /\ Ahead = 1 /\ HostPlace = 0 /\ ret = "none"
    BY <1>3 DEF WaitC, Reading, Ahead, HostPlace
  <2>2. stage' = "info" /\ i_blk' = 0 /\ ret' = "none" /\ pc' # "wait_ack"
        /\ (blkbuf' = InfoBlock \/ blkbuf' = blkbuf)
    BY <1>3, <2>1 DEF WaitC, Load, hostVars
  <2>3. Ahead' = 1 /\ HostPlace' = 0
    BY <2>2 DEF Ahead, HostPlace
  <2>4. blkbuf = InfoBlock
    BY <2>1, PlaceTypes DEF Placed, InPlace
  <2>5. Placed'
    BY <2>2, <2>3, <2>4 DEF Placed, InPlace
  <2>6. \A x \in Int : Near(x) => Near(x)'
    BY <2>1, <2>3 DEF Near
  <2>7. toDev' = toDev /\ UNCHANGED devVars
    BY <1>3 DEF WaitC, HostKeeps
  <2>8. QED
    BY <2>5, <2>6, <2>7
<1>4. CASE (BlkXmit \/ EotXmit) /\ toDev' = Append(toDev, blkbuf)
  <2>1. /\ pc = "blk_xmit" /\ ret = "none" /\ pc' = "wait_ack"
        /\ UNCHANGED <<stage, i_blk, blkbuf, ret>>
    BY <1>4 DEF BlkXmit, EotXmit, Reading, Return
  <2>2. Ahead = 1 /\ Ahead' = 0 /\ HostPlace' = HostPlace
    BY <2>1 DEF Ahead, HostPlace
  <2>3. InPlace(blkbuf, HostPlace)'
    BY <1>1, <2>1, <2>2, PlaceStays DEF Placed, InPlace, Carries
  <2>4. Placed'
    BY <2>1, <2>3 DEF Placed
  <2>5. UNCHANGED devVars
    BY <1>4 DEF BlkXmit, EotXmit, HostKeeps
  <2>6. QED
    BY <1>4, <2>2, <2>4, <2>5
<1>5. CASE WaitCTimeout \/ IoError \/ (BlkXmit /\ Return("error"))
  <2>1. /\ UNCHANGED <<stage, i_blk, blkbuf>> /\ pc' = "done" /\ ret' = "error"
        /\ UNCHANGED <<toDev, devVars>>
    BY <1>5 DEF WaitCTimeout, IoError, BlkXmit, Return, HostKeeps
  <2>2. Ahead' = 1
    BY <2>1 DEF Ahead
  <2>3. QED
    BY <1>1, <2>1, <2>2, HostStays
<1>6. CASE Naked \/ StrayByte
  <2>1. /\ UNCHANGED <<stage, i_blk, blkbuf, ret>> /\ ret = "none"
        /\ pc' = "blk_xmit" \/ pc' = pc
        /\ UNCHANGED <<toDev, devVars>>
    BY <1>6 DEF Naked, StrayByte, Reading, HostKeeps
  <2>2. Ahead' = Ahead \/ Ahead' = 1
    BY <2>1 DEF Ahead
  <2>3. QED
    BY <1>1, <2>1, <2>2, HostStays
<1>7. CASE Tick \/ DevStep \/ LineFault \/ Resize \/ UNCHANGED vars
  <2>1. UNCHANGED <<stage, i_blk, blkbuf, pc, ret>>
    BY <1>7 DEF Tick, DevStep, LineFault, Boot, Invite, Receive, Corrupt, Noise,
                Lose, Resize, DevKeeps, hostVars, vars
  <2>2. Ahead' = Ahead
    BY <2>1 DEF Ahead
  <2>3. Placed' /\ \A x \in Int : Near(x) => Near(x)'
    BY <1>1, <2>1, <2>2, HostStays
  <2>4. DevStep \/ LineFault \/ UNCHANGED <<toDev, devVars>>
    BY <1>7 DEF Tick, Resize, vars
  <2>5. QED
    BY <2>3, <2>4
<1>8. BlkXmit => Return("error") \/ toDev' = Append(toDev, blkbuf)
  BY DEF BlkXmit
<1>9. EotXmit => toDev' = Append(toDev, blkbuf)
  BY DEF EotXmit
<1>10. QED
  BY <1>2, <1>3, <1>4, <1>5, <1>6, <1>7, <1>8, <1>9 DEF Next, HostStep

\* The receiver can tell a block from the one before it.
LEMMA NumbersDiffer ==
  ASSUME NEW n \in Nat
  PROVE  n % NumMod # (n + 1) % NumMod
<1> DEFINE m == NumMod
           q == n \div m
           r == n % m
<1>1. m \in Nat /\ m >= 2 /\ m \in Nat \ {0}
  BY YmodemAssumption
<1> SUFFICES n % m # (n + 1) % m
  OBVIOUS
<1> HIDE DEF m
<1>2. q \in Nat /\ r \in 0..(m - 1) /\ n = m * q + r
  BY <1>1, DivMod
<1>3. CASE r + 1 < m
  <2>1. n + 1 = m * q + (r + 1) /\ r + 1 \in 0..(m - 1)
    BY <1>1, <1>2, <1>3
  <2>2. (n + 1) % m = r + 1
    <3> HIDE DEF q, r
    <3> QED BY <1>1, <1>2, <2>1
  <2>3. QED
    BY <1>2, <2>2
<1>4. CASE r + 1 = m
  <2>1. n + 1 = m * (q + 1)
    <3> HIDE DEF q, r
    <3>1. r = m - 1
      BY <1>1, <1>2, <1>4
    <3> QED BY <1>1, <1>2, <3>1
  <2>2. (n + 1) % m = 0
    <3> HIDE DEF q, r
    <3> QED BY <1>1, <1>2, <2>1
  <2>3. r # 0
    BY <1>1, <1>2, <1>4
  <2>4. QED
    BY <2>2, <2>3
<1>5. QED
  BY <1>1, <1>2, <1>3, <1>4

\* What the chip does with a block of its own place or of the next one.
LEMMA ReceiveMoves ==
  ASSUME TypeOK, ChipHas, Receive, NEW x \in Int,
         InPlace(toDev[1], x), x \in {ChipPlace, ChipPlace + 1}
  PROVE  ChipPlace' = x /\ ~Early' /\ ChipHas'
<1> DEFINE b == Head(toDev)
           n == Len(rcvd)
<1>1. /\ toDev # <<>> /\ toDev' = Tail(toDev) /\ phase # "boot"
      /\ UNCHANGED <<avail, budget>> /\ Intact' = Intact
      /\ toDev \in Seq(Blocks) /\ rcvd \in Seq([from : Nat, got : Nat])
      /\ phase \in {"boot", "invite", "data", "end", "closed"}
  BY DEF Receive, DevKeeps, TypeOK, Intact
<1>2. InPlace(b, x) /\ b \in Blocks
  BY <1>1
<1>3. /\ InfoBlock.kind = "info" /\ EotByte.kind = "eot" /\ NullBlock.kind = "null"
      /\ InfoBlock.num = 0 % NumMod
  BY DEF InfoBlock, EotByte, NullBlock, Block
<1>4. total_blk \in Nat /\ n \in Nat /\ n <= total_blk
  BY PlaceTypes DEF ChipHas, InOrder
<1>5. ASSUME rcvd' = rcvd, phase' \in {"data", "end", "closed"},
             phase' = "data" => x = n,
             phase' = "end" => x = total_blk + 1 /\ n = total_blk,
             phase' = "closed" => x = total_blk + 2 /\ n = total_blk
       PROVE  ChipPlace' = x /\ ~Early' /\ ChipHas'
  <2>1. ~Early' /\ ChipPlace' = x
    BY <1>5 DEF Early, ChipPlace
  <2>2. InOrder'
    BY <1>1, <1>5 DEF ChipHas, InOrder, Carries
  <2>3. QED
    BY <1>5, <2>1, <2>2 DEF ChipHas
<1>6. phase \in {"end", "closed"} => n = total_blk
  BY DEF ChipHas
<1> HIDE DEF b
<1>7. CASE phase = "invite"
  <2>1. ChipPlace = -1 /\ n = 0
    BY <1>1, <1>7, PlaceTypes DEF Early, ChipHas
  <2>2. x = 0 /\ b = InfoBlock
    BY <1>2, <1>4, <2>1 DEF InPlace
  <2>3. phase' = "data" /\ rcvd' = rcvd
    BY <1>3, <1>7, <2>2 DEF Receive, b
  <2>4. QED
    BY <2>1, <2>2, <2>3, <1>5
<1>8. CASE phase = "data" /\ x = n
  <2>1. b.kind # "eot" /\ ~(b.kind = "data" /\ b.num = (n + 1) % NumMod)
        /\ b.num = n % NumMod
    <3>1. n % NumMod # (n + 1) % NumMod
      BY <1>4, NumbersDiffer
    <3>2. QED
      BY <1>2, <1>3, <1>4, <1>8, <3>1 DEF InPlace
  <2>2. (n + 1) - 1 = n
    BY <1>4
  <2>3. phase' = phase /\ rcvd' = rcvd
    BY <1>8, <2>1, <2>2 DEF Receive, b, expected
  <2>4. QED
    BY <1>8, <1>5, <2>3
<1>9. CASE phase = "data" /\ x = n + 1 /\ n < total_blk
  <2>1. b.kind = "data" /\ b.num = (n + 1) % NumMod /\ Carries(b.dat, n + 1)
    BY <1>2, <1>4, <1>9 DEF InPlace
  <2>2. phase' = phase /\ rcvd' = Append(rcvd, b.dat)
    BY <1>9, <2>1 DEF Receive, b, expected
  <2>3. b.dat \in [from : Nat, got : Nat]
    BY <1>2 DEF Blocks
  <2>4. /\ Len(rcvd') = n + 1 /\ rcvd'[n + 1] = b.dat
        /\ \A k \in 1..n : rcvd'[k] = rcvd[k]
    BY <1>1, <2>2, <2>3
  <2>5. ASSUME NEW k \in 1..Len(rcvd') PROVE Carries(rcvd[k], k)'
    <3>1. Carries(rcvd'[k], k)
      <4>1. CASE k = n + 1
        BY <2>1, <2>4, <4>1
      <4>2. CASE k # n + 1
        <5>1. k \in 1..n
          BY <1>4, <2>4, <4>2
        <5>2. QED
          BY <2>4, <5>1 DEF ChipHas, InOrder
      <4>3. QED
        BY <4>1, <4>2
    <3>2. QED
      BY <1>1, <3>1 DEF Carries
  <2>6. InOrder'
    BY <1>4, <1>9, <2>4, <2>5 DEF InOrder
  <2>7. ~Early' /\ ChipPlace' = n + 1
    BY <1>9, <2>2, <2>4 DEF Early, ChipPlace
  <2>8. QED
    BY <1>9, <2>2, <2>6, <2>7 DEF ChipHas
<1>10. CASE phase = "data" /\ x = n + 1 /\ n = total_blk
  <2>1. b = EotByte
    BY <1>2, <1>4, <1>10 DEF InPlace
  <2>2. phase' = "end" /\ rcvd' = rcvd
    BY <1>3, <1>10, <2>1 DEF Receive, b
  <2>3. QED
    BY <1>10, <1>5, <2>2
<1>11. CASE phase = "end"
  <2>1. ChipPlace = total_blk + 1
    BY <1>11, PlaceTypes
  <2>2. \/ x = total_blk + 1 /\ b = EotByte
        \/ x = total_blk + 2 /\ b = NullBlock
    BY <1>2, <1>4, <2>1 DEF InPlace
  <2>3. rcvd' = rcvd /\ phase' = (IF x = total_blk + 1 THEN "end" ELSE "closed")
    BY <1>3, <1>4, <1>11, <2>2 DEF Receive, b
  <2>4. QED
    BY <1>4, <1>11, <1>5, <1>6, <2>2, <2>3
<1>12. CASE phase = "closed"
  <2>1. ChipPlace = total_blk + 2
    BY <1>12, PlaceTypes
  <2>2. x = total_blk + 2 /\ b = NullBlock
    BY <1>2, <1>4, <2>1 DEF InPlace
  <2>3. rcvd' = rcvd /\ phase' = "closed"
    BY <1>3, <1>12, <2>2 DEF Receive, b
  <2>4. QED
    BY <1>12, <1>5, <1>6, <2>2, <2>3
<1>13. QED
  <2>1. phase = "data" => x \in {n, n + 1}
    BY PlaceTypes
  <2>2. QED
    BY <1>1, <1>4, <1>7, <1>8, <1>9, <1>10, <1>11, <1>12, <2>1

\* A trail stays one while the queue and the place of the chip do.
LEMMA TrailKept ==
  ASSUME ~Intact => ~Intact', toDev' = toDev, Early' = Early, ChipPlace' = ChipPlace,
         \A x \in Int : Near(x) => Near(x)',
         TypeOK, NEW g \in Seq(Int), Len(g) = Len(toDev), Trail(g)
  PROVE  Trail(g)'
<1>1. Len(toDev) \in Nat /\ ChipPlace \in Int
  BY PlaceTypes
<1>2. \A k \in 1..Len(toDev) : InPlace(toDev[k], g[k])'
  BY PlaceStays DEF Trail, InPlace, Carries
<1>3. toDev # <<>> => Len(toDev) \in 1..Len(toDev) /\ g[Len(toDev)] \in Int
  BY <1>1 DEF TypeOK
<1>4. toDev = <<>> /\ ~Early => ChipPlace' \in {HostPlace' - Ahead', HostPlace'}
  <2>1. PICK c \in Int : c = ChipPlace
    BY <1>1
  <2>2. toDev = <<>> /\ ~Early => Near(c)
    BY <2>1 DEF Trail, Near
  <2>3. Near(c) => Near(c)'
    OBVIOUS
  <2>4. QED
    BY <2>1, <2>2, <2>3 DEF Near
<1>5. toDev # <<>> => /\ g[1] \in {ChipPlace', ChipPlace' + 1}
                      /\ g[Len(toDev)] \in {HostPlace' - Ahead', HostPlace'}
  <2>1. PICK n \in Nat : n = Len(toDev)
    BY <1>1
  <2>2. toDev # <<>> => Near(g[n])'
    BY <1>3, <2>1 DEF Trail, Near
  <2>3. QED
    BY <2>1, <2>2 DEF Near, Trail
<1>6. QED
  BY <1>2, <1>4, <1>5 DEF Trail

\* A block that is sent is the next one on the trail, or the last once more.
LEMMA TrailSent ==
  ASSUME ~Intact => ~Intact', toDev' = Append(toDev, blkbuf), Early' = Early,
         ChipPlace' = ChipPlace, HostPlace' = HostPlace, Ahead = 1, Ahead' = 0,
         TypeOK, Placed, Early => HostPlace = 0,
         NEW g \in Seq(Int), Len(g) = Len(toDev), Trail(g)
  PROVE  \E f \in Seq(Int) : Len(f) = Len(toDev') /\ Trail(f)'
<1>1. /\ Len(toDev) \in Nat /\ ChipPlace \in Int /\ HostPlace \in Int
      /\ toDev \in Seq(Blocks) /\ blkbuf \in Blocks
      /\ Early => ChipPlace = -1
  BY PlaceTypes DEF TypeOK
<1>2. PICK h \in Int : h = HostPlace
  BY <1>1
<1>3. PICK n \in Nat : n = Len(toDev)
  BY <1>1
<1> DEFINE f == Append(g, h)
<1>4. /\ f \in Seq(Int) /\ Len(f) = n + 1 /\ f[n + 1] = h
      /\ \A k \in 1..n : f[k] = g[k]
  BY <1>3, Put
<1>5. /\ Len(toDev') = n + 1 /\ toDev'[n + 1] = blkbuf
      /\ \A k \in 1..n : toDev'[k] = toDev[k]
  BY <1>1, <1>3, Put
<1> HIDE DEF f
<1>6. \A k \in 1..(n + 1) : InPlace(toDev[k], f[k])'
  <2>1. InPlace(blkbuf, h)
    BY <1>2 DEF Placed
  <2>2. \A k \in 1..n : InPlace(toDev[k], g[k])
    BY <1>3 DEF Trail
  <2>3. \A k \in 1..(n + 1) : InPlace(toDev'[k], f[k])
    <3> SUFFICES ASSUME NEW k \in 1..(n + 1) PROVE InPlace(toDev'[k], f[k])
      OBVIOUS
    <3>1. CASE k = n + 1
      BY <1>4, <1>5, <2>1, <3>1
    <3>2. CASE k # n + 1
      <4>1. k \in 1..n
        BY <1>3, <3>2
      <4>2. QED
        BY <1>4, <1>5, <2>2, <4>1
    <3>3. QED
      BY <3>1, <3>2
  <2>4. QED
    BY <2>3, PlaceStays DEF InPlace, Carries
<1>7. n # 0 => g[1] \in {ChipPlace, ChipPlace + 1} /\ g[n] \in {h - 1, h} /\ g[n] \in Int
  BY <1>1, <1>2, <1>3 DEF Trail
<1>8. \A k \in 1..n : f[k + 1] \in {f[k], f[k] + 1}
  <2> SUFFICES ASSUME NEW k \in 1..n PROVE f[k + 1] \in {f[k], f[k] + 1}
    OBVIOUS
  <2>1. CASE k = n
    BY <1>2, <1>3, <1>4, <1>7, <2>1
  <2>2. CASE k # n
    <3>1. k \in 1..(n - 1) /\ k + 1 \in 1..n
      BY <1>3, <2>2
    <3>2. g[k + 1] \in {g[k], g[k] + 1}
      BY <1>3, <3>1 DEF Trail
    <3>3. QED
      BY <1>4, <3>1, <3>2
  <2>3. QED
    BY <2>1, <2>2
<1>9. f[1] \in {ChipPlace, ChipPlace + 1}
  <2>1. CASE n # 0
    <3>1. 1 \in 1..n
      BY <1>3, <2>1
    <3>2. f[1] = g[1]
      BY <1>4, <3>1
    <3>3. QED
      BY <1>7, <2>1, <3>2
  <2>2. CASE n = 0
    <3>1. toDev = <<>> /\ f[1] = h
      <4>1. toDev = <<>>
        <5>1. toDev \in Seq(Blocks) /\ Len(toDev) = 0
          BY <1>1, <1>3, <2>2
        <5>2. QED
          BY <5>1
      <4>2. f[0 + 1] = h
        BY <1>4, <2>2
      <4>3. QED
        BY <4>1, <4>2
    <3>2. CASE Early
      <4>1. HostPlace = 0 /\ ChipPlace = -1
        BY <1>1, <3>2, Zenon
      <4>2. QED
        BY <1>2, <3>1, <4>1
    <3>3. CASE ~Early
      BY <1>1, <1>2, <3>1, <3>3 DEF Trail
    <3>4. QED
      BY <3>2, <3>3
  <2>3. QED
    BY <2>1, <2>2
<1>10. Early => \A k \in 1..(n + 1) : f[k] = 0
  <2> SUFFICES ASSUME Early, NEW k \in 1..(n + 1) PROVE f[k] = 0
    OBVIOUS
  <2>1. CASE k = n + 1
    BY <1>2, <1>4, <2>1
  <2>2. CASE k # n + 1
    <3>1. k \in 1..n
      BY <1>3, <2>2
    <3>2. QED
      BY <1>3, <1>4, <3>1 DEF Trail
  <2>3. QED
    BY <2>1, <2>2
<1>11. toDev' # <<>> /\ (n + 1) - 1 = n
  BY <1>3, <1>5
<1>12. Trail(f)'
  BY <1>2, <1>4, <1>5, <1>6, <1>8, <1>9, <1>10, <1>11 DEF Trail
<1>13. QED
  BY <1>4, <1>5, <1>12

\* The chip takes the head of the queue and moves to its place, or drops it
\* while it boots.
LEMMA TrailTaken ==
  ASSUME ~Intact => ~Intact', toDev # <<>>, toDev' = Tail(toDev),
         HostPlace' = HostPlace, Ahead' = Ahead, TypeOK,
         NEW g \in Seq(Int), Len(g) = Len(toDev), Trail(g),
         \/ ChipPlace' = g[1] /\ ~Early'
         \/ Early /\ Early' /\ ChipPlace' = ChipPlace
  PROVE  \E f \in Seq(Int) : Len(f) = Len(toDev') /\ Trail(f)'
<1>1. /\ ChipPlace \in Int /\ HostPlace \in Int /\ Ahead \in {0, 1}
      /\ toDev \in Seq(Blocks)
      /\ Early => ChipPlace = -1
  BY PlaceTypes DEF TypeOK
<1>2. PICK n \in Nat : n + 1 = Len(toDev)
  <2>1. Len(toDev) - 1 \in Nat /\ (Len(toDev) - 1) + 1 = Len(toDev)
    BY <1>1
  <2>2. QED
    BY <2>1
<1> DEFINE f == Tail(g)
<1>3. f \in Seq(Int) /\ Len(f) = n /\ \A k \in 1..n : f[k] = g[k + 1]
  <2>1. g # <<>>
    BY <1>2
  <2>2. QED
    BY <1>2, <2>1, Take
<1>4. Len(toDev') = n /\ \A k \in 1..n : toDev'[k] = toDev[k + 1]
  BY <1>1, <1>2, Take
<1> HIDE DEF f
<1>5. \A k \in 1..n : k + 1 \in 1..Len(toDev)
  BY <1>2
<1>6. \A k \in 1..n : InPlace(toDev[k], f[k])'
  <2>1. \A k \in 1..n : InPlace(toDev'[k], f[k])
    BY <1>3, <1>4, <1>5 DEF Trail
  <2>2. QED
    BY <2>1, PlaceStays DEF InPlace, Carries
<1>7. \A k \in 1..(n - 1) : f[k + 1] \in {f[k], f[k] + 1}
  <2> SUFFICES ASSUME NEW k \in 1..(n - 1) PROVE f[k + 1] \in {f[k], f[k] + 1}
    OBVIOUS
  <2>1. k + 1 \in 1..(Len(toDev) - 1) /\ k \in 1..n /\ k + 1 \in 1..n
    BY <1>2
  <2>2. g[(k + 1) + 1] \in {g[k + 1], g[k + 1] + 1}
    BY <2>1 DEF Trail
  <2>3. QED
    BY <1>3, <2>1, <2>2
<1>8. n # 0 => f[n] \in {HostPlace - Ahead, HostPlace} /\ f[n] = g[n + 1] /\ toDev' # <<>>
  <2> SUFFICES ASSUME n # 0
               PROVE  f[n] \in {HostPlace - Ahead, HostPlace} /\ f[n] = g[n + 1]
                      /\ toDev' # <<>>
    OBVIOUS
  <2>1. f[n] = g[n + 1]
    BY <1>2, <1>3
  <2>2. QED
    BY <1>2, <1>4, <2>1 DEF Trail
<1>9. n = 0 => toDev' = <<>> /\ g[1] \in {HostPlace - Ahead, HostPlace}
  <2> SUFFICES ASSUME n = 0 PROVE toDev' = <<>> /\ g[1] \in {HostPlace - Ahead, HostPlace}
    OBVIOUS
  <2>1. toDev' = <<>>
    BY <1>1, <1>4
  <2>2. QED
    BY <1>2, <2>1 DEF Trail
<1>10. CASE ChipPlace' = g[1] /\ ~Early'
  <2>1. n # 0 => f[1] \in {ChipPlace', ChipPlace' + 1}
    <3> SUFFICES ASSUME n # 0 PROVE f[1] \in {g[1], g[1] + 1}
      BY <1>10
    <3>1. 1 \in 1..(Len(toDev) - 1) /\ f[1] = g[1 + 1]
      BY <1>2, <1>3
    <3>2. QED
      BY <3>1 DEF Trail
  <2>2. Trail(f)'
    BY <1>2, <1>4, <1>6, <1>7, <1>8, <1>9, <1>10, <2>1 DEF Trail
  <2>3. QED
    BY <1>3, <1>4, <2>2
<1>11. CASE Early /\ Early' /\ ChipPlace' = ChipPlace
  <2>1. \A k \in 1..n : f[k] = 0
    BY <1>3, <1>5, <1>11 DEF Trail
  <2>2. n # 0 => f[1] \in {ChipPlace', ChipPlace' + 1}
    <3>1. n # 0 => f[1] = 0
      <4>1. n # 0 => 1 \in 1..n
        BY <1>2
      <4>2. 1 \in 1..n => f[1] = 0
        BY <2>1, Zenon
      <4>3. QED
        BY <4>1, <4>2, Zenon
    <3>2. ChipPlace' = -1
      BY <1>1, <1>11
    <3>3. QED
      BY <3>1, <3>2
  <2>3. Trail(f)'
    BY <1>2, <1>4, <1>6, <1>7, <1>8, <1>9, <1>11, <2>1, <2>2 DEF Trail
  <2>4. QED
    BY <1>3, <1>4, <2>3
<1>12. QED
  BY <1>10, <1>11

\* Taking a byte, or adding one that is no ACK, brings no ACK.
LEMMA NoAckComes ==
  ASSUME NEW q \in Seq(Bytes), NEW r,
         \/ r = q
         \/ q # <<>> /\ r = Tail(q)
         \/ \E b \in Bytes \ {"ACK"} : r = q \o <<b>>,
         \A k \in 1..Len(q) : q[k] # "ACK"
  PROVE  \A k \in 1..Len(r) : r[k] # "ACK"
<1>1. CASE r = q
  BY <1>1
<1>2. CASE q # <<>> /\ r = Tail(q)
  <2>1. /\ Len(q) \in Nat /\ Len(r) = Len(q) - 1
        /\ \A k \in 1..Len(r) : r[k] = q[k + 1]
    BY <1>2, Take
  <2>2. \A k \in 1..Len(r) : k + 1 \in 1..Len(q)
    BY <2>1
  <2>3. QED
    BY <2>1, <2>2
<1>3. ASSUME NEW b \in Bytes \ {"ACK"}, r = q \o <<b>>
      PROVE  \A k \in 1..Len(r) : r[k] # "ACK"
  <2>1. /\ Len(q) \in Nat /\ Len(r) = Len(q) + 1 /\ r[Len(q) + 1] = b
        /\ \A k \in 1..Len(q) : r[k] = q[k]
    BY <1>3, Put
  <2>2. \A k \in 1..Len(r) : k \in 1..Len(q) \/ k = Len(q) + 1
    BY <2>1
  <2>3. QED
    BY <2>1, <2>2
<1>4. QED
  BY <1>1, <1>2, <1>3

\* A step in which the chip stores nothing.
LEMMA OtherSteps ==
  ASSUME [Next]_vars, ~Receive
  PROVE  /\ rcvd' = rcvd
         /\ phase' = phase \/ (phase = "boot" /\ phase' = "invite")
         /\ DevStep \/ LineFault =>
              /\ UNCHANGED hostVars
              /\ \/ toDev' = toDev
                 \/ /\ toDev # <<>> /\ toDev' = Tail(toDev) /\ phase' = phase
                    /\ phase = "boot" \/ Corrupt \/ Lose
         /\ \/ toHost' = toHost
            \/ toHost # <<>> /\ toHost' = Tail(toHost)
            \/ \E b \in Bytes \ {"ACK"} : toHost' = toHost \o <<b>>
         /\ stage' = stage \/ stage' = "info" \/ Acked
<1>1. {"C", "stray", "NAK"} \subseteq Bytes \ {"ACK"}
  BY DEF Bytes
<1>2. ASSUME Boot \/ Invite
      PROVE  \/ toHost' = toHost
             \/ \E b \in Bytes \ {"ACK"} : toHost' = toHost \o <<b>>
  BY <1>1, <1>2 DEF Boot, Invite, Answer
<1>3. ASSUME Corrupt \/ Noise
      PROVE  \E b \in Bytes \ {"ACK"} : toHost' = toHost \o <<b>>
  BY <1>1, <1>3 DEF Corrupt, Noise, Answer
<1>4. \/ toHost' = toHost
      \/ toHost # <<>> /\ toHost' = Tail(toHost)
      \/ \E b \in Bytes \ {"ACK"} : toHost' = toHost \o <<b>>
  BY <1>2, <1>3 DEF Next, HostStep, DevStep, LineFault, WaitC, WaitCTimeout, BlkXmit,
         EotXmit, Acked, Naked, StrayByte, IoError, Tick, Lose, Resize, vars
<1>5. /\ rcvd' = rcvd
      /\ phase' = phase \/ (phase = "boot" /\ phase' = "invite")
      /\ stage' = stage \/ stage' = "info" \/ Acked
  BY DEF Next, HostStep, DevStep, LineFault, WaitC, WaitCTimeout, BlkXmit, EotXmit,
         Acked, Naked, StrayByte, IoError, Tick, Boot, Invite, Corrupt, Noise, Lose,
         Resize, Load, HostKeeps, DevKeeps, hostVars, devVars, vars
<1>6. DevStep \/ LineFault =>
        /\ UNCHANGED hostVars
        /\ \/ toDev' = toDev
           \/ /\ toDev # <<>> /\ toDev' = Tail(toDev) /\ phase' = phase
              /\ phase = "boot" \/ Corrupt \/ Lose
  BY DEF DevStep, LineFault, Boot, Invite, Corrupt, Noise, Lose, DevKeeps, devVars
<1>7. QED
  BY <1>4, <1>5, <1>6

\* While the chip is early nothing takes the host beyond the file info.
LEMMA NotAskedStays ==
  ASSUME TypeOK, NotAsked, [Next]_vars, ~Receive
  PROVE  NotAsked' /\ (Early' => Early) /\ (Early => Early')
<1>1. /\ phase' = phase \/ (phase = "boot" /\ phase' = "invite")
      /\ \/ toHost' = toHost
         \/ toHost # <<>> /\ toHost' = Tail(toHost)
         \/ \E b \in Bytes \ {"ACK"} : toHost' = toHost \o <<b>>
      /\ stage' = stage \/ stage' = "info" \/ Acked
  BY OtherSteps
<1>2. (Early' => Early) /\ (Early => Early')
  BY <1>1 DEF Early
<1> SUFFICES ASSUME Early
             PROVE  stage' = "info" /\ \A k \in 1..Len(toHost') : toHost'[k] # "ACK"
  BY <1>2 DEF NotAsked
<1>3. stage = "info" /\ \A k \in 1..Len(toHost) : toHost[k] # "ACK"
  BY DEF NotAsked
<1>4. ~Acked
  <2>1. SUFFICES ASSUME Acked PROVE FALSE
    OBVIOUS
  <2>2. toHost # <<>> /\ Head(toHost) = "ACK" /\ toHost \in Seq(Bytes)
    BY <2>1 DEF Acked, TypeOK
  <2>3. 1 \in 1..Len(toHost) /\ toHost[1] = "ACK"
    BY <2>2
  <2>4. QED
    BY <1>3, <2>3
<1>5. toHost \in Seq(Bytes)
  BY DEF TypeOK
<1>6. \A k \in 1..Len(toHost') : toHost'[k] # "ACK"
  BY <1>1, <1>3, <1>5, NoAckComes
<1>7. QED
  BY <1>1, <1>3, <1>4, <1>6

LEMMA NextClean ==
  ASSUME CleanInv, [Next]_vars
  PROVE  CleanInv'
<1>1. TypeOK /\ Reading /\ Placed /\ Spent /\ Clean
  BY DEF CleanInv
<1>2. TypeOK' /\ Reading' /\ Spent' /\ Placed'
  BY <1>1, NextType, NextReading, SpentStays, HostMoves
<1>3. ~Intact => ~Intact'
  BY <1>1, NotIntactStays DEF Spent
<1> SUFFICES ASSUME Undamaged'
             PROVE  /\ ChipHas' /\ NotAsked'
                    /\ \E f \in Seq(Int) : Len(f) = Len(toDev') /\ Trail(f)'
  BY <1>2 DEF CleanInv, Clean
<1>4. Undamaged /\ ~Corrupt /\ ~Lose
  BY <1>1, SpentStays
<1>5. ChipHas /\ NotAsked
  BY <1>1, <1>4 DEF Clean
<1>6. PICK g \in Seq(Int) : Len(g) = Len(toDev) /\ Trail(g)
  BY <1>1, <1>4 DEF Clean
<1>7. CASE Receive
  <2>1. toDev # <<>> /\ toDev' = Tail(toDev) /\ UNCHANGED hostVars
    BY <1>7 DEF Receive, DevKeeps
  <2>2. 1 \in 1..Len(toDev) /\ 1 \in 1..Len(g)
    BY <1>1, <1>6, <2>1 DEF TypeOK
  <2>3. PICK x \in Int : x = g[1]
    BY <2>2
  <2>4. InPlace(toDev[1], x) /\ x \in {ChipPlace, ChipPlace + 1}
    BY <1>6, <2>1, <2>2, <2>3 DEF Trail
  <2>5. ChipPlace' = x /\ ~Early' /\ ChipHas'
    BY <1>1, <1>5, <1>7, <2>4, ReceiveMoves
  <2>6. HostPlace' = HostPlace /\ Ahead' = Ahead
    BY <2>1 DEF HostPlace, Ahead, hostVars
  <2>7. \E f \in Seq(Int) : Len(f) = Len(toDev') /\ Trail(f)'
    BY <1>1, <1>3, <1>6, <2>1, <2>3, <2>5, <2>6, TrailTaken
  <2>8. QED
    BY <2>5, <2>7 DEF NotAsked
<1>8. CASE ~Receive
  <2>1. /\ rcvd' = rcvd
        /\ phase' = phase \/ (phase = "boot" /\ phase' = "invite")
        /\ DevStep \/ LineFault =>
             /\ UNCHANGED hostVars
             /\ \/ toDev' = toDev
                \/ phase = "boot" /\ phase' = phase /\ toDev # <<>> /\ toDev' = Tail(toDev)
    BY <1>4, <1>8, OtherSteps
  <2>2. Early' = Early /\ ChipPlace' = ChipPlace
    <3>1. CASE phase' = phase
      BY <2>1, <3>1 DEF Early, ChipPlace
    <3>2. CASE phase = "boot" /\ phase' = "invite"
      <4>1. Early /\ Early' /\ ChipPlace = -1 /\ ChipPlace' = -1
        BY <3>2 DEF Early, ChipPlace
      <4>2. QED
        BY <4>1
    <3>3. QED
      BY <2>1, <3>1, <3>2
  <2>3. ChipHas'
    <3>1. InOrder'
      BY <1>3, <1>5, <2>1 DEF ChipHas, InOrder, Carries
    <3>2. QED
      BY <1>5, <2>1, <2>2, <3>1 DEF ChipHas
  <2>4. NotAsked'
    BY <1>1, <1>5, <1>8, NotAskedStays
  <2>5. CASE /\ toDev' = toDev
             /\ \A x \in Int : Near(x) => Near(x)'
    BY <1>1, <1>3, <1>6, <2>2, <2>3, <2>4, <2>5, TrailKept
  <2>6. CASE /\ toDev' = Append(toDev, blkbuf) /\ HostPlace' = HostPlace
             /\ Ahead = 1 /\ Ahead' = 0
    <3>1. Early => HostPlace = 0
      BY <1>1, <1>5 DEF NotAsked, HostPlace, Reading
    <3>2. QED
      BY <1>1, <1>3, <1>6, <2>2, <2>3, <2>4, <2>6, <3>1, TrailSent
  <2>7. CASE DevStep \/ LineFault
    <3>1. HostPlace' = HostPlace /\ Ahead' = Ahead
      BY <2>1, <2>7 DEF HostPlace, Ahead, hostVars
    <3>2. \A x \in Int : Near(x) => Near(x)'
      BY <3>1 DEF Near
    <3>3. CASE toDev' = toDev
      BY <2>5, <3>2, <3>3
    <3>4. CASE /\ phase = "boot" /\ phase' = phase /\ toDev # <<>>
               /\ toDev' = Tail(toDev)
      <4>1. Early /\ Early' /\ ChipPlace' = ChipPlace
        BY <2>2, <3>4 DEF Early
      <4>2. QED
        BY <1>1, <1>3, <1>6, <2>3, <2>4, <3>1, <3>4, <4>1, TrailTaken
    <3>5. QED
      BY <2>1, <2>7, <3>3, <3>4
  <2>8. QED
    BY <1>1, <2>5, <2>6, <2>7, HostMoves
<1>9. QED
  BY <1>7, <1>8

LEMMA InitClean == Init => CleanInv
<1> SUFFICES ASSUME Init PROVE CleanInv
  OBVIOUS
<1>1. TypeOK /\ Reading
  BY InitType, InitOrdered
<1>2. /\ MaxResize \in Nat /\ MaxCorrupt \in Nat /\ MaxLoss \in Nat
      /\ total_blk \in Nat
  BY BlockCount, YmodemAssumption
<1>3. Spent
  BY <1>2 DEF Init, Spent
<1>4. Placed
  BY DEF Init, Placed, HostPlace, InPlace
<1>5. Len(rcvd) = 0 /\ Len(toDev) = 0 /\ Len(toHost) = 0 /\ Early
  BY DEF Init, Early
<1>6. ChipHas /\ NotAsked
  BY <1>2, <1>5 DEF Init, ChipHas, InOrder, NotAsked, Early
<1>7. <<>> \in Seq(Int) /\ Len(<<>>) = Len(toDev) /\ Trail(<<>>)
  BY <1>5 DEF Init, Trail
<1>8. Clean
  BY <1>6, <1>7 DEF Clean
<1>9. QED
  BY <1>1, <1>3, <1>4, <1>8 DEF CleanInv

LEMMA AlwaysClean == Spec => []CleanInv
<1>1. CleanInv /\ UNCHANGED vars => CleanInv'
  BY NextClean
<1>2. QED
  BY <1>1, InitClean, NextClean, PTL DEF Spec

(***************************************************************************)
(* Repeats are harmless while the line damages and loses nothing: when     *)
(* ymodem_xfer returns EXIT_SUCCESS, what the chip has stored and what is  *)
(* still on its way add up to the image, for every number of stray bytes   *)
(* and every modulus of the block numbers.                                 *)
(***************************************************************************)
THEOREM RepeatsDoNoHarm == Spec => []RepeatsHarmless
<1>1. CleanInv => RepeatsHarmless
  <2> SUFFICES ASSUME CleanInv, ret = "success", Undamaged, NEW i \in 1..total_blk
               PROVE  \/ i <= Len(rcvd) /\ Carries(rcvd[i], i)
                      \/ \E k \in DOMAIN toDev :
                           /\ toDev[k].kind = "data"
                           /\ toDev[k].num = i % NumMod
                           /\ Carries(toDev[k].dat, i)
    BY DEF RepeatsHarmless
  <2>1. TypeOK /\ Reading /\ ChipHas /\ NotAsked
    BY DEF CleanInv, Clean
  <2>2. PICK g \in Seq(Int) : Len(g) = Len(toDev) /\ Trail(g)
    BY DEF CleanInv, Clean
  <2>3. /\ total_blk \in Nat /\ Len(toDev) \in Nat /\ Len(rcvd) \in Nat
        /\ toDev \in Seq(Blocks)
    BY <2>1, PlaceTypes DEF TypeOK
  <2>4. stage = "null" /\ HostPlace = total_blk + 2 /\ Ahead = 0
    BY <2>1 DEF Reading, HostPlace, Ahead
  <2>5. ~Early
    BY <2>1, <2>4 DEF NotAsked
  <2>6. CASE i <= Len(rcvd)
    BY <2>1, <2>3, <2>6 DEF ChipHas, InOrder
  <2>7. CASE ~(i <= Len(rcvd))
    <3>1. ChipPlace = Len(rcvd) /\ phase = "data"
      <4>1. phase \notin {"end", "closed"}
        BY <2>1, <2>3, <2>7 DEF ChipHas
      <4>2. phase = "data"
        BY <2>1, <2>5, <4>1 DEF TypeOK, Early
      <4>3. QED
        BY <2>1, <4>2, PlaceTypes
    <3>2. toDev # <<>>
      <4>1. Len(rcvd) <= total_blk
        BY <2>1 DEF ChipHas, InOrder
      <4>2. QED
        BY <2>2, <2>3, <2>4, <2>5, <3>1, <4>1 DEF Trail
    <3>3. PICK n \in Nat \ {0} : n = Len(toDev)
      BY <2>3, <3>2
    <3>4. g[1] <= i /\ i <= g[n]
      <4>1. g[1] \in {Len(rcvd), Len(rcvd) + 1} /\ g[n] = total_blk + 2
        BY <2>2, <2>3, <2>4, <3>1, <3>2, <3>3 DEF Trail
      <4>2. QED
        BY <2>3, <2>7, <4>1
    <3>5. \A k \in 1..(n - 1) : g[k + 1] \in {g[k], g[k] + 1}
      BY <2>2, <3>3 DEF Trail
    <3>6. PICK k \in 1..n : g[k] = i
      <4>1. Len(g) = n /\ i \in Int
        BY <2>2, <3>3
      <4>2. QED
        BY <3>4, <3>5, <4>1, NoGap
    <3>7. InPlace(toDev[k], i) /\ k \in DOMAIN toDev
      BY <2>2, <2>3, <3>3, <3>6 DEF Trail
    <3>8. QED
      BY <2>3, <3>7 DEF InPlace
  <2>8. QED
    BY <2>6, <2>7
<1>2. QED
  BY <1>1, AlwaysClean, PTL

(***************************************************************************)
(* On a line that has damaged and lost nothing the chip stores the blocks  *)
(* in order also when their numbers wrap, as those of every image beyond   *)
(* 255 blocks do.                                                          *)
(***************************************************************************)
THEOREM OrderSurvivesWrap == Spec => [](Undamaged => InOrder)
<1>1. CleanInv => (Undamaged => InOrder)
  BY DEF CleanInv, Clean, ChipHas
<1>2. QED
  BY <1>1, AlwaysClean, PTL

-----------------------------------------------------------------------------
(* Numbers that wrap, on a line with a bounded number of faults *)

NakAt(q) == {k \in 1..Len(q) : q[k] = "NAK"}

Naks(q) == Cardinality(NakAt(q))

LEMMA NakCount ==
  ASSUME NEW q \in Seq(Bytes)
  PROVE  /\ IsFiniteSet(NakAt(q)) /\ Naks(q) \in Nat /\ Naks(q) <= Len(q)
         /\ NakAt(q) \subseteq 1..Len(q)
<1>1. Len(q) \in Nat
  OBVIOUS
<1>2. IsFiniteSet(1..Len(q)) /\ Cardinality(1..Len(q)) = Len(q)
  BY <1>1, FS_Interval
<1>3. NakAt(q) \in SUBSET (1..Len(q))
  BY DEF NakAt
<1>4. IsFiniteSet(NakAt(q)) /\ Cardinality(NakAt(q)) <= Len(q)
  BY <1>2, <1>3, FS_Subset
<1>5. QED
  BY <1>3, <1>4, FS_CardinalityType DEF Naks

LEMMA NakAdded ==
  ASSUME NEW q \in Seq(Bytes), NEW b \in Bytes
  PROVE  Naks(q \o <<b>>) = IF b = "NAK" THEN Naks(q) + 1 ELSE Naks(q)
<1> DEFINE n == Len(q)
           r == q \o <<b>>
<1>1. /\ n \in Nat /\ Len(r) = n + 1 /\ r[n + 1] = b
      /\ \A k \in 1..n : r[k] = q[k]
  BY Put
<1> HIDE DEF r
<1>2. n + 1 \notin NakAt(q) /\ IsFiniteSet(NakAt(q))
  BY <1>1, NakCount
<1>3. CASE b = "NAK"
  <2>1. NakAt(r) = NakAt(q) \cup {n + 1}
    BY <1>1, <1>3 DEF NakAt
  <2>2. QED
    BY <1>2, <1>3, <2>1, FS_AddElement DEF Naks, r
<1>4. CASE b # "NAK"
  <2>1. NakAt(r) = NakAt(q)
    BY <1>1, <1>4 DEF NakAt
  <2>2. QED
    BY <1>4, <2>1 DEF Naks, r
<1>5. QED
  BY <1>3, <1>4

LEMMA NakTaken ==
  ASSUME NEW q \in Seq(Bytes), q # <<>>
  PROVE  Naks(Tail(q)) = IF q[1] = "NAK" THEN Naks(q) - 1 ELSE Naks(q)
<1> DEFINE S == NakAt(q) \ {1}
           T == NakAt(Tail(q))
           f == [k \in S |-> k - 1]
<1>1. /\ Len(q) \in Nat /\ Len(q) > 0 /\ Len(Tail(q)) = Len(q) - 1
      /\ \A k \in 1..Len(Tail(q)) : Tail(q)[k] = q[k + 1]
  BY Take
<1>2. \A k : k \in S <=> k \in 2..Len(q) /\ q[k] = "NAK"
  BY <1>1 DEF NakAt
<1>3. \A k : k \in T <=> k \in 1..(Len(q) - 1) /\ q[k + 1] = "NAK"
  BY <1>1 DEF NakAt
<1> HIDE DEF S, T
<1>4. f \in Bijection(S, T)
  <2>1. f \in [S -> T]
    <3>1. ASSUME NEW k \in S PROVE k - 1 \in T
      <4>1. k \in 2..Len(q) /\ q[k] = "NAK" /\ (k - 1) + 1 = k
        BY <1>2
      <4>2. QED
        BY <1>1, <1>3, <4>1
    <3>2. QED
      BY <3>1
  <2>2. \A a, b \in S : f[a] = f[b] => a = b
    BY <1>1, <1>2
  <2>3. \A t \in T : \E s \in S : f[s] = t
    <3> SUFFICES ASSUME NEW t \in T PROVE \E s \in S : f[s] = t
      OBVIOUS
    <3>1. t \in 1..(Len(q) - 1) /\ q[t + 1] = "NAK"
      BY <1>3
    <3>2. t + 1 \in S /\ (t + 1) - 1 = t
      BY <1>1, <1>2, <3>1
    <3>3. QED
      BY <3>2
  <2> HIDE DEF f
  <2>4. f \in Injection(S, T)
    BY <2>1, <2>2 DEF Injection, IsInjective
  <2>5. f \in Surjection(S, T)
    BY <2>1, <2>3, Zenon DEF Surjection
  <2>6. QED
    BY <2>4, <2>5 DEF Bijection
<1>5. ExistsBijection(S, T)
  BY <1>4 DEF ExistsBijection
<1>6. IsFiniteSet(NakAt(q)) /\ (1 \in NakAt(q) <=> q[1] = "NAK")
  <2>1. IsFiniteSet(NakAt(q))
    BY NakCount
  <2>2. 1 \in NakAt(q) <=> q[1] = "NAK"
    BY <1>1 DEF NakAt
  <2>3. QED
    BY <2>1, <2>2
<1>7. IsFiniteSet(S) /\ Cardinality(S) = IF q[1] = "NAK" THEN Naks(q) - 1 ELSE Naks(q)
  BY <1>6, FS_RemoveElement DEF S, Naks
<1>8. Cardinality(T) = Cardinality(S)
  BY <1>5, <1>7, FS_Bijection
<1>9. QED
  BY <1>7, <1>8 DEF T, Naks

\* Numbers less than a modulus apart differ on the wire.
LEMMA SameNumber ==
  ASSUME NEW i \in Nat, NEW j \in Nat, i % NumMod = j % NumMod,
         i - j < NumMod, j - i < NumMod
  PROVE  i = j
<1> DEFINE m == NumMod
           p == i \div m
           q == j \div m
           r == i % m
<1>1. m \in Nat /\ m \in Nat \ {0}
  BY YmodemAssumption
<1>2. i - j < m /\ j - i < m /\ j % m = r
  OBVIOUS
<1> HIDE DEF m
<1>3. p \in Nat /\ r \in 0..(m - 1) /\ i = m * p + r
  BY <1>1, DivMod
<1>4. q \in Nat /\ j = m * q + r
  BY <1>1, <1>2, DivMod
<1> HIDE DEF p, q, r
<1>5. ASSUME p >= q + 1 PROVE FALSE
  <2>1. m * p >= m * (q + 1)
    BY <1>1, <1>3, <1>4, <1>5
  <2>2. m * (q + 1) = m * q + m
    BY <1>1, <1>4
  <2>3. m * p \in Nat /\ m * q \in Nat
    BY <1>1, <1>3, <1>4
  <2>4. QED
    BY <1>1, <1>2, <1>3, <1>4, <2>1, <2>2, <2>3
<1>6. ASSUME q >= p + 1 PROVE FALSE
  <2>1. m * q >= m * (p + 1)
    BY <1>1, <1>3, <1>4, <1>6
  <2>2. m * (p + 1) = m * p + m
    BY <1>1, <1>3
  <2>3. m * p \in Nat /\ m * q \in Nat
    BY <1>1, <1>3, <1>4
  <2>4. QED
    BY <1>1, <1>2, <1>3, <1>4, <2>1, <2>2, <2>3
<1>7. p = q
  BY <1>3, <1>4, <1>5, <1>6
<1>8. QED
  BY <1>3, <1>4, <1>7

\* Blocks on their way to the chip, answers on their way back, and the bytes
\* that may still be inserted, each of which can make the host send a block.
ToSend == IF pc = "blk_xmit" THEN 1 ELSE 0

Traffic == Len(toDev) + Len(toHost) + ToSend + budget.noise

TrafficInv ==
  /\ Len(toDev) <= LineCap
  /\ budget.noise <= MaxNoise
  /\ Early => Traffic <= 2 * LineCap + MaxNoise + 1
  /\ phase = "data" => Traffic <= 2 * LineCap + MaxNoise + 2

\* The queue never goes backwards, and ends where the host is.
Queue(g) ==
  /\ \A k \in 1..Len(toDev) : InPlace(toDev[k], g[k])
  /\ \A k \in 1..(Len(toDev) - 1) : g[k + 1] >= g[k]
  /\ \A k \in 1..Len(toDev) :
       g[k] <= HostPlace /\ HostPlace - Ahead - (Len(toDev) - k) <= g[k]

\* The place of the first block the chip may still get.
Front(g) == IF toDev = <<>> THEN HostPlace ELSE g[1]

\* The place of the last block the host sent.
Sent == HostPlace - Ahead

\* Blocks the chip may still get, blocks it refused, and what was lost.
Owed == Len(toDev) + Naks(toHost) + (MaxLoss - budget.loss)

\* The host is ahead of the chip by no more than that.
Gap == Sent - Len(rcvd) <= Owed

Asked ==
  /\ InOrder /\ NotAsked
  /\ Early => rcvd = <<>>
  /\ Len(rcvd) <= HostPlace

WrapInv ==
  /\ TypeOK /\ Reading /\ Placed /\ Spent /\ TrafficInv /\ Asked
  /\ \E g \in Seq(Int) : /\ Len(g) = Len(toDev) /\ Queue(g)
                         /\ phase = "data" /\ Front(g) <= total_blk => Gap

LEMMA TrafficTypes ==
  ASSUME TypeOK
  PROVE  /\ Len(toDev) \in Nat /\ Len(toHost) \in Nat /\ ToSend \in {0, 1}
         /\ budget.noise \in Nat /\ budget.loss \in Nat /\ Naks(toHost) \in Nat
         /\ Naks(toHost) <= Len(toHost)
         /\ LineCap \in Nat \ {0} /\ MaxNoise \in Nat /\ MaxLoss \in Nat
         /\ toDev \in Seq(Blocks) /\ toHost \in Seq(Bytes)
         /\ rcvd \in Seq([from : Nat, got : Nat])
         /\ budget \in [corrupt : Nat, noise : Nat, loss : Nat, resize : Nat]
<1>1. toDev \in Seq(Blocks) /\ toHost \in Seq(Bytes)
      /\ rcvd \in Seq([from : Nat, got : Nat])
      /\ budget \in [corrupt : Nat, noise : Nat, loss : Nat, resize : Nat]
  BY DEF TypeOK
<1>2. Len(toDev) \in Nat /\ Len(toHost) \in Nat
      /\ budget.noise \in Nat /\ budget.loss \in Nat
  BY <1>1
<1>3. ToSend \in {0, 1}
  BY DEF ToSend
<1>4. Naks(toHost) \in Nat /\ Naks(toHost) <= Len(toHost)
  BY <1>1, NakCount
<1>5. QED
  BY <1>1, <1>2, <1>3, <1>4, YmodemAssumption

\* Every answer was a block before, and every block an answer or a byte that
\* was inserted; only the chip that invites adds bytes of its own.
LEMMA TrafficStays ==
  ASSUME TypeOK, TypeOK', Reading, TrafficInv, [Next]_vars
  PROVE  TrafficInv'
<1>1. /\ Len(toDev) \in Nat /\ Len(toHost) \in Nat /\ ToSend \in {0, 1}
      /\ budget.noise \in Nat /\ LineCap \in Nat \ {0} /\ MaxNoise \in Nat
      /\ toDev \in Seq(Blocks) /\ toHost \in Seq(Bytes) /\ blkbuf \in Blocks
      /\ ToSend' \in {0, 1}
  BY TrafficTypes DEF ToSend, TypeOK
<1>2. Traffic \in Int /\ Traffic' \in Int
  <2>1. /\ toDev' \in Seq(Blocks) /\ toHost' \in Seq(Bytes)
        /\ budget' \in [corrupt : Nat, noise : Nat, loss : Nat, resize : Nat]
    BY DEF TypeOK
  <2>2. Len(toDev') \in Nat /\ Len(toHost') \in Nat /\ budget'.noise \in Nat
    BY <2>1
  <2>3. QED
    BY <1>1, <2>2 DEF Traffic
<1>3. ASSUME Len(toDev') <= LineCap, budget'.noise <= MaxNoise,
             Early' = Early, phase' = "data" => phase = "data",
             Traffic' <= Traffic
      PROVE  TrafficInv'
  BY <1>2, <1>1, <1>3 DEF TrafficInv
<1>4. CASE WaitC \/ Acked \/ Naked \/ StrayByte
  <2>1. /\ toHost # <<>> /\ toHost' = Tail(toHost) /\ toDev' = toDev
        /\ UNCHANGED <<phase, budget>> /\ ToSend = 0
    BY <1>4 DEF WaitC, Acked, Naked, StrayByte, HostKeeps, devVars, ToSend
  <2>2. Len(toHost') = Len(toHost) - 1
    BY <1>1, <2>1, Take
  <2>3. Traffic' <= Traffic
    BY <1>1, <2>1, <2>2 DEF Traffic
  <2>4. QED
    BY <1>3, <2>1, <2>3 DEF TrafficInv, Early
<1>5. CASE (BlkXmit \/ EotXmit) /\ toDev' = Append(toDev, blkbuf)
  <2>1. /\ toHost' = toHost /\ UNCHANGED <<phase, budget>> /\ ToSend = 1 /\ ToSend' = 0
        /\ Len(toDev) < LineCap
    BY <1>5 DEF BlkXmit, EotXmit, HostKeeps, devVars, ToSend, Return
  <2>2. Len(toDev') = Len(toDev) + 1
    BY <1>1, <1>5, Put
  <2>3. Traffic' <= Traffic
    BY <1>1, <2>1, <2>2 DEF Traffic
  <2>4. QED
    BY <1>1, <1>3, <2>1, <2>2, <2>3 DEF TrafficInv, Early
<1>6. CASE /\ UNCHANGED <<toDev, toHost, phase>> /\ budget'.noise = budget.noise
           /\ ToSend' <= ToSend
  <2>1. Traffic' <= Traffic
    BY <1>1, <1>6 DEF Traffic
  <2>2. QED
    BY <1>3, <1>6, <2>1 DEF TrafficInv, Early
<1>7. CASE WaitCTimeout \/ IoError \/ (BlkXmit /\ Return("error"))
  <2>1. /\ UNCHANGED <<toDev, toHost, phase, budget>> /\ ToSend' = 0
    BY <1>7 DEF WaitCTimeout, IoError, BlkXmit, Return, HostKeeps, devVars, ToSend
  <2>2. QED
    BY <1>1, <1>6, <2>1
<1>8. CASE Tick \/ Resize \/ UNCHANGED vars
  <2>1. UNCHANGED <<toDev, toHost, phase, pc>>
    BY <1>8 DEF Tick, Resize, hostVars, devVars, vars
  <2>2. budget'.noise = budget.noise
    BY <1>8, TrafficTypes DEF Tick, Resize, vars
  <2>3. ToSend' = ToSend
    BY <2>1 DEF ToSend
  <2>4. QED
    BY <1>1, <1>6, <2>1, <2>2, <2>3
<1>9. CASE Boot \/ Invite
  <2>1. /\ Early /\ Early' /\ phase' # "data" /\ UNCHANGED <<budget, pc>>
    BY <1>9 DEF Boot, Invite, Early, DevKeeps, hostVars
  <2>2. ToSend' = ToSend
    BY <2>1 DEF ToSend
  <2>3. CASE UNCHANGED <<toDev, toHost>>
    <3>1. Traffic' <= Traffic
      BY <1>1, <2>1, <2>2, <2>3 DEF Traffic
    <3>2. QED
      BY <1>3, <2>1, <2>3, <3>1 DEF TrafficInv
  <2>4. CASE toHost' = toHost /\ toDev # <<>> /\ toDev' = Tail(toDev)
    <3>1. Len(toDev') = Len(toDev) - 1
      BY <1>1, <2>4, Take
    <3>2. Traffic' <= Traffic
      BY <1>1, <2>1, <2>2, <2>4, <3>1 DEF Traffic
    <3>3. QED
      BY <1>1, <1>3, <2>1, <3>1, <3>2 DEF TrafficInv
  <2>5. ASSUME toDev' = toDev, Len(toHost) < LineCap,
               \E b \in {"C", "stray"} : toHost' = toHost \o <<b>>
        PROVE  TrafficInv'
    <3>1. Len(toHost') = Len(toHost) + 1
      BY <1>1, <2>5, Put DEF Bytes
    <3>2. Len(toDev) <= LineCap /\ budget.noise <= MaxNoise
      BY DEF TrafficInv
    <3>3. Traffic' <= 2 * LineCap + MaxNoise + 1
      BY <1>1, <2>1, <2>2, <2>5, <3>1, <3>2 DEF Traffic
    <3>4. QED
      BY <2>1, <2>5, <3>2, <3>3 DEF TrafficInv
  <2>6. QED
    BY <1>9, <2>3, <2>4, <2>5 DEF Boot, Invite, Answer
<1>10. CASE Receive
  <2>1. /\ toDev # <<>> /\ toDev' = Tail(toDev) /\ UNCHANGED <<budget, pc>>
        /\ \/ toHost' = toHost \o <<"ACK">> \/ toHost' = toHost \o <<"NAK">>
           \/ toHost' = toHost \o <<"ACK", "C">>
    BY <1>10 DEF Receive, DevKeeps, hostVars, Answer
  <2>2. Len(toDev') = Len(toDev) - 1 /\ ToSend' = ToSend
    BY <1>1, <2>1, Take DEF ToSend
  <2>3. CASE toHost' = toHost \o <<"ACK">> \/ toHost' = toHost \o <<"NAK">>
    <3>1. Len(toHost') = Len(toHost) + 1
      BY <1>1, <2>3, Put DEF Bytes
    <3>2. Traffic' <= Traffic
      BY <1>1, <2>1, <2>2, <3>1 DEF Traffic
    <3>3. toHost' # toHost \o <<"ACK", "C">>
      BY <1>1, <3>1, PutTwo DEF Bytes
    <3>4. Early' = Early /\ (phase' = "data" => phase = "data")
      BY <1>10, <3>3 DEF Receive, Early, Answer
    <3>5. QED
      BY <1>1, <1>3, <2>1, <2>2, <3>2, <3>4 DEF TrafficInv
  <2>4. CASE toHost' = toHost \o <<"ACK", "C">>
    <3>1. Len(toHost') = Len(toHost) + 2
      BY <1>1, <2>4, PutTwo DEF Bytes
    <3>2. Traffic' <= Traffic + 1
      BY <1>1, <2>1, <2>2, <3>1 DEF Traffic
    <3>3. /\ toHost' # toHost \o <<"ACK">> /\ toHost' # toHost \o <<"NAK">>
      BY <1>1, <3>1, Put DEF Bytes
    <3>4. ~Early' /\ (phase' = "data" => Early)
      BY <1>10, <3>3 DEF Receive, Early, Answer
    <3>5. QED
      BY <1>2, <1>1, <2>1, <2>2, <3>2, <3>4 DEF TrafficInv
  <2>5. QED
    BY <2>1, <2>3, <2>4
<1>11. CASE Corrupt
  <2>1. /\ toDev # <<>> /\ toDev' = Tail(toDev) /\ UNCHANGED <<phase, pc>>
        /\ toHost' = toHost \o <<"NAK">>
    BY <1>11 DEF Corrupt, DevKeeps, hostVars, devVars, Answer
  <2>2. budget'.noise = budget.noise
    BY <1>11, TrafficTypes DEF Corrupt
  <2>3. /\ Len(toDev') = Len(toDev) - 1 /\ ToSend' = ToSend
        /\ Len(toHost') = Len(toHost) + 1
    BY <1>1, <2>1, Take, Put DEF ToSend, Bytes
  <2>4. Traffic' <= Traffic
    BY <1>1, <2>2, <2>3 DEF Traffic
  <2>5. QED
    BY <1>1, <1>3, <2>1, <2>2, <2>3, <2>4 DEF TrafficInv, Early
<1>12. CASE LineFault
  <2>1. UNCHANGED <<phase, pc>>
    BY <1>12 DEF LineFault, Noise, Lose, DevKeeps, hostVars, devVars
  <2>2. ToSend' = ToSend
    BY <2>1 DEF ToSend
  <2>3. CASE Noise
    <3>1. /\ toDev' = toDev /\ toHost' = toHost \o <<"stray">>
          /\ budget'.noise = budget.noise - 1
      BY <2>3, TrafficTypes DEF Noise, Answer
    <3>2. Len(toHost') = Len(toHost) + 1
      BY <1>1, <3>1, Put DEF Bytes
    <3>3. Traffic' <= Traffic
      BY <1>1, <2>2, <3>1, <3>2 DEF Traffic
    <3>4. QED
      BY <1>1, <1>3, <2>1, <3>1, <3>3 DEF TrafficInv, Early
  <2>4. CASE Lose
    <3>1. budget'.noise = budget.noise
      BY <2>4, TrafficTypes DEF Lose
    <3>2. Len(toDev') <= Len(toDev) /\ Len(toHost') <= Len(toHost)
          /\ Len(toDev') \in Nat /\ Len(toHost') \in Nat
      <4>1. /\ toDev' = toDev \/ (toDev # <<>> /\ toDev' = Tail(toDev))
            /\ toHost' = toHost \/ (toHost # <<>> /\ toHost' = Tail(toHost))
        BY <2>4 DEF Lose
      <4>2. toDev # <<>> => Len(Tail(toDev)) = Len(toDev) - 1 /\ Len(toDev) > 0
        BY <1>1, Take
      <4>3. toHost # <<>> => Len(Tail(toHost)) = Len(toHost) - 1 /\ Len(toHost) > 0
        BY <1>1, Take
      <4>4. QED
        BY <1>1, <4>1, <4>2, <4>3
    <3>3. Traffic' <= Traffic
      BY <1>1, <2>2, <3>1, <3>2 DEF Traffic
    <3>4. QED
      BY <1>1, <1>3, <2>1, <3>1, <3>2, <3>3 DEF TrafficInv, Early
  <2>5. QED
    BY <1>12, <2>3, <2>4 DEF LineFault
<1>13. QED
  BY <1>4, <1>5, <1>7, <1>8, <1>9, <1>10, <1>11, <1>12
     DEF Next, HostStep, DevStep, BlkXmit, EotXmit

LEMMA SentTypes ==
  ASSUME TypeOK, TypeOK'
  PROVE  /\ Sent \in Int /\ Sent' \in Int /\ HostPlace \in Int /\ HostPlace' \in Int
         /\ Ahead \in {0, 1} /\ Ahead' \in {0, 1}
         /\ Owed \in Int /\ Owed' \in Int /\ MaxLoss \in Nat
         /\ Len(toDev) \in Nat /\ Len(toDev') \in Nat
         /\ Naks(toHost) \in Nat /\ Naks(toHost') \in Nat
         /\ budget.loss \in Nat /\ budget'.loss \in Nat /\ Len(rcvd) \in Nat
         /\ toDev \in Seq(Blocks) /\ toHost \in Seq(Bytes)
<1>1. /\ HostPlace \in Int /\ Ahead \in {0, 1} /\ Len(toDev) \in Nat /\ Len(rcvd) \in Nat
      /\ total_blk \in Nat
  BY PlaceTypes
<1>2. /\ Naks(toHost) \in Nat /\ budget.loss \in Nat /\ MaxLoss \in Nat
      /\ toDev \in Seq(Blocks) /\ toHost \in Seq(Bytes)
  BY TrafficTypes
<1>3. HostPlace' \in Int /\ Ahead' \in {0, 1}
  <2>1. i_blk' \in 0..(total_blk + 1)
    BY DEF TypeOK
  <2>2. QED
    BY <1>1, <2>1 DEF HostPlace, Ahead
<1>4. Len(toDev') \in Nat /\ Naks(toHost') \in Nat /\ budget'.loss \in Nat
  <2>1. /\ toDev' \in Seq(Blocks) /\ toHost' \in Seq(Bytes)
        /\ budget' \in [corrupt : Nat, noise : Nat, loss : Nat, resize : Nat]
    BY DEF TypeOK
  <2>2. Naks(toHost') \in Nat
    BY <2>1, NakCount
  <2>3. QED
    BY <2>1, <2>2
<1>5. Sent \in Int /\ Sent' \in Int
  BY <1>1, <1>3 DEF Sent
<1>6. Owed \in Int /\ Owed' \in Int
  <2>1. Owed \in Int
    BY <1>1, <1>2 DEF Owed
  <2>2. Owed' \in Int
    BY <1>2, <1>4 DEF Owed
  <2>3. QED
    BY <2>1, <2>2
<1>7. QED
  BY <1>1, <1>2, <1>3, <1>4, <1>5, <1>6

\* The same numbers under names that a step leaves alone.
LEMMA SentNumbers ==
  ASSUME TypeOK, TypeOK'
  PROVE  \E h \in Int, hh \in Int, a \in {0, 1}, aa \in {0, 1},
            n \in Nat, nn \in Nat, k \in Nat, kk \in Nat, l \in Nat, ll \in Nat,
            c \in Nat :
           /\ h = HostPlace /\ hh = HostPlace' /\ a = Ahead /\ aa = Ahead'
           /\ n = Len(toDev) /\ nn = Len(toDev')
           /\ k = Naks(toHost) /\ kk = Naks(toHost')
           /\ l = budget.loss /\ ll = budget'.loss /\ c = Len(rcvd)
           /\ Sent = h - a /\ Sent' = hh - aa
           /\ Owed = n + k + (MaxLoss - l) /\ Owed' = nn + kk + (MaxLoss - ll)
<1>1. PICK h \in Int, hh \in Int, a \in {0, 1}, aa \in {0, 1} :
        h = HostPlace /\ hh = HostPlace' /\ a = Ahead /\ aa = Ahead'
  BY SentTypes
<1>2. PICK n \in Nat, nn \in Nat, k \in Nat, kk \in Nat :
        /\ n = Len(toDev) /\ nn = Len(toDev')
        /\ k = Naks(toHost) /\ kk = Naks(toHost')
  BY SentTypes
<1>3. PICK l \in Nat, ll \in Nat, c \in Nat :
        l = budget.loss /\ ll = budget'.loss /\ c = Len(rcvd)
  BY SentTypes
<1>4. Sent = h - a /\ Sent' = hh - aa
  BY <1>1 DEF Sent
<1>5. Owed = n + k + (MaxLoss - l) /\ Owed' = nn + kk + (MaxLoss - ll)
  BY <1>2, <1>3 DEF Owed
<1>6. QED
  BY <1>1, <1>2, <1>3, <1>4, <1>5

\* A host that stays near what it sent never goes back.
LEMMA NearMoves ==
  ASSUME TypeOK, TypeOK', \A x \in Int : Near(x) => Near(x)'
  PROVE  \E h \in Int, hh \in Int, a \in {0, 1}, aa \in {0, 1} :
           /\ h = HostPlace /\ hh = HostPlace' /\ a = Ahead /\ aa = Ahead'
           /\ hh >= h /\ hh - aa <= h - a
<1>1. PICK h \in Int, hh \in Int, a \in {0, 1}, aa \in {0, 1} :
        h = HostPlace /\ hh = HostPlace' /\ a = Ahead /\ aa = Ahead'
  BY SentTypes
<1>2. \A x \in Int : x \in {h - a, h} => x \in {hh - aa, hh}
  BY <1>1 DEF Near
<1>3. h - a \in {hh - aa, hh} /\ h \in {hh - aa, hh}
  BY <1>2
<1>4. hh >= h /\ hh - aa <= h - a
  BY <1>3
<1>5. QED
  BY <1>1, <1>4

LEMMA QueueKept ==
  ASSUME ~Intact => ~Intact', toDev' = toDev, TypeOK, TypeOK',
         \A x \in Int : Near(x) => Near(x)',
         NEW g \in Seq(Int), Len(g) = Len(toDev), Queue(g)
  PROVE  Queue(g)' /\ (Front(g)' <= total_blk => Front(g) <= total_blk)
<1>1. Len(toDev) \in Nat /\ toDev \in Seq(Blocks)
  BY PlaceTypes DEF TypeOK
<1>2. \A k \in 1..Len(toDev) : InPlace(toDev[k], g[k])'
  BY PlaceStays DEF Queue, InPlace, Carries
<1>3. PICK h \in Int, hh \in Int, a \in {0, 1}, aa \in {0, 1} :
        /\ h = HostPlace /\ hh = HostPlace' /\ a = Ahead /\ aa = Ahead'
        /\ hh >= h /\ hh - aa <= h - a
  BY NearMoves
<1>4. ASSUME NEW k \in 1..Len(toDev)
      PROVE  g[k] <= HostPlace' /\ HostPlace' - Ahead' - (Len(toDev) - k) <= g[k]
  <2>1. g[k] \in Int /\ k \in Int
    BY <1>1
  <2>2. g[k] <= HostPlace /\ HostPlace - Ahead - (Len(toDev) - k) <= g[k]
    BY DEF Queue
  <2>3. PICK n \in Nat : n = Len(toDev)
    BY <1>1
  <2>4. PICK x \in Int : x = g[k]
    BY <2>1
  <2>5. x <= h /\ h - a - (n - k) <= x
    BY <1>3, <2>2, <2>3, <2>4
  <2>6. x <= hh /\ hh - aa - (n - k) <= x
    <3>1. h <= hh /\ hh - aa <= h - a /\ k \in Int
      BY <1>3, <2>1
    <3>2. QED
      BY <2>5, <3>1
  <2>7. QED
    BY <1>3, <2>3, <2>4, <2>6
<1>5. Queue(g)'
  BY <1>2, <1>4 DEF Queue
<1>6. Front(g)' <= total_blk => Front(g) <= total_blk
  <2>1. CASE toDev = <<>>
    <3>1. Front(g) = h /\ Front(g)' = hh
      BY <1>3, <2>1 DEF Front
    <3>2. hh <= total_blk => h <= total_blk
      BY <1>3, PlaceTypes
    <3>3. QED
      BY <3>1, <3>2
  <2>2. CASE toDev # <<>>
    BY <2>2 DEF Front
  <2>3. QED
    BY <2>1, <2>2
<1>7. QED
  BY <1>5, <1>6

LEMMA QueueSent ==
  ASSUME ~Intact => ~Intact', toDev' = Append(toDev, blkbuf), TypeOK, Placed,
         HostPlace' = HostPlace, Ahead = 1, Ahead' = 0,
         NEW g \in Seq(Int), Len(g) = Len(toDev), Queue(g)
  PROVE  \E f \in Seq(Int) : /\ Len(f) = Len(toDev') /\ Queue(f)'
                             /\ Front(f)' <= total_blk => Front(g) <= total_blk
<1>1. /\ Len(toDev) \in Nat /\ HostPlace \in Int
      /\ toDev \in Seq(Blocks) /\ blkbuf \in Blocks
  BY PlaceTypes DEF TypeOK
<1>2. PICK h \in Int : h = HostPlace
  BY <1>1
<1>3. PICK n \in Nat : n = Len(toDev)
  BY <1>1
<1> DEFINE f == Append(g, h)
<1>4. /\ f \in Seq(Int) /\ Len(f) = n + 1 /\ f[n + 1] = h
      /\ \A k \in 1..n : f[k] = g[k]
  BY <1>3, Put
<1>5. /\ Len(toDev') = n + 1 /\ toDev'[n + 1] = blkbuf
      /\ \A k \in 1..n : toDev'[k] = toDev[k]
  BY <1>1, <1>3, Put
<1> HIDE DEF f
<1>6. \A k \in 1..n : /\ InPlace(toDev[k], g[k]) /\ g[k] \in Int
                      /\ g[k] <= h /\ h - 1 - (n - k) <= g[k]
  BY <1>2, <1>3 DEF Queue
<1>7. \A k \in 1..(n + 1) : k \in 1..n \/ k = n + 1
  BY <1>3
<1>8. \A k \in 1..(n + 1) : InPlace(toDev[k], f[k])'
  <2>1. \A k \in 1..(n + 1) : InPlace(toDev'[k], f[k])
    <3> SUFFICES ASSUME NEW k \in 1..(n + 1) PROVE InPlace(toDev'[k], f[k])
      OBVIOUS
    <3>1. CASE k = n + 1
      BY <1>2, <1>4, <1>5, <3>1 DEF Placed
    <3>2. CASE k \in 1..n
      BY <1>4, <1>5, <1>6, <3>2
    <3>3. QED
      BY <1>7, <3>1, <3>2
  <2>2. QED
    BY <2>1, PlaceStays DEF InPlace, Carries
<1>9. \A k \in 1..n : f[k + 1] >= f[k]
  <2> SUFFICES ASSUME NEW k \in 1..n PROVE f[k + 1] >= f[k]
    OBVIOUS
  <2>1. CASE k = n
    BY <1>2, <1>4, <1>6, <2>1
  <2>2. CASE k # n
    <3>1. k \in 1..(n - 1) /\ k + 1 \in 1..n
      BY <1>3, <2>2
    <3>2. g[k + 1] >= g[k]
      BY <1>3, <3>1 DEF Queue
    <3>3. QED
      BY <1>4, <3>1, <3>2
  <2>3. QED
    BY <2>1, <2>2
<1>10. \A k \in 1..(n + 1) : f[k] <= h /\ h - 0 - ((n + 1) - k) <= f[k]
  <2> SUFFICES ASSUME NEW k \in 1..(n + 1)
               PROVE  f[k] <= h /\ h - 0 - ((n + 1) - k) <= f[k]
    OBVIOUS
  <2>1. CASE k = n + 1
    BY <1>3, <1>4, <2>1
  <2>2. CASE k \in 1..n
    <3>1. g[k] \in Int /\ g[k] <= h /\ h - 1 - (n - k) <= g[k] /\ f[k] = g[k]
      BY <1>4, <1>6, <2>2
    <3>2. QED
      BY <1>3, <3>1
  <2>3. QED
    BY <1>7, <2>1, <2>2
<1>11. (n + 1) - 1 = n /\ toDev' # <<>>
  BY <1>3, <1>5
<1>12. Queue(f)'
  BY <1>2, <1>5, <1>8, <1>9, <1>10, <1>11 DEF Queue
<1>13. f[1] >= Front(g) /\ f[1] \in Int /\ Front(g) \in Int
  <2>1. CASE toDev = <<>>
    <3>1. n = 0 /\ Front(g) = h
      BY <1>2, <1>3, <2>1 DEF Front
    <3>2. f[0 + 1] = h
      BY <1>4, <3>1
    <3>3. QED
      BY <1>2, <3>1, <3>2
  <2>2. CASE toDev # <<>>
    <3>1. 1 \in 1..n
      BY <1>1, <1>3, <2>2
    <3>2. f[1] = g[1] /\ g[1] \in Int
      BY <1>4, <1>6, <3>1
    <3>3. QED
      BY <2>2, <3>2 DEF Front
  <2>3. QED
    BY <2>1, <2>2
<1>14. Front(f)' <= total_blk => Front(g) <= total_blk
  <2>1. Front(f)' = f[1]
    BY <1>11 DEF Front
  <2>2. PICK x \in Int, y \in Int : x = f[1] /\ y = Front(g)
    BY <1>4, <1>13
  <2>3. x >= y /\ total_blk \in Nat
    BY <1>13, <2>2, PlaceTypes
  <2>4. x <= total_blk => y <= total_blk
    BY <2>3
  <2>5. QED
    BY <2>1, <2>2, <2>4
<1>15. QED
  BY <1>4, <1>5, <1>12, <1>14

LEMMA QueueTaken ==
  ASSUME ~Intact => ~Intact', toDev # <<>>, toDev' = Tail(toDev), TypeOK,
         HostPlace' = HostPlace, Ahead' = Ahead,
         NEW g \in Seq(Int), Len(g) = Len(toDev), Queue(g)
  PROVE  \E f \in Seq(Int) : /\ Len(f) = Len(toDev') /\ Queue(f)'
                             /\ Front(f)' <= total_blk => Front(g) <= total_blk
<1>1. /\ HostPlace \in Int /\ Ahead \in Int /\ Len(toDev) \in Nat
      /\ toDev \in Seq(Blocks)
  BY PlaceTypes DEF TypeOK
<1>2. PICK n \in Nat : n + 1 = Len(toDev)
  <2>1. Len(toDev) - 1 \in Nat /\ (Len(toDev) - 1) + 1 = Len(toDev)
    BY <1>1
  <2>2. QED
    BY <2>1
<1> DEFINE f == Tail(g)
<1>3. f \in Seq(Int) /\ Len(f) = n /\ \A k \in 1..n : f[k] = g[k + 1]
  <2>1. g # <<>>
    BY <1>2
  <2>2. QED
    BY <1>2, <2>1, Take
<1>4. Len(toDev') = n /\ \A k \in 1..n : toDev'[k] = toDev[k + 1]
  BY <1>1, <1>2, Take
<1> HIDE DEF f
<1>5. \A k \in 1..n : k + 1 \in 1..Len(toDev)
  BY <1>2
<1>6. \A k \in 1..n : InPlace(toDev[k], f[k])'
  <2>1. \A k \in 1..n : InPlace(toDev'[k], f[k])
    BY <1>3, <1>4, <1>5 DEF Queue
  <2>2. QED
    BY <2>1, PlaceStays DEF InPlace, Carries
<1>7. \A k \in 1..(n - 1) : f[k + 1] >= f[k]
  <2> SUFFICES ASSUME NEW k \in 1..(n - 1) PROVE f[k + 1] >= f[k]
    OBVIOUS
  <2>1. k + 1 \in 1..(Len(toDev) - 1) /\ k \in 1..n /\ k + 1 \in 1..n
    BY <1>2
  <2>2. g[(k + 1) + 1] >= g[k + 1]
    BY <2>1 DEF Queue
  <2>3. QED
    BY <1>3, <2>1, <2>2
<1>8. \A k \in 1..n : f[k] <= HostPlace /\ HostPlace - Ahead - (n - k) <= f[k]
  <2> SUFFICES ASSUME NEW k \in 1..n
               PROVE  f[k] <= HostPlace /\ HostPlace - Ahead - (n - k) <= f[k]
    OBVIOUS
  <2>1. /\ g[k + 1] <= HostPlace
        /\ HostPlace - Ahead - (Len(toDev) - (k + 1)) <= g[k + 1]
    BY <1>5 DEF Queue
  <2>2. Len(toDev) - (k + 1) = n - k
    BY <1>2
  <2>3. QED
    BY <1>3, <2>1, <2>2
<1>9. Queue(f)'
  BY <1>4, <1>6, <1>7, <1>8 DEF Queue
<1>10. 1 \in 1..Len(toDev) /\ g[1] \in Int /\ g[1] <= HostPlace
  <2>1. 1 \in 1..Len(toDev)
    BY <1>2
  <2>2. QED
    BY <2>1 DEF Queue
<1>11. Front(g) = g[1]
  BY DEF Front
<1>12. Front(f)' <= total_blk => g[1] <= total_blk
  <2>1. PICK y \in Int : y = Front(f)' /\ y >= g[1]
    <3>1. CASE n = 0
      <4>1. toDev' = <<>>
        BY <1>1, <1>4, <3>1
      <4>2. Front(f)' = HostPlace
        BY <4>1 DEF Front
      <4>3. PICK x \in Int, h \in Int : x = g[1] /\ h = HostPlace
        BY <1>1, <1>10
      <4>4. h >= x
        BY <1>10, <4>3
      <4>5. QED
        BY <4>2, <4>3, <4>4
    <3>2. CASE n # 0
      <4>1. 1 \in 1..n /\ Len(toDev) - 1 = n
        BY <1>1, <1>2, <3>2
      <4>2. f[1] = g[1 + 1] /\ f[1] \in Int
        BY <1>3, <4>1
      <4>3. g[1 + 1] >= g[1]
        BY <4>1 DEF Queue
      <4>4. toDev' # <<>>
        BY <1>4, <3>2
      <4>5. Front(f)' = f[1]
        BY <4>4 DEF Front
      <4>6. QED
        BY <4>2, <4>3, <4>5
    <3>3. QED
      BY <3>1, <3>2
  <2>2. PICK x \in Int : x = g[1]
    BY <1>10
  <2>3. y >= x /\ total_blk \in Nat
    BY <2>1, <2>2, PlaceTypes
  <2>4. y <= total_blk => x <= total_blk
    BY <2>3
  <2>5. QED
    BY <2>1, <2>2, <2>4
<1>13. QED
  BY <1>3, <1>4, <1>9, <1>11, <1>12

\* Whatever a step takes off the line without the chip is refused, lost, or
\* answered by a new block.
LEMMA GapStays ==
  ASSUME TypeOK, TypeOK', Reading, Placed, Spent, [Next]_vars, ~Receive,
         phase # "boot", Gap
  PROVE  Gap'
<1>1. /\ MaxLoss \in Nat /\ toDev \in Seq(Blocks) /\ toHost \in Seq(Bytes)
  BY SentTypes
<1>2. rcvd' = rcvd
  BY DEF Next, HostStep, DevStep, LineFault, WaitC, WaitCTimeout, BlkXmit, EotXmit,
         Acked, Naked, StrayByte, IoError, Tick, Boot, Invite, Corrupt, Noise, Lose,
         Resize, HostKeeps, DevKeeps, devVars, vars
<1>3. PICK h \in Int, hh \in Int, a \in {0, 1}, aa \in {0, 1},
           n \in Nat, nn \in Nat, k \in Nat, kk \in Nat, l \in Nat, ll \in Nat,
           c \in Nat :
        /\ h = HostPlace /\ hh = HostPlace' /\ a = Ahead /\ aa = Ahead'
        /\ n = Len(toDev) /\ nn = Len(toDev')
        /\ k = Naks(toHost) /\ kk = Naks(toHost')
        /\ l = budget.loss /\ ll = budget'.loss /\ c = Len(rcvd)
        /\ Sent = h - a /\ Sent' = hh - aa
        /\ Owed = n + k + (MaxLoss - l) /\ Owed' = nn + kk + (MaxLoss - ll)
  BY SentNumbers
<1>4. ASSUME (hh - aa) - (h - a) <= (nn - n) + (kk - k) + (l - ll) PROVE Gap'
  <2>1. (h - a) - c <= n + k + (MaxLoss - l)
    BY <1>3 DEF Gap
  <2>2. (hh - aa) - c <= nn + kk + (MaxLoss - ll)
    BY <1>1, <1>4, <2>1
  <2>3. QED
    BY <1>2, <1>3, <2>2 DEF Gap
<1>5. toHost # <<>> /\ toHost' = Tail(toHost) =>
        Naks(toHost') = IF toHost[1] = "NAK" THEN Naks(toHost) - 1 ELSE Naks(toHost)
  BY <1>1, NakTaken
<1>6. CASE WaitC
  <2>1. stage' = "info" /\ i_blk' = 0 /\ ret' = "none" /\ pc' # "wait_ack"
        /\ budget' = budget
    BY <1>6 DEF WaitC, Load, hostVars, HostKeeps, Reading
  <2>2. hh = 0 /\ aa = 1 /\ ll = l
    BY <1>3, <2>1 DEF HostPlace, Ahead
  <2>3. l <= MaxLoss
    BY <1>3 DEF Spent
  <2>4. (hh - aa) - c <= nn + kk + (MaxLoss - ll)
    BY <1>1, <2>2, <2>3
  <2>5. QED
    BY <1>2, <1>3, <2>4 DEF Gap
<1>7. CASE Naked
  <2>1. /\ UNCHANGED <<stage, i_blk, ret, toDev, budget>> /\ pc = "wait_ack"
        /\ pc' = "blk_xmit" /\ ret = "none"
        /\ toHost # <<>> /\ toHost' = Tail(toHost) /\ toHost[1] = "NAK"
    BY <1>1, <1>7 DEF Naked, HostKeeps, Reading
  <2>2. a = 0 /\ aa = 1 /\ hh = h
    BY <1>3, <2>1 DEF Ahead, HostPlace
  <2>3. kk = k - 1 /\ nn = n /\ ll = l
    BY <1>3, <1>5, <2>1
  <2>4. QED
    BY <1>4, <2>2, <2>3
<1>8. CASE Acked \/ StrayByte
  <2>1. /\ UNCHANGED <<toDev, budget>>
        /\ toHost # <<>> /\ toHost' = Tail(toHost) /\ toHost[1] # "NAK"
    BY <1>1, <1>8 DEF Acked, StrayByte, HostKeeps
  <2>2. kk = k /\ nn = n /\ ll = l
    BY <1>3, <1>5, <2>1
  <2>3. hh - aa <= h - a
    <3>1. CASE Acked
      <4>1. /\ HostPlace' \in {HostPlace, HostPlace + 1} /\ Ahead = 0
            /\ HostPlace' = HostPlace \/ Ahead' = 1
        <5>1. ~Intact => ~Intact'
          BY NotIntactStays DEF Spent
        <5>2. QED
          BY <3>1, <5>1, AckedPlace DEF Acked, Ahead
      <4>2. hh \in {h, h + 1} /\ a = 0 /\ (hh = h \/ aa = 1)
        BY <1>3, <4>1
      <4>3. QED
        BY <4>2
    <3>2. CASE StrayByte
      <4>1. UNCHANGED <<stage, i_blk, ret>> /\ pc = "wait_ack"
        BY <3>2 DEF StrayByte
      <4>2. a = 0 /\ hh = h
        BY <1>3, <4>1 DEF Ahead, HostPlace
      <4>3. QED
        BY <4>2
    <3>3. QED
      BY <1>8, <3>1, <3>2
  <2>4. QED
    BY <1>4, <2>2, <2>3
<1>9. CASE (BlkXmit \/ EotXmit) /\ toDev' = Append(toDev, blkbuf)
  <2>1. /\ pc = "blk_xmit" /\ ret = "none" /\ pc' = "wait_ack"
        /\ UNCHANGED <<stage, i_blk, ret, toHost, budget>>
    BY <1>9 DEF BlkXmit, EotXmit, Reading, Return, HostKeeps
  <2>2. a = 1 /\ aa = 0 /\ hh = h
    BY <1>3, <2>1 DEF Ahead, HostPlace
  <2>3. Len(toDev') = Len(toDev) + 1
    BY <1>1, <1>9
  <2>4. nn = n + 1 /\ kk = k /\ ll = l
    BY <1>3, <2>1, <2>3
  <2>5. QED
    BY <1>4, <2>2, <2>4
<1>10. CASE WaitCTimeout \/ IoError \/ (BlkXmit /\ Return("error"))
  <2>1. /\ UNCHANGED <<stage, i_blk, toDev, toHost, budget>>
        /\ pc' = "done" /\ ret' = "error"
    BY <1>10 DEF WaitCTimeout, IoError, BlkXmit, Return, HostKeeps
  <2>2. aa = 1 /\ hh = h
    BY <1>3, <2>1 DEF Ahead, HostPlace
  <2>3. nn = n /\ kk = k /\ ll = l
    BY <1>3, <2>1
  <2>4. QED
    BY <1>4, <2>2, <2>3
<1>11. CASE Tick \/ Resize \/ Invite \/ Corrupt \/ LineFault \/ UNCHANGED vars
  <2>1. UNCHANGED <<stage, i_blk, pc, ret>>
    BY <1>11 DEF Tick, LineFault, Invite, Corrupt, Noise, Lose, Resize, DevKeeps,
                 hostVars, vars
  <2>2. hh = h /\ aa = a
    BY <1>3, <2>1 DEF Ahead, HostPlace
  <2>3. budget \in [corrupt : Nat, noise : Nat, loss : Nat, resize : Nat]
    BY DEF TypeOK
  <2>4. CASE Tick \/ Resize \/ UNCHANGED vars
    <3>1. UNCHANGED <<toDev, toHost>> /\ budget'.loss = budget.loss
      BY <2>3, <2>4 DEF Tick, Resize, vars
    <3>2. nn = n /\ kk = k /\ ll = l
      BY <1>3, <3>1
    <3>3. QED
      BY <1>4, <2>2, <3>2
  <2>5. CASE Invite \/ Noise
    <3>1. /\ toDev' = toDev /\ budget'.loss = budget.loss
          /\ \E b \in {"C", "stray"} : toHost' = toHost \o <<b>>
      BY <2>3, <2>5 DEF Invite, Noise, Answer
    <3>2. Naks(toHost') = Naks(toHost)
      BY <1>1, <3>1, NakAdded DEF Bytes
    <3>3. nn = n /\ kk = k /\ ll = l
      BY <1>3, <3>1, <3>2
    <3>4. QED
      BY <1>4, <2>2, <3>3
  <2>6. CASE Corrupt
    <3>1. /\ toDev # <<>> /\ toDev' = Tail(toDev) /\ budget'.loss = budget.loss
          /\ toHost' = toHost \o <<"NAK">>
      BY <2>3, <2>6 DEF Corrupt, Answer
    <3>2. Naks(toHost') = Naks(toHost) + 1
      BY <1>1, <3>1, NakAdded DEF Bytes
    <3>3. Len(toDev') = Len(toDev) - 1
      BY <1>1, <3>1, Take
    <3>4. nn = n - 1 /\ kk = k + 1 /\ ll = l
      BY <1>3, <3>1, <3>2, <3>3
    <3>5. QED
      BY <1>4, <2>2, <3>4
  <2>7. CASE Lose
    <3>1. ll = l - 1
      BY <1>3, <2>3, <2>7 DEF Lose
    <3>2. CASE toDev # <<>> /\ toDev' = Tail(toDev) /\ UNCHANGED toHost
      <4>1. Len(toDev') = Len(toDev) - 1
        BY <1>1, <3>2, Take
      <4>2. nn = n - 1 /\ kk = k
        BY <1>3, <3>2, <4>1
      <4>3. QED
        BY <1>4, <2>2, <3>1, <4>2
    <3>3. CASE toHost # <<>> /\ toHost' = Tail(toHost) /\ UNCHANGED toDev
      <4>1. kk = k - 1 \/ kk = k
        BY <1>3, <1>5, <3>3
      <4>2. nn = n
        BY <1>3, <3>3
      <4>3. QED
        BY <1>4, <2>2, <3>1, <4>1, <4>2
    <3>4. QED
      BY <2>7, <3>2, <3>3 DEF Lose
  <2>8. QED
    BY <1>11, <2>4, <2>5, <2>6, <2>7 DEF LineFault
<1>12. QED
  BY <1>6, <1>7, <1>8, <1>9, <1>10, <1>11
     DEF Next, HostStep, DevStep, BlkXmit, EotXmit, Boot

\* The chip can tell what it gets while the host is less than a modulus ahead.
LEMMA WrapReceive ==
  ASSUME 2 * LineCap + MaxNoise + MaxLoss + 3 < NumMod,
         TypeOK, TypeOK', Reading, Placed, Spent, TrafficInv, Asked, Receive,
         NEW g \in Seq(Int), Len(g) = Len(toDev), Queue(g),
         phase = "data" /\ Front(g) <= total_blk => Gap
  PROVE  Asked' /\ (phase' = "data" /\ Front(g) <= total_blk => Gap')
<1> DEFINE b == Head(toDev)
<1>1. /\ toDev # <<>> /\ toDev' = Tail(toDev) /\ phase # "boot"
      /\ UNCHANGED <<avail, budget, hostVars>> /\ Intact' = Intact
      /\ toDev \in Seq(Blocks) /\ toHost \in Seq(Bytes)
      /\ rcvd \in Seq([from : Nat, got : Nat])
      /\ phase \in {"boot", "invite", "data", "end", "closed"}
  BY DEF Receive, DevKeeps, TypeOK, Intact
<1>2. PICK h \in Int, hh \in Int, a \in {0, 1}, aa \in {0, 1},
           n \in Nat, nn \in Nat, k \in Nat, kk \in Nat, l \in Nat, ll \in Nat,
           c \in Nat :
        /\ h = HostPlace /\ hh = HostPlace' /\ a = Ahead /\ aa = Ahead'
        /\ n = Len(toDev) /\ nn = Len(toDev')
        /\ k = Naks(toHost) /\ kk = Naks(toHost')
        /\ l = budget.loss /\ ll = budget'.loss /\ c = Len(rcvd)
        /\ Sent = h - a /\ Sent' = hh - aa
        /\ Owed = n + k + (MaxLoss - l) /\ Owed' = nn + kk + (MaxLoss - ll)
  BY SentNumbers
<1>3. PICK t \in Nat : t = total_blk
  BY PlaceTypes
<1>4. hh = h /\ aa = a /\ ll = l /\ nn = n - 1 /\ n >= 1
  <2>1. HostPlace' = HostPlace /\ Ahead' = Ahead /\ budget'.loss = budget.loss
    BY <1>1 DEF HostPlace, Ahead, hostVars
  <2>2. Len(toDev') = Len(toDev) - 1 /\ Len(toDev) > 0
    BY <1>1, Take
  <2>3. QED
    BY <1>2, <2>1, <2>2
<1>5. LineCap \in Nat \ {0} /\ MaxNoise \in Nat /\ MaxLoss \in Nat /\ l <= MaxLoss
  BY <1>2, YmodemAssumption DEF Spent
<1>6. PICK x \in Int : x = g[1] /\ x = Front(g)
  <2>1. 1 \in 1..Len(g)
    BY <1>2, <1>4
  <2>2. QED
    BY <1>1, <2>1 DEF Front
<1>7. InPlace(b, x) /\ b \in Blocks /\ x <= h /\ h - a - (n - 1) <= x
  <2>1. 1 \in 1..Len(toDev) /\ b = toDev[1]
    BY <1>1, <1>2, <1>4
  <2>2. b \in Blocks
    BY <1>1
  <2>3. InPlace(toDev[1], g[1]) /\ g[1] <= HostPlace
        /\ HostPlace - Ahead - (Len(toDev) - 1) <= g[1]
    BY <2>1 DEF Queue
  <2>4. QED
    BY <1>2, <1>6, <2>1, <2>2, <2>3
<1>8. /\ InfoBlock.kind = "info" /\ EotByte.kind = "eot" /\ NullBlock.kind = "null"
      /\ InfoBlock.num = 0 % NumMod
  BY DEF InfoBlock, EotByte, NullBlock, Block
<1>9. InOrder /\ NotAsked /\ c <= h /\ (Early => rcvd = <<>>)
  BY <1>2 DEF Asked
<1>10. ASSUME rcvd' = rcvd, ~Early' PROVE Asked'
  <2>1. InOrder'
    BY <1>1, <1>9, <1>10 DEF InOrder, Carries
  <2>2. Len(rcvd') <= HostPlace'
    BY <1>2, <1>4, <1>9, <1>10
  <2>3. QED
    BY <1>10, <2>1, <2>2 DEF Asked, NotAsked
<1>11. ASSUME NEW d \in Int, Len(rcvd') = d, (h - a) - d <= nn + kk + (MaxLoss - l)
       PROVE  Gap'
  BY <1>2, <1>4, <1>11 DEF Gap
<1> HIDE DEF b
<1>12. CASE phase = "invite"
  <2>1. h = 0 /\ rcvd = <<>>
    <3>1. Early
      BY <1>12 DEF Early
    <3>2. stage = "info" /\ rcvd = <<>>
      BY <1>9, <3>1 DEF NotAsked
    <3>3. QED
      BY <1>2, <3>2 DEF HostPlace, Reading
  <2>2. b = InfoBlock
    BY <1>3, <1>7, <2>1 DEF InPlace
  <2>3. phase' = "data" /\ rcvd' = rcvd
    BY <1>8, <1>12, <2>2 DEF Receive, b
  <2>4. Asked'
    BY <1>10, <2>3 DEF Early
  <2>5. Len(rcvd') = 0
    BY <2>1, <2>3
  <2>6. (h - a) - 0 <= nn + kk + (MaxLoss - l)
    <3>1. h - a <= 0
      BY <2>1
    <3>2. MaxLoss - l >= 0
      BY <1>5
    <3>3. QED
      BY <1>5, <3>1, <3>2
  <2>7. QED
    BY <1>11, <2>4, <2>5, <2>6
<1>13. CASE phase \in {"end", "closed"}
  <2>1. phase' \in {"end", "closed"} /\ rcvd' = rcvd
    BY <1>13 DEF Receive
  <2>2. QED
    BY <1>10, <2>1 DEF Early
<1>14. CASE phase = "data" /\ x > t
  <2>1. b = EotByte \/ b = NullBlock
    BY <1>3, <1>7, <1>14 DEF InPlace
  <2>2. rcvd' = rcvd /\ phase' \in {"data", "end"}
    BY <1>8, <1>14, <2>1 DEF Receive, b
  <2>3. ~(Front(g) <= total_blk)
    BY <1>3, <1>6, <1>14
  <2>4. QED
    BY <1>10, <2>2, <2>3 DEF Early
<1>15. CASE phase = "data" /\ x <= t
  <2>1. /\ b.kind \in {"info", "data"} /\ b.num = x % NumMod /\ x \in Nat
        /\ b.kind = "data" => x \in 1..t /\ Carries(b.dat, x)
    <3>1. \/ x = 0 /\ b = InfoBlock
          \/ x \in 1..t /\ b.kind = "data" /\ b.num = x % NumMod /\ Carries(b.dat, x)
      BY <1>3, <1>7, <1>15 DEF InPlace
    <3>2. QED
      BY <1>8, <3>1
  <2>2. (h - a) - c <= n + k + (MaxLoss - l)
    <3>1. Gap
      BY <1>3, <1>6, <1>15
    <3>2. QED
      BY <1>2, <3>1 DEF Gap
  <2>3. n <= LineCap /\ n + k <= 2 * LineCap + MaxNoise + 2
    <3>1. /\ Len(toDev) <= LineCap
          /\ Len(toDev) + Len(toHost) + ToSend + budget.noise
               <= 2 * LineCap + MaxNoise + 2
      BY <1>15 DEF TrafficInv, Traffic
    <3>2. PICK y \in Nat, z \in Nat, u \in {0, 1} :
            y = Len(toHost) /\ z = budget.noise /\ u = ToSend
      BY TrafficTypes
    <3>3. k <= y
      BY <1>2, <3>2, TrafficTypes
    <3>4. n <= LineCap /\ n + y + u + z <= 2 * LineCap + MaxNoise + 2
      BY <1>2, <3>1, <3>2
    <3>5. QED
      BY <1>5, <3>2, <3>3, <3>4
  <2>4. PICK m \in Nat : m = NumMod /\ 2 * LineCap + MaxNoise + MaxLoss + 3 < m
    BY YmodemAssumption
  <2>5. /\ x - c < m /\ c - x < m /\ x - (c + 1) < m /\ (c + 1) - x < m
    <3>1. h - c < m
      BY <1>5, <2>2, <2>3, <2>4
    <3>2. c - x <= LineCap
      BY <1>4, <1>5, <1>7, <1>9, <2>3
    <3>3. LineCap + 1 < m
      BY <1>5, <2>4
    <3>4. QED
      BY <1>5, <1>7, <3>1, <3>2, <3>3
  <2>6. expected = c + 1 /\ expected - 1 = c
    BY <1>2 DEF expected
  <2>7. CASE b.kind = "data" /\ b.num = (c + 1) % NumMod
    <3>1. x = c + 1
      <4>1. x % NumMod = (c + 1) % NumMod /\ c + 1 \in Nat
        BY <2>1, <2>7
      <4>2. QED
        BY <2>1, <2>4, <2>5, <4>1, SameNumber
    <3>2. /\ rcvd' = Append(rcvd, b.dat) /\ phase' = "data"
          /\ toHost' = toHost \o <<"ACK">>
      BY <1>15, <2>6, <2>7 DEF Receive, Answer, b
    <3>3. b.dat \in [from : Nat, got : Nat]
      BY <1>7 DEF Blocks
    <3>4. /\ Len(rcvd') = c + 1 /\ rcvd'[c + 1] = b.dat
          /\ \A j \in 1..c : rcvd'[j] = rcvd[j]
      BY <1>1, <1>2, <3>2, <3>3
    <3>5. ASSUME NEW j \in 1..Len(rcvd') PROVE Carries(rcvd[j], j)'
      <4>1. Carries(rcvd'[j], j)
        <5>1. CASE j = c + 1
          BY <2>1, <2>7, <3>1, <3>4, <5>1
        <5>2. CASE j # c + 1
          <6>1. j \in 1..c
            BY <3>4, <5>2
          <6>2. QED
            BY <1>2, <1>9, <3>4, <6>1 DEF InOrder
        <5>3. QED
          BY <5>1, <5>2
      <4>2. QED
        BY <1>1, <4>1 DEF Carries
    <3>6. InOrder'
      <4>1. c + 1 <= t
        BY <2>1, <2>7, <3>1
      <4>2. QED
        BY <1>3, <3>4, <3>5, <4>1 DEF InOrder
    <3>7. Len(rcvd') <= HostPlace'
      BY <1>2, <1>4, <1>7, <3>1, <3>4
    <3>8. Asked'
      BY <3>2, <3>6, <3>7 DEF Asked, NotAsked, Early
    <3>9. kk = k
      BY <1>1, <1>2, <3>2, NakAdded DEF Bytes
    <3>10. (h - a) - (c + 1) <= nn + kk + (MaxLoss - l)
      BY <1>4, <1>5, <2>2, <3>9
    <3>11. QED
      BY <1>11, <3>4, <3>8, <3>10
  <2>8. CASE ~(b.kind = "data" /\ b.num = (c + 1) % NumMod) /\ b.num = c % NumMod
    <3>1. x = c
      <4>1. x % NumMod = c % NumMod
        BY <2>1, <2>8
      <4>2. QED
        BY <2>1, <2>4, <2>5, <4>1, SameNumber
    <3>2. rcvd' = rcvd /\ phase' = "data"
      BY <1>15, <2>1, <2>6, <2>8 DEF Receive, b
    <3>3. Asked'
      BY <1>10, <3>2 DEF Early
    <3>4. (h - a) - c <= nn + kk + (MaxLoss - l)
      BY <1>4, <1>5, <1>7, <3>1
    <3>5. Len(rcvd') = c
      BY <1>2, <3>2
    <3>6. QED
      BY <1>11, <3>3, <3>4, <3>5
  <2>9. CASE ~(b.kind = "data" /\ b.num = (c + 1) % NumMod) /\ b.num # c % NumMod
    <3>1. rcvd' = rcvd /\ phase' = "data" /\ toHost' = toHost \o <<"NAK">>
      BY <1>15, <2>1, <2>6, <2>9 DEF Receive, Answer, b
    <3>2. Asked'
      BY <1>10, <3>1 DEF Early
    <3>3. kk = k + 1
      <4>1. Naks(toHost') = Naks(toHost) + 1
        BY <1>1, <3>1, NakAdded DEF Bytes
      <4>2. QED
        BY <1>2, <4>1
    <3>4. (h - a) - c <= nn + kk + (MaxLoss - l)
      BY <1>4, <1>5, <2>2, <3>3
    <3>5. Len(rcvd') = c
      BY <1>2, <3>1
    <3>6. QED
      BY <1>11, <3>2, <3>4, <3>5
  <2>10. QED
    BY <2>7, <2>8, <2>9
<1>16. QED
  BY <1>1, <1>3, <1>12, <1>13, <1>14, <1>15

LEMMA AskedStays ==
  ASSUME TypeOK, TypeOK', Reading, Placed, Spent, Asked, [Next]_vars, ~Receive
  PROVE  Asked'
<1>1. rcvd' = rcvd
  BY OtherSteps
<1>2. NotAsked' /\ (Early' => Early)
  BY NotAskedStays DEF Asked
<1>3. InOrder'
  <2>1. ~Intact => ~Intact'
    BY NotIntactStays DEF Spent
  <2>2. QED
    BY <1>1, <2>1 DEF Asked, InOrder, Carries
<1>4. HostPlace' >= HostPlace
  <2>1. CASE \A x \in Int : Near(x) => Near(x)'
    BY <2>1, NearMoves
  <2>2. CASE HostPlace' = HostPlace
    BY <2>2, SentTypes
  <2>3. CASE DevStep \/ LineFault
    <3>1. HostPlace' = HostPlace
      BY <2>3, OtherSteps DEF HostPlace, hostVars
    <3>2. QED
      BY <2>2, <3>1
  <2>4. QED
    BY <2>1, <2>2, <2>3, HostMoves
<1>5. Len(rcvd') <= HostPlace'
  <2>1. PICK c \in Int, h \in Int, hh \in Int :
          c = Len(rcvd) /\ h = HostPlace /\ hh = HostPlace'
    BY SentTypes
  <2>2. c <= h /\ h <= hh
    BY <1>4, <2>1 DEF Asked
  <2>3. c <= hh
    BY <2>2
  <2>4. QED
    BY <1>1, <2>1, <2>3
<1>6. QED
  BY <1>1, <1>2, <1>3, <1>5 DEF Asked

LEMMA NextWrap ==
  ASSUME 2 * LineCap + MaxNoise + MaxLoss + 3 < NumMod, WrapInv, [Next]_vars
  PROVE  WrapInv'
<1>1. TypeOK /\ Reading /\ Placed /\ Spent /\ TrafficInv /\ Asked
  BY DEF WrapInv
<1>2. TypeOK' /\ Reading' /\ Spent' /\ Placed'
  BY <1>1, NextType, NextReading, SpentStays, HostMoves
<1>3. TrafficInv'
  BY <1>1, <1>2, TrafficStays
<1>4. ~Intact => ~Intact'
  BY <1>1, NotIntactStays DEF Spent
<1>5. PICK g \in Seq(Int) : /\ Len(g) = Len(toDev) /\ Queue(g)
                            /\ phase = "data" /\ Front(g) <= total_blk => Gap
  BY DEF WrapInv
<1>6. Asked' /\ (phase' = "data" /\ Front(g) <= total_blk => Gap')
  <2>1. CASE Receive
    BY <1>1, <1>2, <1>5, <2>1, WrapReceive
  <2>2. CASE ~Receive
    <3>1. Asked'
      BY <1>1, <1>2, <2>2, AskedStays
    <3>2. phase' = "data" => phase = "data" /\ phase # "boot"
      BY <2>2, OtherSteps
    <3>3. phase' = "data" /\ Gap => Gap'
      BY <1>1, <1>2, <2>2, <3>2, GapStays
    <3>4. QED
      BY <1>5, <3>1, <3>2, <3>3
  <2>3. QED
    BY <2>1, <2>2
<1>7. \E f \in Seq(Int) : /\ Len(f) = Len(toDev') /\ Queue(f)'
                          /\ Front(f)' <= total_blk => Front(g) <= total_blk
  <2>1. CASE toDev' = toDev /\ \A x \in Int : Near(x) => Near(x)'
    BY <1>1, <1>2, <1>4, <1>5, <2>1, QueueKept
  <2>2. CASE /\ toDev' = Append(toDev, blkbuf) /\ HostPlace' = HostPlace
             /\ Ahead = 1 /\ Ahead' = 0
    BY <1>1, <1>4, <1>5, <2>2, QueueSent
  <2>3. CASE DevStep \/ LineFault
    <3>1. /\ UNCHANGED hostVars
          /\ toDev' = toDev \/ (toDev # <<>> /\ toDev' = Tail(toDev))
      BY <2>3, OtherSteps DEF Receive, DevKeeps
    <3>2. HostPlace' = HostPlace /\ Ahead' = Ahead
      BY <3>1 DEF HostPlace, Ahead, hostVars
    <3>3. \A x \in Int : Near(x) => Near(x)'
      BY <3>2 DEF Near
    <3>4. CASE toDev' = toDev
      BY <2>1, <3>3, <3>4
    <3>5. CASE toDev # <<>> /\ toDev' = Tail(toDev)
      BY <1>1, <1>4, <1>5, <3>2, <3>5, QueueTaken
    <3>6. QED
      BY <3>1, <3>4, <3>5
  <2>4. QED
    BY <1>1, <2>1, <2>2, <2>3, HostMoves
<1>8. PICK f \in Seq(Int) : /\ Len(f) = Len(toDev') /\ Queue(f)'
                            /\ Front(f)' <= total_blk => Front(g) <= total_blk
  BY <1>7
<1>9. phase' = "data" /\ Front(f)' <= total_blk => Gap'
  BY <1>6, <1>8
<1>10. QED
  BY <1>2, <1>3, <1>6, <1>8, <1>9 DEF WrapInv

LEMMA InitWrap == Init => WrapInv
<1> SUFFICES ASSUME Init PROVE WrapInv
  OBVIOUS
<1>1. TypeOK /\ Reading /\ Placed /\ Spent
  BY InitClean DEF CleanInv
<1>2. /\ LineCap \in Nat \ {0} /\ MaxNoise \in Nat /\ MaxLoss \in Nat
      /\ total_blk \in Nat
  BY BlockCount, YmodemAssumption
<1>3. /\ toDev = <<>> /\ Len(toHost) = 0 /\ rcvd = <<>> /\ ToSend = 0
      /\ budget.noise = MaxNoise /\ Early /\ phase # "data" /\ HostPlace = 0
      /\ stage = "info" /\ Len(toDev) = 0 /\ Len(rcvd) = 0
  BY DEF Init, ToSend, Early, HostPlace
<1>4. TrafficInv
  BY <1>2, <1>3 DEF TrafficInv, Traffic
<1>5. Asked
  BY <1>2, <1>3 DEF Asked, InOrder, NotAsked
<1>6. <<>> \in Seq(Int) /\ Len(<<>>) = Len(toDev) /\ Queue(<<>>)
  BY <1>3 DEF Queue
<1>7. QED
  BY <1>1, <1>3, <1>4, <1>5, <1>6 DEF WrapInv

(***************************************************************************)
(* The chip stores the blocks in order although their numbers wrap and the *)
(* line damages, loses and inserts what it likes, as long as the line and  *)
(* its faults cannot hold a whole turn of the block numbers, 0x100 in      *)
(* ymodem_xfer.  No bound on the size of the image, on the damaged blocks  *)
(* or on the changes of the file is needed.                                *)
(***************************************************************************)
THEOREM StoresInOrderWrapped ==
  ASSUME 2 * LineCap + MaxNoise + MaxLoss + 3 < NumMod
  PROVE  Spec => []InOrder
<1>1. WrapInv /\ [Next]_vars => WrapInv'
  BY NextWrap
<1>2. WrapInv => InOrder
  BY DEF WrapInv, Asked
<1>3. QED
  BY <1>1, <1>2, InitWrap, PTL DEF Spec
=============================================================================
