------------------------------- MODULE Ymodem -------------------------------
(***************************************************************************)
(* One call of ymodem_xfer (src/src/ymodem.h), the sender that pushes one  *)
(* image to the chip, with the serial line and the receiver it talks to.   *)
(*                                                                         *)
(* The host is the code: ymodem_xfer, ymodem_blk_timed_xmit,               *)
(* ymodem_blk_xmit and ymodem_wait_ack, one action per I/O call with all   *)
(* the work the program does until its next I/O call.  The line is a pair  *)
(* of FIFO queues.  The receiver is the chip's boot loader, which is not   *)
(* in the repository: it is a plain YMODEM receiver that says what the     *)
(* host code waits for ('C', ACK, NAK).                                    *)
(*                                                                         *)
(* Time is counted in whole seconds, as time() does, and saturates one     *)
(* second past the limit it is compared with.                              *)
(***************************************************************************)
EXTENDS Integers, Sequences

CONSTANTS
  Size,        \* len, the number of bytes the caller asks to send
  Avails,      \* lengths the FILE may really have
  BlkSize,     \* payload of a data block, 1024 in the code
  NumMod,      \* block numbers wrap modulo this, 0x100 in the code
  CTimeout,    \* YMODEM_C_TIMEOUT
  AckTimeout,  \* YMODEM_ACK_TIMEOUT, rounded down: difftime is whole seconds
  XmitTimeout, \* YMODEM_XMIT_TIMEOUT
  LineCap,     \* bytes or blocks the line holds before write() blocks
  MaxCorrupt,  \* blocks the line may damage
  MaxNoise,    \* stray bytes the line may insert towards the host
  MaxLoss,     \* blocks or answers the line may lose
  MaxResize    \* times the FILE may change its length

ASSUME YmodemAssumption ==
  /\ Size \in Nat /\ Avails \subseteq Nat
  /\ BlkSize \in Nat \ {0}
  /\ NumMod \in Nat /\ NumMod >= 2
  /\ CTimeout \in Nat /\ AckTimeout \in Nat /\ XmitTimeout \in Nat
  /\ LineCap \in Nat \ {0}
  /\ MaxCorrupt \in Nat /\ MaxNoise \in Nat /\ MaxLoss \in Nat /\ MaxResize \in Nat

VARIABLES
  pc,        \* the I/O call the host is about to make
  stage,     \* what it is sending: file info, data, EOT, final null block
  i_blk,     \* number of the block in blkbuf
  avail,     \* length of the FILE, which another program may change
  fpos,      \* read position of the FILE
  blkbuf,    \* the block being sent, kept for retransmission
  age,       \* seconds since t0 of the C wait or of ymodem_blk_timed_xmit
  ackAge,    \* seconds since t0 of ymodem_wait_ack
  ret,       \* value ymodem_xfer returns
  toDev,     \* blocks in flight to the chip
  toHost,    \* bytes in flight to the host
  phase,     \* what the receiver is doing
  rcvd,      \* payloads the receiver has stored, in order
  budget,    \* faults the line may still commit
  late       \* history: a wait gave up on a stray byte and sent again

hostVars == <<pc, stage, i_blk, fpos, blkbuf, age, ackAge, ret>>
devVars  == <<phase, rcvd>>
vars == <<hostVars, toDev, toHost, devVars, avail, budget, late>>

-----------------------------------------------------------------------------
(* Blocks *)

total_blk == (Size + BlkSize - 1) \div BlkSize

\* Mutant: the short last block is forgotten.
rlenAlwaysFull(i) == BlkSize

\* Bytes asked of fread for block i: the last block may be short.
rlen(i) ==
  IF i = total_blk /\ Size % BlkSize # 0 THEN Size % BlkSize ELSE BlkSize

\* A payload is named by the file bytes it holds; the rest is zero padding.
Slice(from, got) == [from |-> from, got |-> got]

NoData == Slice(0, 0)

\* What block i must carry for the chip to end up with the image: the bytes
\* from (i - 1) * BlkSize on, as many as fit and as there are.
FileBlock(i) ==
  LET from == (i - 1) * BlkSize
  IN Slice(from, IF Size - from < BlkSize THEN Size - from ELSE BlkSize)

\* Mutant: blocks are numbered from 0 although block 0 is the file info.
BlockNumberedFromZero(kind, n, dat) ==
  [kind |-> kind, num |-> (n - 1) % NumMod, dat |-> dat]

Block(kind, n, dat) == [kind |-> kind, num |-> n % NumMod, dat |-> dat]

InfoBlock == Block("info", 0, NoData)
NullBlock == Block("null", 0, NoData)
EotByte   == Block("eot", 0, NoData)

Bytes == {"ACK", "NAK", "C", "stray"}

\* fread(blkbuf+3, 1, rlen, f) at position fpos.
Got(i) ==
  LET left == IF fpos < avail THEN avail - fpos ELSE 0
  IN IF left < rlen(i) THEN left ELSE rlen(i)

Saturate(t, limit) == IF t > limit THEN t ELSE t + 1

-----------------------------------------------------------------------------
(* Host *)

Return(v) ==
  /\ pc' = "done"
  /\ ret' = v

HostKeeps == UNCHANGED <<devVars, avail, budget>>

\* Enter ymodem_blk_timed_xmit with a fresh block and a fresh t0.
Load(st, i, blk) ==
  /\ stage' = st
  /\ i_blk' = i
  /\ blkbuf' = blk
  /\ pc' = "blk_xmit"
  /\ age' = 0

SendBlock(i) ==
  /\ Load("data", i, Block("data", i, Slice(fpos, Got(i))))
  /\ fpos' = fpos + Got(i)
  /\ UNCHANGED ret

SendEot(i) ==
  /\ Load("eot", i, EotByte)
  /\ UNCHANGED <<fpos, ret>>

\* Mutants: the data loop runs once too often, stops one block early, or
\* only notices a file that has nothing at all left.
NextBlockPastEnd(i) ==
  \/ i <= total_blk + 1 /\ SendBlock(i)
  \/ i > total_blk + 1 /\ SendEot(i)

NextBlockStopsEarly(i) ==
  \/ i < total_blk /\ SendBlock(i)
  \/ i >= total_blk /\ SendEot(i)

NextBlockIfAny(i) ==
  \/ i <= total_blk /\ SendBlock(i)
  \/ i > total_blk /\ SendEot(i)

\* The body of the data loop up to the transmission of block i, or its exit.
NextBlock(i) ==
  \/ /\ i <= total_blk
     /\ \/ i = total_blk
        \/ Got(i) >= BlkSize
     /\ SendBlock(i)
  \/ /\ i < total_blk
     /\ Got(i) < BlkSize            \* "No data left on file."
     /\ Return("failure")
     /\ fpos' = fpos + Got(i)
     /\ UNCHANGED <<stage, i_blk, blkbuf, age>>
  \/ /\ i > total_blk
     /\ SendEot(i)

\* The byte read while waiting for the receiver's 'C'.
WaitC ==
  /\ pc = "wait_c"
  /\ toHost # <<>>
  /\ toHost' = Tail(toHost)
  /\ \/ /\ Head(toHost) = "C"
        /\ Load("info", 0, InfoBlock)
        /\ UNCHANGED <<fpos, ackAge, ret>>
     \/ /\ Head(toHost) # "C"
        /\ UNCHANGED hostVars
  /\ UNCHANGED <<toDev, late>>
  /\ HostKeeps

\* The read timed out empty and the wait for 'C' is too old.
WaitCTimeout ==
  /\ pc = "wait_c"
  /\ toHost = <<>>
  /\ age > CTimeout
  /\ Return("error")
  /\ UNCHANGED <<stage, i_blk, fpos, blkbuf, age, ackAge, toDev, toHost, late>>
  /\ HostKeeps

\* Label blk_xmit: give up if the block is too old, else write it whole.
BlkXmit ==
  /\ pc = "blk_xmit"
  /\ stage # "eot"
  /\ \/ /\ age > XmitTimeout
        /\ Return("error")
        /\ UNCHANGED <<ackAge, toDev>>
     \/ /\ age <= XmitTimeout
        /\ Len(toDev) < LineCap
        /\ toDev' = Append(toDev, blkbuf)
        /\ pc' = "wait_ack"
        /\ ackAge' = 0
        /\ UNCHANGED ret
  /\ UNCHANGED <<stage, i_blk, fpos, blkbuf, age, toHost, late>>
  /\ HostKeeps

\* Label eot_xmit: no limit on how often EOT is sent.
EotXmit ==
  /\ pc = "blk_xmit"
  /\ stage = "eot"
  /\ Len(toDev) < LineCap
  /\ toDev' = Append(toDev, blkbuf)
  /\ pc' = "wait_ack"
  /\ ackAge' = 0
  /\ UNCHANGED <<stage, i_blk, fpos, blkbuf, age, ret, toHost, late>>
  /\ HostKeeps

\* ymodem_wait_ack returns 0 and ymodem_xfer goes on.
Acked ==
  /\ pc = "wait_ack"
  /\ toHost # <<>>
  /\ Head(toHost) = "ACK"
  /\ toHost' = Tail(toHost)
  /\ \/ /\ stage \in {"info", "data"}
        /\ NextBlock(i_blk + 1)
     \/ /\ stage = "eot"
        /\ Load("null", i_blk, NullBlock)
        /\ UNCHANGED <<fpos, ret>>
     \/ /\ stage = "null"
        /\ Return("success")
        /\ UNCHANGED <<stage, i_blk, fpos, blkbuf, age>>
  /\ UNCHANGED <<ackAge, toDev, late>>
  /\ HostKeeps

\* Mutants: a NAK makes the data loop read the file again, is taken for an
\* ACK, or ends the transfer when it answers the final block.
Refused ==
  /\ pc = "wait_ack"
  /\ toHost # <<>>
  /\ Head(toHost) = "NAK"
  /\ toHost' = Tail(toHost)
  /\ UNCHANGED <<ackAge, toDev, late>>
  /\ HostKeeps

NakedRereads ==
  /\ Refused
  /\ IF stage = "data"
     THEN SendBlock(i_blk)
     ELSE pc' = "blk_xmit" /\ UNCHANGED <<stage, i_blk, fpos, blkbuf, age, ret>>

NakedGoesOn ==
  /\ Refused
  /\ IF stage = "data"
     THEN NextBlock(i_blk + 1)
     ELSE pc' = "blk_xmit" /\ UNCHANGED <<stage, i_blk, fpos, blkbuf, age, ret>>

NakedEnds ==
  /\ Refused
  /\ IF stage = "null" THEN Return("success") ELSE pc' = "blk_xmit" /\ ret' = ret
  /\ UNCHANGED <<stage, i_blk, fpos, blkbuf, age>>

\* ymodem_wait_ack returns EAGAIN on a NAK: send the same block again.
Naked ==
  /\ pc = "wait_ack"
  /\ toHost # <<>>
  /\ Head(toHost) = "NAK"
  /\ toHost' = Tail(toHost)
  /\ pc' = "blk_xmit"
  /\ UNCHANGED <<stage, i_blk, fpos, blkbuf, age, ackAge, ret, toDev, late>>
  /\ HostKeeps

\* Mutants: no stray byte ever ends the wait, or the one that does makes the
\* data loop read the file again.
StrayByteForever ==
  /\ pc = "wait_ack"
  /\ toHost # <<>>
  /\ Head(toHost) \notin {"ACK", "NAK"}
  /\ toHost' = Tail(toHost)
  /\ UNCHANGED <<hostVars, toDev, late>>
  /\ HostKeeps

StrayByteRereads ==
  /\ pc = "wait_ack"
  /\ toHost # <<>>
  /\ Head(toHost) \notin {"ACK", "NAK"}
  /\ toHost' = Tail(toHost)
  /\ IF ackAge > AckTimeout /\ stage = "data"
     THEN SendBlock(i_blk) /\ late' = TRUE
     ELSE UNCHANGED <<pc, stage, i_blk, fpos, blkbuf, age, ret, late>>
  /\ UNCHANGED <<ackAge, toDev>>
  /\ HostKeeps

\* Any other byte is skipped; only then is the age of the wait looked at.
StrayByte ==
  /\ pc = "wait_ack"
  /\ toHost # <<>>
  /\ Head(toHost) \notin {"ACK", "NAK"}
  /\ toHost' = Tail(toHost)
  /\ \/ /\ ackAge > AckTimeout
        /\ pc' = "blk_xmit"
        /\ late' = TRUE
     \/ /\ ackAge <= AckTimeout
        /\ UNCHANGED <<pc, late>>
  /\ UNCHANGED <<stage, i_blk, fpos, blkbuf, age, ackAge, ret, toDev>>
  /\ HostKeeps

\* read() or write() fails: every caller returns -errno at once.
IoError ==
  /\ pc # "done"
  /\ Return("error")
  /\ UNCHANGED <<stage, i_blk, fpos, blkbuf, age, ackAge, toDev, toHost, late>>
  /\ HostKeeps

HostStep ==
  WaitC \/ WaitCTimeout \/ BlkXmit \/ EotXmit \/ Acked \/ Naked \/ StrayByte

\* A second passes for the timers in use.
Tick ==
  /\ \/ pc = "wait_c" /\ age' = Saturate(age, CTimeout) /\ UNCHANGED ackAge
     \/ /\ pc \in {"blk_xmit", "wait_ack"}
        /\ age' = IF stage = "eot" THEN age ELSE Saturate(age, XmitTimeout)
        /\ ackAge' = Saturate(ackAge, AckTimeout)
  /\ <<age', ackAge'>> # <<age, ackAge>>
  /\ UNCHANGED <<pc, stage, i_blk, fpos, blkbuf, ret, toDev, toHost,
                 devVars, avail, budget, late>>

-----------------------------------------------------------------------------
(* Receiver and line: external to the repository *)

DevKeeps == UNCHANGED <<hostVars, avail, late>>

Answer(bytes) == toHost' = toHost \o bytes

expected == Len(rcvd) + 1

\* Before it listens, the chip prints boot text, which may hold a 'C', and
\* drops what it is sent.
Boot ==
  /\ phase = "boot"
  /\ \/ /\ Len(toHost) < LineCap
        /\ \E b \in {"C", "stray"} : Answer(<<b>>)
        /\ UNCHANGED <<toDev, phase>>
     \/ /\ toDev # <<>>
        /\ toDev' = Tail(toDev)
        /\ UNCHANGED <<toHost, phase>>
     \/ /\ phase' = "invite"
        /\ UNCHANGED <<toDev, toHost>>
  /\ UNCHANGED <<rcvd, budget>>
  /\ DevKeeps

\* The receiver repeats 'C' until block 0 arrives.
Invite ==
  /\ phase = "invite"
  /\ toDev = <<>>
  /\ Len(toHost) < LineCap
  /\ Answer(<<"C">>)
  /\ UNCHANGED <<toDev, phase, rcvd, budget>>
  /\ DevKeeps

\* An intact block arrives.
Receive ==
  /\ phase # "boot"
  /\ toDev # <<>>
  /\ toDev' = Tail(toDev)
  /\ LET b == Head(toDev)
         new  == phase = "data" /\ b.kind = "data" /\ b.num = expected % NumMod
         again == \/ phase = "data" /\ b.kind # "eot"
                     /\ b.num = (expected - 1) % NumMod
                  \/ phase = "end" /\ b.kind = "eot"
                  \/ phase = "closed" /\ b.kind = "null"
     IN \/ /\ phase = "invite" /\ b.kind = "info"
           /\ Answer(<<"ACK", "C">>)
           /\ phase' = "data"
           /\ UNCHANGED rcvd
        \/ /\ new
           /\ Answer(<<"ACK">>)
           /\ rcvd' = Append(rcvd, b.dat)
           /\ UNCHANGED phase
        \/ /\ phase = "data" /\ b.kind = "eot"
           /\ Answer(<<"ACK", "C">>)
           /\ phase' = "end"
           /\ UNCHANGED rcvd
        \/ /\ phase = "end" /\ b.kind = "null"
           /\ Answer(<<"ACK">>)
           /\ phase' = "closed"
           /\ UNCHANGED rcvd
        \/ /\ ~new /\ again
           /\ Answer(<<"ACK">>)
           /\ UNCHANGED <<phase, rcvd>>
        \/ /\ ~new /\ ~again
           /\ ~(phase = "invite" /\ b.kind = "info")
           /\ ~(phase = "data" /\ b.kind = "eot")
           /\ ~(phase = "end" /\ b.kind = "null")
           /\ Answer(<<"NAK">>)
           /\ UNCHANGED <<phase, rcvd>>
  /\ UNCHANGED budget
  /\ DevKeeps

\* A block arrives damaged, or the receiver refuses the first EOT: NAK.
Corrupt ==
  /\ budget.corrupt > 0
  /\ phase # "boot"
  /\ toDev # <<>>
  /\ toDev' = Tail(toDev)
  /\ Answer(<<"NAK">>)
  /\ budget' = [budget EXCEPT !.corrupt = @ - 1]
  /\ UNCHANGED devVars
  /\ DevKeeps

\* The line inserts a byte towards the host.
Noise ==
  /\ budget.noise > 0
  /\ Answer(<<"stray">>)
  /\ budget' = [budget EXCEPT !.noise = @ - 1]
  /\ UNCHANGED <<toDev, devVars>>
  /\ DevKeeps

\* The line loses what is at the front of one of its queues.
Lose ==
  /\ budget.loss > 0
  /\ \/ toDev # <<>> /\ toDev' = Tail(toDev) /\ UNCHANGED toHost
     \/ toHost # <<>> /\ toHost' = Tail(toHost) /\ UNCHANGED toDev
  /\ budget' = [budget EXCEPT !.loss = @ - 1]
  /\ UNCHANGED devVars
  /\ DevKeeps

DevStep == Boot \/ Invite \/ Receive \/ Corrupt
LineFault == Noise \/ Lose

\* Somebody shortens or extends the file while it is read, after the length
\* in Size was taken.
Resize ==
  /\ budget.resize > 0 /\ stage \in {"info", "data"}
  /\ avail' \in Avails \ {avail}
  /\ budget' = [budget EXCEPT !.resize = @ - 1]
  /\ UNCHANGED <<hostVars, toDev, toHost, devVars, late>>

-----------------------------------------------------------------------------

Init ==
  /\ pc = "wait_c" /\ stage = "info" /\ i_blk = 0 /\ fpos = 0
  /\ blkbuf = InfoBlock
  /\ age = 0 /\ ackAge = 0 /\ ret = "none"
  /\ toDev = <<>> /\ toHost = <<>>
  /\ phase \in {"boot", "invite"} /\ rcvd = <<>>
  /\ budget = [corrupt |-> MaxCorrupt, noise |-> MaxNoise, loss |-> MaxLoss,
               resize |-> MaxResize]
  /\ avail \in Avails
  /\ late = FALSE

Next == HostStep \/ IoError \/ Tick \/ DevStep \/ LineFault \/ Resize

Spec == Init /\ [][Next]_vars
-----------------------------------------------------------------------------
(* Properties *)

Blocks == [kind : {"info", "data", "eot", "null"},
           num : 0..(NumMod - 1),
           dat : [from : Nat, got : Nat]]

\* Every variable has its type, and the block being sent is one of the image.
TypeOK ==
  /\ pc \in {"wait_c", "blk_xmit", "wait_ack", "done"}
  /\ stage \in {"info", "data", "eot", "null"}
  /\ i_blk \in 0..(total_blk + 1)
  /\ stage \in {"info", "data"} => i_blk <= total_blk
  /\ fpos \in Nat
  /\ blkbuf \in Blocks
  /\ age \in Nat /\ ackAge \in Nat
  /\ ret \in {"none", "success", "failure", "error"}
  /\ toDev \in Seq(Blocks) /\ toHost \in Seq(Bytes)
  /\ phase \in {"boot", "invite", "data", "end", "closed"}
  /\ rcvd \in Seq([from : Nat, got : Nat])
  /\ budget \in [corrupt : Nat, noise : Nat, loss : Nat, resize : Nat]
  /\ avail \in Avails
  /\ late \in BOOLEAN

Complete ==
  /\ Len(rcvd) = total_blk
  /\ \A k \in 1..total_blk : rcvd[k] = FileBlock(k)

(***************************************************************************)
(* Success is never reported for a file that ran out of bytes before its   *)
(* last block, even if it did so during the transfer: "No data left on     *)
(* file." is always noticed.                                               *)
(***************************************************************************)
ShortFileRefused == ret = "success" => fpos >= (total_blk - 1) * BlkSize

\* The file is as long as it was when its length was taken, so far.
Intact == budget.resize = MaxResize /\ avail >= Size

\* d carries block k.  Only the last block may lack bytes, when the file does.
Carries(d, k) ==
  \/ d = FileBlock(k)
  \/ k = total_blk /\ ~Intact /\ d.from = FileBlock(k).from

(***************************************************************************)
(* The chip never stores a block out of order, twice, or with the bytes of *)
(* another one, whatever mixture of damage, stray bytes, repeats, lost     *)
(* answers and changes of the file happens: the wrapped block number that  *)
(* ymodem_xfer writes is enough for the receiver to tell a repeat from a   *)
(* new block, and a block before the last is never sent short.             *)
(***************************************************************************)
InOrder ==
  /\ Len(rcvd) <= total_blk
  /\ \A k \in 1..Len(rcvd) : Carries(rcvd[k], k)

(***************************************************************************)
(* When ymodem_xfer returns EXIT_SUCCESS and no wait for an answer gave up *)
(* on a stray byte, the chip has the whole image and has closed the        *)
(* transfer, although a NAK and an ACK carry no block number.              *)
(***************************************************************************)
SuccessMeansStored ==
  ret = "success" /\ ~late => Complete /\ phase = "closed"

(***************************************************************************)
(* While no wait has given up on a stray byte, the host leaves a block     *)
(* only when the chip has it: stop and wait.                               *)
(***************************************************************************)
NoRunAhead ==
  [][ i_blk' > i_blk /\ i_blk > 0 /\ ~late => Len(rcvd) >= i_blk ]_vars

(***************************************************************************)
(* A wait that gives up on a stray byte repeats a block the chip already   *)
(* acknowledged, and from then on every ACK read answers an older block.   *)
(* As long as the line has damaged and lost nothing the repeats are        *)
(* harmless: when EXIT_SUCCESS is returned, what the chip has stored and   *)
(* what is still on its way add up to the image.                           *)
(***************************************************************************)
Undamaged == budget.corrupt = MaxCorrupt /\ budget.loss = MaxLoss

RepeatsHarmless ==
  ret = "success" /\ Undamaged =>
    \A i \in 1..total_blk :
      \/ i <= Len(rcvd) /\ Carries(rcvd[i], i)
      \/ \E k \in DOMAIN toDev :
           /\ toDev[k].kind = "data"
           /\ toDev[k].num = i % NumMod
           /\ Carries(toDev[k].dat, i)

\* What the host knows.  Once a wait has given up on a stray byte the host
\* no longer knows which block an ACK answers.
Outcome ==
  CASE ~late /\ ret = "none"    -> "running"
    [] ~late /\ ret = "success" -> "delivered"
    [] OTHER                    -> "unsure"

Promise == INSTANCE FileTransfer
             WITH NBlocks <- total_blk, ImageBlock <- FileBlock,
                  stored <- rcvd, outcome <- Outcome

(***************************************************************************)
(* A transfer implements FileTransfer.                                     *)
(***************************************************************************)
KeepsPromise == Promise!Spec

(***************************************************************************)
(* The inductive invariant behind SuccessMeansStored, NoRunAhead and       *)
(* KeepsPromise.  As long as no wait has given up on a stray byte, at most *)
(* one thing is outstanding: the block in blkbuf, or one answer to it.     *)
(***************************************************************************)
NoAnswer(q) == \A k \in 1..Len(q) : q[k] \in {"C", "stray"}

OneAnswer(q, a) ==
  \E k \in 1..Len(q) :
    /\ q[k] = a
    /\ \A j \in 1..Len(q) : j # k => q[j] \in {"C", "stray"}

\* blkbuf, i_blk and fpos agree with the stage.
Loaded ==
  \/ stage = "info" /\ i_blk = 0 /\ fpos = 0 /\ blkbuf = InfoBlock
  \/ /\ stage = "data" /\ i_blk \in 1..total_blk
     /\ fpos = (i_blk - 1) * BlkSize + rlen(i_blk)
     /\ blkbuf = Block("data", i_blk, FileBlock(i_blk))
  \/ stage = "eot" /\ i_blk = total_blk + 1 /\ blkbuf = EotByte
  \/ stage = "null" /\ i_blk = total_blk + 1 /\ blkbuf = NullBlock

\* The receiver is ready for the block in blkbuf ...
Wanted ==
  \/ stage = "info" /\ phase \in {"boot", "invite"} /\ Len(rcvd) = 0
  \/ stage = "data" /\ phase = "data" /\ Len(rcvd) = i_blk - 1
  \/ stage = "eot"  /\ phase = "data" /\ Len(rcvd) = total_blk
  \/ stage = "null" /\ phase = "end"  /\ Len(rcvd) = total_blk

\* ... or has just taken it.
Taken ==
  \/ stage = "info" /\ phase = "data"   /\ Len(rcvd) = 0
  \/ stage = "data" /\ phase = "data"   /\ Len(rcvd) = i_blk
  \/ stage = "eot"  /\ phase = "end"    /\ Len(rcvd) = total_blk
  \/ stage = "null" /\ phase = "closed" /\ Len(rcvd) = total_blk

Idle == toDev = <<>> /\ NoAnswer(toHost) /\ Wanted

Awaiting ==
  \/ toDev = <<blkbuf>> /\ NoAnswer(toHost) /\ Wanted
  \/ toDev = <<>> /\ NoAnswer(toHost) /\ (Wanted \/ Taken)    \* lost
  \/ toDev = <<>> /\ OneAnswer(toHost, "ACK") /\ Taken
  \/ toDev = <<>> /\ OneAnswer(toHost, "NAK") /\ Wanted

StopAndWait ==
  /\ \A k \in 1..Len(rcvd) : rcvd[k] = FileBlock(k)
  /\ Loaded
  /\ pc = "wait_c" => stage = "info" /\ Idle
  /\ pc = "blk_xmit" => Idle
  /\ pc = "wait_ack" => Awaiting
  /\ pc = "done" =>
       stage = "null" /\ toDev = <<>> /\ NoAnswer(toHost) /\ Taken

\* Every reachable state, as long as the host still counts the answers.
InStep ==
  /\ pc = "done" <=> ret # "none"
  /\ ~late /\ ret \in {"none", "success"} => StopAndWait

(***************************************************************************)
(* Fairness.  The host is a single thread that never sleeps for good, time *)
(* passes, and the receiver serves its input and repeats its invitation.   *)
(* Faults and I/O errors are never obliged to happen.                      *)
(***************************************************************************)
FairSpec ==
  /\ Spec
  /\ WF_vars(HostStep)
  /\ WF_vars(Tick)
  /\ WF_vars(Boot /\ phase' = "invite")
  /\ WF_vars(Invite)
  /\ WF_vars(Receive)

(***************************************************************************)
(* The transfer ends, one way or the other.  ymodem.h gives every wait a   *)
(* limit (YMODEM_C_TIMEOUT, YMODEM_ACK_TIMEOUT, YMODEM_XMIT_TIMEOUT).      *)
(***************************************************************************)
Terminates == <>(pc = "done")

\* After EXIT_SUCCESS on a line that damages nothing the chip ends up with a
\* file that was left alone, even when the host had run ahead of the answers.
ReachesChip ==
  ret = "success" /\ Undamaged /\ Intact ~> Complete \/ ~(Undamaged /\ Intact)
=============================================================================
