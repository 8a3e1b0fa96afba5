------------------------------ MODULE CmdFrame ------------------------------
(***************************************************************************)
(* Command frames (src/src/io.h).  ws63_send_cmddef builds a frame,        *)
(* uart_read_until_magic picks the next frame out of a stream of bytes in  *)
(* which the chip also prints text.  Both directions use the format of     *)
(* ws63defs.h, so what the reader is given here are frames as the sender   *)
(* builds them.                                                            *)
(*                                                                         *)
(* The line is first in, first out, and what happens between the sending   *)
(* and the reading of a byte only shows as time: the message the chip is   *)
(* sending is in cur, and the host takes its bytes one by one.             *)
(***************************************************************************)
EXTENDS Integers, Sequences

CONSTANTS
  Commands,    \* struct cmddef: [cmd, dat]
  Texts,       \* what the chip prints between frames
  Crc(_),      \* crc16_xmodem
  BufSize,     \* 1024 + 12
  ReadTimeout, \* UART_READ_TIMEOUT
  MaxMsgs,     \* messages the chip sends
  MaxCalls,    \* calls of uart_read_until_magic
  MaxLoss      \* bytes the line may lose

Byte == {x \in Nat : x < 256}
Word == {x \in Nat : x < 65536}

mgc == <<239, 190, 173, 222>>     \* "\xef\xbe\xad\xde"

\* SWAP_CMD, stored in an uint8_t.
SWAP_CMD(x) == ((x * 16) % 256) + (x \div 16)

Low(x)  == x % 256
High(x) == x \div 256

\* Mutant: the length without the start of frame.
FrameHeadShort(c) ==
  LET total_bytes == Len(c.dat) + 6
  IN mgc \o <<Low(total_bytes), High(total_bytes), c.cmd, SWAP_CMD(c.cmd)>>
         \o c.dat

\* The bytes ws63_send_cmddef writes: a head and its checksum.
FrameHead(c) ==
  LET total_bytes == Len(c.dat) + 10
  IN mgc \o <<Low(total_bytes), High(total_bytes), c.cmd, SWAP_CMD(c.cmd)>>
         \o c.dat

Frame(c) ==
  FrameHead(c) \o <<Low(Crc(FrameHead(c))), High(Crc(FrameHead(c)))>>

Frames == {Frame(c) : c \in Commands}

\* The assert of ws63_send_cmddef bounds the length.  Printed text is ASCII:
\* it holds no byte 0xEF.
ASSUME FrameAssumption ==
  /\ Commands \subseteq [cmd : Byte, dat : Seq(Byte)]
  /\ \A c \in Commands : BufSize > Len(c.dat) + 10
  /\ Texts \subseteq Seq(Byte \ {mgc[1]})
  /\ \A t \in Texts : t # <<>>
  /\ BufSize \in Nat /\ BufSize <= 65536
  /\ \A c \in Commands : Crc(FrameHead(c)) \in Word
  /\ ReadTimeout \in Nat /\ MaxMsgs \in Nat /\ MaxCalls \in Nat
  /\ MaxLoss \in Nat

VARIABLES
  st, i, framelen, buf, \* the locals of uart_read_until_magic
  age,                  \* seconds since t0
  ret,                  \* "none" while the call runs
  calls,                \* calls made
  cur, pos,             \* the message being received, bytes of it gone
  msgs, lost,           \* messages sent, bytes lost
  clean                 \* history: the call began between two messages and
                        \* no byte of a frame was lost since

readerVars == <<st, i, framelen, buf>>
chipVars == <<cur, pos, msgs, lost>>
vars == <<readerVars, age, ret, calls, chipVars, clean>>

-----------------------------------------------------------------------------
(* uart_read_until_magic *)

AtBoundary == pos \in {0, Len(cur)}

Enter ==
  /\ st' = 0 /\ i' = 0 /\ framelen' = 0
  /\ buf' = [k \in 0..(BufSize - 1) |-> 0]
  /\ age' = 0 /\ ret' = "none"

Call ==
  /\ ret # "none"
  /\ calls < MaxCalls
  /\ Enter
  /\ calls' = calls + 1
  /\ clean' = AtBoundary
  /\ UNCHANGED chipVars

\* read() returns the next byte: it goes to buf[i] and t0 is set anew.  Where a
\* lost byte leads to a length that buf cannot hold, the code leaves the array;
\* those steps are not modelled.
NextByte == cur[pos + 1]

GetByte ==
  /\ ret = "none"
  /\ pos < Len(cur)
  /\ i \in DOMAIN buf
  /\ pos' = pos + 1
  /\ buf' = [buf EXCEPT ![i] = NextByte]
  /\ age' = 0
  /\ UNCHANGED <<calls, cur, msgs, lost, clean>>

\* Mutant: i++ >= 3 in place of ++i >= 3.
ScanPostIncrement ==
  /\ st = 0
  /\ GetByte
  /\ \/ /\ NextByte = mgc[i + 1]
        /\ i' = i + 1
        /\ st' = IF i >= 3 THEN 1 ELSE 0
     \/ /\ NextByte # mgc[i + 1]
        /\ i' = 0
        /\ UNCHANGED st
  /\ UNCHANGED <<framelen, ret>>

\* case 0: looking for the magic.  Three of its bytes are enough, so that
\* i >= 3 never holds when a byte does not match.
Scan ==
  /\ st = 0
  /\ GetByte
  /\ \/ /\ NextByte = mgc[i + 1]
        /\ i' = i + 1
        /\ st' = IF i + 1 >= 3 THEN 1 ELSE 0
     \/ /\ NextByte # mgc[i + 1]
        /\ i' = 0
        /\ UNCHANGED st
  /\ UNCHANGED <<framelen, ret>>

\* Mutant: the end is looked for one byte too late.
BodyOneMore ==
  /\ st = 1
  /\ GetByte
  /\ framelen' = IF i = 5 THEN buf'[4] + 256 * buf'[5] ELSE framelen
  /\ \/ i # 5 /\ i = framelen /\ ret' = "ok" /\ UNCHANGED i
     \/ (i = 5 \/ i # framelen) /\ i' = i + 1 /\ UNCHANGED ret
  /\ UNCHANGED st

\* case 1: 4:5 are the length to be read.  A bad checksum is only reported.
Body ==
  /\ st = 1
  /\ GetByte
  /\ framelen' = IF i = 5 THEN buf'[4] + 256 * buf'[5] ELSE framelen
  /\ \/ i # 5 /\ i = framelen - 1 /\ ret' = "ok" /\ UNCHANGED i
     \/ (i = 5 \/ i # framelen - 1) /\ i' = i + 1 /\ UNCHANGED ret
  /\ UNCHANGED st

\* Mutant: the limit is not looked at inside a frame.
TimeOutOutsideFrames ==
  /\ ret = "none" /\ st = 0
  /\ age > ReadTimeout
  /\ ret' = "error"
  /\ UNCHANGED <<readerVars, age, calls, chipVars, clean>>

\* Too far away from the last read.
TimeOut ==
  /\ ret = "none"
  /\ age > ReadTimeout
  /\ ret' = "error"
  /\ UNCHANGED <<readerVars, age, calls, chipVars, clean>>

\* read() fails.
ReadError ==
  /\ ret = "none"
  /\ ret' = "error"
  /\ UNCHANGED <<readerVars, age, calls, chipVars, clean>>

\* A second passes; age is not counted beyond the limit.
Tick ==
  /\ ret = "none"
  /\ age <= ReadTimeout
  /\ age' = age + 1
  /\ UNCHANGED <<readerVars, ret, calls, chipVars, clean>>

-----------------------------------------------------------------------------
(* Chip and line: external to the repository *)

Say ==
  /\ pos = Len(cur)
  /\ msgs < MaxMsgs
  /\ cur' \in Frames \cup Texts
  /\ pos' = 0
  /\ msgs' = msgs + 1
  /\ UNCHANGED <<readerVars, age, ret, calls, lost, clean>>

Lose ==
  /\ lost < MaxLoss
  /\ pos < Len(cur)
  /\ pos' = pos + 1
  /\ lost' = lost + 1
  /\ clean' = (clean /\ cur \in Texts)
  /\ UNCHANGED <<readerVars, age, ret, calls, cur, msgs>>

-----------------------------------------------------------------------------

Init ==
  /\ st = 0 /\ i = 0 /\ framelen = 0
  /\ buf = [k \in 0..(BufSize - 1) |-> 0]
  /\ age = 0 /\ ret = "none" /\ calls = 1
  /\ cur = <<>> /\ pos = 0 /\ msgs = 0 /\ lost = 0
  /\ clean = TRUE

HostStep == Scan \/ Body \/ TimeOut

Next == HostStep \/ Call \/ ReadError \/ Tick \/ Say \/ Lose

Spec == Init /\ [][Next]_vars

\* The host runs and seconds pass; a byte that has arrived is read.
FairSpec == Spec /\ WF_vars(HostStep) /\ WF_vars(Tick)

-----------------------------------------------------------------------------
(* Properties *)

TypeOK ==
  /\ st \in {0, 1}
  /\ i \in Nat
  /\ st = 0 => i <= 2
  /\ st = 1 => i >= 3
  /\ framelen \in Word
  /\ buf \in [0..(BufSize - 1) -> Byte]
  /\ age \in 0..(ReadTimeout + 1)
  /\ ret \in {"none", "ok", "error"}
  /\ calls \in Nat
  /\ cur \in Frames \cup Texts \cup {<<>>}
  /\ pos \in 0..Len(cur)
  /\ msgs \in Nat /\ lost \in Nat
  /\ clean \in BOOLEAN

\* buf[0 .. n-1] are the first n bytes of the message.
Holds(n) == \A k \in 1..n : buf[k - 1] = cur[k]

(***************************************************************************)
(* A call that began between two messages returns 0 only when it has read  *)
(* one whole frame: the frame is in buf, its length is framelen, and not a *)
(* byte of what follows is gone.                                           *)
(***************************************************************************)
OneFrameEach ==
  [][ clean /\ ret = "none" /\ ret' = "ok" =>
        /\ cur \in Frames /\ framelen = Len(cur)
        /\ pos' = Len(cur)
        /\ \A k \in 1..Len(cur) : buf'[k - 1] = cur[k] ]_vars

(***************************************************************************)
(* A call that began between two messages never lets a frame go by, and    *)
(* never stores a byte outside buf: the length that it reads from buf is   *)
(* the length of the frame it is in.                                       *)
(***************************************************************************)
InFrame ==
  clean /\ ret = "none" =>
    \/ (cur \in Texts \cup {<<>>} \/ pos = Len(cur) \/ pos = 0)
       /\ st = 0 /\ i = 0 /\ framelen = 0
    \/ cur \in Frames /\ pos \in 1..(Len(cur) - 1)
       /\ i = pos
       /\ st = (IF pos >= 3 THEN 1 ELSE 0)
       /\ framelen = (IF pos >= 6 THEN Len(cur) ELSE 0)
       /\ Holds(pos)

(***************************************************************************)
(* Every call returns once the chip is silent, in the middle of a frame    *)
(* too, and after a lost byte has put a wrong length in buf.               *)
(***************************************************************************)
EveryCallEnds == ret = "none" ~> ret # "none"
=============================================================================
