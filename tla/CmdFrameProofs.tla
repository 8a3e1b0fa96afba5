-------------------------- MODULE CmdFrameProofs ---------------------------
(***************************************************************************)
(* What holds of uart_read_until_magic for every set of commands that      *)
(* ws63_send_cmddef can send, every text without a byte 0xEF, and any      *)
(* number of messages, calls, time-outs and lost bytes.                    *)
(***************************************************************************)
EXTENDS CmdFrame, SequenceTheorems, TLAPS

-----------------------------------------------------------------------------
(* The frames that ws63_send_cmddef builds *)

\* A number of 16 bits is the number that its two bytes make.
LEMMA TwoBytes ==
  ASSUME NEW n \in Word
  PROVE  Low(n) \in Byte /\ High(n) \in Byte /\ Low(n) + 256 * High(n) = n
BY DEF Low, High, Byte, Word

\* SWAP_CMD stays in a byte.
LEMMA SwapIsByte ==
  ASSUME NEW x \in Byte
  PROVE  SWAP_CMD(x) \in Byte
<1> DEFINE h == x \div 16
           l == x % 16
<1>1. h \in 0..15 /\ l \in 0..15 /\ x = (16 * h) + l
  BY DEF Byte
<1>2. x * 16 = (256 * h) + (16 * l)
  BY <1>1 DEF Byte
<1> HIDE DEF h, l
<1>3. (x * 16) % 256 = 16 * l
  BY <1>1, <1>2
<1> QED BY <1>1, <1>3 DEF SWAP_CMD, Byte, h

\* What a concatenation holds.
LEMMA ConcatHead ==
  ASSUME NEW s \in Seq(Byte), NEW t \in Seq(Byte)
  PROVE  /\ s \o t \in Seq(Byte)
         /\ Len(s \o t) = Len(s) + Len(t)
         /\ \A k \in 1..Len(s) : (s \o t)[k] = s[k]
<1>1. /\ s \o t \in Seq(Byte)
      /\ Len(s \o t) = Len(s) + Len(t)
      /\ \A k \in 1..(Len(s) + Len(t)) :
           (s \o t)[k] = IF k <= Len(s) THEN s[k] ELSE t[k - Len(s)]
  BY ConcatProperties
<1>2. Len(s) \in Nat /\ Len(t) \in Nat
  OBVIOUS
<1> QED BY <1>1, <1>2

\* A frame is a sequence of bytes that starts with the magic and says how long
\* it is.
LEMMA FrameShape ==
  ASSUME NEW f \in Frames
  PROVE  /\ f \in Seq(Byte)
         /\ Len(f) \in Word /\ Len(f) >= 10 /\ Len(f) < BufSize
         /\ f[1] = mgc[1] /\ f[2] = mgc[2] /\ f[3] = mgc[3] /\ f[4] = mgc[4]
         /\ f[5] + 256 * f[6] = Len(f)
<1>1. PICK c \in Commands : f = Frame(c)
  BY DEF Frames
<1>2. /\ c.cmd \in Byte /\ c.dat \in Seq(Byte)
      /\ BufSize > Len(c.dat) + 10 /\ BufSize \in Nat /\ BufSize <= 65536
      /\ Crc(FrameHead(c)) \in Word
  BY FrameAssumption
<1> DEFINE n == Len(c.dat) + 10
           pre == <<239, 190, 173, 222, Low(n), High(n), c.cmd, SWAP_CMD(c.cmd)>>
           crc == <<Low(Crc(FrameHead(c))), High(Crc(FrameHead(c)))>>
<1>3. n \in Word /\ n >= 10 /\ n < BufSize
  BY <1>2 DEF Word
<1>4. /\ Low(n) \in Byte /\ High(n) \in Byte /\ SWAP_CMD(c.cmd) \in Byte
      /\ Low(n) + 256 * High(n) = n
  BY <1>2, <1>3, TwoBytes, SwapIsByte
<1>5. crc \in Seq(Byte) /\ Len(crc) = 2
  BY <1>2, TwoBytes
<1>6. pre \in Seq(Byte) /\ Len(pre) = 8
  BY <1>2, <1>4 DEF Byte
<1>7. FrameHead(c) = pre \o c.dat
  BY DEF FrameHead, mgc
<1>8. /\ FrameHead(c) \in Seq(Byte) /\ Len(FrameHead(c)) = n - 2
      /\ \A k \in 1..8 : FrameHead(c)[k] = pre[k]
  <2> DEFINE dat == c.dat
  <2>1. pre \in Seq(Byte) /\ dat \in Seq(Byte) /\ Len(dat) = n - 10
    BY <1>2, <1>6
  <2>2. FrameHead(c) = pre \o dat
    BY <1>7
  <2> HIDE DEF pre, dat, n
  <2>3. /\ pre \o dat \in Seq(Byte)
        /\ Len(pre \o dat) = Len(pre) + Len(dat)
        /\ \A k \in 1..Len(pre) : (pre \o dat)[k] = pre[k]
    BY <2>1, ConcatHead
  <2> QED BY <1>3, <1>6, <2>1, <2>2, <2>3 DEF Word
<1>9. f = FrameHead(c) \o crc
  BY <1>1 DEF Frame
<1>10. /\ f \in Seq(Byte) /\ Len(f) = n
       /\ \A k \in 1..8 : f[k] = pre[k]
  <2> HIDE DEF pre, crc
  <2> DEFINE head == FrameHead(c)
  <2>1. head \in Seq(Byte) /\ Len(head) = n - 2 /\ n \in Nat
    BY <1>3, <1>8 DEF Word
  <2>2. /\ head \o crc \in Seq(Byte)
        /\ Len(head \o crc) = Len(head) + Len(crc)
        /\ \A k \in 1..Len(head) : (head \o crc)[k] = head[k]
    BY <1>5, <2>1, ConcatHead
  <2>3. f = head \o crc /\ \A k \in 1..8 : head[k] = pre[k]
    BY <1>8, <1>9
  <2> HIDE DEF head, n
  <2>4. Len(f) = n
    BY <1>5, <2>1, <2>2, <2>3
  <2>5. \A k \in 1..8 : k \in 1..Len(head)
    BY <1>3, <2>1
  <2> QED BY <2>2, <2>3, <2>4, <2>5
<1>11. /\ pre[1] = 239 /\ pre[2] = 190 /\ pre[3] = 173 /\ pre[4] = 222
       /\ pre[5] = Low(n) /\ pre[6] = High(n)
  OBVIOUS
<1> QED BY <1>3, <1>4, <1>10, <1>11 DEF mgc

-----------------------------------------------------------------------------
(* Types *)

\* Whatever the chip sends is a sequence of bytes, and its text holds no 0xEF.
LEMMA Messages ==
  /\ \A m \in Frames \cup Texts \cup {<<>>} :
       m \in Seq(Byte) /\ Len(m) \in Nat /\ \A k \in 1..Len(m) : m[k] \in Byte
  /\ \A m \in Texts : \A k \in 1..Len(m) : m[k] # mgc[1]
<1>1. \A m \in Texts : m \in Seq(Byte \ {mgc[1]})
  BY FrameAssumption
<1>2. \A m \in Texts : \A k \in 1..Len(m) : m[k] \in Byte \ {mgc[1]}
  BY <1>1
<1>3. \A m \in Texts : m \in Seq(Byte)
  <2> SUFFICES ASSUME NEW m \in Texts PROVE m \in Seq(Byte)
    OBVIOUS
  <2>1. Len(m) \in Nat /\ m = [k \in 1..Len(m) |-> m[k]]
    BY <1>1
  <2>2. m \in [1..Len(m) -> Byte]
    BY <1>2, <2>1
  <2> QED BY <2>1, <2>2
<1>4. \A m \in Frames : m \in Seq(Byte)
  BY FrameShape
<1>5. <<>> \in Seq(Byte)
  OBVIOUS
<1>6. \A m \in Seq(Byte) : Len(m) \in Nat /\ \A k \in 1..Len(m) : m[k] \in Byte
  OBVIOUS
<1> QED BY <1>2, <1>3, <1>4, <1>5, <1>6

\* Zeroed memory is a buffer of bytes.
LEMMA Zeroed == [k \in 0..(BufSize - 1) |-> 0] \in [0..(BufSize - 1) -> Byte]
BY DEF Byte

LEMMA InitType == Init => TypeOK
BY FrameAssumption, Zeroed DEF Init, TypeOK, Word

\* Reading a byte keeps the types of what it touches.
LEMMA GetByteType ==
  ASSUME TypeOK, GetByte
  PROVE  /\ NextByte \in Byte
         /\ buf' \in [0..(BufSize - 1) -> Byte]
         /\ buf'[i] = NextByte
         /\ \A k \in DOMAIN buf : k # i => buf'[k] = buf[k]
         /\ pos' \in 0..Len(cur) /\ pos' = pos + 1
<1>1. /\ cur \in Frames \cup Texts \cup {<<>>}
      /\ pos \in 0..Len(cur) /\ pos < Len(cur) /\ pos' = pos + 1
      /\ buf \in [0..(BufSize - 1) -> Byte] /\ i \in DOMAIN buf
      /\ buf' = [buf EXCEPT ![i] = NextByte]
  BY DEF TypeOK, GetByte
<1>2. Len(cur) \in Nat /\ pos + 1 \in 1..Len(cur)
  BY <1>1, Messages
<1>3. NextByte \in Byte
  BY <1>1, <1>2, Messages DEF NextByte
<1> HIDE DEF NextByte
<1> QED BY <1>1, <1>2, <1>3

LEMMA NextType == TypeOK /\ [Next]_vars => TypeOK'
<1> SUFFICES ASSUME TypeOK, [Next]_vars PROVE TypeOK'
  OBVIOUS
<1>1. CASE Scan
  <2>1. /\ buf' \in [0..(BufSize - 1) -> Byte] /\ pos' \in 0..Len(cur)
        /\ st = 0 /\ i \in 0..2
    BY <1>1, GetByteType DEF Scan, TypeOK
  <2>2. i' \in Nat /\ (st' = 0 => i' <= 2) /\ (st' = 1 => i' >= 3) /\ st' \in {0, 1}
    BY <1>1, <2>1 DEF Scan
  <2>3. age' = 0 /\ UNCHANGED <<calls, cur, msgs, lost, clean, framelen, ret>>
    BY <1>1 DEF Scan, GetByte
  <2> QED BY <2>1, <2>2, <2>3, FrameAssumption DEF TypeOK
<1>2. CASE Body
  <2>1. buf' \in [0..(BufSize - 1) -> Byte] /\ pos' \in 0..Len(cur)
    BY <1>2, GetByteType DEF Body
  <2>2. st = 1 /\ UNCHANGED st /\ i \in Nat /\ i >= 3 /\ framelen \in Word
    BY <1>2 DEF Body, TypeOK
  <2>3. i' \in Nat /\ i' >= 3 /\ ret' \in {"none", "ok", "error"}
    BY <1>2, <2>2 DEF Body, TypeOK
  <2>4. framelen' \in Word
    <3>1. CASE i = 5
      <4>1. 4 \in 0..(BufSize - 1) /\ 5 \in 0..(BufSize - 1)
        BY <1>2, <3>1, FrameAssumption DEF Body, GetByte, TypeOK
      <4>2. buf'[4] \in Byte /\ buf'[5] \in Byte
        BY <2>1, <4>1
      <4>3. framelen' = buf'[4] + 256 * buf'[5]
        BY <1>2, <3>1 DEF Body
      <4> QED BY <4>2, <4>3 DEF Byte, Word
    <3>2. CASE i # 5
      BY <1>2, <2>2, <3>2 DEF Body
    <3> QED BY <3>1, <3>2
  <2>5. age' = 0 /\ UNCHANGED <<calls, cur, msgs, lost, clean>>
    BY <1>2 DEF Body, GetByte
  <2> QED BY <2>1, <2>2, <2>3, <2>4, <2>5, FrameAssumption DEF TypeOK
<1>3. CASE TimeOut
  BY <1>3 DEF TimeOut, TypeOK, readerVars, chipVars
<1>4. CASE Call
  <2>1. calls + 1 \in Nat
    BY DEF TypeOK
  <2>2. AtBoundary \in BOOLEAN
    BY DEF AtBoundary
  <2>3. /\ st' = 0 /\ i' = 0 /\ framelen' = 0 /\ age' = 0 /\ ret' = "none"
        /\ buf' \in [0..(BufSize - 1) -> Byte]
    BY <1>4, Zeroed DEF Call, Enter
  <2>4. calls' = calls + 1 /\ clean' = AtBoundary /\ UNCHANGED chipVars
    BY <1>4 DEF Call
  <2> HIDE DEF AtBoundary
  <2> QED BY <2>1, <2>2, <2>3, <2>4, FrameAssumption DEF TypeOK, chipVars, Word
<1>5. CASE ReadError
  BY <1>5 DEF ReadError, TypeOK, readerVars, chipVars
<1>6. CASE Tick
  BY <1>6, FrameAssumption DEF Tick, TypeOK, readerVars, chipVars
<1>7. CASE Say
  <2>1. cur' \in Frames \cup Texts /\ Len(cur') \in Nat /\ pos' = 0
        /\ msgs' = msgs + 1
    BY <1>7, Messages DEF Say
  <2>2. UNCHANGED <<st, i, framelen, buf, age, ret, calls, lost, clean>>
    BY <1>7 DEF Say, readerVars
  <2> QED BY <2>1, <2>2 DEF TypeOK
<1>8. CASE Lose
  <2>1. /\ cur \in Frames \cup Texts \cup {<<>>} /\ pos \in 0..Len(cur)
        /\ pos < Len(cur) /\ pos' = pos + 1 /\ lost' = lost + 1
        /\ clean' \in BOOLEAN
    BY <1>8 DEF Lose, TypeOK
  <2>2. Len(cur) \in Nat
    BY <2>1, Messages
  <2>3. pos' \in 0..Len(cur)
    BY <2>1, <2>2
  <2>4. UNCHANGED <<st, i, framelen, buf, age, ret, calls, cur, msgs>>
    BY <1>8 DEF Lose, readerVars
  <2> QED BY <2>1, <2>3, <2>4 DEF TypeOK
<1>9. CASE UNCHANGED vars
  BY <1>9 DEF vars, readerVars, chipVars, TypeOK
<1> QED BY <1>1, <1>2, <1>3, <1>4, <1>5, <1>6, <1>7, <1>8, <1>9
        DEF Next, HostStep

(***************************************************************************)
(* The locals of uart_read_until_magic and the line keep their types.      *)
(***************************************************************************)
THEOREM TypeCorrect == Spec => []TypeOK
BY InitType, NextType, PTL DEF Spec

-----------------------------------------------------------------------------
(* One frame for each call *)

IInv == TypeOK /\ InFrame

\* The two states of a call that began between two messages.
Outside ==
  /\ cur \in Texts \cup {<<>>} \/ pos = Len(cur) \/ pos = 0
  /\ st = 0 /\ i = 0 /\ framelen = 0

Inside ==
  /\ cur \in Frames /\ pos \in 1..(Len(cur) - 1)
  /\ i = pos
  /\ st = (IF pos >= 3 THEN 1 ELSE 0)
  /\ framelen = (IF pos >= 6 THEN Len(cur) ELSE 0)
  /\ Holds(pos)

LEMMA InFrameCases ==
  InFrame <=> (clean /\ ret = "none" => Outside \/ Inside)
BY DEF InFrame, Outside, Inside

\* A message is not both text and a frame.
LEMMA TextIsNoFrame == Texts \cap Frames = {}
<1> SUFFICES ASSUME NEW m \in Texts, m \in Frames PROVE FALSE
  OBVIOUS
<1>1. 1 \in 1..Len(m) /\ m[1] = mgc[1]
  BY FrameShape DEF Word
<1> QED BY <1>1, Messages

\* Reading a byte inside a frame makes buf hold one more byte of it.
LEMMA OneMoreByte ==
  ASSUME TypeOK, GetByte, i = pos, Holds(pos)
  PROVE  \A k \in 1..(pos + 1) : buf'[k - 1] = cur[k]
<1>1. /\ pos \in Nat /\ i \in DOMAIN buf
      /\ buf \in [0..(BufSize - 1) -> Byte] /\ BufSize \in Nat
  BY FrameAssumption, Messages DEF TypeOK, GetByte
<1>2. buf'[pos] = cur[pos + 1]
  BY GetByteType DEF NextByte
<1>3. \A k \in 1..pos : buf'[k - 1] = cur[k]
  <2> SUFFICES ASSUME NEW k \in 1..pos PROVE buf'[k - 1] = cur[k]
    OBVIOUS
  <2>1. k - 1 \in DOMAIN buf /\ k - 1 # i
    BY <1>1
  <2>2. buf[k - 1] = cur[k]
    BY DEF Holds
  <2> QED BY <2>1, <2>2, GetByteType
<1> QED BY <1>1, <1>2, <1>3

LEMMA ScanStep == ASSUME IInv, Scan, clean, ret = "none"
                  PROVE  Outside' \/ Inside'
<1>1. /\ TypeOK /\ GetByte /\ st = 0 /\ pos < Len(cur) /\ pos' = pos + 1
      /\ cur' = cur /\ framelen' = framelen
      /\ cur \in Frames \cup Texts \cup {<<>>} /\ pos \in 0..Len(cur)
      /\ Len(cur) \in Nat
  BY Messages DEF IInv, Scan, GetByte, TypeOK
<1>2. Outside \/ Inside
  BY InFrameCases DEF IInv
<1>3. CASE Outside /\ cur \in Texts
  <2>1. i = 0 /\ framelen = 0
    BY <1>3 DEF Outside
  <2>2. NextByte # mgc[1]
    BY <1>1, <1>3, Messages DEF NextByte
  <2>3. i' = 0 /\ st' = 0
    BY <1>1, <2>1, <2>2 DEF Scan
  <2> QED BY <1>1, <1>3, <2>1, <2>3 DEF Outside
<1>4. CASE Outside /\ cur \notin Texts
  <2>1. i = 0 /\ framelen = 0 /\ pos = 0 /\ cur \in Frames
    BY <1>1, <1>4 DEF Outside
  <2>2. NextByte = mgc[1] /\ Len(cur) >= 10
    BY <2>1, FrameShape DEF NextByte
  <2>3. i' = 1 /\ st' = 0
    BY <1>1, <2>1, <2>2 DEF Scan
  <2>4. \A k \in 1..1 : buf'[k - 1] = cur[k]
    <3>1. Holds(0)
      BY DEF Holds
    <3> QED BY <1>1, <2>1, <3>1, OneMoreByte
  <2>5. pos' = 1 /\ pos' \in 1..(Len(cur) - 1)
    BY <1>1, <2>1, <2>2
  <2> QED BY <1>1, <2>1, <2>3, <2>4, <2>5 DEF Inside, Holds
<1>5. CASE Inside
  <2>1. /\ cur \in Frames /\ i = pos /\ pos \in 1..2 /\ framelen = 0
        /\ Holds(pos) /\ Len(cur) >= 10
    BY <1>1, <1>5, FrameShape DEF Inside
  <2>2. NextByte = mgc[i + 1]
    <3>1. pos = 1 \/ pos = 2
      BY <2>1
    <3> QED BY <2>1, <3>1, FrameShape DEF NextByte
  <2>3. i' = i + 1 /\ st' = (IF i + 1 >= 3 THEN 1 ELSE 0)
    BY <2>2 DEF Scan
  <2>4. \A k \in 1..(pos + 1) : buf'[k - 1] = cur[k]
    BY <1>1, <2>1, OneMoreByte
  <2>5. pos' \in 1..(Len(cur) - 1) /\ pos' < 6
    BY <1>1, <2>1
  <2> QED BY <1>1, <2>1, <2>3, <2>4, <2>5 DEF Inside, Holds
<1> QED BY <1>2, <1>3, <1>4, <1>5

LEMMA BodyStep ==
  ASSUME IInv, Body, clean, ret = "none"
  PROVE  /\ ret' = "none" => Inside'
         /\ ret' = "ok" =>
              /\ cur \in Frames /\ framelen = Len(cur)
              /\ pos' = Len(cur)
              /\ \A k \in 1..Len(cur) : buf'[k - 1] = cur[k]
<1>1. /\ TypeOK /\ GetByte /\ st = 1 /\ st' = 1 /\ pos < Len(cur)
      /\ pos' = pos + 1 /\ cur' = cur /\ pos \in 0..Len(cur)
      /\ Len(cur) \in Nat
  BY Messages DEF IInv, Body, GetByte, TypeOK
<1>2. Inside
  BY <1>1, InFrameCases DEF IInv, Outside
<1>3. /\ cur \in Frames /\ i = pos /\ pos >= 3 /\ Holds(pos)
      /\ framelen = (IF pos >= 6 THEN Len(cur) ELSE 0)
      /\ Len(cur) >= 10 /\ cur[5] + 256 * cur[6] = Len(cur)
  BY <1>1, <1>2, FrameShape DEF Inside
<1>4. \A k \in 1..(pos + 1) : buf'[k - 1] = cur[k]
  BY <1>1, <1>3, OneMoreByte
<1>5. framelen' = (IF pos' >= 6 THEN Len(cur) ELSE 0)
  <2>1. CASE pos = 5
    <3>1. buf'[4] = cur[5] /\ buf'[5] = cur[6]
      <4>1. 5 \in 1..(pos + 1) /\ 6 \in 1..(pos + 1)
        BY <2>1
      <4>2. buf'[5 - 1] = cur[5] /\ buf'[6 - 1] = cur[6]
        BY <1>4, <4>1
      <4> QED BY <4>2
    <3>2. framelen' = buf'[4] + 256 * buf'[5]
      BY <1>3, <2>1 DEF Body
    <3> QED BY <1>1, <1>3, <2>1, <3>1, <3>2
  <2>2. CASE pos # 5
    <3>1. framelen' = framelen
      BY <1>3, <2>2 DEF Body
    <3> QED BY <1>1, <1>3, <2>2, <3>1
  <2> QED BY <2>1, <2>2
<1>6. CASE i # 5 /\ i = framelen - 1 /\ ret' = "ok"
  <2>1. pos >= 6 /\ framelen = Len(cur) /\ pos + 1 = Len(cur)
    BY <1>1, <1>3, <1>6
  <2> QED BY <1>1, <1>3, <1>4, <1>6, <2>1
<1>7. CASE (i = 5 \/ i # framelen - 1) /\ i' = i + 1 /\ UNCHANGED ret
  <2>1. pos + 1 # Len(cur)
    BY <1>1, <1>3, <1>7
  <2>2. pos' \in 1..(Len(cur) - 1) /\ pos' >= 3
    BY <1>1, <1>3, <2>1
  <2> QED BY <1>1, <1>3, <1>4, <1>5, <1>7, <2>2 DEF Inside, Holds
<1> QED BY <1>6, <1>7 DEF Body

LEMMA NextInFrame == IInv /\ [Next]_vars => InFrame'
<1> SUFFICES ASSUME IInv, [Next]_vars, clean', ret' = "none"
             PROVE  Outside' \/ Inside'
  BY InFrameCases DEF InFrame, Outside, Inside
<1>1. TypeOK /\ (clean /\ ret = "none" => Outside \/ Inside)
  BY InFrameCases DEF IInv
<1>2. CASE Scan
  BY <1>2, ScanStep DEF Scan, GetByte
<1>3. CASE Body
  BY <1>3, BodyStep DEF Body, GetByte
<1>4. CASE TimeOut \/ ReadError
  BY <1>4 DEF TimeOut, ReadError
<1>5. CASE Call
  <2>1. st' = 0 /\ i' = 0 /\ framelen' = 0
    BY <1>5 DEF Call, Enter
  <2>2. (pos' = 0 \/ pos' = Len(cur')) /\ cur' = cur
    BY <1>5 DEF Call, AtBoundary, chipVars
  <2> QED BY <2>1, <2>2 DEF Outside
<1>6. CASE Tick
  BY <1>1, <1>6 DEF Tick, Outside, Inside, Holds, readerVars, chipVars
<1>7. CASE Say
  <2>1. /\ pos = Len(cur) /\ pos' = 0
        /\ UNCHANGED <<st, i, framelen, buf, ret, clean>>
    BY <1>7 DEF Say, readerVars
  <2>2. Outside
    <3>1. Len(cur) \in Nat
      BY <1>1, Messages DEF TypeOK
    <3> QED BY <1>1, <2>1, <3>1 DEF Inside
  <2> QED BY <2>1, <2>2 DEF Outside
<1>8. CASE Lose
  <2>1. /\ clean /\ cur \in Texts /\ cur' = cur
        /\ UNCHANGED <<st, i, framelen, buf, ret>>
    BY <1>8 DEF Lose, readerVars
  <2>2. Outside
    BY <1>1, <2>1, TextIsNoFrame DEF Inside
  <2> QED BY <2>1, <2>2 DEF Outside
<1>9. CASE UNCHANGED vars
  BY <1>1, <1>9 DEF vars, readerVars, chipVars, Outside, Inside, Holds
<1> QED BY <1>2, <1>3, <1>4, <1>5, <1>6, <1>7, <1>8, <1>9
        DEF Next, HostStep

LEMMA InitInFrame == Init => InFrame
BY DEF Init, InFrame

LEMMA Invariant == Spec => []IInv
<1>1. Init => IInv
  BY InitType, InitInFrame DEF IInv
<1>2. IInv /\ [Next]_vars => IInv'
  BY NextType, NextInFrame DEF IInv
<1> QED BY <1>1, <1>2, PTL DEF Spec

(***************************************************************************)
(* A call that began between two messages is always either outside frames  *)
(* or in step with the one it is in: it never lets a frame go by.          *)
(***************************************************************************)
THEOREM AlwaysInFrame == Spec => []InFrame
BY Invariant, PTL DEF IInv

(***************************************************************************)
(* Such a call returns 0 only with one whole frame in buf, and leaves the  *)
(* bytes that follow it on the line.                                       *)
(***************************************************************************)
THEOREM ReadsOneFrame == Spec => OneFrameEach
<1> DEFINE Whole ==
      clean /\ ret = "none" /\ ret' = "ok" =>
        /\ cur \in Frames /\ framelen = Len(cur)
        /\ pos' = Len(cur)
        /\ \A k \in 1..Len(cur) : buf'[k - 1] = cur[k]
<1>1. IInv /\ [Next]_vars => [Whole]_vars
  <2> SUFFICES ASSUME IInv, [Next]_vars, clean, ret = "none", ret' = "ok"
               PROVE  Whole
    OBVIOUS
  <2>1. Body
    BY DEF Next, HostStep, Scan, TimeOut, Call, Enter, ReadError, Tick, Say,
           Lose, vars
  <2> QED BY <2>1, BodyStep
<1>2. Spec => [][Whole]_vars
  BY <1>1, Invariant, PTL DEF Spec
<1> QED BY <1>2 DEF OneFrameEach
=============================================================================
