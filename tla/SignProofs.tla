----------------------------- MODULE SignProofs -----------------------------
(***************************************************************************)
(* Signing an image of any length, read in any pieces, with any block size *)
(* and any alignment: what is hashed is what is written, and the header    *)
(* that ends up before it is that of the padded message of the standard.   *)
(***************************************************************************)
EXTENDS Sign, Sha256Proofs

\* What the output file is made of.
Bytes == {"image", "zero"} \X Nat

\* No read failed and nobody changed the input.
Untouched == budget.short = MaxShort /\ budget.resize = MaxResize

\* The image with its padding.
Aligned == Image(0, pos) \o Zeros(len - pos)

\* Until the end of the input everything that was read is hashed and written.
Reading ==
  /\ body = Image(0, pos) /\ Message(sha) = body /\ len = pos
  /\ buf = NoHeader
  /\ Untouched => pos <= size

\* From then on the buffer holds the header for the padded image.
Signed ==
  /\ pos <= len /\ len < pos + Align /\ len % Align = 0
  /\ buf = [code_len |-> len, code_hash |-> Padded(Aligned)]
  /\ Untouched => pos = size

SignInv ==
  /\ prog \in {"ws63sign", "write_prog"}
  /\ pc \in {"start", "head", "read", "pad", "header", "send", "done"}
  /\ size \in Sizes /\ pos \in Nat /\ binlen \in Nat /\ sent \in Nat
  /\ len \in Nat /\ Sound(sha, Bytes)
  /\ result \in {"none", "ok", "fail"} /\ (pc = "done" <=> result # "none")
  /\ budget \in [short : 0..MaxShort, resize : 0..MaxResize, write : 0..MaxWrite]
  /\ pc \in {"start", "head", "read"} => Reading
  /\ pc \in {"pad", "header", "send"} \/ result = "ok" => Signed
  /\ pc = "pad" => body = Image(0, pos)
  /\ lost \in BOOLEAN
  /\ pc \in {"start", "head", "read", "pad"} => ~lost
  /\ (pc \in {"header", "send"} \/ result = "ok") /\ ~lost => body = Aligned
  /\ pc \in {"start", "head", "read", "pad", "header"} \/ result = "fail" =>
       header = NoHeader
  /\ pc = "send" => prog = "write_prog"
  /\ (pc = "send" \/ result = "ok") /\ ~lost => header = buf
  /\ result = "ok" /\ prog = "write_prog" => sent = len

-----------------------------------------------------------------------------
(* Pieces of the image *)

LEMMA SignConstants ==
  /\ Sizes \subseteq Nat /\ ChunkSize \in Nat \ {0} /\ Align \in Nat \ {0}
  /\ MaxShort \in Nat /\ MaxResize \in Nat /\ MaxWrite \in Nat
BY SignAssumption

LEMMA Pieces ==
  ASSUME NEW n \in Nat, NEW from \in Nat
  PROVE  /\ Image(from, n) \in Seq(Bytes) /\ Len(Image(from, n)) = n
         /\ \A i \in 1..n : Image(from, n)[i] = Byte("image", from + i)
         /\ Zeros(n) \in Seq(Bytes) /\ Len(Zeros(n)) = n
<1>1. \A i \in 1..n : Byte("image", from + i) \in Bytes /\ Byte("zero", 0) \in Bytes
  BY DEF Byte, Bytes
<1>2. /\ Image(from, n) \in Seq(Bytes) /\ Len(Image(from, n)) = n
      /\ \A i \in 1..n : Image(from, n)[i] = Byte("image", from + i)
  BY <1>1 DEF Image
<1>3. Zeros(n) \in Seq(Bytes) /\ Len(Zeros(n)) = n
  BY <1>1 DEF Zeros
<1> QED BY <1>2, <1>3

LEMMA NextPiece ==
  ASSUME NEW p \in Nat, NEW n \in Nat
  PROVE  Image(0, p) \o Image(p, n) = Image(0, p + n)
<1> DEFINE a == Image(0, p)
           b == Image(p, n)
           t == Image(0, p + n)
<1>0. p + n \in Nat /\ 0 \in Nat
  OBVIOUS
<1>1. /\ a \in Seq(Bytes) /\ Len(a) = p
      /\ \A i \in 1..p : a[i] = Byte("image", 0 + i)
  BY <1>0, Pieces
<1>2. /\ b \in Seq(Bytes) /\ Len(b) = n
      /\ \A i \in 1..n : b[i] = Byte("image", p + i)
  BY <1>0, Pieces
<1>3. /\ t \in Seq(Bytes) /\ Len(t) = p + n
      /\ \A i \in 1..(p + n) : t[i] = Byte("image", 0 + i)
  <2> DEFINE k == p + n
  <2> HIDE DEF k
  <2>1. /\ Image(0, k) \in Seq(Bytes) /\ Len(Image(0, k)) = k
        /\ \A i \in 1..k : Image(0, k)[i] = Byte("image", 0 + i)
    BY <1>0, Pieces DEF k
  <2> QED BY <2>1 DEF k
<1> HIDE DEF a, b, t
<1>4. /\ a \o b \in Seq(Bytes) /\ Len(a \o b) = p + n
      /\ \A i \in 1..(p + n) : (a \o b)[i] = IF i <= p THEN a[i] ELSE b[i - p]
  BY <1>1, <1>2, ConcatProperties
<1>5. ASSUME NEW i \in 1..(p + n) PROVE (a \o b)[i] = t[i]
  <2>1. CASE i <= p
    BY <1>1, <1>3, <1>4, <2>1
  <2>2. CASE ~(i <= p)
    <3> DEFINE j == i - p
               k == p + j
               l == 0 + i
    <3>1. j \in 1..n /\ k = l
      BY <2>2
    <3>2. (a \o b)[i] = b[j] /\ t[i] = Byte("image", l)
      BY <1>3, <1>4, <2>2
    <3> HIDE DEF j
    <3>3. b[j] = Byte("image", k)
      BY <1>2, <3>1
    <3> HIDE DEF k, l
    <3> QED BY <3>1, <3>2, <3>3
  <2> QED BY <2>1, <2>2
<1>6. a \o b = t
  BY <1>3, <1>4, <1>5, SeqEqual
<1> QED BY <1>6 DEF a, b, t

\* The next multiple of Align.
LEMMA AlignedLen ==
  ASSUME NEW n \in Nat
  PROVE  LET m == Align * ((n + Align - 1) \div Align)
         IN m \in Nat /\ n <= m /\ m < n + Align /\ m % Align = 0
<1> DEFINE a == n + Align - 1
           q == a \div Align
           r == a % Align
           m == Align * q
<1>1. Align \in Nat \ {0}
  BY SignConstants
<1>2. a \in Int /\ q \in Int /\ r \in 0..(Align - 1) /\ a = Align * q + r
  BY <1>1, Division
<1> HIDE DEF q, r
<1>3. m \in Int /\ a = m + r
  BY <1>1, <1>2
<1>4. m = Align * q + 0 /\ 0 \in 0..(Align - 1)
  BY <1>1, <1>3
<1> HIDE DEF m
<1>5. m % Align = 0
  BY <1>1, <1>2, <1>3, <1>4, Unique
<1>6. m \in Nat /\ n <= m /\ m < n + Align
  BY <1>1, <1>2, <1>3
<1> QED BY <1>5, <1>6 DEF m, q

LEMMA EmptyContext == Sound(InitCtx, Bytes) /\ Message(InitCtx) = <<>>
<1>1. /\ Block \in Nat \ {0} /\ Word \in Nat \ {0}
      /\ 0 \in 0..(Block - 1) /\ 0 \in 0..(Word - 1)
  BY Constants
<1>2. 0 % Block = 0 /\ 0 % Word = 0 /\ 0 \div Word = 0
  BY <1>1, Small
<1>3. /\ <<>> \in Seq(Bytes) /\ Len(<<>>) = 0
      /\ InitCtx.state = <<>> /\ InitCtx.buffer = <<>>
      /\ InitCtx.lo = 0 /\ InitCtx.hi = 0
      /\ InitCtx \in [state : Seq(Bytes), lo : Nat, hi : Nat, buffer : Seq(Bytes)]
  BY DEF InitCtx
<1>4. Counts(InitCtx, 0)
  BY <1>2, <1>3 DEF Counts
<1>5. Sound(InitCtx, Bytes)
  BY <1>1, <1>2, <1>3, <1>4 DEF Sound
<1> QED BY <1>3, <1>5 DEF Message

-----------------------------------------------------------------------------
(* The invariant *)

LEMMA InitSignInv == Init => SignInv
<1> SUFFICES ASSUME Init PROVE SignInv
  OBVIOUS
<1>1. /\ prog \in {"ws63sign", "write_prog"} /\ pc = "start" /\ size \in Sizes
      /\ pos = 0 /\ binlen = 0 /\ sent = 0 /\ len = 0 /\ sha = InitCtx
      /\ buf = NoHeader /\ header = NoHeader /\ body = <<>> /\ lost = FALSE
      /\ result = "none"
      /\ budget = [short |-> MaxShort, resize |-> MaxResize, write |-> MaxWrite]
  BY DEF Init
<1>2. budget \in [short : 0..MaxShort, resize : 0..MaxResize, write : 0..MaxWrite]
  BY <1>1, SignConstants
<1>3. Image(0, 0) = <<>>
  BY DEF Image
<1>4. Reading
  BY <1>1, <1>3, EmptyContext, SignConstants DEF Reading
<1>5. Sound(sha, Bytes)
  BY <1>1, EmptyContext
<1> QED BY <1>1, <1>2, <1>4, <1>5 DEF SignInv

LEMMA SignTypes ==
  ASSUME SignInv
  PROVE  /\ size \in Nat /\ pos \in Nat /\ len \in Nat /\ Sound(sha, Bytes)
         /\ budget.short \in 0..MaxShort /\ budget.resize \in 0..MaxResize
         /\ budget.write \in 0..MaxWrite
         /\ budget = [short |-> budget.short, resize |-> budget.resize,
                      write |-> budget.write]
BY SignConstants DEF SignInv

\* A budget that shrinks stays one, and the others do not change.
LEMMA Spent ==
  ASSUME SignInv,
         \/ UNCHANGED budget
         \/ budget.short > 0 /\ budget' = [budget EXCEPT !.short = @ - 1]
         \/ budget.resize > 0 /\ budget' = [budget EXCEPT !.resize = @ - 1]
         \/ budget.write > 0 /\ budget' = [budget EXCEPT !.write = @ - 1]
  PROVE  /\ budget' \in [short : 0..MaxShort, resize : 0..MaxResize,
                         write : 0..MaxWrite]
         /\ Untouched' => Untouched
         /\ budget'.short <= budget.short /\ budget'.resize <= budget.resize
         /\ budget'.write <= budget.write
<1>1. /\ budget \in [short : 0..MaxShort, resize : 0..MaxResize, write : 0..MaxWrite]
      /\ MaxShort \in Nat /\ MaxResize \in Nat /\ MaxWrite \in Nat
  BY SignConstants DEF SignInv
<1>2. CASE UNCHANGED budget
  BY <1>1, <1>2 DEF Untouched
<1>3. CASE budget.short > 0 /\ budget' = [budget EXCEPT !.short = @ - 1]
  BY <1>1, <1>3 DEF Untouched
<1>4. CASE budget.resize > 0 /\ budget' = [budget EXCEPT !.resize = @ - 1]
  BY <1>1, <1>4 DEF Untouched
<1>5. CASE budget.write > 0 /\ budget' = [budget EXCEPT !.write = @ - 1]
  BY <1>1, <1>5 DEF Untouched
<1> QED BY <1>2, <1>3, <1>4, <1>5

\* What is left of it after a step.
Spends ==
  /\ budget' \in [short : 0..MaxShort, resize : 0..MaxResize, write : 0..MaxWrite]
  /\ Untouched' => Untouched

LEMMA FailedWrite ==
  ASSUME SignInv, FailWrite
  PROVE  Spends
BY Spent DEF FailWrite, Spends

\* After the header, whatever became of it.
LEMMA HeaderStep ==
  ASSUME SignInv, pc = "header", AfterHeader, Spends,
         lost' \in BOOLEAN, lost => lost',
         ~lost' => header' = buf /\ UNCHANGED body
  PROVE  SignInv'
<1>1. /\ UNCHANGED <<prog, size, pos, binlen, sha, len, buf, sent>>
      /\ pc' = IF prog = "ws63sign" THEN "done" ELSE "send"
      /\ result' = IF prog = "ws63sign" THEN "ok" ELSE result
      /\ result = "none" /\ Signed /\ prog \in {"ws63sign", "write_prog"}
  BY DEF AfterHeader, SignInv
<1>2. UNCHANGED <<Aligned, Sound(sha, Bytes)>> /\ Signed'
  BY <1>1 DEF Aligned, Signed, Spends
<1>3. ~lost' => header' = buf' /\ body' = Aligned'
  BY <1>1, <1>2 DEF SignInv
<1>4. CASE prog = "ws63sign"
  BY <1>1, <1>2, <1>3, <1>4 DEF SignInv, Spends
<1>5. CASE prog = "write_prog"
  <2>1. pc' = "send" /\ result' = "none"
    BY <1>1, <1>5
  <2> QED BY <1>1, <1>2, <1>3, <1>5, <2>1 DEF SignInv, Spends
<1> QED BY <1>1, <1>4, <1>5

LEMMA FeedReading ==
  ASSUME SignInv, Feed
  PROVE  Reading' /\ Sound(sha, Bytes)' /\ pos' \in Nat /\ len' \in Nat
<1>1. pc = "read" /\ Reading /\ Sound(sha, Bytes) /\ pos \in Nat /\ size \in Nat
  BY SignTypes DEF SignInv, Feed
<1>2. PICK n \in 1..ChunkSize, aligned \in BOOLEAN :
        /\ Fread(n)
        /\ sha' = ProcessBytes(sha, Image(pos, n), aligned)
        /\ len' = len + n /\ pos' = pos + n
        /\ body' = body \o Image(pos, n)
  BY DEF Feed
<1>3. UNCHANGED <<size, buf>>
  BY DEF Feed
<1>4. n \in Nat
  BY SignConstants
<1>5. Image(pos, n) \in Seq(Bytes)
  BY <1>1, <1>4, Pieces
<1>6. Sound(sha', Bytes) /\ Message(sha') = Message(sha) \o Image(pos, n)
  BY <1>1, <1>2, <1>5, ProcessBytesWorks
<1>7. Image(0, pos) \o Image(pos, n) = Image(0, pos + n)
  BY <1>1, <1>4, NextPiece
<1>8. Untouched' => pos' <= size'
  <2> SUFFICES ASSUME Untouched' PROVE pos + n <= size
    BY <1>2, <1>3
  <2>1. /\ budget.short \in 0..MaxShort /\ MaxShort \in Nat
        /\ budget.resize \in 0..MaxResize
        /\ budget \in [short : 0..MaxShort, resize : 0..MaxResize,
                       write : 0..MaxWrite]
    BY SignConstants, SignTypes DEF SignInv
  <2>2. UNCHANGED budget
    BY <1>2, <2>1 DEF Fread, Untouched
  <2>3. Untouched /\ pos <= size
    BY <1>1, <2>2 DEF Untouched, Reading
  <2>4. budget' # [budget EXCEPT !.short = @ - 1]
    BY <2>1, <2>2
  <2> DEFINE left == IF pos < size THEN size - pos ELSE 0
             most == IF left < ChunkSize THEN left ELSE ChunkSize
  <2>5. n = most
    BY <1>2, <2>4 DEF Fread
  <2>6. ChunkSize \in Nat
    BY SignConstants
  <2> QED BY <1>1, <1>4, <2>3, <2>5, <2>6
<1>9. Reading'
  BY <1>1, <1>2, <1>3, <1>6, <1>7, <1>8 DEF Reading
<1> QED BY <1>1, <1>2, <1>4, <1>6, <1>9 DEF Reading

\* The header is computed from all that was read, padded.
LEMMA FinalizeSigned ==
  ASSUME SignInv, Finalize
  PROVE  /\ Signed' /\ Sound(sha, Bytes)' /\ len' \in Nat
         /\ body' = Image(0, pos)'
<1>1. /\ pc = "read" /\ Reading /\ Sound(sha, Bytes) /\ pos \in Nat /\ size \in Nat
      /\ len \in Nat
  BY SignTypes DEF SignInv, Finalize
<1>2. PICK aligned \in BOOLEAN :
        sha' = ProcessBytes(sha, Zeros(padding), aligned)
  BY DEF Finalize
<1>3. /\ buf' = [code_len |-> aligned_len, code_hash |-> Finish(sha')]
      /\ len' = aligned_len /\ Fread(0)
      /\ UNCHANGED <<size, pos, body>>
  BY DEF Finalize
<1>4. /\ aligned_len \in Nat /\ len <= aligned_len /\ aligned_len < len + Align
      /\ aligned_len % Align = 0
  BY <1>1, AlignedLen DEF aligned_len
<1>5. padding \in Nat /\ padding = len' - pos'
  <2>1. pos' = len
    BY <1>1, <1>3 DEF Reading
  <2> HIDE DEF aligned_len
  <2> QED BY <1>1, <1>3, <1>4, <2>1 DEF padding
<1> HIDE DEF padding, aligned_len
<1>6. Zeros(padding) \in Seq(Bytes)
  BY <1>1, <1>5, Pieces
<1>7. Sound(sha', Bytes) /\ Message(sha') = Message(sha) \o Zeros(padding)
  BY <1>1, <1>2, <1>6, ProcessBytesWorks
<1>8. Finish(sha') = Padded(Message(sha'))
  BY <1>7, FinishWorks
<1>9. Message(sha') = Aligned'
  BY <1>1, <1>3, <1>5, <1>7 DEF Reading, Aligned
<1>10. buf' = [code_len |-> len', code_hash |-> Padded(Aligned')]
  BY <1>3, <1>8, <1>9
<1>11. Untouched' => pos' = size'
  <2> SUFFICES ASSUME Untouched' PROVE pos = size
    BY <1>3
  <2>1. /\ budget.short \in 0..MaxShort /\ MaxShort \in Nat
        /\ budget \in [short : 0..MaxShort, resize : 0..MaxResize,
                       write : 0..MaxWrite]
    BY SignConstants, SignTypes DEF SignInv
  <2>2. UNCHANGED budget
    BY <1>3, <2>1 DEF Fread, Untouched
  <2>3. Untouched /\ pos <= size
    BY <1>1, <2>2 DEF Untouched, Reading
  <2>4. budget' # [budget EXCEPT !.short = @ - 1]
    BY <2>1, <2>2
  <2> DEFINE left == IF pos < size THEN size - pos ELSE 0
             most == IF left < ChunkSize THEN left ELSE ChunkSize
  <2>5. 0 = most
    BY <1>3, <2>4 DEF Fread
  <2>6. ChunkSize \in Nat \ {0}
    BY SignConstants
  <2> QED BY <1>1, <2>3, <2>5, <2>6
<1>12. pos' <= len' /\ len' < pos' + Align /\ len' % Align = 0
  BY <1>1, <1>3, <1>4 DEF Reading
<1>13. Signed'
  BY <1>10, <1>11, <1>12 DEF Signed
<1> QED BY <1>1, <1>3, <1>4, <1>7, <1>13 DEF Reading

LEMMA NextSignInv == SignInv /\ [Next]_vars => SignInv'
<1> SUFFICES ASSUME SignInv, [Next]_vars PROVE SignInv'
  OBVIOUS
<1>0. /\ pos \in Nat /\ len \in Nat /\ Align \in Nat \ {0} /\ size \in Nat
  BY SignTypes, SignConstants
<1>1. CASE Start
  <2>1. UNCHANGED <<Reading, Sound(sha, Bytes)>>
    BY <1>1 DEF Start, Reading, Untouched
  <2>2. binlen' \in Nat
    BY <1>0, <1>1 DEF Start
  <2> QED BY <1>1, <2>1, <2>2 DEF Start, SignInv
<1>2. CASE WriteHead
  <2>1. UNCHANGED <<Reading, Sound(sha, Bytes)>>
    BY <1>2 DEF WriteHead, Reading, Untouched
  <2>2. header' = NoHeader
    BY <1>2 DEF WriteHead, SignInv, Reading
  <2> QED BY <1>2, <2>1, <2>2 DEF WriteHead, SignInv
<1>3. CASE Feed
  <2>1. Reading' /\ Sound(sha, Bytes)' /\ pos' \in Nat /\ len' \in Nat
    BY <1>3, FeedReading
  <2>2. /\ pc = "read"
        /\ UNCHANGED <<prog, pc, size, binlen, buf, header, lost, sent, result>>
        /\ \E n : Fread(n)
    BY <1>3 DEF Feed
  <2>3. budget' \in [short : 0..MaxShort, resize : 0..MaxResize, write : 0..MaxWrite]
    BY <2>2, Spent DEF Fread
  <2> QED BY <2>1, <2>2, <2>3 DEF SignInv
<1>4. CASE Finalize
  <2>1. /\ Signed' /\ Sound(sha, Bytes)' /\ len' \in Nat
        /\ body' = Image(0, pos)'
    BY <1>4, FinalizeSigned
  <2>2. /\ pc = "read" /\ pc' = "pad" /\ Fread(0)
        /\ UNCHANGED <<prog, size, pos, binlen, header, lost, sent, result>>
    BY <1>4 DEF Finalize
  <2>3. budget' \in [short : 0..MaxShort, resize : 0..MaxResize, write : 0..MaxWrite]
    BY <2>2, Spent DEF Fread
  <2> QED BY <2>1, <2>2, <2>3 DEF SignInv
<1>5. CASE WritePadding
  <2>1. /\ pc = "pad" /\ pc' = "header"
        /\ body' = body \o Zeros(len - Len(body))
        /\ UNCHANGED <<prog, size, pos, binlen, sha, len, buf, header, lost, sent,
                       result, budget>>
    BY <1>5 DEF WritePadding, PaddedBody
  <2>2. body = Image(0, pos) /\ Len(Image(0, pos)) = pos
    BY <1>0, <2>1, Pieces DEF SignInv
  <2>3. body' = Aligned' /\ UNCHANGED <<Signed, Sound(sha, Bytes)>>
    BY <2>1, <2>2 DEF Aligned, Signed, Untouched
  <2> QED BY <2>1, <2>3 DEF SignInv
<1>6. CASE WriteHeader
  <2>1. /\ pc = "header" /\ UNCHANGED <<lost, budget>> /\ AfterHeader
        /\ ~lost => header' = buf /\ UNCHANGED body
    BY <1>6 DEF WriteHeader
  <2>2. Spends /\ lost \in BOOLEAN
    BY <2>1, Spent DEF Spends, SignInv
  <2> QED BY <2>1, <2>2, HeaderStep
<1>7. CASE Send
  <2>1. /\ pc = "send" /\ sent' = len /\ pc' = "done" /\ result' = "ok"
        /\ UNCHANGED <<prog, size, pos, binlen, sha, len, buf, header, body, lost,
                       budget>>
    BY <1>7 DEF Send
  <2>2. UNCHANGED <<Aligned, Signed, Sound(sha, Bytes)>>
    BY <2>1 DEF Aligned, Signed, Untouched
  <2> QED BY <2>1, <2>2 DEF SignInv
<1>8. CASE WriteFails
  <2>1. /\ pc \in {"head", "read", "pad", "header"} /\ pc' = "done"
        /\ result' = "fail" /\ budget.write > 0
        /\ budget' = [budget EXCEPT !.write = @ - 1]
        /\ UNCHANGED <<prog, size, pos, binlen, sha, len, buf, header, body, lost,
                       sent>>
    BY <1>8 DEF WriteFails, FailWrite
  <2>2. budget' \in [short : 0..MaxShort, resize : 0..MaxResize, write : 0..MaxWrite]
    BY <2>1, Spent
  <2>3. UNCHANGED Sound(sha, Bytes)
    BY <2>1
  <2> QED BY <2>1, <2>2, <2>3 DEF SignInv
<1>9. CASE Resize
  <2>1. /\ pc # "done" /\ size' \in Sizes /\ budget.resize > 0
        /\ budget' = [budget EXCEPT !.resize = @ - 1]
        /\ UNCHANGED <<prog, pc, pos, binlen, sha, len, buf, header, body, lost,
                       sent, result>>
    BY <1>9 DEF Resize
  <2>2. budget' \in [short : 0..MaxShort, resize : 0..MaxResize, write : 0..MaxWrite]
    BY <2>1, Spent
  <2>3. ~Untouched'
    BY <2>1, SignConstants DEF Untouched, SignInv
  <2>4. UNCHANGED <<Aligned, Sound(sha, Bytes)>>
    BY <2>1 DEF Aligned
  <2>5. (Reading => Reading') /\ (Signed => Signed')
    BY <2>1, <2>3, <2>4 DEF Reading, Signed
  <2> QED BY <2>1, <2>2, <2>3, <2>4, <2>5 DEF SignInv
<1>10. CASE FlushFails
  <2>1. /\ pc = "pad" /\ pc' = "header" /\ lost' = TRUE /\ FailWrite
        /\ UNCHANGED <<prog, size, pos, binlen, sha, len, buf, header, sent,
                       result>>
    BY <1>10 DEF FlushFails
  <2>2. Spends
    BY <2>1, FailedWrite
  <2>3. UNCHANGED Sound(sha, Bytes) /\ Signed'
    BY <2>1, <2>2 DEF SignInv, Signed, Aligned, Spends
  <2> QED BY <2>1, <2>2, <2>3 DEF SignInv, Spends
<1>11. CASE HeaderFails
  <2>1. /\ pc = "header" /\ lost' = TRUE /\ FailWrite /\ AfterHeader
        /\ UNCHANGED <<header, body>>
    BY <1>11 DEF HeaderFails
  <2> QED BY <2>1, FailedWrite, HeaderStep
<1>12. CASE UNCHANGED vars
  <2>1. UNCHANGED <<Aligned, Signed, Reading, Sound(sha, Bytes)>>
    BY <1>12 DEF vars, Aligned, Signed, Reading, Untouched
  <2> QED BY <1>12, <2>1 DEF vars, SignInv
<1> QED BY <1>1, <1>2, <1>3, <1>4, <1>5, <1>6, <1>7, <1>8, <1>9, <1>10,
        <1>11, <1>12
        DEF Next, Step

\* A property that the invariant implies holds in every state.
LEMMA SignInvAlways == Spec => []SignInv
BY InitSignInv, NextSignInv, PTL DEF Spec

-----------------------------------------------------------------------------
(* Results *)

(***************************************************************************)
(* The variables have their types; no more than a block is ever kept in    *)
(* the buffer of the context and its counters are words.                   *)
(***************************************************************************)
THEOREM SignTypeCorrect == Spec => []TypeOK
<1>1. SignInv => TypeOK
  <2> SUFFICES ASSUME SignInv PROVE TypeOK
    OBVIOUS
  <2>1. Len(sha.buffer) <= Block /\ Counts(sha, Len(sha.state))
        /\ Len(sha.state) \in Nat
    BY SignTypes DEF Sound
  <2>2. Word \in Nat \ {0}
    BY Constants
  <2> DEFINE n == Len(sha.state)
             q == n \div Word
  <2>3. n \in Int /\ sha.lo = n % Word /\ sha.hi = q % Word
    BY <2>1 DEF Counts
  <2> HIDE DEF n
  <2>4. n % Word \in 0..(Word - 1) /\ q \in Int
    BY <2>2, <2>3, Division
  <2> HIDE DEF q
  <2>5. q % Word \in 0..(Word - 1)
    BY <2>2, <2>4, Division
  <2>6. sha.lo \in 0..(Word - 1) /\ sha.hi \in 0..(Word - 1)
    BY <2>3, <2>4, <2>5
  <2> QED BY <2>1, <2>6 DEF SignInv, TypeOK
<1> QED BY <1>1, SignInvAlways, PTL

(***************************************************************************)
(* While the image is read, the context and the body hold the same bytes,  *)
(* wherever the reads end and the buffers lie, and the counters count just *)
(* the blocks that were hashed.                                            *)
(***************************************************************************)
THEOREM HashesWhatIsWritten == Spec => []Streams
<1>1. SignInv => Streams
  <2> SUFFICES ASSUME SignInv, pc = "read"
               PROVE  /\ sha.state \o sha.buffer = body
                      /\ Len(sha.state) % Block = 0
                      /\ sha.lo = Len(sha.state) % Word
                      /\ sha.hi = (Len(sha.state) \div Word) % Word
    BY DEF Streams
  <2>1. Reading /\ Sound(sha, Bytes)
    BY DEF SignInv
  <2> QED BY <2>1 DEF Reading, Message, Sound, Counts
<1> QED BY <1>1, SignInvAlways, PTL

LEMMA AlignedBody ==
  ASSUME SignInv, Signed
  PROVE  Len(Aligned) = len
<1>1. pos \in Nat /\ len \in Nat /\ pos <= len
  BY SignTypes DEF Signed
<1> DEFINE n == len - pos
           a == Image(0, pos)
           z == Zeros(n)
<1>2. n \in Nat /\ pos + n = len
  BY <1>1
<1> HIDE DEF n
<1>3. /\ a \in Seq(Bytes) /\ Len(a) = pos
      /\ z \in Seq(Bytes) /\ Len(z) = n
  BY <1>1, <1>2, Pieces
<1> HIDE DEF a, z
<1>4. Len(a \o z) = pos + n
  BY <1>3, ConcatProperties
<1> QED BY <1>2, <1>4 DEF Aligned, a, z, n

(***************************************************************************)
(* Whenever there is a length in the header, the body has this length, a   *)
(* multiple of the alignment, and the hash is that of the body, also after *)
(* a write that ends the program.  Writes that fail without notice are     *)
(* excepted.                                                               *)
(***************************************************************************)
THEOREM HeaderIsRight == Spec => []HeaderDescribesBody
<1>1. SignInv => HeaderDescribesBody
  <2> SUFFICES ASSUME SignInv, ~lost, header.code_len # 0
               PROVE  /\ header.code_len = Len(body) /\ Len(body) % Align = 0
                      /\ header.code_hash = Padded(body)
    BY DEF HeaderDescribesBody
  <2>1. header # NoHeader
    BY DEF NoHeader
  <2>2. (pc = "send" \/ result = "ok") /\ header = buf
    BY <2>1 DEF SignInv
  <2>3. Signed /\ body = Aligned
    BY <2>2 DEF SignInv
  <2>4. Len(body) = len
    BY <2>3, AlignedBody
  <2> QED BY <2>2, <2>3, <2>4 DEF Signed
<1> QED BY <1>1, SignInvAlways, PTL

(***************************************************************************)
(* A run that ends well, and lost nothing in a write that nobody looks at, *)
(* has written what it read with less than one unit of padding behind the  *)
(* header of just this; it was the whole input, unless a read failed or    *)
(* the input changed.                                                      *)
(***************************************************************************)
THEOREM WholeImageSigned == Spec => []SignsTheWholeImage
<1>1. SignInv => SignsTheWholeImage
  <2> SUFFICES ASSUME SignInv, result = "ok", ~lost
               PROVE  /\ pos <= Len(body) /\ Len(body) < pos + Align
                      /\ body = Image(0, pos) \o Zeros(Len(body) - pos)
                      /\ budget.short = MaxShort /\ budget.resize = MaxResize
                           => pos = size
                      /\ header = [code_len |-> Len(body),
                                   code_hash |-> Padded(body)]
    BY DEF SignsTheWholeImage
  <2>1. Signed /\ body = Aligned /\ header = buf
    BY DEF SignInv
  <2>2. Len(body) = len
    BY <2>1, AlignedBody
  <2> QED BY <2>1, <2>2 DEF Signed, Aligned, Untouched
<1> QED BY <1>1, SignInvAlways, PTL

(***************************************************************************)
(* --write-program tells ymodem_xfer the length of what was signed, even   *)
(* if the file has changed since it was measured, unless an fseek that     *)
(* writes the signed file failed without notice.                           *)
(***************************************************************************)
THEOREM SendsWhatWasSigned == Spec => []SendsAllOfIt
<1>1. SignInv => SendsAllOfIt
  <2> SUFFICES ASSUME SignInv, prog = "write_prog", result = "ok", ~lost
               PROVE  sent = header.code_len /\ sent = Len(body)
    BY DEF SendsAllOfIt
  <2>1. Signed /\ body = Aligned /\ header = buf /\ sent = len
    BY DEF SignInv
  <2>2. Len(body) = len
    BY <2>1, AlignedBody
  <2> QED BY <2>1, <2>2 DEF Signed
<1> QED BY <1>1, SignInvAlways, PTL
=============================================================================
