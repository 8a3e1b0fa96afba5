-------------------------------- MODULE Sign --------------------------------
(***************************************************************************)
(* Signing an image: ws63sign_init, _feed and _finalize                    *)
(* (src/src/ws63sign.h) with the two loops that use them, main of ws63sign *)
(* and verb_write_prog of ws63flash, which then sends the file.            *)
(*                                                                         *)
(* The output file is a header, written first without and last with the    *)
(* length and the hash of what follows, and a body: the image and padding. *)
(***************************************************************************)
EXTENDS Sha256

CONSTANTS
  Sizes,      \* lengths the input may have
  ChunkSize,  \* 4096, what fread is asked for
  StdioBuf,   \* what a stream of the C library holds back, at most
  Align,      \* the body is a multiple of this, 16
  MaxShort,   \* reads that may fail and return less
  MaxResize,  \* times the input may change its length
  MaxWrite    \* writes that may fail

ASSUME SignAssumption ==
  /\ Sizes \subseteq Nat /\ Sizes # {}
  /\ ChunkSize \in Nat \ {0} /\ Align \in Nat \ {0}
  /\ StdioBuf \in Nat
  /\ MaxShort \in Nat /\ MaxResize \in Nat /\ MaxWrite \in Nat

VARIABLES
  prog,       \* "ws63sign" or "write_prog"
  pc,
  size,       \* length of the input file
  pos,        \* how far it is read
  binlen,     \* its length when verb_write_prog looked
  sha, len,   \* ws63sign_ctx
  buf,        \* code_len and code_hash in ctx.buf
  header, body,   \* the output file
  lost,       \* history: something was not written and nobody noticed
  sent,       \* length that ymodem_xfer is told, less the header
  result, budget

vars == <<prog, pc, size, pos, binlen, sha, len, buf, header, body, lost,
          sent, result, budget>>

NoHeader == [code_len |-> 0, code_hash |-> <<>>]
Image(from, n) == [i \in 1..n |-> Byte("image", from + i)]
aligned_len == Align * ((len + Align - 1) \div Align)
padding == aligned_len - len

\* ws63sign_init; verb_write_prog measures the input before.
Start ==
  /\ pc = "start"
  /\ binlen' = IF prog = "write_prog" THEN size ELSE 0
  /\ pc' = "head"
  /\ UNCHANGED <<prog, size, pos, sha, len, buf, header, body, lost, sent,
                 result, budget>>

WriteHead ==
  /\ pc = "head"
  /\ header' = buf
  /\ pc' = "read"
  /\ UNCHANGED <<prog, size, pos, binlen, sha, len, buf, body, lost, sent,
                 result, budget>>

\* fread returns a whole chunk or what there is, and less when it fails.
Fread(n) ==
  LET left == IF pos < size THEN size - pos ELSE 0
      most == IF left < ChunkSize THEN left ELSE ChunkSize
  IN \/ n = most /\ UNCHANGED budget
     \/ /\ n < most /\ budget.short > 0
        /\ budget' = [budget EXCEPT !.short = @ - 1]

\* A turn of the loop: read, ws63sign_feed, write.
Feed ==
  /\ pc = "read"
  /\ \E n \in 1..ChunkSize, aligned \in BOOLEAN :
       /\ Fread(n)
       /\ sha' = ProcessBytes(sha, Image(pos, n), aligned)
       /\ len' = len + n /\ pos' = pos + n
       /\ body' = body \o Image(pos, n)
  /\ UNCHANGED <<prog, pc, size, binlen, buf, header, lost, sent, result>>

\* Mutant: the loop reads until it has the measured length.
FinalizeMeasured ==
  /\ prog = "write_prog" => pos >= binlen
  /\ pc = "read" /\ Fread(0)
  /\ \E aligned \in BOOLEAN : sha' = ProcessBytes(sha, Zeros(padding), aligned)
  /\ buf' = [code_len |-> aligned_len, code_hash |-> Finish(sha')]
  /\ len' = aligned_len
  /\ pc' = "pad"
  /\ UNCHANGED <<prog, size, pos, binlen, header, body, lost, sent, result>>

\* Nothing more to read: ws63sign_finalize.
Finalize ==
  /\ pc = "read" /\ Fread(0)
  /\ \E aligned \in BOOLEAN : sha' = ProcessBytes(sha, Zeros(padding), aligned)
  /\ buf' = [code_len |-> aligned_len, code_hash |-> Finish(sha')]
  /\ len' = aligned_len
  /\ pc' = "pad"
  /\ UNCHANGED <<prog, size, pos, binlen, header, body, lost, sent, result>>

PaddedBody == body \o Zeros(len - Len(body))

WritePadding ==
  /\ pc = "pad"
  /\ body' = PaddedBody
  /\ pc' = "header"
  /\ UNCHANGED <<prog, size, pos, binlen, sha, len, buf, header, lost, sent,
                 result, budget>>

FailWrite == budget.write > 0 /\ budget' = [budget EXCEPT !.write = @ - 1]

\* The padding and the end of the image, all of a small one, wait in the stream
\* until the fseek that goes back to the header writes them.  It fails, nobody
\* looks at its result, what waited is dropped and the place is not changed.
FlushFails ==
  /\ pc = "pad"
  /\ FailWrite
  /\ \E n \in 0..Len(PaddedBody) :
       n + StdioBuf >= Len(PaddedBody) /\ body' = SubSeq(PaddedBody, 1, n)
  /\ lost' = TRUE
  /\ pc' = "header"
  /\ UNCHANGED <<prog, size, pos, binlen, sha, len, buf, header, sent, result>>

AfterHeader ==
  /\ pc' = IF prog = "ws63sign" THEN "done" ELSE "send"
  /\ result' = IF prog = "ws63sign" THEN "ok" ELSE result
  /\ UNCHANGED <<prog, size, pos, binlen, sha, len, buf, sent>>

\* The header is written over the first one; where the fseek before it has
\* failed, behind what there is, which may be nothing.
WriteHeader ==
  /\ pc = "header"
  /\ \/ /\ ~lost \/ body = <<>>
        /\ header' = buf /\ UNCHANGED body
     \/ /\ lost
        /\ body' = Append(body, Byte("header", 0)) /\ UNCHANGED header
  /\ AfterHeader
  /\ UNCHANGED <<lost, budget>>

\* It stays in the stream, in ws63sign until exit() and in verb_write_prog until
\* the fseek before ymodem_xfer, where nobody looks whether it is written.
HeaderFails ==
  /\ pc = "header"
  /\ FailWrite
  /\ lost' = TRUE
  /\ AfterHeader
  /\ UNCHANGED <<header, body>>

\* Mutant: the length that was measured first is sent.
SendMeasured ==
  /\ pc = "send"
  /\ sent' = Align * ((binlen + Align - 1) \div Align)
  /\ pc' = "done" /\ result' = "ok"
  /\ UNCHANGED <<prog, size, pos, binlen, sha, len, buf, header, body, lost,
                 budget>>

\* verb_write_prog hands the file to ymodem_xfer.
Send ==
  /\ pc = "send"
  /\ sent' = len
  /\ pc' = "done" /\ result' = "ok"
  /\ UNCHANGED <<prog, size, pos, binlen, sha, len, buf, header, body, lost,
                 budget>>

\* checked_fwrite: a write that fails while the stream takes more ends the
\* program.
WriteFails ==
  /\ pc \in {"head", "read", "pad", "header"}
  /\ FailWrite
  /\ pc' = "done" /\ result' = "fail"
  /\ UNCHANGED <<prog, size, pos, binlen, sha, len, buf, header, body, lost,
                 sent>>

\* Somebody else changes the input.
Resize ==
  /\ pc # "done" /\ budget.resize > 0
  /\ size' \in Sizes \ {size}
  /\ budget' = [budget EXCEPT !.resize = @ - 1]
  /\ UNCHANGED <<prog, pc, pos, binlen, sha, len, buf, header, body, lost, sent,
                 result>>

Init ==
  /\ prog \in {"ws63sign", "write_prog"} /\ pc = "start"
  /\ size \in Sizes /\ pos = 0 /\ binlen = 0
  /\ sha = InitCtx /\ len = 0 /\ buf = NoHeader
  /\ header = NoHeader /\ body = <<>> /\ lost = FALSE /\ sent = 0
  /\ result = "none"
  /\ budget = [short |-> MaxShort, resize |-> MaxResize, write |-> MaxWrite]

Step == \/ Start \/ WriteHead \/ Feed \/ Finalize \/ WritePadding
        \/ WriteHeader \/ Send
Next == Step \/ FlushFails \/ HeaderFails \/ WriteFails \/ Resize
Spec == Init /\ [][Next]_vars
\* One thread, which the scheduler runs; nothing is obliged to fail.
FairSpec == Spec /\ WF_vars(Step)

-----------------------------------------------------------------------------
(* Properties *)

TypeOK ==
  /\ pc \in {"start", "head", "read", "pad", "header", "send", "done"}
  /\ size \in Sizes /\ pos \in Nat /\ binlen \in Nat /\ sent \in Nat
  /\ len \in Nat /\ Len(sha.buffer) <= Block /\ lost \in BOOLEAN
  /\ sha.lo \in 0..(Word - 1) /\ sha.hi \in 0..(Word - 1)
  /\ result \in {"none", "ok", "fail"}
  /\ budget \in [short : 0..MaxShort, resize : 0..MaxResize, write : 0..MaxWrite]

(***************************************************************************)
(* However the image is cut into reads, and wherever the buffers lie,      *)
(* sha256_process_bytes has hashed or keeps exactly what is in the body,   *)
(* only whole blocks are hashed, and both counters are right.              *)
(***************************************************************************)
Streams ==
  pc = "read" =>
    /\ sha.state \o sha.buffer = body
    /\ Len(sha.state) % Block = 0
    /\ sha.lo = Len(sha.state) % Word /\ sha.hi = (Len(sha.state) \div Word) % Word

(***************************************************************************)
(* In every state of the file: a header with a length stands before a body *)
(* of just this length, and the hash in it is that of the standard for     *)
(* this body.  A write of the stream that nobody looks at is excepted:     *)
(* when it fails in the fseek, the header may stand before nothing.        *)
(***************************************************************************)
HeaderDescribesBody ==
  ~lost /\ header.code_len # 0 =>
    /\ header.code_len = Len(body) /\ Len(body) % Align = 0
    /\ header.code_hash = Padded(body)

(***************************************************************************)
(* A run that ends well has signed the whole image and less than one unit  *)
(* of padding, and the header is that of this body, unless a read failed   *)
(* or the file changed, or one of the writes failed whose result nobody    *)
(* looks at: those of fseek and exit().  Any other write may fail.         *)
(***************************************************************************)
SignsTheWholeImage ==
  result = "ok" /\ ~lost =>
    /\ pos <= Len(body) /\ Len(body) < pos + Align
    /\ body = Image(0, pos) \o Zeros(Len(body) - pos)
    /\ budget.short = MaxShort /\ budget.resize = MaxResize => pos = size
    /\ header = [code_len |-> Len(body), code_hash |-> Padded(body)]

(***************************************************************************)
(* ymodem_xfer is told the length of what was signed, even if the file has *)
(* changed since its length was taken, unless one of the two fseek that    *)
(* write the signed file has failed and nobody looked.                     *)
(***************************************************************************)
SendsAllOfIt ==
  prog = "write_prog" /\ result = "ok" /\ ~lost =>
    sent = header.code_len /\ sent = Len(body)

\* Signing ends.
Terminates == <>(pc = "done")
=============================================================================
