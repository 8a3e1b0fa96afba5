---------------------------- MODULE FwpkgProofs -----------------------------
(***************************************************************************)
(* Types of ws63fwpkg --inject, and what it keeps of an input package      *)
(* whose bins follow the table without a gap, for packages and bin files   *)
(* of every size.                                                          *)
(***************************************************************************)
EXTENDS Fwpkg, SequenceTheorems, TLAPS

\* The bins begin right behind the table, and the first one of the table is
\* the first one in the file.
Contiguous ==
  \A p \in Packages :
    /\ p.bins[1].offset = HeaderEnd(Len(p.bins))
    /\ \A k \in DOMAIN p.bins : p.bins[k].offset >= p.bins[1].offset

-----------------------------------------------------------------------------
(* Sizes *)

Shift == InfoSize * NewCnt

LEMMA Sizes ==
  ASSUME NEW a \in Nat, NEW b \in Nat
  PROVE  /\ InfoSize * a \in Nat /\ HeaderEnd(a) \in Nat
         /\ HeaderEnd(a + b) = HeaderEnd(a) + InfoSize * b
<1>1. HeaderSize \in Nat /\ InfoSize \in Nat
  BY FwpkgAssumption
<1>2. InfoSize * a \in Nat
  BY <1>1
<1>3. InfoSize * (a + b) = InfoSize * a + InfoSize * b
  BY <1>1
<1> QED BY <1>1, <1>2, <1>3 DEF HeaderEnd

LEMMA TimesType ==
  ASSUME NEW n \in Int, NEW c \in Cells
  PROVE  /\ Times(n, c) \in Seq(Cells)
         /\ Len(Times(n, c)) = IF n < 0 THEN 0 ELSE n
BY DEF Times

LEMMA PackageType ==
  ASSUME NEW p \in Packages
  PROVE  /\ p.size \in Nat /\ p.good \in BOOLEAN
         /\ p.bins \in Seq(Info) /\ Len(p.bins) \in Nat /\ Len(p.bins) >= 1
         /\ \A k \in 1..Len(p.bins) :
              /\ p.bins[k] \in Info
              /\ p.bins[k].offset \in Nat /\ p.bins[k].length \in Nat
              /\ p.bins[k].offset + p.bins[k].length <= p.size
<1>1. p.size \in Nat /\ p.good \in BOOLEAN /\ p.bins \in Seq(Info) /\ p.bins # <<>>
  BY FwpkgAssumption
<1>2. \A k \in DOMAIN p.bins : p.bins[k].offset + p.bins[k].length <= p.size
  BY FwpkgAssumption
<1>3. Len(p.bins) \in Nat /\ Len(p.bins) >= 1 /\ DOMAIN p.bins = 1..Len(p.bins)
  BY <1>1
<1>4. \A k \in 1..Len(p.bins) : p.bins[k] \in Info
  BY <1>1
<1> QED BY <1>1, <1>2, <1>3, <1>4 DEF Info

-----------------------------------------------------------------------------
(* Types *)

TypeInv ==
  /\ TypeOK
  /\ pc = "stat" => wobjs = <<>>
  /\ pc \in {"stat", "read"} => table = <<>>
  /\ pc \in {"stat", "done"} \/ Len(wobjs) = Len(files)
  /\ pc = "build" => Len(table) >= OldCnt

\* What CopyChunk reads is never more than what is asked for, and something.
LEMMA BytesReadBound ==
  ASSUME TypeInv, pc = "copy"
  PROVE  /\ SourceSize \in Nat /\ BytesRead \in Nat
         /\ BytesRead <= remaining
         /\ BytesRead > 0 => fpos + BytesRead <= SourceSize
         /\ remaining > 0 /\ fpos < SourceSize => BytesRead > 0
<1>1. SourceSize \in Nat
  <2>1. CASE src = 0
    BY <2>1, PackageType DEF TypeInv, TypeOK, SourceSize
  <2>2. CASE src # 0
    <3>1. src \in 1..Len(files) /\ files \in Seq(Nat)
      BY <2>2 DEF TypeInv, TypeOK, NewCnt
    <3> QED BY <2>2, <3>1 DEF SourceSize
  <2> QED BY <2>1, <2>2
<1>2. fpos \in Nat /\ remaining \in Nat /\ ChunkSize \in Nat \ {0}
  BY FwpkgAssumption DEF TypeInv, TypeOK
<1> HIDE DEF SourceSize
<1> QED BY <1>1, <1>2 DEF BytesRead, AtMost

LEMMA InitTypeInv == Init => TypeInv
<1> SUFFICES ASSUME Init PROVE TypeInv
  OBVIOUS
<1>1. /\ pkg \in Packages /\ files \in Seq(Nat) /\ shorter = {}
      /\ lost = FALSE
      /\ wobjs = <<>> /\ pc = "stat" /\ table = <<>> /\ outfwlen = 0
      /\ src = 0 /\ fpos = 0 /\ remaining = 0 /\ out = <<>> /\ ret = "none"
  BY FwpkgAssumption DEF Init
<1>2. NewCnt = 0 /\ OldCnt \in Nat
  BY <1>1, PackageType DEF NewCnt, OldCnt
<1>3. table \in Seq(Info) /\ Len(table) = 0 /\ wobjs \in Seq(Nat)
      /\ out \in Seq(Cells)
  BY <1>1
<1>4. src \in 0..NewCnt /\ Len(table) <= OldCnt + NewCnt
  BY <1>1, <1>2, <1>3
<1>8. shorter \subseteq DOMAIN files /\ lost \in BOOLEAN
  BY <1>1
<1>5. pc \in {"stat", "read", "build", "copy", "done"}
      /\ ret \in {"none", "ok", "fail"} /\ (ret = "ok" => pc = "done")
  BY <1>1
<1>6. outfwlen \in Nat /\ fpos \in Nat /\ remaining \in Nat
  BY <1>1
<1>7. TypeOK
  BY <1>1, <1>3, <1>4, <1>5, <1>6, <1>8 DEF TypeOK
<1> QED BY <1>1, <1>7 DEF TypeInv

LEMMA NextTypeInv == TypeInv /\ [Next]_vars => TypeInv'
<1> SUFFICES ASSUME TypeInv, [Next]_vars PROVE TypeInv'
  OBVIOUS
<1> USE DEF inVars, ioVars
<1>0. /\ TypeOK /\ Len(wobjs) \in Nat /\ NewCnt = Len(wobjs)
      /\ OldCnt = Len(pkg.bins) /\ OldCnt \in Nat /\ OldCnt >= 1
      /\ Len(table) \in Nat /\ InfoSize * NewCnt \in Nat
  <2>1. TypeOK /\ pkg \in Packages /\ wobjs \in Seq(Nat) /\ table \in Seq(Info)
    BY DEF TypeInv, TypeOK
  <2>2. NewCnt \in Nat /\ NewCnt = Len(wobjs) /\ Len(table) \in Nat
    BY <2>1 DEF NewCnt
  <2> QED BY <2>1, <2>2, PackageType, Sizes DEF OldCnt
<1>1. CASE Stat
  <2>1. Len(wobjs') = Len(files') /\ wobjs' \in Seq(Nat) /\ pc' = "read"
    BY <1>0, <1>1 DEF Stat, TypeOK
  <2>2. src' = 0 /\ 0 \in 0..Len(wobjs')
    BY <1>1, <2>1 DEF Stat, TypeInv, TypeOK, NewCnt
  <2>3. Len(table') <= OldCnt' + NewCnt'
    <3>1. Len(table) <= OldCnt /\ OldCnt' = OldCnt /\ NewCnt' \in Nat
      BY <1>0, <1>1, <2>1 DEF Stat, TypeInv, TypeOK, NewCnt, OldCnt
    <3> QED BY <1>0, <1>1, <3>1 DEF Stat
  <2> QED BY <1>0, <1>1, <2>1, <2>2, <2>3 DEF Stat, TypeInv, TypeOK, NewCnt
<1>2. CASE ReadPackage
  <2>1. /\ table' \in Seq(Info) /\ Len(table') <= OldCnt + NewCnt
        /\ outfwlen' \in Nat /\ (pc' = "build" => Len(table') >= OldCnt)
    <3>1. CASE UNCHANGED <<table, outfwlen>> /\ pc' = "done"
      BY <1>0, <3>1 DEF TypeOK
    <3>2. CASE /\ table' = [k \in 1..OldCnt |->
                    [pkg.bins[k] EXCEPT !.offset = @ + InfoSize * NewCnt]]
               /\ outfwlen' = pkg.size + InfoSize * NewCnt
      <4>1. \A k \in 1..OldCnt :
              [pkg.bins[k] EXCEPT !.offset = @ + InfoSize * NewCnt] \in Info
        <5> SUFFICES ASSUME NEW k \in 1..OldCnt
                     PROVE [pkg.bins[k] EXCEPT !.offset = @ + InfoSize * NewCnt]
                             \in Info
          OBVIOUS
        <5> DEFINE b == pkg.bins[k]
                   sh == InfoSize * NewCnt
        <5>1. b \in Info /\ sh \in Nat
          BY <1>0, PackageType DEF TypeOK
        <5> HIDE DEF b, sh
        <5>2. [b EXCEPT !.offset = @ + sh] \in Info
          BY <5>1 DEF Info
        <5> QED BY <5>2 DEF b, sh
      <4>2. table' \in Seq(Info) /\ Len(table') = OldCnt
        BY <1>0, <3>2, <4>1
      <4>3. pkg.size \in Nat
        BY <1>0, PackageType DEF TypeOK
      <4> QED BY <1>0, <3>2, <4>2, <4>3
    <3> QED BY <1>2, <3>1, <3>2 DEF ReadPackage, Fail
  <2>2. /\ pc' \in {"done", "build"} /\ ret' \in {"none", "ok", "fail"}
        /\ (ret' = "ok" => pc' = "done")
    BY <1>0, <1>2 DEF ReadPackage, Fail, TypeOK
  <2>3. UNCHANGED <<pkg, files, shorter, lost, wobjs, src, fpos, remaining,
                  out>>
    BY <1>2 DEF ReadPackage
  <2>4. pc = "read" /\ Len(wobjs) = Len(files)
    BY <1>2 DEF ReadPackage, TypeInv
  <2> QED BY <1>0, <2>1, <2>2, <2>3, <2>4 DEF TypeInv, TypeOK, NewCnt, OldCnt
<1>3. CASE AddBin
  <2> DEFINE j == Len(table) - OldCnt + 1
             info == [offset |-> outfwlen, length |-> wobjs[j], type_2 |-> 1]
  <2>1. /\ pc = "build" /\ Len(table) < OldCnt + NewCnt
        /\ table' = Append(table, info) /\ outfwlen' = outfwlen + wobjs[j]
        /\ UNCHANGED <<pkg, files, shorter, lost, wobjs, pc, src, fpos,
                       remaining, out, ret>>
    BY <1>3 DEF AddBin
  <2>2. wobjs[j] \in Nat
    <3>1. Len(table) >= OldCnt
      BY <2>1 DEF TypeInv
    <3>2. j \in 1..Len(wobjs) /\ wobjs \in Seq(Nat)
      BY <1>0, <2>1, <3>1 DEF TypeOK
    <3> HIDE DEF j
    <3> QED BY <3>2
  <2>3. info \in Info
    BY <1>0, <2>2 DEF TypeOK, Info
  <2>4. table' \in Seq(Info) /\ Len(table') = Len(table) + 1
    BY <1>0, <2>1, <2>3 DEF TypeOK
  <2>5. outfwlen' \in Nat
    <3> HIDE DEF j, info
    <3> QED BY <1>0, <2>1, <2>2, SMTT(30) DEF TypeOK
  <2>6. Len(table') <= OldCnt + NewCnt /\ Len(table') >= OldCnt
    BY <1>0, <2>1, <2>4 DEF TypeInv
  <2> HIDE DEF j, info
  <2> QED BY <1>0, <2>1, <2>4, <2>5, <2>6 DEF TypeInv, TypeOK, NewCnt, OldCnt
<1>4. CASE WriteHeader
  <2>1. /\ pc = "build" /\ Len(table) = OldCnt + NewCnt
        /\ out' = Times(HeaderEnd(Len(table)), Meta)
                  \o Times(HeaderEnd(Len(table)) - table[1].offset, Zero)
        /\ src' = 0 /\ fpos' = pkg.bins[1].offset
        /\ remaining' = pkg.size - pkg.bins[1].offset /\ pc' = "copy"
        /\ UNCHANGED <<pkg, files, shorter, lost, wobjs, table, outfwlen, ret>>
    BY <1>4 DEF WriteHeader
  <2>2. fpos' \in Nat /\ remaining' \in Nat
    <3> DEFINE o == pkg.bins[1].offset
               l == pkg.bins[1].length
    <3>1. o \in Nat /\ l \in Nat /\ o + l <= pkg.size /\ pkg.size \in Nat
      BY <1>0, PackageType DEF TypeOK
    <3>2. fpos' = o /\ remaining' = pkg.size - o
      BY <2>1
    <3> HIDE DEF o, l
    <3> QED BY <3>1, <3>2
  <2>3. out' \in Seq(Cells)
    <3>1. Meta \in Cells /\ Zero \in Cells
      BY DEF Meta, Zero, Cell, Cells
    <3>2. HeaderEnd(Len(table)) \in Nat
      BY <1>0, Sizes
    <3>3. table[1] \in Info
      BY <1>0, <2>1 DEF TypeOK
    <3>4. table[1].offset \in Nat
      BY <3>3 DEF Info
    <3>5. /\ Times(HeaderEnd(Len(table)), Meta) \in Seq(Cells)
          /\ Times(HeaderEnd(Len(table)) - table[1].offset, Zero) \in Seq(Cells)
      BY <3>1, <3>2, <3>4, TimesType
    <3> QED BY <2>1, <3>5
  <2>4. src' \in 0..NewCnt
    BY <1>0, <2>1
  <2> QED BY <1>0, <2>1, <2>2, <2>3, <2>4 DEF TypeInv, TypeOK, NewCnt, OldCnt
<1>5. CASE CopyChunk
  <2>1. /\ pc = "copy" /\ remaining > 0 /\ BytesRead > 0
        /\ out' = out \o [k \in 1..BytesRead |-> Cell(src, fpos + k - 1)]
        /\ fpos' = fpos + BytesRead /\ remaining' = remaining - BytesRead
        /\ UNCHANGED <<pkg, files, shorter, lost, wobjs, pc, table, outfwlen,
                       src, ret>>
    BY <1>5 DEF CopyChunk
  <2>2. BytesRead \in Nat /\ BytesRead <= remaining
    BY <2>1, BytesReadBound
  <2> HIDE DEF BytesRead
  <2>3. fpos' \in Nat /\ remaining' \in Nat
    BY <1>0, <2>1, <2>2 DEF TypeOK
  <2>4. out' \in Seq(Cells)
    <3>1. fpos \in Nat /\ src \in Nat /\ out \in Seq(Cells)
      BY <1>0 DEF TypeOK
    <3>2. \A k \in 1..BytesRead : Cell(src, fpos + k - 1) \in Cells
      BY <2>2, <3>1 DEF Cell, Cells
    <3>3. [k \in 1..BytesRead |-> Cell(src, fpos + k - 1)] \in Seq(Cells)
      BY <2>2, <3>2
    <3> QED BY <2>1, <3>1, <3>3, ConcatProperties
  <2> QED BY <1>0, <2>1, <2>3, <2>4 DEF TypeInv, TypeOK, NewCnt, OldCnt
<1>6. CASE NextFile
  <2>1. pc = "copy" /\ Len(wobjs) = Len(files)
    BY <1>6 DEF NextFile, TypeInv
  <2>2. /\ src' \in 0..NewCnt /\ fpos' \in Nat /\ remaining' \in Nat
        /\ pc' \in {"copy", "done"} /\ ret' \in {"none", "ok", "fail"}
        /\ (ret' = "ok" => pc' = "done")
    BY <1>0, <1>6, <2>1, SMTT(30) DEF NextFile, TypeOK
  <2>3. UNCHANGED <<pkg, files, shorter, lost, wobjs, table, outfwlen, out>>
    BY <1>6 DEF NextFile
  <2> QED BY <1>0, <2>1, <2>2, <2>3 DEF TypeInv, TypeOK, NewCnt, OldCnt
<1>7. CASE IoError
  BY <1>0, <1>7 DEF IoError, Fail, TypeInv, TypeOK, NewCnt, OldCnt
<1>8. CASE Rewrite
  <2>1. PICK j \in DOMAIN files :
          \/ /\ files[j] > 0 /\ files' = [files EXCEPT ![j] = @ - 1]
             /\ shorter' = IF pc = "stat" THEN shorter ELSE shorter \cup {j}
          \/ files' = [files EXCEPT ![j] = @ + 1] /\ UNCHANGED shorter
    BY <1>8 DEF Rewrite
  <2>2. files' \in Seq(Nat) /\ Len(files') = Len(files)
        /\ shorter' \subseteq DOMAIN files'
    <3>0. files \in Seq(Nat) /\ shorter \subseteq DOMAIN files
      BY <1>0 DEF TypeOK
    <3>1. files[j] \in Nat /\ j \in 1..Len(files)
      BY <3>0
    <3>2. \/ files' = [files EXCEPT ![j] = files[j] - 1] /\ files[j] - 1 \in Nat
          \/ files' = [files EXCEPT ![j] = files[j] + 1] /\ files[j] + 1 \in Nat
      BY <2>1, <3>1
    <3>3. PICK e \in Nat : files' = [files EXCEPT ![j] = e]
      BY <3>2
    <3>4. files' \in Seq(Nat) /\ Len(files') = Len(files)
      BY <3>0, <3>1, <3>3, ExceptSeq
    <3>5. shorter' \subseteq DOMAIN files'
      <4>1. DOMAIN files' = DOMAIN files
        BY <2>1
      <4> QED BY <2>1, <3>0, <4>1
    <3> QED BY <3>4, <3>5
  <2>3. UNCHANGED <<pkg, lost, wobjs, pc, table, outfwlen, src, fpos,
                    remaining, out, ret>>
    BY <1>8 DEF Rewrite
  <2> QED BY <1>0, <2>2, <2>3 DEF TypeInv, TypeOK, NewCnt, OldCnt
<1>9. CASE CloseFails
  <2>1. PICK n \in 0..(Len(out) - 1) : out' = SubSeq(out, 1, n)
    BY <1>9 DEF CloseFails
  <2>2. /\ pc = "copy" /\ pc' = "done" /\ ret' = "ok" /\ lost' = TRUE
        /\ UNCHANGED <<pkg, files, shorter, wobjs, table, outfwlen, src, fpos,
                       remaining>>
    BY <1>9 DEF CloseFails
  <2>3. out' \in Seq(Cells)
    BY <1>0, <2>1 DEF TypeOK
  <2> QED BY <1>0, <2>2, <2>3 DEF TypeInv, TypeOK, NewCnt, OldCnt
<1>10. CASE UNCHANGED vars
  BY <1>0, <1>10 DEF vars, TypeInv, TypeOK, NewCnt, OldCnt
<1> QED BY <1>1, <1>2, <1>3, <1>4, <1>5, <1>6, <1>7, <1>8, <1>9,
        <1>10
        DEF Next, HostStep

(***************************************************************************)
(* The locals of verb_inject always have the types the code gives them;    *)
(* src never goes beyond the last bin file and the table never holds more  *)
(* than the old and the new infos.                                         *)
(***************************************************************************)
THEOREM TypeCorrect == Spec => []TypeOK
<1>1. TypeInv => TypeOK
  BY DEF TypeInv
<1> QED BY <1>1, InitTypeInv, NextTypeInv, PTL DEF Spec

-----------------------------------------------------------------------------
(* The old bins *)

First == pkg.bins[1].offset

\* The old bins have moved by the size of the new infos.
Moved ==
  /\ Len(table) >= OldCnt
  /\ \A k \in 1..OldCnt :
       table[k] = [pkg.bins[k] EXCEPT !.offset = @ + InfoSize * NewCnt]

\* What the package holds before place upto is in the output, moved likewise.
Copied(upto) ==
  /\ Len(out) >= upto + Shift
  /\ \A q \in Nat : First <= q /\ q < upto => out[q + Shift + 1] = Cell(0, q)

Copying ==
  /\ fpos >= First /\ fpos + remaining = pkg.size
  /\ Len(out) = fpos + Shift
  /\ Copied(fpos)

KeptInv ==
  /\ TypeInv
  /\ pc \in {"build", "copy"} \/ ret = "ok" => Moved
  /\ pc = "copy" /\ src = 0 => Copying
  /\ (pc = "copy" /\ src # 0) \/ (ret = "ok" /\ ~lost) => Copied(pkg.size)

\* What a chunk adds to the output.
LEMMA Longer ==
  ASSUME NEW s \in Seq(Cells), NEW c \in Seq(Cells)
  PROVE  /\ Len(s \o c) = Len(s) + Len(c)
         /\ \A i \in 1..Len(s) : (s \o c)[i] = s[i]
         /\ \A i \in Nat : Len(s) < i /\ i <= Len(s) + Len(c) =>
              /\ i - Len(s) \in 1..Len(c)
              /\ (s \o c)[i] = c[i - Len(s)]
<1>1. Len(s) \in Nat /\ Len(c) \in Nat
  OBVIOUS
<1>2. /\ Len(s \o c) = Len(s) + Len(c)
      /\ \A i \in 1..Len(s) + Len(c) :
           (s \o c)[i] = IF i <= Len(s) THEN s[i] ELSE c[i - Len(s)]
  BY ConcatProperties
<1> QED BY <1>1, <1>2

LEMMA KeptTypes ==
  ASSUME TypeOK
  PROVE  /\ OldCnt \in Nat /\ OldCnt >= 1 /\ NewCnt \in Nat
         /\ Shift \in Nat /\ First \in Nat /\ First <= pkg.size
         /\ pkg.size \in Nat /\ Len(out) \in Nat /\ Len(table) \in Nat
<1>1. /\ pkg \in Packages /\ wobjs \in Seq(Nat) /\ out \in Seq(Cells)
      /\ table \in Seq(Info)
  BY DEF TypeOK
<1>2. OldCnt \in Nat /\ OldCnt >= 1 /\ NewCnt \in Nat
  BY <1>1, PackageType DEF OldCnt, NewCnt
<1>3. Shift \in Nat
  BY <1>2, Sizes DEF Shift
<1>4. First \in Nat /\ First <= pkg.size /\ pkg.size \in Nat
  <2> DEFINE o == pkg.bins[1].offset
             l == pkg.bins[1].length
  <2>1. 1 \in 1..Len(pkg.bins)
    BY <1>1, PackageType
  <2>2. o \in Nat /\ l \in Nat /\ o + l <= pkg.size /\ pkg.size \in Nat
    BY <1>1, <2>1, PackageType
  <2>3. First = o
    BY DEF First
  <2> HIDE DEF o, l
  <2> QED BY <2>2, <2>3
<1> QED BY <1>1, <1>2, <1>3, <1>4

LEMMA InitKeptInv == Init => KeptInv
BY InitTypeInv DEF Init, KeptInv

LEMMA HeaderSizes ==
  ASSUME KeptInv, WriteHeader, Contiguous
  PROVE  Copying'
<1>1. TypeInv /\ TypeOK /\ Moved /\ pkg \in Packages
  BY DEF KeptInv, TypeInv, TypeOK, WriteHeader
<1>2. /\ Len(table) = OldCnt + NewCnt
      /\ out' = Times(HeaderEnd(Len(table)), Meta)
                \o Times(HeaderEnd(Len(table)) - table[1].offset, Zero)
      /\ fpos' = First /\ remaining' = pkg.size - First
      /\ UNCHANGED <<pkg, wobjs>>
  BY DEF WriteHeader, inVars, First
<1>3. UNCHANGED <<First, Shift>>
  BY <1>2 DEF First, Shift, NewCnt
<1>4. table[1].offset = First + Shift
  <2>1. table[1] = [pkg.bins[1] EXCEPT !.offset = @ + InfoSize * NewCnt]
    BY <1>1, KeptTypes DEF Moved
  <2>2. pkg.bins[1] \in Info
    BY <1>1, PackageType
  <2> QED BY <2>1, <2>2 DEF First, Shift, Info
<1>5. HeaderEnd(Len(table)) = First + Shift
  <2>1. First = HeaderEnd(OldCnt)
    BY <1>1 DEF Contiguous, First, OldCnt
  <2> QED BY <1>1, <1>2, <2>1, Sizes, KeptTypes DEF Shift
<1>6. Len(out') = First + Shift
  <2> DEFINE h == HeaderEnd(Len(table))
             m == Times(h, Meta)
             z == Times(h - table[1].offset, Zero)
  <2>1. h \in Nat /\ h = First + Shift
    BY <1>1, <1>5, KeptTypes
  <2>2. Meta \in Cells /\ Zero \in Cells
    BY DEF Meta, Zero, Cell, Cells
  <2>3. h - table[1].offset = 0
    BY <1>4, <2>1
  <2>4. m \in Seq(Cells) /\ Len(m) = h /\ z \in Seq(Cells) /\ Len(z) = 0
    BY <2>1, <2>2, <2>3, TimesType
  <2>5. out' = m \o z
    BY <1>2
  <2> HIDE DEF m, z
  <2> QED BY <2>1, <2>4, <2>5, ConcatProperties
<1>7. /\ fpos' >= First /\ fpos' + remaining' = pkg.size
      /\ Len(out') = fpos' + Shift
  BY <1>1, <1>2, <1>6, KeptTypes
<1>8. \A q \in Nat : ~(First <= q /\ q < fpos')
  BY <1>1, <1>2, KeptTypes
<1> HIDE DEF First, Shift
<1>9. Copied(fpos)'
  BY <1>1, <1>3, <1>7, <1>8, KeptTypes DEF Copied
<1> QED BY <1>2, <1>3, <1>7, <1>9 DEF Copying

\* A chunk goes behind what has been written.
LEMMA ChunkAppends ==
  ASSUME TypeInv, CopyChunk
  PROVE  /\ Len(out') = Len(out) + BytesRead
         /\ \A i \in 1..Len(out) : out'[i] = out[i]
         /\ \A i \in Nat : Len(out) < i /\ i <= Len(out) + BytesRead =>
              out'[i] = Cell(src, fpos + (i - Len(out)) - 1)
<1> DEFINE c == [k \in 1..BytesRead |-> Cell(src, fpos + k - 1)]
<1>1. out' = out \o c /\ pc = "copy"
  BY DEF CopyChunk
<1>2. BytesRead \in Nat
  BY <1>1, BytesReadBound
<1>3. out \in Seq(Cells) /\ src \in Nat /\ fpos \in Nat
  <2>1. TypeOK /\ NewCnt \in Nat
    BY KeptTypes DEF TypeInv
  <2> QED BY <2>1 DEF TypeOK
<1> HIDE DEF BytesRead
<1>4. \A k \in 1..BytesRead : Cell(src, fpos + k - 1) \in Cells
  BY <1>2, <1>3 DEF Cell, Cells
<1>5. c \in Seq(Cells) /\ Len(c) = BytesRead
  BY <1>2, <1>4
<1>6. \A k \in 1..BytesRead : c[k] = Cell(src, fpos + k - 1)
  OBVIOUS
<1> HIDE DEF c
<1> QED BY <1>1, <1>3, <1>5, <1>6, Longer

LEMMA ChunkCopied ==
  ASSUME KeptInv, CopyChunk
  PROVE  /\ src = 0 => Copying'
         /\ src # 0 => Copied(pkg.size)'
<1>1. TypeInv /\ TypeOK /\ pc = "copy"
  BY DEF KeptInv, TypeInv, CopyChunk
<1>2. /\ out' = out \o [k \in 1..BytesRead |-> Cell(src, fpos + k - 1)]
      /\ fpos' = fpos + BytesRead /\ remaining' = remaining - BytesRead
      /\ UNCHANGED <<pkg, wobjs, src>>
  BY DEF CopyChunk, inVars
<1>3. BytesRead \in Nat /\ BytesRead <= remaining
  BY <1>1, BytesReadBound
<1>4. out \in Seq(Cells) /\ src \in Nat /\ fpos \in Nat /\ remaining \in Nat
  BY <1>1, KeptTypes DEF TypeOK
<1>5. UNCHANGED <<First, Shift>>
  BY <1>2 DEF First, Shift, NewCnt
<1>6. /\ Shift \in Nat /\ First \in Nat /\ pkg.size \in Nat /\ Len(out) \in Nat
  BY <1>1, KeptTypes
<1> HIDE DEF First, Shift, BytesRead
<1>7. /\ Len(out') = Len(out) + BytesRead
      /\ \A i \in 1..Len(out) : out'[i] = out[i]
      /\ \A i \in Nat : Len(out) < i /\ i <= Len(out) + BytesRead =>
           out'[i] = Cell(src, fpos + (i - Len(out)) - 1)
  BY <1>1, ChunkAppends
<1>8. ASSUME NEW upto \in Nat, Copied(upto)
      PROVE  /\ Len(out') >= upto + Shift
             /\ \A q \in Nat : First <= q /\ q < upto =>
                  out'[q + Shift + 1] = Cell(0, q)
  <2>1. Len(out) >= upto + Shift
    BY <1>8 DEF Copied
  <2>2. ASSUME NEW q \in Nat, First <= q, q < upto
        PROVE  out'[q + Shift + 1] = Cell(0, q)
    <3>1. q + Shift + 1 \in 1..Len(out)
      BY <1>6, <2>1, <2>2
    <3>2. out[q + Shift + 1] = Cell(0, q)
      BY <1>8, <2>2 DEF Copied
    <3> QED BY <1>7, <3>1, <3>2
  <2> QED BY <1>3, <1>6, <1>7, <2>1, <2>2
<1>9. CASE src = 0
  <2>1. fpos >= First /\ fpos + remaining = pkg.size /\ Len(out) = fpos + Shift
        /\ Copied(fpos)
    BY <1>1, <1>9 DEF KeptInv, Copying
  <2>2. /\ fpos' >= First /\ fpos' + remaining' = pkg.size
        /\ Len(out') = fpos' + Shift
    BY <1>2, <1>3, <1>4, <1>6, <1>7, <2>1
  <2>3. ASSUME NEW q \in Nat, First <= q, q < fpos'
        PROVE  out'[q + Shift + 1] = Cell(0, q)
    <3>1. CASE q < fpos
      BY <1>4, <1>8, <2>1, <2>3, <3>1
    <3>2. CASE q >= fpos
      <4> DEFINE i == q + Shift + 1
      <4>1. i \in Nat /\ Len(out) < i /\ i <= Len(out) + BytesRead
        BY <1>2, <1>3, <1>4, <1>6, <2>1, <2>3, <3>2
      <4>2. fpos + (i - Len(out)) - 1 = q
        BY <1>4, <1>6, <2>1
      <4> HIDE DEF i
      <4>3. out'[i] = Cell(0, q)
        BY <1>7, <1>9, <4>1, <4>2
      <4> QED BY <4>3 DEF i
    <3> QED BY <1>4, <3>1, <3>2
  <2>4. Copied(fpos)'
    <3>1. \A q \in Nat : First <= q /\ q < fpos' =>
            out'[q + Shift + 1] = Cell(0, q)
      BY <2>3
    <3>2. Len(out') >= fpos' + Shift
      BY <1>2, <1>3, <1>4, <1>6, <2>2
    <3> QED BY <1>5, <3>1, <3>2 DEF Copied
  <2> QED BY <1>2, <1>5, <1>9, <2>2, <2>4 DEF Copying
<1>10. CASE src # 0
  <2>1. Copied(pkg.size)
    BY <1>1, <1>10 DEF KeptInv
  <2>2. /\ Len(out') >= pkg.size + Shift
        /\ \A q \in Nat : First <= q /\ q < pkg.size =>
             out'[q + Shift + 1] = Cell(0, q)
    BY <1>6, <1>8, <2>1
  <2> QED BY <1>2, <1>5, <1>10, <2>2 DEF Copied
<1> QED BY <1>9, <1>10

LEMMA NextKeptInv == Contiguous /\ KeptInv /\ [Next]_vars => KeptInv'
<1> SUFFICES ASSUME Contiguous, KeptInv, [Next]_vars PROVE KeptInv'
  OBVIOUS
<1> USE DEF inVars, ioVars
<1>0. TypeInv /\ TypeInv' /\ TypeOK /\ (ret = "ok" => pc = "done")
  BY NextTypeInv DEF KeptInv, TypeInv, TypeOK
<1>1. CASE Stat
  BY <1>0, <1>1 DEF Stat, KeptInv
<1>2. CASE ReadPackage
  <2>1. /\ pc = "read" /\ UNCHANGED <<pkg, wobjs>>
        /\ \/ pc' = "done" /\ ret' = "fail"
           \/ /\ pc' = "build" /\ ret' = ret
              /\ table' = [k \in 1..OldCnt |->
                   [pkg.bins[k] EXCEPT !.offset = @ + InfoSize * NewCnt]]
    BY <1>2 DEF ReadPackage, Fail
  <2>2. ret' # "ok"
    BY <1>0, <2>1
  <2>3. CASE pc' = "done"
    BY <1>0, <2>2, <2>3 DEF KeptInv
  <2>4. CASE pc' = "build"
    <3>1. table' = [k \in 1..OldCnt |->
                      [pkg.bins[k] EXCEPT !.offset = @ + InfoSize * NewCnt]]
      BY <2>1, <2>4
    <3>2. OldCnt \in Nat /\ UNCHANGED <<OldCnt, NewCnt>>
      BY <1>0, <2>1, KeptTypes DEF OldCnt, NewCnt
    <3>3. Len(table') = OldCnt
      BY <3>1, <3>2
    <3>4. Moved'
      BY <2>1, <3>1, <3>2, <3>3 DEF Moved
    <3> QED BY <1>0, <2>2, <2>4, <3>4 DEF KeptInv
  <2> QED BY <2>1, <2>3, <2>4
<1>3. CASE AddBin
  <2>1. /\ pc = "build" /\ pc' = "build" /\ UNCHANGED <<pkg, wobjs, ret>>
        /\ \E info : table' = Append(table, info)
    BY <1>3 DEF AddBin
  <2>2. PICK info : table' = Append(table, info)
    BY <2>1
  <2>3. table \in Seq(Info) /\ OldCnt \in Nat /\ Moved
    BY <1>0, <2>1, KeptTypes DEF TypeOK, KeptInv
  <2>4. UNCHANGED <<OldCnt, NewCnt>>
    BY <2>1 DEF OldCnt, NewCnt
  <2>5. Len(table') = Len(table) + 1 /\ \A k \in 1..Len(table) : table'[k] = table[k]
    BY <2>2, <2>3
  <2>6. Len(table) >= OldCnt /\ Len(table) \in Nat
    BY <2>3 DEF Moved
  <2>7. \A k \in 1..OldCnt : k \in 1..Len(table)
    BY <2>3, <2>6
  <2>8. \A k \in 1..OldCnt : table'[k] = table[k]
    BY <2>5, <2>7
  <2>9. Moved'
    <3>1. \A k \in 1..OldCnt :
            table'[k] = [pkg.bins[k] EXCEPT !.offset = @ + InfoSize * NewCnt]
      BY <2>3, <2>8 DEF Moved
    <3>2. Len(table') >= OldCnt
      BY <2>3, <2>5, <2>6
    <3> QED BY <2>1, <2>4, <3>1, <3>2 DEF Moved
  <2> QED BY <1>0, <2>1, <2>9 DEF KeptInv
<1>4. CASE WriteHeader
  <2>1. /\ pc = "build" /\ pc' = "copy" /\ src' = 0
        /\ UNCHANGED <<pkg, wobjs, table, ret>>
    BY <1>4 DEF WriteHeader
  <2>2. Moved'
    BY <2>1 DEF KeptInv, Moved, OldCnt, NewCnt
  <2>3. Copying'
    BY <1>4, HeaderSizes
  <2> QED BY <1>0, <2>1, <2>2, <2>3 DEF KeptInv
<1>5. CASE CopyChunk
  <2>1. /\ pc = "copy" /\ pc' = "copy"
        /\ UNCHANGED <<pkg, wobjs, table, src, ret>>
    BY <1>5 DEF CopyChunk
  <2>2. Moved'
    BY <2>1 DEF KeptInv, Moved, OldCnt, NewCnt
  <2>3. (src = 0 => Copying') /\ (src # 0 => Copied(pkg.size)')
    BY <1>5, ChunkCopied
  <2> QED BY <1>0, <2>1, <2>2, <2>3 DEF KeptInv
<1>6. CASE NextFile
  <2>1. /\ pc = "copy" /\ (remaining <= 0 \/ BytesRead = 0)
        /\ UNCHANGED <<pkg, wobjs, table, out>>
        /\ \/ pc' = "copy" /\ src' = src + 1 /\ ret' = ret
           \/ pc' = "done" /\ ret' = "ok"
    BY <1>6 DEF NextFile
  <2>2. Moved'
    BY <2>1 DEF KeptInv, Moved, OldCnt, NewCnt
  <2>3. src \in Nat /\ fpos \in Nat /\ remaining \in Nat
    BY <1>0, KeptTypes DEF TypeOK
  <2>4. Copied(pkg.size)
    <3>1. CASE src # 0
      BY <2>1, <3>1 DEF KeptInv
    <3>2. CASE src = 0
      <4>1. Copying
        BY <2>1, <3>2 DEF KeptInv
      <4>2. remaining > 0 => fpos < SourceSize
        BY <1>0, <2>3, <3>2, <4>1, KeptTypes DEF Copying, SourceSize
      <4>3. remaining = 0
        BY <1>0, <2>1, <2>3, <4>2, BytesReadBound
      <4>4. fpos = pkg.size
        BY <1>0, <2>3, <4>1, <4>3, KeptTypes DEF Copying
      <4> QED BY <4>1, <4>4 DEF Copying
    <3> QED BY <3>1, <3>2
  <2>5. Copied(pkg.size)'
    BY <2>1, <2>4 DEF Copied, Shift, First, NewCnt
  <2>6. pc' = "copy" => src' # 0
    BY <2>1, <2>3
  <2> QED BY <1>0, <2>2, <2>5, <2>6 DEF KeptInv
<1>7. CASE IoError
  BY <1>0, <1>7 DEF IoError, Fail, KeptInv
<1>8. CASE Rewrite
  <2>1. UNCHANGED <<pkg, lost, wobjs, pc, table, src, fpos, remaining, out,
                    ret>>
    BY <1>8 DEF Rewrite
  <2> QED BY <1>0, <2>1
          DEF KeptInv, Moved, Copying, Copied, First, Shift, OldCnt, NewCnt
<1>9. CASE CloseFails
  <2>1. /\ pc = "copy" /\ pc' = "done" /\ lost' = TRUE
        /\ UNCHANGED <<pkg, wobjs, table>>
    BY <1>9 DEF CloseFails
  <2>2. Moved'
    BY <2>1 DEF KeptInv, Moved, OldCnt, NewCnt
  <2> QED BY <1>0, <2>1, <2>2 DEF KeptInv
<1>10. CASE UNCHANGED vars
  BY <1>0, <1>10
     DEF vars, KeptInv, Moved, Copying, Copied, First, Shift, OldCnt, NewCnt
<1> QED BY <1>1, <1>2, <1>3, <1>4, <1>5, <1>6, <1>7, <1>8, <1>9,
        <1>10
        DEF Next, HostStep

LEMMA KeptInvKeeps == Contiguous /\ KeptInv => OldBinsKept
<1> SUFFICES ASSUME Contiguous, KeptInv, ret = "ok", ~lost,
                    NEW k \in 1..OldCnt
             PROVE  /\ table[k] = [pkg.bins[k] EXCEPT !.offset = table[k].offset]
                    /\ Holds(table[k], 0, pkg.bins[k].offset)
  BY DEF OldBinsKept
<1>1. TypeOK /\ Moved /\ Copied(pkg.size) /\ pkg \in Packages
  BY DEF KeptInv, TypeInv, TypeOK
<1> DEFINE b == pkg.bins[k]
           o == b.offset
           l == b.length
<1>2. /\ b \in Info /\ o \in Nat /\ l \in Nat /\ o + l <= pkg.size
      /\ o >= First
  BY <1>1, PackageType DEF OldCnt, First, Contiguous
<1>3. table[k] = [b EXCEPT !.offset = @ + Shift]
  BY <1>1 DEF Moved, Shift
<1>4. /\ Shift \in Nat /\ First \in Nat /\ pkg.size \in Nat /\ Len(out) \in Nat
  BY <1>1, KeptTypes
<1> HIDE DEF b, Shift, First
<1>5. /\ table[k] = [b EXCEPT !.offset = table[k].offset]
      /\ table[k].offset = o + Shift /\ table[k].length = l
  BY <1>2, <1>3 DEF Info
<1> HIDE DEF o, l
<1>6. table[k].offset + table[k].length <= Len(out)
  <2>1. Len(out) >= pkg.size + Shift
    BY <1>1 DEF Copied
  <2> QED BY <1>2, <1>4, <1>5, <2>1
<1>7. ASSUME NEW i \in 1..l
      PROVE  out[(o + Shift) + i] = Cell(0, o + i - 1)
  <2> DEFINE q == o + i - 1
  <2>1. q \in Nat /\ First <= q /\ q < pkg.size /\ (o + Shift) + i = q + Shift + 1
    BY <1>2, <1>4
  <2> HIDE DEF q
  <2>2. out[q + Shift + 1] = Cell(0, q)
    BY <1>1, <2>1 DEF Copied
  <2> QED BY <2>1, <2>2 DEF q
<1>8. Holds(table[k], 0, o)
  BY <1>5, <1>6, <1>7 DEF Holds
<1> QED BY <1>5, <1>8 DEF b, o

(***************************************************************************)
(* When inject succeeds, and the last fclose did not fail, every old bin   *)
(* of a package without gaps is in the new one, unchanged, at the place    *)
(* its info names.  Any other write may fail.                              *)
(***************************************************************************)
THEOREM KeepsOldBins == ASSUME Contiguous PROVE Spec => []OldBinsKept
<1>1. Init => KeptInv
  BY InitKeptInv
<1>2. KeptInv /\ [Next]_vars => KeptInv'
  BY NextKeptInv
<1>3. KeptInv => OldBinsKept
  BY KeptInvKeeps
<1> QED BY <1>1, <1>2, <1>3, PTL DEF Spec

-----------------------------------------------------------------------------
(* The places in the new table *)

\* The bins of a package lie behind its table.
Behind ==
  \A p \in Packages : \A k \in DOMAIN p.bins :
    p.bins[k].offset >= HeaderEnd(Len(p.bins))

EndOf(info) == info.offset + info.length

\* While the table grows, outfwlen is behind every bin that is in it.
PlacesInv ==
  /\ TypeInv
  /\ pc = "build" =>
       /\ outfwlen >= HeaderEnd(OldCnt + NewCnt)
       /\ \A k \in DOMAIN table : EndOf(table[k]) <= outfwlen
  /\ pc \in {"build", "copy"} =>
       /\ Disjoint(pkg.bins) => Disjoint(table)
       /\ \A k \in DOMAIN table : table[k].offset >= HeaderEnd(OldCnt + NewCnt)
  /\ pc = "copy" => Len(table) = OldCnt + NewCnt


\* An old info, moved by the size of the new ones.
LEMMA MovedInfo ==
  ASSUME TypeOK, NEW k \in 1..OldCnt
  PROVE  LET b == pkg.bins[k]
             m == [b EXCEPT !.offset = @ + InfoSize * NewCnt]
         IN /\ b \in Info /\ m \in Info /\ m.offset = b.offset + Shift
            /\ m.length = b.length /\ b.offset + b.length <= pkg.size
<1>1. pkg \in Packages /\ Shift \in Nat
  BY KeptTypes DEF TypeOK
<1> DEFINE b == pkg.bins[k]
<1>2. b \in Info /\ b.offset + b.length <= pkg.size
  BY <1>1, PackageType DEF OldCnt
<1> HIDE DEF b, Shift
<1>3. LET m == [b EXCEPT !.offset = @ + Shift]
      IN m \in Info /\ m.offset = b.offset + Shift /\ m.length = b.length
  BY <1>1, <1>2 DEF Info
<1> QED BY <1>2, <1>3 DEF b, Shift

LEMMA InitPlacesInv == Init => PlacesInv
BY InitTypeInv DEF Init, PlacesInv

LEMMA ReadPackagePlaces ==
  ASSUME Behind, TypeInv, ReadPackage, pc' = "build"
  PROVE  /\ outfwlen' >= HeaderEnd(OldCnt + NewCnt)
         /\ \A k \in DOMAIN table' :
              /\ EndOf(table'[k]) <= outfwlen'
              /\ table'[k].offset >= HeaderEnd(OldCnt + NewCnt)
         /\ Disjoint(pkg.bins) => Disjoint(table')
<1>1. /\ table' = [k \in 1..OldCnt |->
                     [pkg.bins[k] EXCEPT !.offset = @ + InfoSize * NewCnt]]
      /\ outfwlen' = pkg.size + Shift
  BY DEF ReadPackage, Fail, Shift
<1>2. TypeOK /\ pkg \in Packages
  BY DEF TypeInv, TypeOK
<1>3. /\ OldCnt \in Nat /\ OldCnt >= 1 /\ NewCnt \in Nat /\ Shift \in Nat
      /\ pkg.size \in Nat
  BY <1>2, KeptTypes
<1>4. HeaderEnd(OldCnt) \in Nat /\ HeaderEnd(OldCnt + NewCnt) = HeaderEnd(OldCnt) + Shift
  BY <1>3, Sizes DEF Shift
<1>5. ASSUME NEW k \in 1..OldCnt
      PROVE  /\ pkg.bins[k] \in Info
             /\ table'[k].offset = pkg.bins[k].offset + Shift
             /\ table'[k].length = pkg.bins[k].length
             /\ pkg.bins[k].offset + pkg.bins[k].length <= pkg.size
             /\ pkg.bins[k].offset >= HeaderEnd(OldCnt)
  <2>1. table'[k] = [pkg.bins[k] EXCEPT !.offset = @ + InfoSize * NewCnt]
    BY <1>1
  <2>2. k \in DOMAIN pkg.bins
    BY <1>2, PackageType DEF OldCnt
  <2>3. pkg.bins[k].offset >= HeaderEnd(OldCnt)
    BY <1>2, <2>2 DEF Behind, OldCnt
  <2> QED BY <1>2, <2>1, <2>3, MovedInfo
<1>6. DOMAIN table' = 1..OldCnt /\ DOMAIN pkg.bins = 1..OldCnt
  BY <1>1, <1>2, PackageType DEF OldCnt
<1> HIDE DEF Shift
<1>7. ASSUME NEW k \in 1..OldCnt
      PROVE  /\ pkg.bins[k].offset \in Nat /\ pkg.bins[k].length \in Nat
             /\ EndOf(table'[k]) = EndOf(pkg.bins[k]) + Shift
             /\ EndOf(table'[k]) <= outfwlen'
             /\ table'[k].offset >= HeaderEnd(OldCnt + NewCnt)
  <2>1. pkg.bins[k].offset \in Nat /\ pkg.bins[k].length \in Nat
    BY <1>5 DEF Info
  <2> DEFINE o == pkg.bins[k].offset
             l == pkg.bins[k].length
  <2>2. /\ table'[k].offset = o + Shift /\ table'[k].length = l
        /\ o + l <= pkg.size /\ o >= HeaderEnd(OldCnt)
    BY <1>5
  <2>3. EndOf(table'[k]) = (o + Shift) + l /\ EndOf(pkg.bins[k]) = o + l
    BY <2>2 DEF EndOf
  <2>4. o \in Nat /\ l \in Nat
    BY <2>1
  <2> HIDE DEF o, l
  <2>5. /\ EndOf(table'[k]) = EndOf(pkg.bins[k]) + Shift
        /\ EndOf(table'[k]) <= outfwlen'
    BY <1>1, <1>3, <2>2, <2>3, <2>4
  <2>6. table'[k].offset >= HeaderEnd(OldCnt + NewCnt)
    BY <1>3, <1>4, <2>2, <2>4
  <2> QED BY <2>1, <2>5, <2>6
<1>8. outfwlen' >= HeaderEnd(OldCnt + NewCnt)
  <2>1. 1 \in 1..OldCnt
    BY <1>3
  <2>2. pkg.bins[1].offset \in Nat /\ pkg.bins[1].length \in Nat
    BY <1>7, <2>1
  <2>3. pkg.size >= HeaderEnd(OldCnt)
    BY <1>3, <1>4, <1>5, <2>1, <2>2
  <2> QED BY <1>1, <1>3, <1>4, <2>3
<1>9. ASSUME Disjoint(pkg.bins), NEW k \in 1..OldCnt, NEW m \in 1..OldCnt \ {k}
      PROVE  Apart(table'[k], table'[m])
  <2>1. Apart(pkg.bins[k], pkg.bins[m])
    BY <1>6, <1>9 DEF Disjoint
  <2> QED BY <1>3, <1>5, <1>7, <2>1 DEF Apart
<1> QED BY <1>6, <1>7, <1>8, <1>9 DEF Disjoint

LEMMA AddBinPlaces ==
  ASSUME PlacesInv, AddBin
  PROVE  /\ outfwlen' >= HeaderEnd(OldCnt + NewCnt)
         /\ \A k \in DOMAIN table' :
              /\ EndOf(table'[k]) <= outfwlen'
              /\ table'[k].offset >= HeaderEnd(OldCnt + NewCnt)
         /\ Disjoint(pkg.bins) => Disjoint(table')
<1> DEFINE length == wobjs[Len(table) - OldCnt + 1]
           info == [offset |-> outfwlen, length |-> length, type_2 |-> 1]
           n == Len(table) + 1
<1>1. /\ pc = "build" /\ Len(table) < OldCnt + NewCnt
      /\ table' = Append(table, info) /\ outfwlen' = outfwlen + length
  BY DEF AddBin
<1>2. /\ TypeInv /\ TypeOK /\ table \in Seq(Info) /\ outfwlen \in Nat
      /\ Len(table) \in Nat /\ OldCnt \in Nat /\ NewCnt \in Nat
  BY KeptTypes DEF PlacesInv, TypeInv, TypeOK
<1>3. length \in Nat
  <2>1. Len(table) - OldCnt + 1 \in 1..Len(wobjs) /\ wobjs \in Seq(Nat)
    BY <1>1, <1>2 DEF TypeInv, TypeOK, NewCnt
  <2> QED BY <2>1
<1>4. info.offset = outfwlen /\ info.length = length /\ info \in Info
  BY <1>2, <1>3 DEF Info
<1> HIDE DEF length, info
<1>5. /\ DOMAIN table = 1..Len(table) /\ DOMAIN table' = 1..n
      /\ \A k \in 1..Len(table) : table'[k] = table[k]
      /\ table'[n] = info
  <2>1. /\ table' \in Seq(Info) /\ Len(table') = n /\ table'[n] = info
        /\ \A k \in 1..Len(table) : table'[k] = table[k]
    BY <1>1, <1>2, <1>4, AppendProperties
  <2> QED BY <1>2, <2>1
<1>6. HeaderEnd(OldCnt + NewCnt) \in Nat
  <2>1. OldCnt + NewCnt \in Nat
    BY <1>2
  <2> QED BY <2>1, Sizes
<1>7. \A k \in 1..Len(table) :
        /\ table[k].offset \in Nat /\ table[k].length \in Nat
        /\ EndOf(table[k]) <= outfwlen
        /\ table[k].offset >= HeaderEnd(OldCnt + NewCnt)
  <2> TAKE k \in 1..Len(table)
  <2>1. table[k] \in Info
    BY <1>2
  <2>2. table[k].offset \in Nat /\ table[k].length \in Nat
    BY <2>1 DEF Info
  <2>3. k \in DOMAIN table
    BY <1>5
  <2>4. /\ EndOf(table[k]) <= outfwlen
        /\ table[k].offset >= HeaderEnd(OldCnt + NewCnt)
    BY <1>1, <2>3 DEF PlacesInv
  <2> QED BY <2>2, <2>4
<1>8. outfwlen >= HeaderEnd(OldCnt + NewCnt)
  BY <1>1 DEF PlacesInv
<1>9. \A k \in 1..n : /\ EndOf(table'[k]) <= outfwlen'
                      /\ table'[k].offset >= HeaderEnd(OldCnt + NewCnt)
  <2> TAKE k \in 1..n
  <2>1. CASE k = n
    BY <1>1, <1>2, <1>3, <1>4, <1>5, <1>8, <2>1 DEF EndOf
  <2>2. CASE k # n
    <3>1. k \in 1..Len(table) /\ table'[k] = table[k]
      BY <1>2, <1>5, <2>2
    <3>2. EndOf(table[k]) <= outfwlen /\ EndOf(table[k]) \in Nat
      BY <1>7, <3>1 DEF EndOf
    <3> QED BY <1>1, <1>2, <1>3, <1>7, <3>1, <3>2
  <2> QED BY <2>1, <2>2
<1>10. ASSUME Disjoint(pkg.bins), NEW k \in 1..n, NEW m \in 1..n \ {k}
       PROVE  Apart(table'[k], table'[m])
  <2>1. CASE k = n
    BY <1>2, <1>4, <1>5, <1>7, <2>1 DEF Apart, EndOf
  <2>2. CASE m = n
    BY <1>2, <1>4, <1>5, <1>7, <2>2 DEF Apart, EndOf
  <2>3. CASE k # n /\ m # n
    <3>1. Disjoint(table)
      BY <1>1, <1>10 DEF PlacesInv
    <3>2. k \in 1..Len(table) /\ m \in 1..Len(table) \ {k}
      BY <1>2, <2>3
    <3> QED BY <1>5, <3>1, <3>2 DEF Disjoint
  <2> QED BY <2>1, <2>2, <2>3
<1>11. outfwlen' >= HeaderEnd(OldCnt + NewCnt)
  BY <1>1, <1>2, <1>3, <1>6, <1>8
<1> QED BY <1>5, <1>9, <1>10, <1>11 DEF Disjoint

LEMMA NextPlacesInv == Behind /\ PlacesInv /\ [Next]_vars => PlacesInv'
<1> SUFFICES ASSUME Behind, PlacesInv, [Next]_vars PROVE PlacesInv'
  OBVIOUS
<1> USE DEF inVars, ioVars
<1>0. TypeInv /\ TypeInv'
  BY NextTypeInv DEF PlacesInv
<1>1. CASE Stat
  BY <1>0, <1>1 DEF Stat, PlacesInv
<1>2. CASE ReadPackage
  <2>1. UNCHANGED <<OldCnt, NewCnt, pkg>> /\ pc' \in {"build", "done"}
    BY <1>2 DEF ReadPackage, Fail, OldCnt, NewCnt
  <2>2. CASE pc' = "build"
    BY <1>0, <1>2, <2>1, <2>2, ReadPackagePlaces DEF PlacesInv
  <2>3. CASE pc' = "done"
    BY <1>0, <2>3 DEF PlacesInv
  <2> QED BY <2>1, <2>2, <2>3
<1>3. CASE AddBin
  <2>1. UNCHANGED <<OldCnt, NewCnt, pkg>> /\ pc' = "build"
    BY <1>3 DEF AddBin, OldCnt, NewCnt
  <2> QED BY <1>0, <1>3, <2>1, AddBinPlaces DEF PlacesInv
<1>4. CASE WriteHeader
  BY <1>0, <1>4 DEF WriteHeader, PlacesInv, OldCnt, NewCnt
<1>5. CASE CopyChunk
  BY <1>0, <1>5 DEF CopyChunk, PlacesInv, OldCnt, NewCnt
<1>6. CASE NextFile
  BY <1>0, <1>6 DEF NextFile, PlacesInv, OldCnt, NewCnt
<1>7. CASE IoError
  BY <1>0, <1>7 DEF IoError, Fail, PlacesInv
<1>8. CASE Rewrite
  BY <1>0, <1>8 DEF Rewrite, PlacesInv, OldCnt, NewCnt
<1>9. CASE CloseFails
  BY <1>0, <1>9 DEF CloseFails, PlacesInv
<1>10. CASE UNCHANGED vars
  BY <1>0, <1>10 DEF vars, PlacesInv, OldCnt, NewCnt
<1> QED BY <1>1, <1>2, <1>3, <1>4, <1>5, <1>6, <1>7, <1>8, <1>9,
        <1>10
        DEF Next, HostStep

(***************************************************************************)
(* The bins of the new package lie behind its table and share nothing with *)
(* each other if those of the old one did, wherever in the file they were: *)
(* here the package may have gaps.                                         *)
(***************************************************************************)
THEOREM BinsStayApart == ASSUME Behind PROVE Spec => []NoOverlap
<1>1. Init => PlacesInv
  BY InitPlacesInv
<1>2. PlacesInv /\ [Next]_vars => PlacesInv'
  BY NextPlacesInv
<1>3. PlacesInv => NoOverlap
  BY DEF PlacesInv, NoOverlap
<1> QED BY <1>1, <1>2, <1>3, PTL DEF Spec

-----------------------------------------------------------------------------
(* The new bins *)

\* Where the new bin j ends in the output; the first of them follows what the
\* package held.
NewEnd(j) == IF j = 0 THEN pkg.size + Shift ELSE EndOf(table[OldCnt + j])

\* The new infos name one bin after the other, with the lengths of stat.
Chained ==
  \A j \in 1..NewCnt : OldCnt + j <= Len(table) =>
    /\ table[OldCnt + j].offset = NewEnd(j - 1)
    /\ table[OldCnt + j].length = wobjs[j]

\* The other bin files are no shorter than stat said.
LongEnough == \A j \in (1..NewCnt) \ shorter : files[j] >= wobjs[j]

\* The first n new bins are in the output, up to a file that got shorter,
Placed(n) == \A j \in 1..n : Whole(j) => Holds(table[OldCnt + j], j, 0)

\* and the beginning of the next one.
Placing ==
  /\ fpos + remaining = wobjs[src]
  /\ Len(out) = NewEnd(src - 1) + fpos
  /\ \A k \in 1..fpos : out[NewEnd(src - 1) + k] = Cell(src, k - 1)

NewInv ==
  /\ KeptInv
  /\ pc \in {"build", "copy"} \/ ret = "ok" => Chained
  /\ pc = "build" => outfwlen = NewEnd(Len(table) - OldCnt)
  /\ pc = "copy" \/ ret = "ok" => Len(table) = OldCnt + NewCnt
  /\ pc # "done" => LongEnough
  /\ pc = "copy" => Placed(src - 1)
  /\ pc = "copy" /\ src # 0 /\ Whole(src - 1) => Placing
  /\ ret = "ok" /\ ~lost => Placed(NewCnt)

LEMMA NewTypes ==
  ASSUME TypeInv
  PROVE  /\ OldCnt \in Nat /\ OldCnt >= 1 /\ NewCnt \in Nat /\ Shift \in Nat
         /\ pkg.size \in Nat /\ Len(out) \in Nat /\ Len(table) \in Nat
         /\ outfwlen \in Nat /\ fpos \in Nat /\ remaining \in Nat
         /\ src \in 0..NewCnt
         /\ \A j \in 1..NewCnt : wobjs[j] \in Nat
         /\ \A k \in 1..Len(table) :
              /\ table[k].offset \in Nat /\ table[k].length \in Nat
              /\ EndOf(table[k]) \in Nat
         /\ \A j \in 0..NewCnt : OldCnt + j <= Len(table) => NewEnd(j) \in Nat
<1>1. TypeOK
  BY DEF TypeInv
<1>2. /\ OldCnt \in Nat /\ OldCnt >= 1 /\ NewCnt \in Nat /\ Shift \in Nat
      /\ pkg.size \in Nat /\ Len(out) \in Nat /\ Len(table) \in Nat
      /\ outfwlen \in Nat /\ fpos \in Nat /\ remaining \in Nat
      /\ src \in 0..NewCnt
  BY <1>1, KeptTypes DEF TypeOK
<1>3. \A j \in 1..NewCnt : wobjs[j] \in Nat
  BY <1>1 DEF TypeOK, NewCnt
<1>4. \A k \in 1..Len(table) :
        /\ table[k].offset \in Nat /\ table[k].length \in Nat
        /\ EndOf(table[k]) \in Nat
  <2> TAKE k \in 1..Len(table)
  <2>1. table[k] \in Info
    BY <1>1 DEF TypeOK
  <2>2. table[k].offset \in Nat /\ table[k].length \in Nat
    BY <2>1 DEF Info
  <2> QED BY <2>2 DEF EndOf
<1> HIDE DEF Shift
<1>5. \A j \in 0..NewCnt : OldCnt + j <= Len(table) => NewEnd(j) \in Nat
  <2> SUFFICES ASSUME NEW j \in 0..NewCnt, OldCnt + j <= Len(table)
               PROVE  NewEnd(j) \in Nat
    OBVIOUS
  <2>1. CASE j = 0
    BY <1>2, <2>1 DEF NewEnd
  <2>2. CASE j # 0
    <3>1. OldCnt + j \in 1..Len(table)
      BY <1>2
    <3> QED BY <1>4, <2>2, <3>1 DEF NewEnd
  <2> QED BY <2>1, <2>2
<1> QED BY <1>2, <1>3, <1>4, <1>5

\* What is in the output stays there when the output grows.
LEMMA HoldsStays ==
  ASSUME NEW info, info.offset \in Nat, info.length \in Nat,
         NEW f, NEW at, Holds(info, f, at),
         Len(out) \in Nat, Len(out') \in Nat, Len(out') >= Len(out),
         \A i \in 1..Len(out) : out'[i] = out[i]
  PROVE  /\ info.offset + info.length <= Len(out')
         /\ \A k \in 1..info.length : out'[info.offset + k] = Cell(f, at + k - 1)
<1>1. info.offset + info.length <= Len(out)
  BY DEF Holds
<1>2. ASSUME NEW k \in 1..info.length
      PROVE  out'[info.offset + k] = Cell(f, at + k - 1)
  <2>1. info.offset + k \in 1..Len(out)
    BY <1>1
  <2>2. out[info.offset + k] = Cell(f, at + k - 1)
    BY DEF Holds
  <2> QED BY <2>1, <2>2
<1> QED BY <1>1, <1>2

LEMMA InitNewInv == Init => NewInv
<1> SUFFICES ASSUME Init PROVE NewInv
  OBVIOUS
<1>1. KeptInv /\ pc = "stat" /\ ret = "none" /\ wobjs = <<>>
  BY InitKeptInv DEF Init
<1>2. LongEnough
  BY <1>1 DEF LongEnough, NewCnt
<1> QED BY <1>1, <1>2 DEF NewInv

LEMMA AddBinChained ==
  ASSUME NewInv, AddBin
  PROVE  Chained' /\ outfwlen' = NewEnd(Len(table) - OldCnt)'
<1> DEFINE n == Len(table) - OldCnt + 1
           info == [offset |-> outfwlen, length |-> wobjs[n], type_2 |-> 1]
<1>1. /\ pc = "build" /\ Len(table) < OldCnt + NewCnt
      /\ table' = Append(table, info) /\ outfwlen' = outfwlen + wobjs[n]
      /\ UNCHANGED <<pkg, wobjs>>
  BY DEF AddBin, inVars
<1>2. /\ TypeInv /\ table \in Seq(Info) /\ Len(table) >= OldCnt
      /\ Chained /\ outfwlen = NewEnd(n - 1)
  <2>1. TypeInv /\ Len(table) >= OldCnt /\ table \in Seq(Info)
    BY <1>1 DEF NewInv, KeptInv, TypeInv, TypeOK
  <2>2. Chained /\ outfwlen = NewEnd(Len(table) - OldCnt)
    BY <1>1 DEF NewInv
  <2>3. n - 1 = Len(table) - OldCnt
    BY <2>1, NewTypes
  <2> QED BY <2>1, <2>2, <2>3
<1>3. /\ OldCnt \in Nat /\ NewCnt \in Nat /\ Len(table) \in Nat
      /\ outfwlen \in Nat /\ n \in 1..NewCnt /\ OldCnt + n = Len(table) + 1
      /\ wobjs[n] \in Nat
  <2>1. n \in 1..NewCnt /\ OldCnt + n = Len(table) + 1
    BY <1>1, <1>2, NewTypes, SMTT(30)
  <2> HIDE DEF n
  <2> QED BY <1>2, <2>1, NewTypes
<1>4. UNCHANGED <<OldCnt, NewCnt, Shift, pkg>>
  BY <1>1 DEF OldCnt, NewCnt, Shift
<1>5. info \in Info /\ info.offset = outfwlen /\ info.length = wobjs[n]
  BY <1>3 DEF Info
<1> HIDE DEF info
<1>6. /\ Len(table') = Len(table) + 1
      /\ \A k \in 1..Len(table) : table'[k] = table[k]
      /\ table'[OldCnt + n] = info
  <2>1. /\ Len(table') = Len(table) + 1 /\ table'[Len(table) + 1] = info
        /\ \A k \in 1..Len(table) : table'[k] = table[k]
    BY <1>1, <1>2, <1>5, AppendProperties
  <2> QED BY <1>3, <2>1
<1> HIDE DEF n
<1>7. \A j \in 0..NewCnt : j < n => UNCHANGED NewEnd(j)
  <2> SUFFICES ASSUME NEW j \in 0..NewCnt, j < n PROVE UNCHANGED NewEnd(j)
    OBVIOUS
  <2>1. CASE j = 0
    BY <1>4, <2>1 DEF NewEnd
  <2>2. CASE j # 0
    <3>1. OldCnt + j \in 1..Len(table)
      BY <1>3, <2>2
    <3>2. table'[OldCnt + j] = table[OldCnt + j]
      BY <1>6, <3>1
    <3> QED BY <1>4, <2>2, <3>2 DEF NewEnd
  <2> QED BY <2>1, <2>2
<1>8. ASSUME NEW j \in 1..NewCnt, OldCnt + j <= Len(table')
      PROVE  /\ table'[OldCnt + j].offset = NewEnd(j - 1)'
             /\ table'[OldCnt + j].length = wobjs[j]
  <2>1. j <= n
    BY <1>3, <1>6, <1>8
  <2>2. j - 1 \in 0..NewCnt /\ j - 1 < n
    BY <1>3, <2>1
  <2>3. NewEnd(j - 1)' = NewEnd(j - 1)
    BY <1>7, <2>2
  <2>4. CASE j = n
    BY <1>2, <1>5, <1>6, <2>3, <2>4
  <2>5. CASE j # n
    <3>1. OldCnt + j \in 1..Len(table)
      BY <1>3, <2>1, <2>5
    <3>2. table'[OldCnt + j] = table[OldCnt + j]
      BY <1>6, <3>1
    <3> QED BY <1>2, <2>3, <3>1, <3>2 DEF Chained
  <2> QED BY <2>4, <2>5
<1>9. Chained'
  BY <1>1, <1>4, <1>8 DEF Chained
<1>10. outfwlen' = EndOf(table'[OldCnt + n])
  BY <1>1, <1>5, <1>6 DEF EndOf, n
<1>11. Len(table') - OldCnt' = n /\ n # 0
  BY <1>3, <1>4, <1>6
<1>12. NewEnd(Len(table) - OldCnt)' = EndOf(table'[OldCnt + n])
  BY <1>4, <1>11 DEF NewEnd
<1> QED BY <1>9, <1>10, <1>12

LEMMA ChunkPlacing ==
  ASSUME NewInv, CopyChunk
  PROVE  Placed(src - 1)' /\ (src # 0 /\ Whole(src - 1) => Placing')
<1>1. /\ TypeInv /\ pc = "copy" /\ Len(table) = OldCnt + NewCnt
      /\ Placed(src - 1) /\ (src # 0 /\ Whole(src - 1) => Placing)
  BY DEF NewInv, KeptInv, CopyChunk
<1>2. /\ fpos' = fpos + BytesRead /\ remaining' = remaining - BytesRead
      /\ UNCHANGED <<pkg, shorter, wobjs, src, table>>
  BY DEF CopyChunk, inVars
<1>3. /\ UNCHANGED <<OldCnt, NewCnt, Shift>> /\ \A j : UNCHANGED NewEnd(j)
      /\ \A j : UNCHANGED Whole(j)
  BY <1>2 DEF OldCnt, NewCnt, Shift, NewEnd, Whole
<1>4. BytesRead \in Nat /\ BytesRead <= remaining
  BY <1>1, BytesReadBound
<1>5. /\ OldCnt \in Nat /\ NewCnt \in Nat /\ src \in 0..NewCnt
      /\ Len(out) \in Nat /\ fpos \in Nat /\ remaining \in Nat
  BY <1>1, NewTypes
<1>6. /\ Len(out') = Len(out) + BytesRead
      /\ \A i \in 1..Len(out) : out'[i] = out[i]
      /\ \A i \in Nat : Len(out) < i /\ i <= Len(out) + BytesRead =>
           out'[i] = Cell(src, fpos + (i - Len(out)) - 1)
  BY <1>1, ChunkAppends
<1> HIDE DEF BytesRead
<1>7. Placed(src - 1)'
  <2>1. ASSUME NEW j \in 1..(src - 1), Whole(j)
        PROVE  Holds(table[OldCnt + j], j, 0)'
    <3> DEFINE info == table[OldCnt + j]
    <3>1. OldCnt + j \in 1..Len(table)
      BY <1>1, <1>5
    <3>2. info.offset \in Nat /\ info.length \in Nat
      BY <1>1, <3>1, NewTypes
    <3>3. Holds(info, j, 0)
      BY <1>1, <2>1 DEF Placed
    <3>4. info' = info
      BY <1>2, <1>3
    <3>5. Len(out') \in Nat /\ Len(out') >= Len(out)
      BY <1>4, <1>5, <1>6
    <3> HIDE DEF info
    <3>6. /\ info.offset + info.length <= Len(out')
          /\ \A k \in 1..info.length : out'[info.offset + k] = Cell(j, 0 + k - 1)
      BY <1>5, <1>6, <3>2, <3>3, <3>5, HoldsStays
    <3>7. Holds(info, j, 0)'
      BY <3>4, <3>6 DEF Holds
    <3> QED BY <3>7 DEF info
  <2> QED BY <1>2, <1>3, <2>1 DEF Placed
<1>8. ASSUME src # 0, Whole(src - 1) PROVE Placing'
  <2> DEFINE base == NewEnd(src - 1)
  <2>1. /\ fpos + remaining = wobjs[src] /\ Len(out) = base + fpos
        /\ \A k \in 1..fpos : out[base + k] = Cell(src, k - 1)
    BY <1>1, <1>8 DEF Placing
  <2>2. base \in Nat
    <3>1. src - 1 \in 0..NewCnt /\ OldCnt + (src - 1) <= Len(table)
      BY <1>1, <1>5, <1>8
    <3> QED BY <1>1, <3>1, NewTypes
  <2>3. base' = base
    BY <1>2, <1>3
  <2> HIDE DEF base
  <2>4. fpos' + remaining' = wobjs[src] /\ Len(out') = base + fpos'
    BY <1>2, <1>4, <1>5, <1>6, <2>1, <2>2
  <2>5. ASSUME NEW k \in 1..fpos' PROVE out'[base + k] = Cell(src, k - 1)
    <3>1. CASE k <= fpos
      <4>1. k \in 1..fpos /\ base + k \in 1..Len(out)
        BY <1>2, <1>4, <1>5, <2>1, <2>2, <3>1
      <4> QED BY <1>6, <2>1, <4>1
    <3>2. CASE k > fpos
      <4>1. /\ base + k \in Nat /\ Len(out) < base + k
            /\ base + k <= Len(out) + BytesRead
            /\ fpos + ((base + k) - Len(out)) - 1 = k - 1
        BY <1>2, <1>4, <1>5, <2>1, <2>2, <3>2
      <4> QED BY <1>6, <4>1
    <3> QED BY <1>2, <1>4, <1>5, <3>1, <3>2
  <2> QED BY <1>2, <2>3, <2>4, <2>5 DEF Placing, base
<1> QED BY <1>7, <1>8

\* A copy that ends has copied the whole file, if none is too short.
LEMMA FileCopied ==
  ASSUME NewInv, NextFile
  PROVE  Placed(src) /\ (Whole(src) => Len(out) = NewEnd(src))
<1>1. /\ TypeInv /\ pc = "copy" /\ Len(table) = OldCnt + NewCnt
      /\ LongEnough /\ Chained /\ Placed(src - 1)
      /\ remaining <= 0 \/ BytesRead = 0
      /\ src = 0 => Copying
      /\ src # 0 /\ Whole(src - 1) => Placing
  BY DEF NewInv, KeptInv, NextFile
<1>2. /\ OldCnt \in Nat /\ NewCnt \in Nat /\ src \in 0..NewCnt
      /\ Len(out) \in Nat /\ fpos \in Nat /\ remaining \in Nat
      /\ pkg.size \in Nat /\ Shift \in Nat
      /\ \A j \in 1..NewCnt : wobjs[j] \in Nat
  BY <1>1, NewTypes
<1>3. remaining > 0 => fpos >= SourceSize
  BY <1>1, <1>2, BytesReadBound
<1>4. CASE src = 0
  <2>1. fpos + remaining = pkg.size /\ Len(out) = fpos + Shift
    BY <1>1, <1>4 DEF Copying
  <2>2. SourceSize = pkg.size
    BY <1>4 DEF SourceSize
  <2>3. remaining = 0
    BY <1>2, <1>3, <2>1, <2>2
  <2>4. Len(out) = NewEnd(src)
    BY <1>2, <1>4, <2>1, <2>3 DEF NewEnd
  <2> QED BY <1>4, <2>4 DEF Placed
<1>5. CASE src # 0 /\ ~Whole(src)
  <2>1. \A j \in 1..src : j = src \/ j \in 1..(src - 1)
    BY <1>2
  <2> QED BY <1>1, <1>5, <2>1 DEF Placed
<1>6. CASE src # 0 /\ Whole(src)
  <2>0. Whole(src - 1) /\ src \notin shorter
    BY <1>2, <1>6 DEF Whole
  <2> DEFINE base == NewEnd(src - 1)
             info == table[OldCnt + src]
  <2>1. /\ fpos + remaining = wobjs[src] /\ Len(out) = base + fpos
        /\ \A k \in 1..fpos : out[base + k] = Cell(src, k - 1)
    BY <1>1, <1>6, <2>0 DEF Placing
  <2>2. src \in 1..NewCnt /\ src - 1 \in 0..NewCnt
        /\ OldCnt + (src - 1) <= Len(table) /\ OldCnt + src <= Len(table)
    BY <1>1, <1>2, <1>6
  <2>3. base \in Nat
    BY <1>1, <2>2, NewTypes
  <2>4. info.offset = base /\ info.length = wobjs[src]
    BY <1>1, <2>2 DEF Chained
  <2>5. SourceSize = files[src] /\ files[src] >= wobjs[src]
    BY <1>1, <1>6, <2>0, <2>2 DEF SourceSize, LongEnough
  <2>6. SourceSize \in Nat
    BY <1>1, BytesReadBound
  <2>7. NewEnd(src) = EndOf(info)
    BY <1>6 DEF NewEnd
  <2> HIDE DEF base, info
  <2>8. remaining = 0
    BY <1>2, <1>3, <2>1, <2>2, <2>5, <2>6
  <2>9. Len(out) = base + wobjs[src] /\ fpos = wobjs[src] /\ wobjs[src] \in Nat
    BY <1>2, <2>1, <2>2, <2>8
  <2>10. Holds(info, src, 0)
    <3>1. \A k \in 1..info.length : out[info.offset + k] = Cell(src, 0 + k - 1)
      BY <2>1, <2>4, <2>9
    <3>2. info.offset + info.length <= Len(out)
      BY <1>2, <2>3, <2>4, <2>9
    <3> QED BY <3>1, <3>2 DEF Holds
  <2>11. Placed(src)
    <3>1. \A j \in 1..src : j = src \/ j \in 1..(src - 1)
      BY <1>2
    <3> QED BY <1>1, <2>10, <3>1 DEF Placed, info
  <2> QED BY <2>4, <2>7, <2>9, <2>11 DEF EndOf
<1> QED BY <1>4, <1>5, <1>6

LEMMA NextFilePlacing ==
  ASSUME NewInv, NextFile
  PROVE  /\ pc' = "copy" => Placed(src - 1)' /\ (Whole(src - 1)' => Placing')
         /\ ret' = "ok" => Placed(NewCnt)'
<1>1. Placed(src) /\ (Whole(src) => Len(out) = NewEnd(src))
  BY FileCopied
<1>2. /\ TypeInv /\ pc = "copy" /\ ret # "ok"
      /\ UNCHANGED <<pkg, shorter, wobjs, table, out>>
      /\ \/ /\ src < NewCnt /\ pc' = "copy" /\ ret' = ret
            /\ src' = src + 1 /\ fpos' = 0 /\ remaining' = wobjs[src + 1]
         \/ src = NewCnt /\ pc' = "done" /\ ret' = "ok" /\ src' = src
  BY DEF NextFile, NewInv, KeptInv, TypeInv, TypeOK, inVars
<1>3. /\ UNCHANGED <<OldCnt, NewCnt, Shift>> /\ \A j : UNCHANGED NewEnd(j)
      /\ \A j : UNCHANGED Whole(j)
  BY <1>2 DEF OldCnt, NewCnt, Shift, NewEnd, Whole
<1>4. src \in 0..NewCnt /\ NewCnt \in Nat
  BY <1>2, NewTypes
<1>5. CASE pc' = "copy"
  <2>1. /\ src' = src + 1 /\ fpos' = 0 /\ remaining' = wobjs[src + 1]
        /\ ret' # "ok" /\ src' - 1 = src
    BY <1>2, <1>4, <1>5
  <2>2. Placed(src - 1)'
    <3>1. \A j \in 1..src : Whole(j) => Holds(table[OldCnt + j], j, 0)'
      BY <1>1, <1>2, <1>3 DEF Placed, Holds
    <3> QED BY <1>2, <1>3, <2>1, <3>1 DEF Placed
  <2>3. remaining' = wobjs[src'] /\ wobjs[src'] \in Nat
    BY <1>2, <1>4, <2>1, NewTypes, SMTT(30)
  <2>4. NewEnd(src - 1)' = NewEnd(src)
    BY <1>2, <1>3, <2>1 DEF NewEnd
  <2>5. Len(out) \in Nat
    BY <1>2, NewTypes
  <2>6. Whole(src - 1)' => Whole(src)
    BY <1>3, <2>1 DEF Whole
  <2> QED BY <1>1, <1>2, <2>1, <2>2, <2>3, <2>4, <2>5, <2>6 DEF Placing
<1>6. CASE pc' # "copy"
  <2>1. src = NewCnt /\ src' = src
    BY <1>2, <1>6
  <2>2. \A j \in 1..NewCnt : Whole(j) => Holds(table[OldCnt + j], j, 0)'
    BY <1>1, <1>2, <1>3, <2>1 DEF Placed, Holds
  <2>3. Placed(NewCnt)'
    BY <1>2, <1>3, <2>2 DEF Placed
  <2> QED BY <1>6, <2>3
<1> QED BY <1>5, <1>6

LEMMA NextNewInv == Contiguous /\ NewInv /\ [Next]_vars => NewInv'
<1> SUFFICES ASSUME Contiguous, NewInv, [Next]_vars PROVE NewInv'
  OBVIOUS
<1> USE DEF inVars, ioVars
<1>0. /\ KeptInv /\ KeptInv' /\ TypeInv /\ TypeInv'
      /\ (ret = "ok" => pc = "done") /\ (ret' = "ok" => pc' = "done")
  BY NextKeptInv DEF NewInv, KeptInv, TypeInv, TypeOK
<1>1. CASE Stat
  <2>1. LongEnough'
    <3>1. wobjs' = files' /\ files' \in Seq(Nat)
      BY <1>0, <1>1 DEF Stat, TypeInv, TypeOK
    <3>2. \A j \in 1..NewCnt' : files'[j] \in Nat /\ wobjs'[j] = files'[j]
      BY <3>1 DEF NewCnt
    <3> QED BY <3>2 DEF LongEnough
  <2> QED BY <1>0, <1>1, <2>1 DEF Stat, NewInv
<1>2. CASE ReadPackage
  <2>1. /\ pc = "read" /\ UNCHANGED <<pkg, files, shorter, wobjs>>
        /\ \/ pc' = "done" /\ ret' = "fail"
           \/ /\ pc' = "build" /\ ret' = ret
              /\ table' = [k \in 1..OldCnt |->
                   [pkg.bins[k] EXCEPT !.offset = @ + InfoSize * NewCnt]]
              /\ outfwlen' = pkg.size + InfoSize * NewCnt
    BY <1>2 DEF ReadPackage, Fail
  <2>2. UNCHANGED <<OldCnt, NewCnt, Shift, LongEnough>>
    BY <2>1 DEF OldCnt, NewCnt, Shift, LongEnough
  <2>3. CASE pc' = "done"
    BY <1>0, <2>1, <2>3 DEF NewInv
  <2>4. CASE pc' = "build"
    <3>1. Len(table') = OldCnt /\ OldCnt \in Nat /\ NewCnt \in Nat
      BY <1>0, <2>1, <2>4, NewTypes
    <3>2. Chained'
      BY <2>2, <3>1 DEF Chained
    <3>3. Len(table') - OldCnt' = 0
      BY <2>2, <3>1
    <3>4. outfwlen' = NewEnd(Len(table) - OldCnt)'
      BY <2>1, <2>2, <2>4, <3>3 DEF NewEnd, Shift
    <3> QED BY <1>0, <2>1, <2>2, <2>4, <3>2, <3>4 DEF NewInv
  <2> QED BY <2>1, <2>3, <2>4
<1>3. CASE AddBin
  <2>1. pc = "build" /\ pc' = "build" /\ UNCHANGED <<pkg, files, shorter, wobjs, ret>>
    BY <1>3 DEF AddBin
  <2>2. UNCHANGED LongEnough
    BY <2>1 DEF LongEnough, NewCnt
  <2> QED BY <1>0, <1>3, <2>1, <2>2, AddBinChained DEF NewInv
<1>4. CASE WriteHeader
  <2>1. /\ pc = "build" /\ pc' = "copy" /\ src' = 0
        /\ Len(table) = OldCnt + NewCnt
        /\ UNCHANGED <<pkg, files, shorter, wobjs, table, ret>>
    BY <1>4 DEF WriteHeader
  <2>2. UNCHANGED <<LongEnough, OldCnt, NewCnt, Chained>>
    BY <2>1 DEF LongEnough, OldCnt, NewCnt, Chained, NewEnd, Shift
  <2>3. Placed(src - 1)'
    BY <2>1 DEF Placed
  <2> QED BY <1>0, <2>1, <2>2, <2>3 DEF NewInv
<1>5. CASE CopyChunk
  <2>1. /\ pc = "copy" /\ pc' = "copy"
        /\ UNCHANGED <<pkg, files, shorter, wobjs, table, src, ret>>
    BY <1>5 DEF CopyChunk
  <2>2. /\ UNCHANGED <<LongEnough, OldCnt, NewCnt, Chained>>
        /\ Whole(src - 1)' = Whole(src - 1)
    BY <2>1 DEF LongEnough, Whole, OldCnt, NewCnt, Chained, NewEnd, Shift
  <2> QED BY <1>0, <1>5, <2>1, <2>2, ChunkPlacing DEF NewInv
<1>6. CASE NextFile
  <2>1. /\ pc = "copy" /\ pc' \in {"copy", "done"}
        /\ UNCHANGED <<pkg, files, shorter, wobjs, table>>
    BY <1>6 DEF NextFile
  <2>2. UNCHANGED <<LongEnough, OldCnt, NewCnt, Chained>>
    BY <2>1 DEF LongEnough, OldCnt, NewCnt, Chained, NewEnd, Shift
  <2> QED BY <1>0, <1>6, <2>1, <2>2, NextFilePlacing DEF NewInv
<1>7. CASE IoError
  BY <1>0, <1>7 DEF IoError, Fail, NewInv
<1>8. CASE Rewrite
  <2>1. /\ pc # "done"
        /\ UNCHANGED <<pkg, wobjs, pc, table, outfwlen, src, fpos, remaining,
                       out, ret>>
    BY <1>8 DEF Rewrite
  <2>2. /\ UNCHANGED <<OldCnt, NewCnt, Chained, Placing>>
        /\ NewEnd(Len(table) - OldCnt)' = NewEnd(Len(table) - OldCnt)
        /\ Whole(src - 1)' => Whole(src - 1)
        /\ Placed(src - 1) => Placed(src - 1)'
    <3>1. shorter \subseteq shorter'
      BY <1>8 DEF Rewrite
    <3>2. \A j : Whole(j)' => Whole(j)
      BY <3>1 DEF Whole
    <3> QED BY <2>1, <3>2
            DEF OldCnt, NewCnt, Chained, Placing, NewEnd, Shift, Placed, Holds
  <2>3. PICK i \in DOMAIN files :
          \/ /\ files[i] > 0 /\ files' = [files EXCEPT ![i] = @ - 1]
             /\ shorter' = IF pc = "stat" THEN shorter ELSE shorter \cup {i}
          \/ files' = [files EXCEPT ![i] = @ + 1] /\ UNCHANGED shorter
    BY <1>8 DEF Rewrite
  <2>4. shorter \subseteq shorter'
    BY <2>3
  <2>5. LongEnough'
    <3> SUFFICES ASSUME NEW j \in 1..NewCnt, j \notin shorter'
                 PROVE  files'[j] >= wobjs[j]
      BY <2>1, <2>2 DEF LongEnough
    <3>1. pc # "stat"
      <4>1. NewCnt >= 1
        BY <1>0, NewTypes
      <4>2. wobjs # <<>>
        BY <4>1 DEF NewCnt
      <4> QED BY <1>0, <4>2 DEF TypeInv
    <3>2. Len(wobjs) = Len(files) /\ files \in Seq(Nat)
      BY <1>0, <2>1, <3>1 DEF TypeInv, TypeOK
    <3>3. files[j] >= wobjs[j] /\ wobjs[j] \in Nat
      BY <1>0, <2>1, <2>4, NewTypes DEF NewInv, LongEnough
    <3>4. j \in DOMAIN files /\ files[j] \in Nat
      BY <3>2 DEF NewCnt
    <3>5. \/ i # j /\ files' = [files EXCEPT ![i] = files[i] - 1]
          \/ files' = [files EXCEPT ![i] = files[i] + 1]
      BY <2>3, <3>1
    <3>6. files'[j] = files[j] \/ files'[j] = files[j] + 1
      BY <3>4, <3>5
    <3> QED BY <3>3, <3>4, <3>6
  <2> QED BY <1>0, <2>1, <2>2, <2>4, <2>5 DEF NewInv
<1>9. CASE CloseFails
  <2>1. /\ pc = "copy" /\ pc' = "done" /\ lost' = TRUE
        /\ UNCHANGED <<pkg, wobjs, table>>
    BY <1>9 DEF CloseFails
  <2>2. UNCHANGED <<OldCnt, NewCnt, Chained>>
    BY <2>1 DEF OldCnt, NewCnt, Chained, NewEnd, Shift
  <2> QED BY <1>0, <2>1, <2>2 DEF NewInv
<1>10. CASE UNCHANGED vars
  <2>1. /\ UNCHANGED <<OldCnt, NewCnt, Chained, Placing, LongEnough>>
        /\ NewEnd(Len(table) - OldCnt)' = NewEnd(Len(table) - OldCnt)
        /\ Placed(src - 1)' = Placed(src - 1) /\ Placed(NewCnt)' = Placed(NewCnt)
        /\ Whole(src - 1)' = Whole(src - 1)
    BY <1>10 DEF vars, OldCnt, NewCnt, Chained, Placing, NewEnd, Shift, Placed,
                Holds, LongEnough, Whole
  <2> QED BY <1>0, <1>10, <2>1 DEF vars, NewInv
<1> QED BY <1>1, <1>2, <1>3, <1>4, <1>5, <1>6, <1>7, <1>8, <1>9,
        <1>10
        DEF Next, HostStep

(***************************************************************************)
(* When inject succeeds every new bin is at the place its info names,      *)
(* up to a file that got shorter, unless the last fclose failed: each      *)
(* ends where the next one begins, although stat, table and copy go over   *)
(* the files one after the other, and although the files may grow and      *)
(* every other write may fail.                                             *)
(***************************************************************************)
THEOREM PlacesNewBins == ASSUME Contiguous PROVE Spec => []NewBinsPlaced
<1>1. Init => NewInv
  BY InitNewInv
<1>2. NewInv /\ [Next]_vars => NewInv'
  BY NextNewInv
<1>3. NewInv => NewBinsPlaced
  <2> SUFFICES ASSUME NewInv, ret = "ok", ~lost
               PROVE  /\ Len(table) = OldCnt + NewCnt
                      /\ \A j \in 1..NewCnt :
                           /\ table[OldCnt + j].length = wobjs[j]
                           /\ Whole(j) => Holds(table[OldCnt + j], j, 0)
    BY DEF NewBinsPlaced
  <2>1. Len(table) = OldCnt + NewCnt /\ Chained /\ Placed(NewCnt)
    BY DEF NewInv
  <2>2. OldCnt \in Nat /\ NewCnt \in Nat
    BY NewTypes DEF NewInv, KeptInv
  <2>3. \A j \in 1..NewCnt : OldCnt + j <= Len(table)
    BY <2>1, <2>2
  <2> QED BY <2>1, <2>3 DEF Chained, Placed
<1> QED BY <1>1, <1>2, <1>3, PTL DEF Spec
=============================================================================
