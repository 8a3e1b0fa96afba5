------------------------------- MODULE Fwpkg -------------------------------
(***************************************************************************)
(* ws63fwpkg --inject (src/src/ws63fwpkg.c, verb_inject): a fwpkg and a    *)
(* few bin files are read, and a fwpkg that also holds these bins is       *)
(* written.  fwpkg_read_header and fwpkg_read_bin_infos (fwpkg.h) and      *)
(* copy_part (io.h) are part of it.                                        *)
(*                                                                         *)
(* A file is a sequence of cells, one for each unit of its length.  A cell *)
(* is known by the file it comes from and its place there, which is enough *)
(* to see whether a bin is where the table of the new package says.        *)
(***************************************************************************)
EXTENDS Integers, Sequences

CONSTANTS
  Packages,   \* input packages: [good, bins, size]
  Objects,    \* the files to inject: sequences of lengths
  HeaderSize, \* sizeof(struct fwpkg_header)
  InfoSize,   \* sizeof(struct fwpkg_bin_info)
  MaxCnt,     \* MAX_PARTITION_CNT
  ChunkSize,  \* 0x1000, the buffer of copy_part
  StdioBuf,   \* what a stream of the C library holds back, at most
  MaxIo,      \* I/O calls that may fail
  MaxCut      \* times that a bin file may get shorter

Info == [offset : Nat, length : Nat, type_2 : Nat]

\* good: magic and checksum are right.  A package holds what its table says.
\* buf has room for MaxCnt infos; the code does not look at the sum of old and
\* new ones, and what happens beyond is not modelled.
ASSUME FwpkgAssumption ==
  /\ Packages \subseteq [good : BOOLEAN, bins : Seq(Info), size : Nat]
  /\ \A p \in Packages :
       /\ p.bins # <<>>
       /\ \A k \in DOMAIN p.bins :
            p.bins[k].offset + p.bins[k].length <= p.size
  /\ Objects \subseteq Seq(Nat)
  /\ \A p \in Packages, o \in Objects :
       Len(p.bins) < MaxCnt => Len(p.bins) + Len(o) <= MaxCnt
  /\ HeaderSize \in Nat /\ InfoSize \in Nat
  /\ ChunkSize \in Nat \ {0} /\ MaxCnt \in Nat
  /\ StdioBuf \in Nat /\ MaxIo \in Nat /\ MaxCut \in Nat

HeaderEnd(n) == HeaderSize + InfoSize * n

\* Cells: from place at of the package (f = 0) or of the f-th bin file.
Cell(f, at) == [src |-> f, at |-> at]
Cells == [src : Int, at : Int]
Meta == Cell(-1, 0)       \* header and table
Zero == Cell(-1, 1)       \* padding

VARIABLES
  pkg,        \* the input package
  files,      \* lengths of the bin files, as they are now
  shorter,    \* history: the bin files that got shorter after stat
  lost,       \* history: the last fclose failed
  wobjs,      \* their lengths when stat looked at them
  pc,
  table,      \* the bin infos in buf
  outfwlen,
  src,        \* file copy_part reads: 0 the package, j the j-th bin file
  fpos, remaining,
  out,        \* the output file
  ret,
  budget

ioVars == <<src, fpos, remaining, out>>
inVars == <<pkg, files, shorter, lost>>
vars == <<inVars, wobjs, pc, table, outfwlen, ioVars, ret, budget>>

NewCnt == Len(wobjs)
OldCnt == Len(pkg.bins)

Fail == pc' = "done" /\ ret' = "fail"

-----------------------------------------------------------------------------
(* verb_inject *)

\* stat of every bin file.
Stat ==
  /\ pc = "stat"
  /\ wobjs' = files
  /\ pc' = "read"
  /\ UNCHANGED <<inVars, table, outfwlen, ioVars, ret, budget>>

\* Mutant: the offsets are left as they were.
ReadPackageKeepsOffsets ==
  /\ pc = "read"
  /\ pkg.good /\ OldCnt < MaxCnt
  /\ table' = pkg.bins
  /\ outfwlen' = pkg.size + InfoSize * NewCnt
  /\ pc' = "build"
  /\ UNCHANGED <<inVars, wobjs, ioVars, ret, budget>>

\* Mutant: the new table is not counted in the place of the first new bin.
ReadPackageForgetsTable ==
  /\ pc = "read"
  /\ pkg.good /\ OldCnt < MaxCnt
  /\ table' = [k \in 1..OldCnt |->
                 [pkg.bins[k] EXCEPT !.offset = @ + InfoSize * NewCnt]]
  /\ outfwlen' = pkg.size
  /\ pc' = "build"
  /\ UNCHANGED <<inVars, wobjs, ioVars, ret, budget>>

\* fwpkg_read_header refuses the package, or the old bins go into buf, moved
\* by the size of the new infos.
ReadPackage ==
  /\ pc = "read"
  /\ \/ /\ ~pkg.good \/ OldCnt >= MaxCnt
        /\ Fail
        /\ UNCHANGED <<table, outfwlen>>
     \/ /\ pkg.good /\ OldCnt < MaxCnt
        /\ table' = [k \in 1..OldCnt |->
                       [pkg.bins[k] EXCEPT !.offset = @ + InfoSize * NewCnt]]
        /\ outfwlen' = pkg.size + InfoSize * NewCnt
        /\ pc' = "build"
        /\ UNCHANGED ret
  /\ UNCHANGED <<inVars, wobjs, ioVars, budget>>

\* Mutant: every new bin gets the same place.
AddBinInPlace ==
  /\ pc = "build"
  /\ Len(table) < OldCnt + NewCnt
  /\ table' = Append(table, [offset |-> outfwlen, type_2 |-> 1,
                             length |-> wobjs[Len(table) - OldCnt + 1]])
  /\ UNCHANGED <<inVars, wobjs, pc, outfwlen, ioVars, ret, budget>>

\* One new bin info.
AddBin ==
  /\ pc = "build"
  /\ Len(table) < OldCnt + NewCnt
  /\ LET length == wobjs[Len(table) - OldCnt + 1] IN
       /\ table' = Append(table, [offset |-> outfwlen, length |-> length,
                                  type_2 |-> 1])
       /\ outfwlen' = outfwlen + length
  /\ UNCHANGED <<inVars, wobjs, pc, ioVars, ret, budget>>

\* Header, table and padding are written.  The loop pads as long as the first
\* bin lies before the end of the table, which it does in no sound package.
Times(n, cell) == [k \in 1..(IF n < 0 THEN 0 ELSE n) |-> cell]

WriteHeader ==
  /\ pc = "build"
  /\ Len(table) = OldCnt + NewCnt
  /\ out' = Times(HeaderEnd(Len(table)), Meta)
              \o Times(HeaderEnd(Len(table)) - table[1].offset, Zero)
  /\ src' = 0
  /\ fpos' = pkg.bins[1].offset
  /\ remaining' = pkg.size - pkg.bins[1].offset
  /\ pc' = "copy"
  /\ UNCHANGED <<inVars, wobjs, table, outfwlen, ret, budget>>

\* copy_part: one turn of its loop.  A file that ends early ends the copy, and
\* the copy counts as made.
SourceSize == IF src = 0 THEN pkg.size ELSE files[src]
AtMost(a, b) == IF a < b THEN a ELSE b
BytesRead ==
  IF fpos < SourceSize
  THEN AtMost(AtMost(remaining, ChunkSize), SourceSize - fpos) ELSE 0

\* Mutant: every chunk counts as a full one.
CopyChunkFull ==
  /\ pc = "copy"
  /\ remaining > 0 /\ BytesRead > 0
  /\ out' = out \o [k \in 1..BytesRead |-> Cell(src, fpos + k - 1)]
  /\ fpos' = fpos + BytesRead
  /\ remaining' = remaining - ChunkSize
  /\ UNCHANGED <<inVars, wobjs, pc, table, outfwlen, src, ret, budget>>

CopyChunk ==
  /\ pc = "copy"
  /\ remaining > 0 /\ BytesRead > 0
  /\ out' = out \o [k \in 1..BytesRead |-> Cell(src, fpos + k - 1)]
  /\ fpos' = fpos + BytesRead
  /\ remaining' = remaining - BytesRead
  /\ UNCHANGED <<inVars, wobjs, pc, table, outfwlen, src, ret, budget>>

\* Mutant: the end of the file is not looked at.
NextFileWhenFull ==
  /\ pc = "copy"
  /\ remaining <= 0
  /\ IF src < NewCnt
     THEN /\ src' = src + 1 /\ fpos' = 0 /\ remaining' = wobjs[src + 1]
          /\ UNCHANGED <<pc, ret>>
     ELSE /\ pc' = "done" /\ ret' = "ok"
          /\ UNCHANGED <<src, fpos, remaining>>
  /\ UNCHANGED <<inVars, wobjs, table, outfwlen, out, budget>>

\* The copy is over: the next bin file, or the end.
NextFile ==
  /\ pc = "copy"
  /\ remaining <= 0 \/ BytesRead = 0
  /\ \/ /\ src < NewCnt
        /\ src' = src + 1 /\ fpos' = 0 /\ remaining' = wobjs[src + 1]
        /\ UNCHANGED <<pc, ret>>
     \/ /\ src = NewCnt
        /\ pc' = "done" /\ ret' = "ok"
        /\ UNCHANGED <<src, fpos, remaining>>
  /\ UNCHANGED <<inVars, wobjs, table, outfwlen, out, budget>>

\* fclose(outfw) writes what the stream still holds, which may be all of a small
\* package.  It fails, nobody looks at its result, and inject succeeds.
CloseFails ==
  /\ pc = "copy" /\ src = NewCnt
  /\ remaining <= 0 \/ BytesRead = 0
  /\ budget.io > 0
  /\ budget' = [budget EXCEPT !.io = @ - 1]
  /\ \E n \in 0..(Len(out) - 1) :
       /\ n + StdioBuf >= Len(out)
       /\ out' = SubSeq(out, 1, n)
  /\ lost' = TRUE
  /\ pc' = "done" /\ ret' = "ok"
  /\ UNCHANGED <<pkg, files, shorter, wobjs, table, outfwlen, src, fpos,
                 remaining>>

\* A call whose result is looked at fails: a stat, an open or a read, or a
\* write, be it of what the stream held back.
IoError ==
  /\ pc # "done"
  /\ budget.io > 0
  /\ budget' = [budget EXCEPT !.io = @ - 1]
  /\ Fail
  /\ UNCHANGED <<inVars, wobjs, table, outfwlen, ioVars>>

\* Somebody writes a bin file anew: it is shorter, or longer, than it was.
Rewrite ==
  /\ pc # "done"
  /\ budget.cut > 0
  /\ budget' = [budget EXCEPT !.cut = @ - 1]
  /\ \E j \in DOMAIN files :
       \/ /\ files[j] > 0 /\ files' = [files EXCEPT ![j] = @ - 1]
          /\ shorter' = IF pc = "stat" THEN shorter ELSE shorter \cup {j}
       \/ /\ files' = [files EXCEPT ![j] = @ + 1]
          /\ UNCHANGED shorter
  /\ UNCHANGED <<pkg, lost, wobjs, pc, table, outfwlen, ioVars, ret>>

Init ==
  /\ pkg \in Packages /\ files \in Objects
  /\ shorter = {} /\ lost = FALSE /\ wobjs = <<>>
  /\ pc = "stat" /\ table = <<>> /\ outfwlen = 0
  /\ src = 0 /\ fpos = 0 /\ remaining = 0
  /\ out = <<>> /\ ret = "none"
  /\ budget = [io |-> MaxIo, cut |-> MaxCut]

HostStep ==
  Stat \/ ReadPackage \/ AddBin \/ WriteHeader \/ CopyChunk \/ NextFile

Next == HostStep \/ CloseFails \/ IoError \/ Rewrite

Spec == Init /\ [][Next]_vars

\* The program runs.
FairSpec == Spec /\ WF_vars(HostStep)

-----------------------------------------------------------------------------
(* Properties *)

TypeOK ==
  /\ pc \in {"stat", "read", "build", "copy", "done"}
  /\ pkg \in Packages /\ shorter \subseteq DOMAIN files /\ lost \in BOOLEAN
  /\ wobjs \in Seq(Nat) /\ files \in Seq(Nat)
  /\ table \in Seq(Info) /\ Len(table) <= OldCnt + NewCnt
  /\ outfwlen \in Nat /\ src \in 0..NewCnt
  /\ fpos \in Nat /\ remaining \in Nat
  /\ out \in Seq(Cells)
  /\ ret \in {"none", "ok", "fail"} /\ (ret = "ok" => pc = "done")

\* The output holds, where info says, what file f holds from place at on.
Holds(info, f, at) ==
  /\ info.offset + info.length <= Len(out)
  /\ \A k \in 1..info.length : out[info.offset + k] = Cell(f, at + k - 1)

(***************************************************************************)
(* When inject succeeds every old bin is in the new package, unchanged, at *)
(* the place its info names: "offset from the start of fwpkg" (fwpkg.h).   *)
(* That holds whatever happens to the bin files meanwhile and whichever    *)
(* call has failed, unless it is the last fclose, whose result nobody      *)
(* looks at: then inject succeeds with bins missing at the end.            *)
(***************************************************************************)
OldBinsKept ==
  ret = "ok" /\ ~lost =>
    \A k \in 1..OldCnt :
      /\ table[k] = [pkg.bins[k] EXCEPT !.offset = table[k].offset]
      /\ Holds(table[k], 0, pkg.bins[k].offset)

\* No file up to the j-th got shorter after stat had looked at it.
Whole(j) == \A i \in 1..j : i \notin shorter

(***************************************************************************)
(* When inject succeeds every new bin is in the package, too, with the     *)
(* length that stat told, at the place its info names.  A file that grows  *)
(* does no harm.  One that gets shorter before it is copied does, but only *)
(* to itself and to those behind it, which move to the front.  The last    *)
(* fclose is excepted again.                                               *)
(***************************************************************************)
NewBinsPlaced ==
  ret = "ok" /\ ~lost =>
    /\ Len(table) = OldCnt + NewCnt
    /\ \A j \in 1..NewCnt :
         /\ table[OldCnt + j].length = wobjs[j]
         /\ Whole(j) => Holds(table[OldCnt + j], j, 0)

(***************************************************************************)
(* The bins of the new package lie behind its table and share nothing with *)
(* each other, once the table is complete, if those of the old one did.    *)
(***************************************************************************)
Apart(a, b) == a.offset + a.length <= b.offset \/ b.offset + b.length <= a.offset
Disjoint(bins) == \A k \in DOMAIN bins : \A m \in DOMAIN bins \ {k} :
                    Apart(bins[k], bins[m])

NoOverlap ==
  pc = "copy" /\ Disjoint(pkg.bins) =>
    /\ Disjoint(table)
    /\ \A k \in DOMAIN table : table[k].offset >= HeaderEnd(Len(table))

(***************************************************************************)
(* inject ends, also when a bin file gets shorter while it is copied.      *)
(***************************************************************************)
Ends == <>(pc = "done")
=============================================================================
