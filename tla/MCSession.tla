----------------------------- MODULE MCSession ------------------------------
\* Small instances of Session for TLC.
EXTENDS Session

\* A loaderboot, a bin that fills one sector and a half, one that fills one
\* sector, and one of another type (type_2 = 2).
MCPackage == <<[type_2 |-> 0, addr |-> 0, len |-> 0],
               [type_2 |-> 1, addr |-> 0, len |-> 3],
               [type_2 |-> 1, addr |-> 4, len |-> 2],
               [type_2 |-> 2, addr |-> 6, len |-> 2]>>

\* The same without its last bin.
MCPlainPackage == SubSeq(MCPackage, 1, 3)

MCAllVerbs == {"flash", "write", "erase", "write_prog"}
MCFlash == {"flash"}
MCErase == {"erase"}

MCNotCalm == {FALSE}
MCEither == BOOLEAN
=============================================================================
