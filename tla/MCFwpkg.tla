------------------------------ MODULE MCFwpkg ------------------------------
\* Small instances of Fwpkg for TLC: a header of one unit, infos of two.
EXTENDS Fwpkg

Bin(offset, length, type_2) ==
  [offset |-> offset, length |-> length, type_2 |-> type_2]

\* One bin; two bins with something behind them; two whose order in the file is
\* not that of the table, but for the first; one that must be refused; and one
\* that has too many bins.
MCPackages ==
  {[good |-> TRUE, bins |-> <<Bin(3, 3, 0)>>, size |-> 6],
   [good |-> TRUE, bins |-> <<Bin(5, 2, 0), Bin(7, 3, 1)>>, size |-> 11],
   [good |-> TRUE, bins |-> <<Bin(7, 1, 0), Bin(11, 1, 1), Bin(8, 2, 1)>>,
    size |-> 12],
   [good |-> FALSE, bins |-> <<Bin(3, 1, 0)>>, size |-> 4],
   [good |-> TRUE, bins |-> [k \in 1..6 |-> Bin(13, 0, 1)], size |-> 13]}

\* The first bin lies one unit behind the table.
MCGap == {[good |-> TRUE, bins |-> <<Bin(4, 3, 0)>>, size |-> 7]}

MCObjects == UNION {[1..n -> {1, 2, 4}] : n \in 1..2} \cup {<<0>>, <<5, 0, 1>>}
=============================================================================
