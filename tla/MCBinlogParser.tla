--------------------------- MODULE MCBinlogParser ---------------------------
(***************************************************************************)
(* A small instance of BinlogParser for TLC.                               *)
(***************************************************************************)
EXTENDS BinlogParser, TLC

CONSTANTS t1, t2, w1, w2

TwoTables == {t1, t2}
TwoWrappers == {w1, w2}

\* Wrappers are interchangeable, and so are tables.
Symmetry == Permutations(Wrappers) \cup Permutations(Tables)
=============================================================================
