---------------------------- MODULE MCStatements -----------------------------
(***************************************************************************)
(* A small instance of Statements for TLC: a key and one other column.     *)
(***************************************************************************)
EXTENDS Statements, TLC

CONSTANTS v1, v2

TwoColumns == {"k", "a"}
TwoTypes == {"int", "string"}

C(name, type) == [name |-> name, type |-> type]

KA == <<C("k", "int"), C("a", "int")>>
AK == <<C("a", "int"), C("k", "int")>>
K == <<C("k", "int")>>
KText == <<C("k", "int"), C("a", "string")>>

\* The columns in two orders, a column less, a column of another type.
FourModels == {KA, AK, K, KText}
TwoOrders == {KA, AK}

BothEngines == {"nutsdb", "inmem"}
Nutsdb == {"nutsdb"}
TwoValues == {v1, v2}
Symmetric == Permutations(TwoValues)
=============================================================================
