----------------------------- MODULE MCRowReader -----------------------------
(***************************************************************************)
(* An instance of RowReader for TLC: every field type on every MySQL type, *)
(* in a table of one column, and some tables of two columns.               *)
(***************************************************************************)
EXTENDS RowReader, TLC

CONSTANTS a, b

Column(go, ptr, mysql, members) ==
  [go |-> go, ptr |-> ptr, mysql |-> mysql, members |-> members]

\* Sets with and without a member at the sign of the word.
Sizes(mysql) ==
  CASE mysql = "set" -> {Width - 1, Width} [] mysql = "enum" -> {2} [] OTHER -> {0}

OneColumn ==
  {a :> m : m \in {x \in ColumnMappings :
                     x.members \in Sizes(x.mysql)}}

\* A column that may panic beside one that does not, two that keep NULL
\* apart, a pointer beside its plain type.
TwoColumns ==
  {a :> Column("int", FALSE, "int", 0) @@ b :> Column("string", TRUE, "char", 0),
   a :> Column("uint", FALSE, "ubigint", 0) @@ b :> Column("uint", TRUE, "ubigint", 0),
   a :> Column("bool", TRUE, "int", 0) @@ b :> Column("time", FALSE, "date", 0)}

Tables == OneColumn \cup TwoColumns
=============================================================================
