------------------------------- MODULE SetCodec -------------------------------
(***************************************************************************)
(* How getSet of package parser reads a MySQL SET value.  The binlog holds *)
(* a word with one bit per member, the first member in the lowest bit;     *)
(* getSet prints that word as a signed integer, padded with zeros to one   *)
(* digit per member, reverses the digits and keeps the members that face a *)
(* "1".                                                                    *)
(*                                                                         *)
(* A member is its index in the SET definition.                            *)
(***************************************************************************)
EXTENDS Integers, Sequences

CONSTANT Width     \* bits of the word: 64 in the program

ASSUME WidthAssumption == Width \in Nat \ {0}

Pow2[k \in Nat] == IF k = 0 THEN 1 ELSE 2 * Pow2[k - 1]

\* The word MySQL writes, the sum over its members, and the int64 it is read as.
Word(members) ==
  LET upTo[m \in Nat] ==
        IF m = 0 THEN 0
        ELSE upTo[m - 1] + (IF m \in members THEN Pow2[m - 1] ELSE 0)
  IN  upTo[Width]

Signed(word) == IF word >= Pow2[Width - 1] THEN word - Pow2[Width] ELSE word

Magnitude(v) == IF v < 0 THEN -v ELSE v

\* How many binary digits a natural number has.
DigitCount(n) == CHOOSE k \in 1 .. Width : n < Pow2[k] /\ (k = 1 \/ n >= Pow2[k - 1])

\* The zeros that bring the digits, and the sign, to n places.
Padding(n, v) ==
  LET used == DigitCount(Magnitude(v)) + IF v < 0 THEN 1 ELSE 0
  IN  IF used >= n THEN <<>> ELSE [i \in 1 .. n - used |-> "0"]

\* fmt.Sprintf("%0nb", v): the sign takes the place of a zero.
Format(n, v) ==
  LET m == Magnitude(v)
      k == DigitCount(m)
  IN  (IF v < 0 THEN <<"-">> ELSE <<>>)
        \o Padding(n, v)
        \o [i \in 1 .. k |-> IF (m \div Pow2[k - i]) % 2 = 1 THEN "1" ELSE "0"]

\* Slip: the digits are left in the order in which they are printed.
NotReversed(s) == s

reverse(s) == [i \in 1 .. Len(s) |-> s[Len(s) + 1 - i]]

getSet(n, v) == LET bits == reverse(Format(n, v)) IN {i \in 1 .. n : bits[i] = "1"}
==============================================================================
