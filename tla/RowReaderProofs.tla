--------------------------- MODULE RowReaderProofs ---------------------------
(***************************************************************************)
(* Theorems about RowReader, for any tables, field types, events and any   *)
(* width of a word: what the struct of the model held before matters to no *)
(* value that is there, and to no NULL of a pointer that the switch        *)
(* overwrites; what a set becomes when it is read from its digits, with    *)
(* and without the member at the sign; and which rows end the process.     *)
(***************************************************************************)
EXTENDS RowReader, FiniteSetTheorems, SequenceTheorems, TLAPS

\* The table and the event that is handled.
EventOK ==
  /\ mapping \in Mappings
  /\ event = NoEvent \/ event \in Events
  /\ row \in 1 .. MaxRows + 1
  /\ alive \in BOOLEAN

\* image is what some struct has become by reading the row image x.
ReadFrom(image, x) ==
  /\ x \in Rows
  /\ ~PanicsOn(x)
  /\ \E before : image = Stored(GetBinLogData(before, x))

\* The images of the last record are read from the row images they stand for.
RecordIsRead ==
  /\ record.action = source.action
  /\ \A p \in Images : ReadFrom(p[1], p[2])

ReadInv == EventOK /\ RecordIsRead

\* The struct holds NULL in pointers only.
Filled == {s \in Structs : \A c \in Columns : s[c] = NULL => mapping[c].ptr}

StructsOK ==
  /\ placeholder \in Filled
  /\ {record.old, record.new} \subseteq Structs \cup {NULL}

-----------------------------------------------------------------------------
LEMMA ColumnTypes ==
  ASSUME mapping \in Mappings, NEW c \in Columns
  PROVE  /\ mapping[c] \in ColumnMappings
         /\ mapping[c].go \in DOMAIN Reads
         /\ mapping[c].ptr \in BOOLEAN
         /\ mapping[c].mysql \in DOMAIN Schema \cup {"none"}
         /\ mapping[c].members \in 0 .. Width
<1>1. mapping[c] \in ColumnMappings
  BY ConstantsAssumption DEF Columns
<1> QED
  BY <1>1 DEF ColumnMappings

\* The row images of an event.
LEMMA EventTypes ==
  ASSUME EventOK, event # NoEvent
  PROVE  /\ event \in Events
         /\ Len(event.rows) \in 1 .. MaxRows
         /\ \A i \in 1 .. Len(event.rows) : event.rows[i] \in Rows
<1>1. event \in Events
  BY DEF EventOK
<1>2. PICK n \in 1 .. MaxRows : event.rows \in [1 .. n -> Rows]
  BY <1>1 DEF Events
<1>3. Len(event.rows) = n
  BY <1>2
<1> QED
  BY <1>1, <1>2, <1>3

\* A row image that makes no getter panic.
LEMMA RowTypes ==
  ASSUME NEW image \in Rows, NEW c \in Columns
  PROVE  image[c] = NULL \/ image[c] \in Stores(mapping[c])
BY DEF Rows

LEMMA NotInt == NULL \notin Int
BY ConstantsAssumption

-----------------------------------------------------------------------------
\* Rows and events depend on the table only.
RowsOf(f) ==
  {r \in [DOMAIN f -> UNION {Stores(f[c]) : c \in DOMAIN f} \cup {NULL}] :
     \A c \in DOMAIN f : r[c] = NULL \/ r[c] \in Stores(f[c])}

EventsOf(f) ==
  {e \in [action : Actions, rows : UNION {[1 .. n -> RowsOf(f)] : n \in 1 .. MaxRows}] :
     e.action = "update" => Len(e.rows) % 2 = 0}

LEMMA SameTable ==
  ASSUME mapping' = mapping
  PROVE  Rows' = Rows /\ Events' = Events
<1>1. Rows = RowsOf(mapping) /\ Rows' = RowsOf(mapping')
  BY DEF Rows, RowsOf, Columns
<1>2. Events = EventsOf(mapping) /\ Events' = EventsOf(mapping')
  BY <1>1 DEF Events, EventsOf
<1> QED
  BY <1>1, <1>2

LEMMA EventPreserved ==
  ASSUME EventOK, [Next]_vars
  PROVE  EventOK'
<1>1. CASE Receive
  <2>1. event' \in Events' /\ row' = 1 /\ UNCHANGED <<mapping, alive>>
    BY <1>1, SameTable DEF Receive
  <2>2. 1 \in 1 .. MaxRows + 1
    BY ConstantsAssumption
  <2> QED
    BY <2>1, <2>2 DEF EventOK
<1>2. CASE ReadRow
  <2>1. event # NoEvent /\ row <= Len(event.rows) /\ row' = row + 1
        /\ UNCHANGED <<mapping, event, alive>>
    BY <1>2 DEF ReadRow, NoEvent
  <2>2. row' \in 1 .. MaxRows + 1
    BY <2>1, EventTypes, ConstantsAssumption DEF EventOK
  <2> QED
    BY <2>1, <2>2, SameTable DEF EventOK, NoEvent
<1>3. CASE ReadPair
  <2>1. event # NoEvent /\ row < Len(event.rows) /\ row' = row + 2
        /\ UNCHANGED <<mapping, event, alive>>
    BY <1>3 DEF ReadPair, NoEvent
  <2>2. row' \in 1 .. MaxRows + 1
    BY <2>1, EventTypes, ConstantsAssumption DEF EventOK
  <2> QED
    BY <2>1, <2>2, SameTable DEF EventOK, NoEvent
<1>4. CASE ReadPanics
  BY <1>4, SameTable DEF ReadPanics, EventOK, NoEvent
<1>5. CASE Return
  BY <1>5, ConstantsAssumption DEF Return, EventOK
<1>6. CASE UNCHANGED vars
  BY <1>6, SameTable DEF vars, EventOK, NoEvent
<1> QED
  BY <1>1, <1>2, <1>3, <1>4, <1>5, <1>6 DEF Next

LEMMA ReadFromKept ==
  ASSUME mapping' = mapping, NEW image, NEW x, ReadFrom(image, x)
  PROVE  ReadFrom(image, x)'
<1>1. PICK before : image = Stored(GetBinLogData(before, x))
  BY DEF ReadFrom
<1>2. image = Stored(GetBinLogData(before, x))'
  BY <1>1 DEF Stored, GetBinLogData, Columns
<1>3. ~PanicsOn(x)'
  BY DEF ReadFrom, PanicsOn, Columns
<1> QED
  BY <1>2, <1>3, SameTable DEF ReadFrom

LEMMA RecordPreserved ==
  ASSUME ReadInv, [Next]_vars
  PROVE  RecordIsRead'
<1>1. CASE Receive
  <2>1. Images' = {}
    BY <1>1 DEF Receive, NoRecord, Images
  <2> QED
    BY <1>1, <2>1 DEF Receive, NoRecord, RecordIsRead
<1>2. CASE ReadRow
  <2>1. PICK image, x :
          /\ image = Stored(GetBinLogData(placeholder, event.rows[row]))
          /\ x = event.rows[row]
    OBVIOUS
  <2>2. event # NoEvent /\ row \in 1 .. Len(event.rows) /\ mapping' = mapping
    BY <1>2, EventTypes DEF ReadRow, ReadInv, EventOK, NoEvent
  <2>3. ReadFrom(image, x)
    BY <1>2, <2>1, <2>2, EventTypes DEF ReadRow, ReadInv, ReadFrom
  <2>4. Images' \subseteq {<<image, x>>} /\ record'.action = source'.action
    BY <1>2, <2>1 DEF ReadRow, Images
  <2>5. ReadFrom(image, x)'
    BY <2>2, <2>3, ReadFromKept
  <2> QED
    BY <2>4, <2>5 DEF RecordIsRead
<1>3. CASE ReadPair
  <2>1. PICK new, old, x, y, struct :
          /\ struct = GetBinLogData(placeholder, event.rows[row + 1])
          /\ new = Stored(struct)
          /\ old = Stored(GetBinLogData(struct, event.rows[row]))
          /\ x = event.rows[row + 1]
          /\ y = event.rows[row]
    OBVIOUS
  <2>2. event # NoEvent /\ {row, row + 1} \subseteq 1 .. Len(event.rows)
        /\ mapping' = mapping
    BY <1>3, EventTypes DEF ReadPair, ReadInv, EventOK, NoEvent
  <2>3. ReadFrom(new, x) /\ ReadFrom(old, y)
    BY <1>3, <2>1, <2>2, EventTypes DEF ReadPair, ReadInv, ReadFrom
  <2>4. Images' \subseteq {<<new, x>>, <<old, y>>} /\ record'.action = source'.action
    BY <1>3, <2>1 DEF ReadPair, UpdateRecord, Images
  <2>5. ReadFrom(new, x)' /\ ReadFrom(old, y)'
    BY <2>2, <2>3, ReadFromKept
  <2> QED
    BY <2>4, <2>5 DEF RecordIsRead
\* No other step reads a row.
<1>4. ASSUME UNCHANGED <<mapping, record, source>>
      PROVE  RecordIsRead'
  <2> SUFFICES ASSUME NEW image, NEW x, <<image, x>> \in Images'
               PROVE  ReadFrom(image, x)'
    BY <1>4 DEF RecordIsRead, ReadInv, Images
  <2> QED
    BY <1>4, ReadFromKept DEF RecordIsRead, ReadInv, Images
<1>5. CASE ReadPanics \/ Return \/ UNCHANGED vars
  BY <1>4, <1>5 DEF ReadPanics, Return, vars
<1> QED
  BY <1>1, <1>2, <1>3, <1>5 DEF Next

LEMMA InitReadInv == Init => ReadInv
<1> SUFFICES ASSUME Init
             PROVE  ReadInv
  OBVIOUS
<1>1. Images = {}
  BY DEF Init, NoRecord, Images
<1> QED
  BY <1>1, ConstantsAssumption DEF Init, ReadInv, EventOK, RecordIsRead, NoRecord

LEMMA ReadInvHolds == Spec => []ReadInv
<1>1. ReadInv /\ [Next]_vars => ReadInv'
  BY EventPreserved, RecordPreserved DEF ReadInv
<1> QED
  BY <1>1, InitReadInv, PTL DEF Spec

-----------------------------------------------------------------------------
(***************************************************************************)
(* No NULL of a pointer other than *int and *uint is replaced by the value *)
(* of an earlier row, whatever rows were read into the struct.             *)
(***************************************************************************)
THEOREM PointersCorrect == Spec => []PointersExact
<1>1. ReadInv => PointersExact
  <2> SUFFICES ASSUME ReadInv, NEW p \in Images, NEW c \in Columns,
                      mapping[c].ptr, mapping[c].go \notin {"int", "uint"},
                      p[2][c] = NULL
               PROVE  p[1][c] = NULL
    BY DEF PointersExact
  <2>1. PICK before : p[1] = Stored(GetBinLogData(before, p[2]))
    BY DEF ReadInv, RecordIsRead, ReadFrom
  <2>2. GetBinLogData(before, p[2])[c] = NULL
    BY DEF GetBinLogData, Get, Assign
  <2> QED
    BY <2>1, <2>2 DEF Stored, Decoded
<1> QED
  BY <1>1, ReadInvHolds, PTL

-----------------------------------------------------------------------------
(* Induction and recursion on Nat, for sets instead of predicates.         *)

\* A set of natural numbers that has 0, and with each number the next one.
LEMMA NatBySteps ==
  ASSUME NEW T \in SUBSET Nat, 0 \in T, \A n \in T : n + 1 \in T
  PROVE  T = Nat
<1> SUFFICES ASSUME NEW m \in Nat, m \notin T
             PROVE  FALSE
  OBVIOUS
<1> DEFINE Missing == {S \in SUBSET (0 .. m) : \E n \in 0 .. m : n \notin T /\ S = 0 .. n}
           Finite == FiniteSubsetsOf(0 .. m)
           Smaller == StrictSubsetOrdering(0 .. m)
<1>1. Missing \subseteq Finite
  <2>1. \A n \in 0 .. m : IsFiniteSet(0 .. n)
    BY FS_Interval
  <2> QED
    BY <2>1 DEF FiniteSubsetsOf
<1>2. 0 .. m \in Missing
  OBVIOUS
<1>3. IsWellFoundedOn(Smaller, Finite)
  BY FS_StrictSubsetOrderingWellFounded
<1> HIDE DEF Finite
<1>4. \E S \in Missing : \A R \in Missing : <<R, S>> \notin Smaller
  <2> HIDE DEF Missing, Smaller
  <2> QED
    BY <1>1, <1>2, <1>3, WFMin, Zenon
<1>5. PICK n \in 0 .. m : n \notin T /\ \A R \in Missing : <<R, 0 .. n>> \notin Smaller
  BY <1>4
<1>6. n # 0 /\ n - 1 \in 0 .. m /\ n - 1 \notin T
  BY <1>5
<1>7. 0 .. (n - 1) \in Missing
  BY <1>6
<1>8. <<0 .. (n - 1), 0 .. n>> \in Smaller
  <2>1. n \in 0 .. n /\ n \notin 0 .. (n - 1)
    BY <1>6
  <2>2. 0 .. (n - 1) \subseteq 0 .. n /\ 0 .. (n - 1) # 0 .. n
    BY <2>1
  <2> QED
    BY <2>2, <1>6 DEF StrictSubsetOrdering
<1> QED
  BY <1>5, <1>7, <1>8

\* The first n values of f are those of the recursion.
Follows(f, base, step, n) ==
  /\ f[0] = base
  /\ \A k \in Nat : k < n => f[k + 1] = step[k][f[k]]

Recursion(f, base, step) == f[0] = base /\ \A n \in Nat : f[n + 1] = step[n][f[n]]

LEMMA RecursionExists ==
  ASSUME NEW V, NEW base \in V, NEW step \in [Nat -> [V -> V]]
  PROVE  \E f \in [Nat -> V] : Recursion(f, base, step)
<1> DEFINE Good(g, n) == Follows(g, base, step, n)
           T == {n \in Nat : \E g \in [Nat -> V] : Good(g, n)}
<1>1. 0 \in T
  <2>1. [k \in Nat |-> base] \in [Nat -> V] /\ Good([k \in Nat |-> base], 0)
    BY DEF Follows
  <2> QED
    BY <2>1
<1>2. ASSUME NEW n \in T PROVE n + 1 \in T
  <2>1. PICK g \in [Nat -> V] : Good(g, n)
    OBVIOUS
  <2> DEFINE h == [k \in Nat |-> IF k = n + 1 THEN step[n][g[n]] ELSE g[k]]
  <2>2. h \in [Nat -> V]
    BY <2>1
  <2>3. h[0] = base
    BY <2>1 DEF Follows
  <2>4. ASSUME NEW k \in Nat, k < n + 1
        PROVE  h[k + 1] = step[k][h[k]]
    <3>1. h[k] = g[k]
      BY <2>4
    <3>2. CASE k = n
      BY <3>1, <3>2
    <3>3. CASE k < n
      BY <3>1, <3>3, <2>1 DEF Follows
    <3> QED
      BY <3>2, <3>3, <2>4
  <2> HIDE DEF h
  <2>5. Good(h, n + 1)
    BY <2>3, <2>4 DEF Follows
  <2> QED
    BY <2>2, <2>5
<1> HIDE DEF T
<1>3. T = Nat
  <2>1. T \in SUBSET Nat
    BY DEF T
  <2> QED
    BY <1>1, <1>2, <2>1, NatBySteps
<1>4. \A n \in Nat : \E g \in [Nat -> V] : Good(g, n)
  BY <1>3 DEF T
\* Two functions agree as far as both follow the recursion.
<1>5. ASSUME NEW g, NEW h, NEW m \in Nat, NEW n \in Nat, m <= n, Good(g, m), Good(h, n)
      PROVE  g[m] = h[m]
  <2> DEFINE S == {k \in Nat : k <= m => g[k] = h[k]}
  <2>1. 0 \in S
    BY <1>5 DEF Follows
  <2>2. ASSUME NEW k \in S PROVE k + 1 \in S
    <3> SUFFICES ASSUME k + 1 <= m
                 PROVE  g[k + 1] = h[k + 1]
      OBVIOUS
    <3>1. g[k] = h[k] /\ k < m /\ k < n
      BY <1>5
    <3>2. g[k + 1] = step[k][g[k]] /\ h[k + 1] = step[k][h[k]]
      BY <1>5, <3>1 DEF Follows
    <3> QED
      BY <3>1, <3>2
  <2> HIDE DEF S
  <2>3. S \in SUBSET Nat
    BY DEF S
  <2>4. S = Nat
    BY <2>1, <2>2, <2>3, NatBySteps
  <2> QED
    BY <2>4 DEF S
<1> DEFINE G == [n \in Nat |-> CHOOSE g \in [Nat -> V] : Good(g, n)]
           f == [n \in Nat |-> G[n][n]]
<1>6. \A n \in Nat : G[n] \in [Nat -> V] /\ Good(G[n], n)
  BY <1>4
<1> HIDE DEF G
<1>7. f \in [Nat -> V]
  BY <1>6
<1>8. f[0] = base
  BY <1>6 DEF Follows
<1>9. ASSUME NEW n \in Nat
      PROVE  f[n + 1] = step[n][f[n]]
  <2>1. G[n + 1][n + 1] = step[n][G[n + 1][n]]
    BY <1>6 DEF Follows
  <2>2. G[n][n] = G[n + 1][n]
    <3>1. n + 1 \in Nat /\ n <= n + 1
      OBVIOUS
    <3> QED
      BY <1>5, <1>6, <3>1
  <2> QED
    BY <2>1, <2>2
<1> HIDE DEF f
<1> QED
  BY <1>7, <1>8, <1>9 DEF Recursion

-----------------------------------------------------------------------------
LEMMA Pow2Properties ==
  /\ Pow2 \in [Nat -> Nat \ {0}]
  /\ Pow2[0] = 1
  /\ \A n \in Nat : Pow2[n + 1] = 2 * Pow2[n]
<1> DEFINE V == Nat \ {0}
           step == [n \in Nat |-> [x \in V |-> 2 * x]]
<1>1. step \in [Nat -> [V -> V]]
  OBVIOUS
<1>2. PICK f \in [Nat -> V] : Recursion(f, 1, step)
  <2>1. 1 \in V
    OBVIOUS
  <2> HIDE DEF V, step
  <2> QED
    BY <1>1, <2>1, RecursionExists
<1>3. f[0] = 1 /\ \A n \in Nat : f[n + 1] = 2 * f[n]
  BY <1>2 DEF Recursion
<1>4. ASSUME NEW k \in Nat PROVE f[k] = IF k = 0 THEN 1 ELSE 2 * f[k - 1]
  BY <1>2, <1>3
<1>5. f = [k \in Nat |-> IF k = 0 THEN 1 ELSE 2 * f[k - 1]]
  BY <1>2, <1>4
<1>6. Pow2 = [k \in Nat |-> IF k = 0 THEN 1 ELSE 2 * Pow2[k - 1]]
  BY <1>5 DEF Pow2
<1> HIDE DEF step
<1>7. Pow2[0] = 1 /\ \A n \in Nat : Pow2[n + 1] = 2 * Pow2[n]
  BY <1>6
<1>8. \A n \in Nat : Pow2[n] \in Nat \ {0}
  <2> DEFINE T == {n \in Nat : Pow2[n] \in V}
  <2>1. 0 \in T /\ \A n \in T : n + 1 \in T
    BY <1>7
  <2> HIDE DEF T
  <2>2. T \in SUBSET Nat
    BY DEF T
  <2>3. T = Nat
    BY <2>1, <2>2, NatBySteps
  <2> QED
    BY <2>3 DEF T
<1>9. Pow2 = [k \in Nat |-> Pow2[k]]
  <2> DEFINE g(k) == IF k = 0 THEN 1 ELSE 2 * Pow2[k - 1]
  <2>1. Pow2 = [k \in Nat |-> g(k)]
    BY <1>6
  <2> HIDE DEF g
  <2> QED
    BY <2>1
<1> QED
  BY <1>7, <1>8, <1>9

LEMMA Pow2Grows ==
  ASSUME NEW i \in Nat, NEW j \in Nat, i <= j
  PROVE  Pow2[i] <= Pow2[j]
<1> DEFINE T == {n \in Nat : Pow2[i] <= Pow2[i + n]}
<1>1. 0 \in T
  BY Pow2Properties
<1>2. \A n \in T : n + 1 \in T
  BY Pow2Properties
<1> HIDE DEF T
<1>3. T \in SUBSET Nat
  BY DEF T
<1>4. T = Nat
  BY <1>1, <1>2, <1>3, NatBySteps
<1>5. j - i \in T
  BY <1>4
<1> QED
  BY <1>5 DEF T

\* The sums of which Word is the last one.
SumOf(sum, members) ==
  /\ sum[0] = 0
  /\ \A n \in Nat : sum[n + 1] = sum[n] + (IF n + 1 \in members THEN Pow2[n] ELSE 0)

LEMMA WordIsASum ==
  ASSUME NEW members
  PROVE  \E sum \in [Nat -> Nat] : SumOf(sum, members) /\ Word(members) = sum[Width]
<1> DEFINE upTo[m \in Nat] ==
             IF m = 0 THEN 0
             ELSE upTo[m - 1] + (IF m \in members THEN Pow2[m - 1] ELSE 0)
           step == [n \in Nat |-> [x \in Nat |->
                      x + (IF n + 1 \in members THEN Pow2[n] ELSE 0)]]
<1>1. step \in [Nat -> [Nat -> Nat]]
  BY Pow2Properties
<1>2. PICK f \in [Nat -> Nat] : Recursion(f, 0, step)
  BY <1>1, RecursionExists
<1>3. /\ f[0] = 0
      /\ \A n \in Nat : f[n + 1] = f[n] + (IF n + 1 \in members THEN Pow2[n] ELSE 0)
  BY <1>2 DEF Recursion
<1>4. ASSUME NEW m \in Nat
      PROVE  f[m] = IF m = 0 THEN 0
                    ELSE f[m - 1] + (IF m \in members THEN Pow2[m - 1] ELSE 0)
  <2>1. CASE m = 0
    BY <1>3, <2>1
  <2>2. CASE m # 0
    <3>1. m - 1 \in Nat /\ m - 1 + 1 = m
      BY <2>2
    <3> QED
      BY <1>3, <2>2, <3>1
  <2> QED
    BY <2>1, <2>2
<1>5. f = [m \in Nat |-> IF m = 0 THEN 0
                         ELSE f[m - 1] + (IF m \in members THEN Pow2[m - 1] ELSE 0)]
  BY <1>2, <1>4
<1>6. upTo = [m \in Nat |-> IF m = 0 THEN 0
                            ELSE upTo[m - 1] + (IF m \in members THEN Pow2[m - 1] ELSE 0)]
  BY <1>5
<1>7. Word(members) = upTo[Width]
  BY DEF Word
<1> HIDE DEF upTo, step
<1>8. upTo[0] = 0 /\ \A n \in Nat :
        upTo[n + 1] = upTo[n] + (IF n + 1 \in members THEN Pow2[n] ELSE 0)
  BY <1>6
<1> DEFINE T == {n \in Nat : upTo[n] \in Nat}
<1>9. 0 \in T /\ \A n \in T : n + 1 \in T
  BY <1>8, Pow2Properties
<1> HIDE DEF T
<1>10. T \in SUBSET Nat
  BY DEF T
<1>11. T = Nat
  BY <1>9, <1>10, NatBySteps
<1>12. upTo \in [Nat -> Nat]
  BY <1>6, <1>11 DEF T
<1> QED
  BY <1>7, <1>8, <1>12 DEF SumOf

-----------------------------------------------------------------------------
(* The digits of a word.                                                   *)

Digit(v, n) == (v \div Pow2[n]) % 2

LEMMA Division ==
  ASSUME NEW v \in Nat, NEW p \in Nat \ {0}
  PROVE  v \div p \in Nat /\ v - p * (v \div p) \in 0 .. p - 1
<1>1. p * (v \div p) <= v /\ v < p * (v \div p) + p
  OBVIOUS
<1> QED
  BY <1>1

LEMMA Quotient ==
  ASSUME NEW v \in Nat, NEW p \in Nat \ {0}, NEW q \in Nat, NEW r \in 0 .. p - 1,
         v = p * q + r
  PROVE  v \div p = q
OBVIOUS

LEMMA DigitStep ==
  ASSUME NEW v \in Nat, NEW n \in Nat
  PROVE  /\ v \div Pow2[n] \in Nat
         /\ Digit(v, n) \in {0, 1}
         /\ v \div Pow2[n] = 2 * (v \div Pow2[n + 1]) + Digit(v, n)
<1>1. PICK p \in Nat \ {0} : p = Pow2[n] /\ Pow2[n + 1] = 2 * p
  BY Pow2Properties
<1>2. PICK q \in Nat, r \in 0 .. p - 1 : q = v \div p /\ v = p * q + r
  <2>1. v = p * (v \div p) + (v - p * (v \div p))
    BY Division
  <2> QED
    BY <2>1, Division
<1>3. PICK h \in Nat, d \in {0, 1} : d = q % 2 /\ q = 2 * h + d
  <2>1. q \div 2 \in Nat /\ q % 2 \in {0, 1}
    OBVIOUS
  <2>2. q = 2 * (q \div 2) \/ q = 2 * (q \div 2) + 1
    OBVIOUS
  <2>3. q = 2 * (q \div 2) + (q % 2)
    BY <2>1, <2>2
  <2> QED
    BY <2>1, <2>3
<1>4. v = (2 * p) * h + (p * d + r)
  <2>1. v = p * (2 * h + d) + r
    BY <1>2, <1>3
  <2>2. p * (2 * h + d) = p * (2 * h) + p * d /\ p * (2 * h) = (2 * p) * h
    OBVIOUS
  <2>3. (2 * p) * h \in Nat /\ p * d \in Nat
    OBVIOUS
  <2> QED
    BY <2>1, <2>2, <2>3
<1>5. p * d + r \in 0 .. 2 * p - 1
  BY <1>3
<1>6. v \div (2 * p) = h
  BY <1>4, <1>5, Quotient
<1> QED
  BY <1>1, <1>2, <1>3, <1>6 DEF Digit

LEMMA NoDigit ==
  ASSUME NEW v \in Nat, NEW n \in Nat, v < Pow2[n]
  PROVE  v \div Pow2[n] = 0 /\ Digit(v, n) = 0
<1>1. PICK p \in Nat \ {0} : p = Pow2[n]
  BY Pow2Properties
<1>2. v \div p = 0
  BY <1>1
<1> QED
  BY <1>1, <1>2 DEF Digit

\* The word of the members that face a digit 1 is the number itself.
LEMMA SumOfDigits ==
  ASSUME NEW v \in Nat, v < Pow2[Width], NEW members,
         \A n \in Nat : n < Width => (n + 1 \in members <=> Digit(v, n) = 1)
  PROVE  Word(members) = v
<1>1. PICK sum \in [Nat -> Nat] : SumOf(sum, members) /\ Word(members) = sum[Width]
  BY WordIsASum
<1> DEFINE Holds(n) == v = Pow2[n] * (v \div Pow2[n]) + sum[n]
           T == {n \in Nat : n <= Width => Holds(n)}
<1>2. 0 \in T
  BY <1>1, Pow2Properties DEF SumOf
<1>3. ASSUME NEW n \in T PROVE n + 1 \in T
  <2> SUFFICES ASSUME n + 1 <= Width
               PROVE  Holds(n + 1)
    OBVIOUS
  <2>1. PICK p \in Nat \ {0} : p = Pow2[n] /\ Pow2[n + 1] = 2 * p
    BY Pow2Properties
  <2>2. PICK q \in Nat, h \in Nat, d \in {0, 1} :
          /\ q = v \div p
          /\ h = v \div (2 * p)
          /\ d = Digit(v, n)
          /\ q = 2 * h + d
    <3>1. n + 1 \in Nat
      OBVIOUS
    <3>2. v \div Pow2[n + 1] \in Nat
      BY <3>1, DigitStep
    <3>3. /\ v \div Pow2[n] \in Nat
          /\ Digit(v, n) \in {0, 1}
          /\ v \div Pow2[n] = 2 * (v \div Pow2[n + 1]) + Digit(v, n)
      BY DigitStep
    <3> QED
      BY <2>1, <3>2, <3>3
  <2>3. PICK s \in Nat : s = sum[n] /\ v = p * q + s
    BY <1>1, <2>1, <2>2, WidthAssumption
  <2>4. n + 1 \in members <=> d = 1
    BY <2>2, WidthAssumption
  <2>5. sum[n + 1] = s + p * d
    BY <1>1, <2>1, <2>3, <2>4 DEF SumOf
  <2>6. v = (2 * p) * h + (s + p * d)
    <3>1. p * (2 * h + d) = p * (2 * h) + p * d /\ p * (2 * h) = (2 * p) * h
      OBVIOUS
    <3>2. (2 * p) * h \in Nat /\ p * d \in Nat
      OBVIOUS
    <3> QED
      BY <2>2, <2>3, <3>1, <3>2
  <2> QED
    BY <2>1, <2>2, <2>5, <2>6
<1> HIDE DEF T
<1>4. T \in SUBSET Nat
  BY DEF T
<1>5. T = Nat
  BY <1>2, <1>3, <1>4, NatBySteps
<1>6. v = Pow2[Width] * (v \div Pow2[Width]) + sum[Width]
  BY <1>5, WidthAssumption DEF T
<1>7. v \div Pow2[Width] = 0
  BY NoDigit, WidthAssumption
<1>8. Pow2[Width] * 0 = 0
  BY Pow2Properties, WidthAssumption
<1> QED
  BY <1>1, <1>6, <1>7, <1>8, WidthAssumption

\* The number of digits of a word of n bits.
LEMMA DigitCountTypes ==
  ASSUME NEW n \in 1 .. Width, NEW v \in Nat, v < Pow2[n]
  PROVE  DigitCount(v) \in 1 .. n /\ v < Pow2[DigitCount(v)]
<1> DEFINE Counts(k) == v < Pow2[k] /\ (k = 1 \/ v >= Pow2[k - 1])
<1>1. \E k \in 1 .. Width : Counts(k)
  <2> SUFFICES ASSUME \A k \in 1 .. Width : ~Counts(k)
               PROVE  FALSE
    OBVIOUS
  <2> DEFINE T == {k \in Nat : k \in 1 .. Width => v >= Pow2[k]}
  <2>1. 0 \in T
    OBVIOUS
  <2>2. ASSUME NEW k \in T PROVE k + 1 \in T
    BY Pow2Properties, WidthAssumption
  <2> HIDE DEF T
  <2>3. T \in SUBSET Nat
    BY DEF T
  <2>4. T = Nat
    BY <2>1, <2>2, <2>3, NatBySteps
  <2>5. v >= Pow2[n]
    BY <2>4 DEF T
  <2> QED
    BY <2>5, Pow2Properties
<1>2. PICK k \in 1 .. Width : k = DigitCount(v) /\ Counts(k)
  BY <1>1 DEF DigitCount
<1>3. CASE k <= n
  BY <1>2, <1>3
<1>4. CASE n < k
  <2>1. Pow2[n] <= Pow2[k - 1]
    BY <1>4, Pow2Grows
  <2> QED
    BY <1>2, <1>4, <2>1, Pow2Properties
<1> QED
  BY <1>3, <1>4

\* The digits of a word of n bits, zeros included.
LEMMA FormatTypes ==
  ASSUME NEW n \in 1 .. Width, NEW v \in Nat, v < Pow2[n]
  PROVE  /\ Len(Format(n, v)) = n
         /\ \A i \in 1 .. n : Format(n, v)[i] = "1" <=> Digit(v, n - i) = 1
<1> DEFINE k == DigitCount(v)
           zeros == Padding(n, v)
           digits == [i \in 1 .. k |-> IF (v \div Pow2[k - i]) % 2 = 1 THEN "1" ELSE "0"]
<1>1. k \in 1 .. n /\ v < Pow2[k]
  BY DigitCountTypes
<1>2. Format(n, v) = <<>> \o zeros \o digits
  <2>1. Magnitude(v) = v /\ ~(v < 0)
    BY DEF Magnitude
  <2> QED
    BY <2>1 DEF Format
<1>3. zeros = IF k >= n THEN <<>> ELSE [i \in 1 .. n - k |-> "0"]
  BY <1>1 DEF Padding, Magnitude
<1>4. digits \in Seq({"0", "1"}) /\ Len(digits) = k
  BY <1>1
<1>5. zeros \in Seq({"0", "1"}) /\ Len(zeros) = n - k /\ \A i \in 1 .. n - k : zeros[i] = "0"
  BY <1>1, <1>3
<1>6. \A i \in 1 .. k : digits[i] = "1" <=> Digit(v, k - i) = 1
  BY DEF Digit
<1> HIDE DEF k, zeros, digits
<1>7. Format(n, v) = zeros \o digits
  BY <1>2, <1>5, ConcatEmptySeq
<1>8. Len(Format(n, v)) = n
  <2>1. Len(zeros \o digits) = Len(zeros) + Len(digits)
    BY <1>4, <1>5, ConcatProperties, Zenon
  <2> QED
    BY <1>1, <1>4, <1>5, <1>7, <2>1
<1>9. ASSUME NEW i \in 1 .. n
      PROVE  Format(n, v)[i] = "1" <=> Digit(v, n - i) = 1
  <2>1. Format(n, v)[i] = IF i <= n - k THEN zeros[i] ELSE digits[i - (n - k)]
    <3>1. \A j \in 1 .. Len(zeros) + Len(digits) :
            (zeros \o digits)[j] = IF j <= Len(zeros) THEN zeros[j] ELSE digits[j - Len(zeros)]
      BY <1>4, <1>5, ConcatProperties, Zenon
    <3> QED
      BY <1>1, <1>4, <1>5, <1>7, <3>1
  <2>2. CASE i <= n - k
    <3>1. Format(n, v)[i] = "0"
      BY <2>1, <2>2, <1>1, <1>5
    <3>2. Pow2[k] <= Pow2[n - i]
      BY <2>2, <1>1, Pow2Grows
    <3>3. v \div Pow2[n - i] = 0
      BY <1>1, <2>2, <3>2, Pow2Properties
    <3> QED
      BY <3>1, <3>3 DEF Digit
  <2>3. CASE i > n - k
    <3>1. i - (n - k) \in 1 .. k /\ k - (i - (n - k)) = n - i
      BY <1>1, <2>3
    <3> QED
      BY <1>1, <1>6, <2>1, <2>3, <3>1
  <2> QED
    BY <1>1, <2>2, <2>3
<1> QED
  BY <1>8, <1>9

\* What getSet finds among the digits.
LEMMA GetSetDigits ==
  ASSUME NEW n \in 1 .. Width, NEW v \in Nat, v < Pow2[n], NEW i \in 1 .. n
  PROVE  i \in getSet(n, v) <=> Digit(v, i - 1) = 1
<1>1. Len(Format(n, v)) = n
      /\ \A j \in 1 .. n : Format(n, v)[j] = "1" <=> Digit(v, n - j) = 1
  BY FormatTypes
<1>2. reverse(Format(n, v))[i] = Format(n, v)[n + 1 - i]
  BY <1>1 DEF reverse
<1>3. n + 1 - i \in 1 .. n /\ n - (n + 1 - i) = i - 1
  OBVIOUS
<1> QED
  BY <1>1, <1>2, <1>3 DEF getSet

(***************************************************************************)
(* For any number of members and any word of them but those in which the   *)
(* last member is the sign of an int64, getSet returns the members that    *)
(* MySQL stored.                                                           *)
(***************************************************************************)
THEOREM GetSetCorrect ==
  ASSUME NEW n \in 0 .. Width, NEW v \in 0 .. Pow2[n] - 1, v < Pow2[Width - 1]
  PROVE  Word(getSet(n, Signed(v))) = v
<1>1. Signed(v) = v /\ v \in Nat /\ v < Pow2[n] /\ v < Pow2[Width]
  <2>1. Width \in Nat /\ Width - 1 \in Nat /\ n \in Nat
    BY WidthAssumption
  <2>2. Pow2[n] \in Nat /\ Pow2[Width - 1] \in Nat /\ Pow2[Width] \in Nat
    BY <2>1, Pow2Properties
  <2>3. Pow2[n] <= Pow2[Width]
    BY <2>1, Pow2Grows
  <2> QED
    BY <2>2, <2>3 DEF Signed
<1>2. ASSUME NEW m \in Nat, m < Width
      PROVE  m + 1 \in getSet(n, v) <=> Digit(v, m) = 1
  <2>1. CASE m < n
    <3>1. n \in 1 .. Width /\ m + 1 \in 1 .. n /\ m + 1 - 1 = m
      BY <1>2, <2>1, WidthAssumption
    <3> QED
      BY <1>1, <3>1, GetSetDigits
  <2>2. CASE n <= m
    <3>1. m + 1 \notin getSet(n, v)
      BY <2>2 DEF getSet
    <3>2. Pow2[n] <= Pow2[m] /\ Pow2[n] \in Nat /\ Pow2[m] \in Nat
      <4>1. n \in Nat /\ n <= m
        BY <2>2, WidthAssumption
      <4>2. Pow2[n] <= Pow2[m]
        BY <4>1, Pow2Grows
      <4> QED
        BY <4>1, <4>2, Pow2Properties
    <3>3. Digit(v, m) = 0
      BY <1>1, <3>2, NoDigit
    <3> QED
      BY <3>1, <3>3
  <2> QED
    BY <2>1, <2>2, WidthAssumption
<1> QED
  BY <1>1, <1>2, SumOfDigits

\* A word whose last member is the sign: the digits of the opposite number
\* follow a sign, which faces no digit 1.
LEMMA SignedDigits ==
  ASSUME NEW u \in 1 .. Pow2[Width - 1], NEW i \in 1 .. Width
  PROVE  i \in getSet(Width, -u) <=> Digit(u, i - 1) = 1
<1> DEFINE k == DigitCount(u)
           zeros == Padding(Width, -u)
           digits == [j \in 1 .. k |-> IF (u \div Pow2[k - j]) % 2 = 1 THEN "1" ELSE "0"]
           Chars == {"-", "0", "1"}
<1>1. Width \in Nat /\ Width - 1 \in Nat /\ Pow2[Width] = 2 * Pow2[Width - 1]
      /\ Pow2[Width - 1] \in Nat \ {0}
  <2>1. Width - 1 \in Nat /\ Width - 1 + 1 = Width
    BY WidthAssumption
  <2> QED
    BY <2>1, WidthAssumption, Pow2Properties
<1>2. u \in Nat /\ u < Pow2[Width] /\ -u < 0 /\ Magnitude(-u) = u
  BY <1>1 DEF Magnitude
<1>3. k \in 1 .. Width /\ u < Pow2[k]
  BY <1>1, <1>2, DigitCountTypes, WidthAssumption
<1>4. Format(Width, -u) = <<"-">> \o zeros \o digits
  BY <1>2 DEF Format
<1>5. zeros = IF k + 1 >= Width THEN <<>> ELSE [j \in 1 .. Width - (k + 1) |-> "0"]
  BY <1>2 DEF Padding
<1>6. digits \in Seq(Chars) /\ Len(digits) = k
  BY <1>3
<1>7. \A j \in 1 .. k : digits[j] = "1" <=> Digit(u, k - j) = 1
  BY DEF Digit
<1>8. PICK z \in Nat :
        /\ zeros \in Seq(Chars)
        /\ Len(zeros) = z
        /\ z + 1 + k >= Width
        /\ \A j \in 1 .. z : zeros[j] = "0"
  <2>1. CASE k + 1 >= Width
    <3>1. zeros = <<>>
      BY <1>5, <2>1
    <3>2. zeros \in Seq(Chars) /\ Len(zeros) = 0
      <4> HIDE DEF zeros
      <4> QED
        BY <3>1
    <3>3. 0 + 1 + k >= Width
      BY <1>3, <2>1
    <3> QED
      BY <3>2, <3>3
  <2>2. CASE ~(k + 1 >= Width)
    BY <1>1, <1>3, <1>5, <2>2
  <2> QED
    BY <2>1, <2>2
<1> HIDE DEF k, zeros, digits
<1> DEFINE front == <<"-">> \o zeros
           s == front \o digits
<1>9. front \in Seq(Chars) /\ Len(front) = z + 1 /\ \A j \in 1 .. z + 1 : front[j] # "1"
  <2>1. <<"-">> \in Seq(Chars) /\ Len(<<"-">>) = 1 /\ <<"-">>[1] = "-"
    OBVIOUS
  <2>2. front \in Seq(Chars) /\ Len(front) = 1 + z
    BY <1>8, <2>1, ConcatProperties
  <2>3. \A j \in 1 .. 1 + z :
          front[j] = IF j <= 1 THEN <<"-">>[j] ELSE zeros[j - 1]
    BY <1>8, <2>1, ConcatProperties
  <2> QED
    BY <1>8, <2>1, <2>2, <2>3
<1> HIDE DEF front
<1>10. Len(s) = z + 1 + k
  <2>1. Len(s) = Len(front) + Len(digits)
    BY <1>6, <1>9, ConcatProperties, Zenon
  <2> QED
    BY <1>6, <1>9, <2>1
<1>11. \A j \in 1 .. z + 1 + k :
         s[j] = IF j <= z + 1 THEN front[j] ELSE digits[j - (z + 1)]
  <2>1. \A j \in 1 .. Len(front) + Len(digits) :
          s[j] = IF j <= Len(front) THEN front[j] ELSE digits[j - Len(front)]
    BY <1>6, <1>9, ConcatProperties, Zenon
  <2> QED
    BY <1>6, <1>9, <2>1
<1>12. Format(Width, -u) = s
  BY <1>4 DEF front
<1> HIDE DEF s
<1>13. reverse(Format(Width, -u))[i] = s[z + 1 + k + 1 - i]
  <2>1. z + 1 + k \in Nat /\ i \in 1 .. z + 1 + k
    BY <1>1, <1>3, <1>8
  <2> QED
    BY <1>10, <1>12, <2>1 DEF reverse
<1>14. CASE i <= k
  <2>1. s[z + 1 + k + 1 - i] = digits[k + 1 - i]
    BY <1>3, <1>8, <1>11, <1>14
  <2>2. k - (k + 1 - i) = i - 1
    BY <1>3
  <2> QED
    BY <1>3, <1>7, <1>13, <1>14, <2>1, <2>2 DEF getSet
<1>15. CASE i > k
  <2>1. s[z + 1 + k + 1 - i] # "1"
    BY <1>1, <1>3, <1>8, <1>9, <1>11, <1>15
  <2>2. Pow2[k] <= Pow2[i - 1]
    BY <1>3, <1>15, Pow2Grows
  <2>3. Digit(u, i - 1) = 0
    BY <1>2, <1>3, <1>15, <2>2, Pow2Properties, NoDigit
  <2> QED
    BY <1>13, <2>1, <2>3 DEF getSet
<1> QED
  BY <1>3, <1>14, <1>15

(***************************************************************************)
(* A set of as many members as the word has bits, when the last of them is *)
(* chosen: getSet returns the members of the opposite number.              *)
(***************************************************************************)
THEOREM GetSetOfSign ==
  ASSUME NEW v \in Pow2[Width - 1] .. Pow2[Width] - 1
  PROVE  Word(getSet(Width, Signed(v))) = Pow2[Width] - v
<1> DEFINE u == Pow2[Width] - v
<1>1. Pow2[Width - 1] \in Nat \ {0} /\ Pow2[Width] = 2 * Pow2[Width - 1]
  <2>1. Width - 1 \in Nat /\ Width - 1 + 1 = Width
    BY WidthAssumption
  <2> QED
    BY <2>1, Pow2Properties
<1>2. u \in 1 .. Pow2[Width - 1] /\ u \in Nat /\ u < Pow2[Width] /\ Signed(v) = -u
  BY <1>1 DEF Signed
<1> HIDE DEF u
<1>3. ASSUME NEW n \in Nat, n < Width
      PROVE  n + 1 \in getSet(Width, -u) <=> Digit(u, n) = 1
  <2>1. n + 1 \in 1 .. Width /\ n + 1 - 1 = n
    BY <1>3, WidthAssumption
  <2> QED
    BY <1>2, <2>1, SignedDigits
<1>4. Word(getSet(Width, -u)) = u
  BY <1>2, <1>3, SumOfDigits
<1> QED
  BY <1>2, <1>4 DEF u

-----------------------------------------------------------------------------
(* Values.                                                                 *)

\* What MySQL stores is an integer; a set is a word of its members.
LEMMA StoresTypes ==
  ASSUME NEW m \in ColumnMappings
  PROVE  /\ Stores(m) \subseteq Int
         /\ m.mysql = "set" => Stores(m) = 0 .. Pow2[m.members] - 1
         /\ m.mysql \in {"int", "uint", "mediumint"} => Stores(m) = {0, 1, 2}
<1>1. m.members \in 0 .. Width /\ Width \in Nat
  BY WidthAssumption DEF ColumnMappings
<1>2. Pow2[m.members] \in Int /\ Pow2[Width] \in Int
  BY <1>1, Pow2Properties
<1> QED
  BY <1>1, <1>2 DEF Stores

LEMMA SignedTypes ==
  /\ Pow2[Width] \in Int /\ Pow2[Width - 1] \in Int
  /\ \A v \in Int : Signed(v) \in Int
  /\ \A v \in {0, 1, 2} : Signed(v) = v
<1>1. Width \in Nat /\ Width - 1 \in Nat /\ 2 <= Width - 1
  BY WidthAssumption, ConstantsAssumption
<1>2. Pow2[Width] \in Int /\ Pow2[Width - 1] \in Int
  BY <1>1, Pow2Properties
<1>3. Pow2[2] = 4
  <2>1. Pow2[0 + 1] = 2 /\ Pow2[1 + 1] = 2 * Pow2[1]
    BY Pow2Properties
  <2> QED
    BY <2>1
<1>4. 4 <= Pow2[Width - 1]
  BY <1>1, <1>3, Pow2Grows
<1> QED
  BY <1>2, <1>4 DEF Signed

\* What a field that is not NULL in MySQL reads, for each kind of field.
LEMMA GetTypes ==
  ASSUME NEW m \in ColumnMappings, NEW v \in Stores(m)
  PROVE  /\ Get(m, v) \in Int \cup {NULL}
         /\ IsRead(m) => Get(m, v) \in Int
<1>1. v \in Int /\ v # NULL
  BY StoresTypes, NotInt
<1>2. CASE ~IsRead(m)
  BY <1>1, <1>2 DEF Get
<1>3. CASE IsRead(m) /\ m.go = "set"
  <2>1. Word(getSet(m.members, Signed(v))) \in Int
    BY WordIsASum, WidthAssumption
  <2> QED
    BY <1>1, <1>3, <2>1 DEF Get
<1>4. CASE IsRead(m) /\ m.go # "set"
  BY <1>1, <1>4, SignedTypes DEF Get
<1> QED
  BY <1>2, <1>3, <1>4

LEMMA ReadTypes ==
  ASSUME mapping \in Mappings, NEW image \in Rows, NEW before \in Filled
  PROVE  /\ GetBinLogData(before, image) \in Filled
         /\ Stored(GetBinLogData(before, image)) \in Structs
<1> DEFINE struct == GetBinLogData(before, image)
<1>1. ASSUME NEW c \in Columns
      PROVE  /\ struct[c] \in Int \cup {NULL}
             /\ struct[c] = NULL => mapping[c].ptr
             /\ Stored(struct)[c] \in Int \cup {NULL}
  <2>1. Get(mapping[c], image[c]) \in Int \cup {NULL}
    <3>1. CASE image[c] = NULL
      BY <3>1 DEF Get
    <3>2. CASE image[c] # NULL
      BY <3>2, ColumnTypes, RowTypes, GetTypes
    <3> QED
      BY <3>1, <3>2
  <2>2. before[c] \in Int \cup {NULL} /\ (before[c] = NULL => mapping[c].ptr)
    BY DEF Filled, Structs
  <2>3. struct[c] = Assign(mapping[c], before[c], Get(mapping[c], image[c]))
    BY DEF GetBinLogData
  <2>4. struct[c] \in Int \cup {NULL} /\ (struct[c] = NULL => mapping[c].ptr)
    BY <2>1, <2>2, <2>3, NotInt DEF Assign
  <2>5. Stored(struct)[c] = Decoded(mapping[c], struct[c])
    BY DEF Stored
  <2> QED
    BY <2>4, <2>5 DEF Decoded
<1>2. struct = [c \in Columns |-> struct[c]]
  BY DEF GetBinLogData
<1>3. Stored(struct) = [c \in Columns |-> Stored(struct)[c]]
  BY DEF Stored
<1> HIDE DEF struct
<1>4. struct \in Structs /\ Stored(struct) \in Structs
  BY <1>1, <1>2, <1>3 DEF Structs
<1> QED
  BY <1>1, <1>4 DEF struct, Filled

\* Structs depend on the table only.
LEMMA SameStructs ==
  ASSUME mapping' = mapping
  PROVE  Structs' = Structs /\ Filled' = Filled
BY DEF Structs, Filled, Columns

LEMMA StructsPreserved ==
  ASSUME ReadInv, StructsOK, [Next]_vars
  PROVE  StructsOK'
<1>1. mapping \in Mappings
  BY DEF ReadInv, EventOK
<1>2. CASE Receive
  BY <1>2, SameStructs DEF Receive, StructsOK, NoRecord
<1>3. CASE ReadRow
  <2> DEFINE struct == GetBinLogData(placeholder, event.rows[row])
  <2>1. event # NoEvent /\ row \in 1 .. Len(event.rows) /\ mapping' = mapping
    BY <1>3, EventTypes DEF ReadRow, ReadInv, EventOK, NoEvent
  <2>2. struct \in Filled /\ Stored(struct) \in Structs
    BY <1>1, <2>1, EventTypes, ReadTypes DEF ReadInv, StructsOK
  <2>3. placeholder' = struct
        /\ {record'.old, record'.new} \subseteq {Stored(struct), NULL}
    BY <1>3 DEF ReadRow
  <2> HIDE DEF struct
  <2> QED
    BY <2>1, <2>2, <2>3, SameStructs DEF StructsOK
<1>4. CASE ReadPair
  <2> DEFINE new == GetBinLogData(placeholder, event.rows[row + 1])
             old == GetBinLogData(new, event.rows[row])
  <2>1. event # NoEvent /\ {row, row + 1} \subseteq 1 .. Len(event.rows)
        /\ mapping' = mapping
    BY <1>4, EventTypes DEF ReadPair, ReadInv, EventOK, NoEvent
  <2>2. {event.rows[row], event.rows[row + 1]} \subseteq Rows
    BY <2>1, EventTypes DEF ReadInv
  <2>3. new \in Filled /\ Stored(new) \in Structs
    BY <1>1, <2>2, ReadTypes DEF StructsOK
  <2>4. placeholder' = old /\ record'.old = Stored(old) /\ record'.new = Stored(new)
    BY <1>4 DEF ReadPair, UpdateRecord
  <2> HIDE DEF new
  <2>5. old \in Filled /\ Stored(old) \in Structs
    BY <1>1, <2>2, <2>3, ReadTypes
  <2> HIDE DEF old
  <2> QED
    BY <2>1, <2>3, <2>4, <2>5, SameStructs DEF StructsOK
<1>5. CASE ReadPanics \/ Return \/ UNCHANGED vars
  BY <1>5, SameStructs DEF ReadPanics, Return, vars, StructsOK
<1> QED
  BY <1>2, <1>3, <1>4, <1>5 DEF Next

LEMMA InitStructs == Init => StructsOK
BY NotInt DEF Init, StructsOK, Filled, Structs, Zero, NoRecord

(***************************************************************************)
(* The types of the struct, of the event and of the record: a field that   *)
(* is no pointer always has a value, also before the first row.            *)
(***************************************************************************)
THEOREM TypeCorrect == Spec => []TypeOK
<1>1. StructsOK /\ ReadInv /\ [Next]_vars => StructsOK'
  BY StructsPreserved
<1>2. StructsOK /\ ReadInv => TypeOK
  BY DEF StructsOK, ReadInv, EventOK, RecordIsRead, Filled, TypeOK
<1> QED
  BY <1>1, <1>2, InitStructs, ReadInvHolds, PTL DEF Spec

-----------------------------------------------------------------------------
\* What the getter of a documented field makes of a value of its column.
LEMMA GetIsRead ==
  ASSUME NEW m \in ColumnMappings, Documented(m), NEW v \in Stores(m), ~Panics(m, v)
  PROVE  ~Unreadable(m) /\ Get(m, v) \in Int /\ Get(m, v) = Read(m, v)
<1>1. v \in Int /\ v # NULL /\ Get(m, v) \in Int \cup {NULL}
  BY StoresTypes, NotInt, GetTypes
<1>2. ~Unreadable(m)
  BY <1>1 DEF ColumnMappings, Documented, Unreadable, Panics, IsRead, AssertionFails,
              Reads, Schema, Wire
<1>3. CASE m.go = "uint" /\ m.mysql = "mediumint"
  <2>1. ~IsRead(m)
    BY <1>3 DEF IsRead, Reads, Schema
  <2> QED
    BY <1>1, <1>2, <1>3, <2>1, NotInt DEF Get, Read
<1>4. CASE ~(m.go = "uint" /\ m.mysql = "mediumint")
  <2>1. IsRead(m) /\ Get(m, v) \in Int
    <3>1. IsRead(m)
      BY <1>4 DEF ColumnMappings, Documented, IsRead, Reads, Schema
    <3> QED
      BY <3>1, GetTypes
  <2>2. CASE m.go = "int"
    <3>1. v \in {0, 1, 2}
      BY <2>2, StoresTypes DEF Documented
    <3> QED
      BY <1>1, <1>2, <2>1, <2>2, <3>1, SignedTypes DEF Get, Read, Promised
  <2>3. CASE m.go = "bool"
    BY <1>1, <1>2, <2>1, <2>3 DEF Get, Read, Promised
  <2>4. CASE m.go = "set"
    <3>1. m.mysql = "set"
      BY <2>4 DEF Documented
    <3>2. v \in 0 .. Pow2[m.members] - 1 /\ m.members \in 0 .. Width
      BY <3>1, StoresTypes DEF ColumnMappings
    <3>3. CASE v < Pow2[Width - 1]
      <4>1. Get(m, v) = v
        BY <1>1, <2>1, <2>4, <3>2, <3>3, GetSetCorrect DEF Get
      <4>2. Read(m, v) = v
        BY <1>1, <2>4, <3>3, SignedTypes DEF Read, Promised
      <4> QED
        BY <1>2, <2>1, <4>1, <4>2
    <3>4. CASE ~(v < Pow2[Width - 1])
      <4>1. m.members = Width
        <5>1. m.members \in Nat /\ Width \in Nat /\ Width - 1 \in Nat
          BY <3>2, WidthAssumption
        <5>2. m.members <= Width - 1 => Pow2[m.members] <= Pow2[Width - 1]
          BY <5>1, Pow2Grows
        <5>3. Pow2[m.members] \in Nat /\ Pow2[Width - 1] \in Nat
          BY <5>1, Pow2Properties
        <5>4. Pow2[Width - 1] < Pow2[m.members]
          BY <1>1, <3>2, <3>4, <5>3
        <5>5. ~(m.members <= Width - 1)
          BY <5>2, <5>3, <5>4
        <5> QED
          BY <3>2, <5>1, <5>5
      <4>2. v \in Pow2[Width - 1] .. Pow2[Width] - 1 /\ v >= Pow2[Width - 1]
        BY <1>1, <3>2, <3>4, <4>1, SignedTypes
      <4>3. Get(m, v) = Pow2[Width] - v
        BY <1>1, <2>1, <2>4, <4>1, <4>2, GetSetOfSign DEF Get
      <4>4. Read(m, v) = Pow2[Width] - v
        BY <2>4, <4>2 DEF Read
      <4> QED
        BY <1>2, <2>1, <4>3, <4>4
    <3> QED
      BY <3>3, <3>4
  <2>5. CASE m.go \notin {"int", "bool", "set"}
    BY <1>1, <1>2, <1>4, <2>1, <2>5 DEF Get, Read, Promised
  <2> QED
    BY <2>2, <2>3, <2>4, <2>5
<1> QED
  BY <1>3, <1>4

(***************************************************************************)
(* No value of a column that cannot be read is in a record, and any other  *)
(* value of a documented column is in its own image as Logged says,        *)
(* whatever rows were read into the struct before and in whatever order    *)
(* the images of an update are.                                            *)
(***************************************************************************)
THEOREM ValuesCorrect == Spec => []ValuesArrive
<1>1. ReadInv => ValuesArrive
  <2> SUFFICES ASSUME ReadInv, NEW p \in Images, NEW c \in Columns,
                      Documented(mapping[c]), p[2][c] # NULL
               PROVE  /\ ~Unreadable(mapping[c])
                      /\ p[1][c] = Logged(mapping[c], p[2][c])
    BY DEF ValuesArrive
  <2> DEFINE m == mapping[c]
             v == p[2][c]
  <2>1. PICK before : p[1] = Stored(GetBinLogData(before, p[2]))
    BY DEF ReadInv, RecordIsRead, ReadFrom
  <2>2. m \in ColumnMappings /\ v \in Stores(m) /\ ~Panics(m, v)
    BY ColumnTypes, RowTypes DEF ReadInv, EventOK, RecordIsRead, ReadFrom, PanicsOn
  <2>3. ~Unreadable(m) /\ Get(m, v) \in Int /\ Get(m, v) = Read(m, v)
    BY <2>2, GetIsRead
  <2>4. p[1][c] = Decoded(m, Assign(m, before[c], Get(m, v)))
    BY <2>1 DEF Stored, GetBinLogData
  <2>5. p[1][c] = Decoded(m, Get(m, v))
    BY <2>3, <2>4, NotInt DEF Assign
  <2> HIDE DEF m, v
  <2> QED
    BY <2>3, <2>5 DEF Decoded, Logged, m, v
<1> QED
  BY <1>1, ReadInvHolds, PTL

-----------------------------------------------------------------------------
\* The process has ended by reading an image under way.
PanicKnown == ~alive => \E image \in UnderWay : PanicsOn(image)

LEMMA PanicKept ==
  ASSUME ReadInv, PanicKnown, [Next]_vars
  PROVE  PanicKnown'
<1>1. CASE ReadPanics
  <2>1. row \in Nat /\ UNCHANGED <<mapping, event, row>>
    BY <1>1 DEF ReadPanics, ReadInv, EventOK
  <2>2. event.rows[row] \in UnderWay
        /\ (event.action = "update" => event.rows[row + 1] \in UnderWay)
    BY <2>1 DEF UnderWay
  <2>3. \E image \in UnderWay : PanicsOn(image)
    BY <1>1, <2>2 DEF ReadPanics
  <2>4. UnderWay' = UnderWay
    BY <2>1 DEF UnderWay
  <2>5. \A image : PanicsOn(image)' <=> PanicsOn(image)
    BY <2>1 DEF PanicsOn, Columns
  <2> QED
    BY <2>3, <2>4, <2>5 DEF PanicKnown
<1>2. CASE Receive \/ ReadRow \/ ReadPair \/ Return
  BY <1>2 DEF Receive, ReadRow, ReadPair, Return, PanicKnown
<1>3. CASE UNCHANGED vars
  <2>1. UNCHANGED <<mapping, event, row, alive>>
    BY <1>3 DEF vars
  <2>2. UnderWay' = UnderWay
    BY <2>1 DEF UnderWay
  <2>3. \A image : PanicsOn(image)' <=> PanicsOn(image)
    BY <2>1 DEF PanicsOn, Columns
  <2> QED
    BY <2>1, <2>2, <2>3 DEF PanicKnown
<1> QED
  BY <1>1, <1>2, <1>3 DEF Next

(***************************************************************************)
(* A row of documented columns ends the process only for a value of an     *)
(* unreadable one, a zero date or an enum of index 0, whatever the tables, *)
(* the events and the width of a word.                                     *)
(***************************************************************************)
THEOREM PanicsCorrect == Spec => []PanicsExplained
<1>1. ReadInv /\ PanicKnown => PanicsExplained
  <2> SUFFICES ASSUME ReadInv, ~alive, NEW image \in UnderWay, NEW c \in Columns,
                      Panics(mapping[c], image[c]), Documented(mapping[c])
               PROVE  /\ image[c] # NULL
                      /\ \/ Unreadable(mapping[c])
                         \/ /\ image[c] = 0
                            /\ mapping[c].go = "time" \/ mapping[c].mysql = "enum"
    BY DEF PanicsExplained, PanicKnown, PanicsOn
  <2>1. mapping[c] \in ColumnMappings
    BY ColumnTypes DEF ReadInv, EventOK
  <2> QED
    BY <2>1 DEF ColumnMappings, Documented, Unreadable, Panics, IsRead, AssertionFails,
                Reads, Schema, Wire
<1>2. Init => PanicKnown
  BY DEF Init, PanicKnown
<1>3. ReadInv /\ PanicKnown /\ [Next]_vars => PanicKnown'
  BY PanicKept
<1> QED
  BY <1>1, <1>2, <1>3, ReadInvHolds, PTL DEF Spec
=============================================================================
