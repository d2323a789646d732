------------------------------ MODULE RowReader ------------------------------
(***************************************************************************)
(* How a binlog row becomes a record of the log store: OnRow of package    *)
(* parser, getBinLogData with its two switches over the field types and    *)
(* the getters they call, and the encoding of a Record by package syncer.  *)
(*                                                                         *)
(* The model of a table is ONE struct: getBinLogData writes the columns of *)
(* a row into it, field by field, and returns a copy.  It is never reset,  *)
(* so that a field the switch leaves alone keeps the value of the row that *)
(* was read before, in this event or in an earlier one.                    *)
(*                                                                         *)
(* Every value is an integer or NULL; 0 stands for the zero value of every *)
(* Go type, for the empty string and for the date 0000-00-00, an enum is   *)
(* the index of its literal and a set the word that MySQL stores for it.   *)
(***************************************************************************)
EXTENDS SetCodec

CONSTANTS
  Mappings,     \* the tables: how their columns are mapped
  NULL,         \* SQL NULL and Go nil
  MaxRows       \* bound: row images in one event

\* What schema.TableColumn.Type says of a MySQL type ("uint" stands for the
\* unsigned integers narrower than bigint) and the Go type of its values.
Schema == [int |-> "NUMBER", uint |-> "NUMBER", mediumint |-> "MEDIUM_INT",
           ubigint |-> "NUMBER", bit |-> "BIT", float |-> "FLOAT",
           double |-> "FLOAT", decimal |-> "DECIMAL", char |-> "STRING",
           blob |-> "STRING", binary |-> "BINARY", json |-> "JSON",
           time |-> "TIME", datetime |-> "DATETIME", date |-> "DATE",
           enum |-> "ENUM", set |-> "SET"]

Wire == [int |-> "int32", uint |-> "uint32", mediumint |-> "int32",
         ubigint |-> "uint64", bit |-> "int64", float |-> "float32",
         double |-> "float64", decimal |-> "decimal", char |-> "string",
         blob |-> "bytes", binary |-> "string", json |-> "bytes",
         time |-> "string", datetime |-> "string", date |-> "string",
         enum |-> "int64", set |-> "int64"]

\* The values of Schema at which the getter of a field type looks.
Reads == [int     |-> {"NUMBER", "MEDIUM_INT", "BIT"},
          bool    |-> {"NUMBER", "MEDIUM_INT", "BIT"},
          uint    |-> {"NUMBER"},
          string  |-> {"ENUM", "STRING", "TIME", "BINARY", "JSON"},
          time    |-> {"DATETIME", "DATE"},
          float32 |-> {"FLOAT"},
          float64 |-> {"FLOAT", "DECIMAL"},
          decimal |-> {"DECIMAL"},
          bytes   |-> {"STRING", "BINARY"},
          set     |-> {"SET"}]

\* A column: its field type, whether that is a pointer, its MySQL type
\* ("none" if the table has no such column), the members of an enum or a set.
ColumnMappings ==
  [go : DOMAIN Reads, ptr : BOOLEAN, mysql : DOMAIN Schema \cup {"none"},
   members : 0 .. Width]

ASSUME ConstantsAssumption ==
  /\ \A m \in Mappings : \A c \in DOMAIN m : m[c] \in ColumnMappings
  /\ NULL \notin Int
  /\ MaxRows \in Nat
  /\ Width >= 3             \* a narrow integer is a positive word

VARIABLES
  mapping,      \* the columns of the model
  placeholder,  \* the struct of the model
  event,        \* the rows event OnRow is handling
  row,          \* index of its next row image
  record,       \* the last record the syncer would decode from the log store
  source,       \* the row images that record stands for (history)
  alive         \* the process has not panicked

vars == <<mapping, placeholder, event, row, record, source, alive>>

Columns == DOMAIN mapping
Actions == {"insert", "update", "delete"}

\* What MySQL may hold in a column.
Stores(m) ==
  CASE m.mysql \in {"int", "uint", "mediumint"} -> {0, 1, 2}
    [] m.mysql = "ubigint" -> {0, 1, Pow2[Width] - 1}
    [] m.mysql = "enum" -> 0 .. m.members
    [] m.mysql = "set" -> 0 .. Pow2[m.members] - 1
    [] OTHER -> {0, 1}

Rows == {r \in [Columns -> UNION {Stores(mapping[c]) : c \in Columns} \cup {NULL}] :
           \A c \in Columns : r[c] = NULL \/ r[c] \in Stores(mapping[c])}

\* An update event holds pairs of images, the old one first.
Events ==
  {e \in [action : Actions, rows : UNION {[1 .. n -> Rows] : n \in 1 .. MaxRows}] :
     e.action = "update" => Len(e.rows) % 2 = 0}

NoEvent == [action |-> "none", rows |-> <<>>]
NoRecord == [action |-> "none", old |-> NULL, new |-> NULL]

Zero(m) == IF m.ptr THEN NULL ELSE 0

Init ==
  /\ mapping \in Mappings
  /\ placeholder = [c \in Columns |-> Zero(mapping[c])]
  /\ event = NoEvent
  /\ row = 1
  /\ record = NoRecord
  /\ source = NoRecord
  /\ alive = TRUE

-----------------------------------------------------------------------------
IsRead(m) == m.mysql # "none" /\ Schema[m.mysql] \in Reads[m.go]

\* A type assertion of the getter that does not match what canal delivers.
\* A decimal comes as decimal.Decimal: /parser/start insists on use_decimal.
AssertionFails(m) ==
  LET wire == Wire[m.mysql]
  IN  CASE m.go = "uint" -> wire # "uint64"
        [] m.go \in {"float32", "float64", "decimal"} -> wire # m.go
        [] m.go = "bytes" ->
             wire # IF Schema[m.mysql] = "STRING" THEN "bytes" ELSE "string"
        [] OTHER -> FALSE

\* Slip: the getters assert the type of a value before they look for NULL.
PanicsOnNull(m, v) ==
  \/ m.mysql = "none"
  \/ IsRead(m) /\ (v = NULL \/ AssertionFails(m))

\* A missing column, a field that cannot take a uint64, a date that is none
\* or does not parse, the enum literal before the first one.
Panics(m, v) ==
  \/ m.mysql = "none"
  \/ /\ v # NULL
     /\ \/ m.go = "uint" /\ m.ptr
        \/ m.go = "time" /\ (~IsRead(m) \/ v = 0)
        \/ m.go = "string" /\ m.mysql = "enum" /\ v = 0
        \/ IsRead(m) /\ AssertionFails(m)

PanicsOn(image) == \E c \in Columns : Panics(mapping[c], image[c])

\* What the getter of a field returns for the value v of its column.
Get(m, v) ==
  CASE v = NULL -> NULL
    [] v # NULL /\ ~IsRead(m) -> IF m.go = "set" THEN NULL ELSE 0
    [] v # NULL /\ IsRead(m) ->
         CASE m.go = "int" -> Signed(v)
           [] m.go = "bool" -> IF v = 1 THEN 1 ELSE 0
           [] m.go = "set" -> Word(getSet(m.members, Signed(v)))
           [] OTHER -> v

\* Slip: pointers to strings and the like are treated as *int is.
AssignKeepsPointers(m, before, got) == IF got = NULL THEN before ELSE got

\* What the field holds after the switch, given what it held before.
Assign(m, before, got) ==
  IF got = NULL /\ (~m.ptr \/ m.go \in {"int", "uint"}) THEN before ELSE got

GetBinLogData(before, image) ==
  [c \in Columns |-> Assign(mapping[c], before[c], Get(mapping[c], image[c]))]

\* encoding/gob sends no zero value and follows pointers: a pointer to one
\* comes back as nil.  A decimal encodes itself, zero or not.
Decoded(m, v) == IF m.ptr /\ m.go # "decimal" /\ v = 0 THEN NULL ELSE v

Stored(struct) == [c \in Columns |-> Decoded(mapping[c], struct[c])]

\* Slip: the pointer to the struct is returned instead of a copy, and the
\* record of an update holds the struct that was filled last twice.
UpdateRecordOfPointer(new, old) ==
  [action |-> "update", old |-> Stored(old), new |-> Stored(old)]

\* Slip: an update is logged as the insert of its new image.
UpdateRecordAsInsert(new, old) ==
  [action |-> "insert", old |-> NULL, new |-> Stored(new)]

UpdateRecord(new, old) ==
  [action |-> "update", old |-> Stored(old), new |-> Stored(new)]

-----------------------------------------------------------------------------
(* canal calls OnRow with the next rows event, on its own goroutine.       *)

Receive ==
  /\ alive
  /\ event = NoEvent
  /\ event' \in Events
  /\ row' = 1
  /\ record' = NoRecord
  /\ source' = NoRecord
  /\ UNCHANGED <<mapping, placeholder, alive>>

\* One iteration of an insert or delete event.
ReadRow ==
  /\ alive
  /\ event.action \in {"insert", "delete"}
  /\ row <= Len(event.rows)
  /\ ~PanicsOn(event.rows[row])
  /\ LET image == event.rows[row]
         struct == GetBinLogData(placeholder, image)
         both(x) == IF event.action = "insert"
                    THEN [action |-> "insert", old |-> NULL, new |-> x]
                    ELSE [action |-> "delete", old |-> x, new |-> NULL]
     IN  /\ placeholder' = struct
         /\ record' = both(Stored(struct))
         /\ source' = both(image)
  /\ row' = row + 1
  /\ UNCHANGED <<mapping, event, alive>>

\* One iteration of an update event: the new image is read first, then the
\* old one, into the same struct.
ReadPair ==
  /\ alive
  /\ event.action = "update"
  /\ row < Len(event.rows)
  /\ ~PanicsOn(event.rows[row])
  /\ ~PanicsOn(event.rows[row + 1])
  /\ LET new == GetBinLogData(placeholder, event.rows[row + 1])
         old == GetBinLogData(new, event.rows[row])
     IN  /\ placeholder' = old
         /\ record' = UpdateRecord(new, old)
  /\ source' = [action |-> "update", old |-> event.rows[row],
                new |-> event.rows[row + 1]]
  /\ row' = row + 2
  /\ UNCHANGED <<mapping, event, alive>>

\* A getter panics on canal's goroutine, which nobody recovers.
ReadPanics ==
  /\ alive
  /\ event # NoEvent
  /\ row <= Len(event.rows)
  /\ \/ PanicsOn(event.rows[row])
     \/ event.action = "update" /\ PanicsOn(event.rows[row + 1])
  /\ alive' = FALSE
  /\ UNCHANGED <<mapping, placeholder, event, row, record, source>>

Return ==
  /\ alive
  /\ event # NoEvent
  /\ row > Len(event.rows)
  /\ event' = NoEvent
  /\ row' = 1
  /\ UNCHANGED <<mapping, placeholder, record, source, alive>>

Next == Receive \/ ReadRow \/ ReadPair \/ ReadPanics \/ Return

Spec == Init /\ [][Next]_vars

-----------------------------------------------------------------------------
Structs == [Columns -> Int \cup {NULL}]

TypeOK ==
  /\ mapping \in Mappings
  /\ placeholder \in Structs
  /\ event = NoEvent \/ event \in Events
  /\ row \in 1 .. MaxRows + 1
  /\ record.action = source.action
  /\ {record.old, record.new} \subseteq Structs \cup {NULL}
  /\ \A c \in Columns : placeholder[c] = NULL => mapping[c].ptr
  /\ alive \in BOOLEAN

\* The images of the last record beside the row images they come from.
Images ==
  {p \in {<<record.old, source.old>>, <<record.new, source.new>>} : p[2] # NULL}

\* The rows of the table MAPPINGS of src/mysql/parser/README.md, and for
\* uint those of src/db/types.go: "unsigned integer types including bigint".
Documented(m) ==
  \/ m.go \in {"int", "bool"} /\ m.mysql \in {"int", "uint", "mediumint"}
  \/ m.go = "uint" /\ m.mysql \in {"uint", "mediumint", "ubigint"}
  \/ m.go = "float32" /\ m.mysql = "float"
  \/ m.go = "float64" /\ m.mysql \in {"double", "decimal"}
  \/ m.go = "decimal" /\ m.mysql = "decimal"
  \/ m.go = "time" /\ m.mysql \in {"datetime", "date"}
  \/ m.go = "string" /\ m.mysql \in {"time", "char", "blob", "binary", "enum"}
  \/ m.go = "bytes" /\ m.mysql \in {"blob", "binary"}
  \/ m.go = "set" /\ m.mysql = "set"

\* The documented columns of which the code can read no value: a uint64 does
\* not fit a *uint, nor a uint32 the assertion of getUint, nor a decimal that
\* of getFloat64.
Unreadable(m) ==
  \/ m.go = "uint" /\ (m.ptr \/ m.mysql = "uint")
  \/ m.go = "float64" /\ m.mysql = "decimal"

\* What a documented column promises for v: "1 = true; 0 (& other) = false".
Promised(m, v) == IF m.go = "bool" THEN (IF v = 1 THEN 1 ELSE 0) ELSE v

\* What the code makes of it where it can read it: getUint skips a mediumint,
\* and a set with the member at the sign of the word is taken for the one of
\* the opposite number.
Read(m, v) ==
  CASE m.go = "uint" /\ m.mysql = "mediumint" -> 0
    [] m.go = "set" /\ v >= Pow2[Width - 1] -> Pow2[Width] - v
    [] OTHER -> Promised(m, v)

\* And what is left of it in the log store: a pointer to zero is nil there.
Logged(m, v) ==
  IF m.ptr /\ m.go # "decimal" /\ Read(m, v) = 0 THEN NULL ELSE Read(m, v)

(***************************************************************************)
(* Whatever rows were read before into the shared struct, and whatever the *)
(* order in which the two images of an update are read: no value of an     *)
(* unreadable column is in a record at all, and any other value of a       *)
(* documented column is in its own image of the record, as Logged says:    *)
(* the one that the documents promise, but for 0 in a uint on a mediumint, *)
(* the set with the last of its 64 members, and nil for a pointer to zero  *)
(* (false for the README's *bool, too).                                    *)
(***************************************************************************)
ValuesArrive ==
  \A p \in Images : \A c \in Columns :
    LET m == mapping[c] v == p[2][c]
    IN  Documented(m) /\ v # NULL => ~Unreadable(m) /\ p[1][c] = Logged(m, v)

\* The images that the iteration under way reads.
UnderWay ==
  {event.rows[i] : i \in row .. row + (IF event.action = "update" THEN 1 ELSE 0)}

(***************************************************************************)
(* A row ends the process only for a column that is not documented (or not *)
(* there), for a value of an unreadable one, or for a zero date or an enum *)
(* of index 0.  A NULL never does.                                         *)
(***************************************************************************)
PanicsExplained ==
  ~alive =>
    \E c \in Columns : LET m == mapping[c] IN
      \/ ~Documented(m)
      \/ \E image \in UnderWay :
           /\ image[c] # NULL
           /\ \/ Unreadable(m)
              \/ image[c] = 0 /\ (m.go = "time" \/ m.mysql = "enum")

(***************************************************************************)
(* A NULL of a column mapped to a pointer other than *int and *uint is     *)
(* never replaced by the value of an earlier row.                          *)
(***************************************************************************)
PointersExact ==
  \A p \in Images : \A c \in Columns :
    LET m == mapping[c]
    IN  m.ptr /\ m.go \notin {"int", "uint"} /\ p[2][c] = NULL => p[1][c] = NULL

(***************************************************************************)
(* "When the field on MYSQL is set as NULL, Go will view it as number 0",  *)
(* and "if the mapping is *int => smallint, then Go would view it as nil". *)
(***************************************************************************)
NullIsDefault ==
  \A p \in Images : \A c \in Columns :
    LET m == mapping[c]
    IN  m.go = "int" /\ Documented(m) /\ p[2][c] = NULL => p[1][c] = Zero(m)
=============================================================================
