--------------------------- MODULE StatementsProofs ---------------------------
(***************************************************************************)
(* Theorems about Statements, for any table, models, engines and bounds.   *)
(* As long as models are put only while no syncer runs, every argument is  *)
(* bound to the column whose value it is, an empty log store means that    *)
(* the target is in sync unless a batch was interrupted after a key had    *)
(* been changed, and no statement is refused unless a batch was            *)
(* interrupted.  The argument is TargetIsAStage: the target is one of the  *)
(* tables that the source has been since the first pending record.         *)
(***************************************************************************)
EXTENDS Statements, SequenceTheorems, TLAPS

Images == [Columns -> Values]

\* A record as the listener logs it: with the images its kind has.
LoggedRecords ==
  {r \in Records : /\ r.kind # "delete" => r.new \in Images
                   /\ r.kind # "insert" => r.old \in Images}

\* The source is a table, and the lists hold records of what happened to it.
ListsOK ==
  /\ model \in Models
  /\ source \in Tables
  /\ pending \in Seq(LoggedRecords)
  /\ batch \in Seq(LoggedRecords)
  /\ count \in Nat

\* A running syncer has no statement but those of the model in the map, and
\* a pass has that model.
CacheIsFresh ==
  /\ stmts = [kind \in Kinds |-> stmts[kind]]
  /\ pc \in {"select", "fetch", "apply"} =>
       \A kind \in Kinds : stmts[kind] \in {<<>>, Parameters(kind, model)}
  /\ pc \in {"fetch", "apply"} => passModel = model

\* The batch is the left end of the list; what a record was logged with has
\* the columns that all models have had; only a changed key is another one.
RecordsOK ==
  /\ Key \in synced
  /\ synced \subseteq Range(Names(model))
  /\ \A i \in 1 .. Len(pending) : synced \subseteq Range(Names(pending[i].model))
  /\ \A i \in 1 .. Len(pending) :
       pending[i].kind = "update" /\ ~keyChanged =>
         pending[i].old[Key] = pending[i].new[Key]
  /\ pc = "apply" =>
       /\ Len(batch) <= Len(pending)
       /\ \A i \in 1 .. Len(batch) : batch[i] = pending[i]
  /\ count <= Len(batch)

\* What a record says has happened to the source.
Becomes(r, before, after) ==
  \/ /\ r.kind = "insert"
     /\ r.new \notin before
     /\ after = before \cup {r.new}
  \/ /\ r.kind = "update"
     /\ r.old \in before
     /\ r.new \notin before
     /\ after = (before \ {r.old}) \cup {r.new}
  \/ /\ r.kind = "delete"
     /\ r.old \in before
     /\ after = before \ {r.old}

\* Two tables that have the same row of key k, as far as it is synced.
SameOn(r, s) == \A c \in synced : r[c] = s[c]

Within(rows, others, k) ==
  \A r \in rows : r[Key] = k => \E s \in others : SameOn(r, s)

Agree(rows, others, k) == Within(rows, others, k) /\ Within(others, rows, k)

\* How many records of the list are executed, in this pass.
Done == IF pc = "apply" THEN count ELSE 0

\* What the source was before each of the records that are pending, the last
\* one of these tables being the source.  The target is where this pass is;
\* after an interrupted one, each of its rows is there or further.
Stages(h) ==
  /\ h[Len(pending)] = source
  /\ \A i \in 1 .. Len(pending) : Becomes(pending[i], h[i - 1], h[i])
  /\ ~interrupted => \A k \in Values : Agree(target, h[Done], k)
  /\ ~keyChanged =>
       \A k \in Values : \E p \in Done .. Len(pending) : Agree(target, h[p], k)

Histories == [0 .. Len(pending) -> Tables]

TargetIsAStage == ~lost => \E h \in Histories : Stages(h)

QuietInv == ListsOK /\ CacheIsFresh

LEMMA QuietIsNext == QuietPut \/ Others => Next
BY DEF QuietPut, Next

\* Images of the source are rows, and a table without a row is a table.
LEMMA ImagesAreRows ==
  ASSUME source \in Tables
  PROVE  /\ source \subseteq Rows
         /\ source \subseteq Images
         /\ [Columns -> Values] \subseteq Rows
         /\ \A r \in source : source \ {r} \in Tables
BY SMT DEF Tables, Rows, KeyIsUnique, Images

\* A record is pushed with the model of the moment.
LEMMA PushKeepsLists ==
  ASSUME ListsOK, NEW kind \in Kinds,
         NEW old \in Rows \cup {NULL}, NEW new \in Rows \cup {NULL},
         kind # "delete" => new \in Images, kind # "insert" => old \in Images,
         Log(kind, old, new), source' \in Tables
  PROVE  ListsOK'
<1>1. [kind |-> kind, old |-> old, new |-> new, model |-> model] \in LoggedRecords
  BY DEF ListsOK, Records, LoggedRecords
<1>2. pending' \in Seq(LoggedRecords)
  BY <1>1 DEF ListsOK, Log, Push
<1> QED
  BY <1>2 DEF ListsOK, Log, syncer

\* The statement for the record that is executed is one of the model.
LEMMA CurrentIsRecord ==
  ASSUME ListsOK, Executing
  PROVE  Current \in LoggedRecords /\ Current.kind \in Kinds
<1>1. count + 1 \in 1 .. Len(batch)
  BY DEF ListsOK, Executing
<1>2. batch[count + 1] \in LoggedRecords
  BY <1>1 DEF ListsOK
<1> QED
  BY <1>2 DEF Current, Records, LoggedRecords

LEMMA StatementIsFresh ==
  ASSUME QuietInv, Executing
  PROVE  CurrentStmt = Parameters(Current.kind, passModel)
<1>1. Current.kind \in Kinds /\ pc = "apply" /\ passModel = model
  BY CurrentIsRecord DEF QuietInv, CacheIsFresh, Executing
<1>2. stmts[Current.kind] \in {<<>>, Parameters(Current.kind, passModel)}
  BY <1>1 DEF QuietInv, CacheIsFresh
<1> QED
  BY <1>2 DEF CurrentStmt, Statement

LEMMA ListsPreserved ==
  ASSUME ListsOK, [Next]_vars
  PROVE  ListsOK'
<1> USE DEF ListsOK
<1>1. CASE Put
  BY <1>1 DEF Put, syncer
<1>2. CASE LogInsert
  <2>1. PICK r \in [Columns -> Values] :
          source' \in Tables /\ Log("insert", NULL, r)
    BY <1>2 DEF LogInsert
  <2> QED
    BY <2>1, PushKeepsLists, ImagesAreRows DEF Kinds, Images
<1>3. CASE LogUpdate
  <2>1. PICK r \in source, s \in [Columns -> Values] :
          source' \in Tables /\ Log("update", r, s)
    BY <1>3 DEF LogUpdate
  <2> QED
    BY <2>1, PushKeepsLists, ImagesAreRows DEF Kinds, Images
<1>4. CASE LogDelete
  <2>1. PICK r \in source : source' = source \ {r} /\ Log("delete", r, NULL)
    BY <1>4 DEF LogDelete
  <2> QED
    BY <2>1, PushKeepsLists, ImagesAreRows DEF Kinds, Images
<1>5. CASE StartSyncer
  BY <1>5 DEF StartSyncer, NoBatch, stored
<1>6. CASE StopSyncer \/ Tick
  BY <1>6 DEF StopSyncer, Tick, stored
<1>7. CASE Fetch
  BY <1>7 DEF Fetch, stored
<1>8. CASE ExecuteRecord
  BY <1>8 DEF ExecuteRecord, stored
<1>9. CASE DecodeError \/ StatementError \/ ExecuteFails
  BY <1>9 DEF DecodeError, StatementError, ExecuteFails, Block, stored
<1>10. CASE RemoveBatch
  <2>1. SubSeq(pending, count + 1, Len(pending)) \in Seq(LoggedRecords)
    OBVIOUS
  <2> QED
    BY <1>10, <2>1 DEF RemoveBatch, NoBatch, Rem
<1>11. CASE Crash
  BY <1>11 DEF Crash, NoBatch, Persisted
<1>12. CASE UNCHANGED vars
  BY <1>12 DEF vars, stored, syncer
<1> QED
  BY <1>1, <1>2, <1>3, <1>4, <1>5, <1>6, <1>7, <1>8, <1>9, <1>10, <1>11, <1>12
     DEF Next, Others, Work

LEMMA CachePreserved ==
  ASSUME QuietInv, [QuietPut \/ Others]_vars
  PROVE  CacheIsFresh'
<1> USE DEF QuietInv, CacheIsFresh
<1>1. CASE QuietPut
  BY <1>1 DEF QuietPut, Put, syncer
<1>2. CASE LogInsert \/ LogUpdate \/ LogDelete
  BY <1>2 DEF LogInsert, LogUpdate, LogDelete, Log, syncer
<1>3. CASE StartSyncer
  BY <1>3 DEF StartSyncer, FreshStmts, NewStmts, stored
<1>4. CASE StopSyncer \/ Tick
  BY <1>4 DEF StopSyncer, Tick, stored
<1>5. CASE Fetch
  BY <1>5 DEF Fetch, stored
<1>6. CASE ExecuteRecord
  <2>1. /\ CurrentStmt = Parameters(Current.kind, model)
        /\ pc = "apply" /\ pc' = pc /\ model' = model /\ passModel' = passModel
    BY <1>6, StatementIsFresh DEF ExecuteRecord, Executing, stored
  <2>2. stmts' = [stmts EXCEPT ![Current.kind] = Parameters(Current.kind, model)]
    BY <1>6, <2>1 DEF ExecuteRecord
  <2> QED
    BY <2>1, <2>2
<1>7. CASE DecodeError \/ ExecuteFails
  BY <1>7 DEF DecodeError, ExecuteFails, Block
<1>8. CASE StatementError
  BY <1>8 DEF StatementError, Block
<1>9. CASE RemoveBatch
  BY <1>9 DEF RemoveBatch, Executing
<1>10. CASE Crash
  BY <1>10 DEF Crash, NewStmts
<1>11. CASE UNCHANGED vars
  BY <1>11 DEF vars, stored, syncer
<1> QED
  BY <1>1, <1>2, <1>3, <1>4, <1>5, <1>6, <1>7, <1>8, <1>9, <1>10, <1>11
     DEF Others, Work

-----------------------------------------------------------------------------
(* Statements and arguments.                                               *)

LEMMA NamesTypes ==
  ASSUME NEW d \in Models
  PROVE  /\ Names(d) \in Seq(Columns)
         /\ Len(Names(d)) = Len(d)
         /\ DOMAIN Names(d) = 1 .. Len(d)
         /\ Key \in Range(Names(d))
<1>1. d \in Seq([name : Columns, type : Types])
  BY ConstantsAssumption
<1>2. DOMAIN d = 1 .. Len(d) /\ Len(d) \in Nat
  BY <1>1
<1>3. ASSUME NEW i \in 1 .. Len(d)
      PROVE  d[i].name \in Columns
  <2>1. d[i] \in [name : Columns, type : Types]
    BY <1>1, ElementOfSeq
  <2> QED
    BY <2>1
<1>4. Names(d) = [i \in 1 .. Len(d) |-> d[i].name]
  BY <1>2 DEF Names
<1>5. Names(d) \in Seq(Columns) /\ Len(Names(d)) = Len(d)
  BY <1>2, <1>3, <1>4, IsASeq
<1>6. Key \in Range(Names(d))
  <2>1. PICK i \in DOMAIN d : d[i].name = Key
    BY ConstantsAssumption
  <2> QED
    BY <2>1 DEF Names, Range
<1> QED
  BY <1>2, <1>4, <1>5, <1>6

LEMMA KeyTypes == Key \in Columns /\ PrimaryKeys \in Seq(Columns) /\ Len(PrimaryKeys) = 1
BY ConstantsAssumption DEF PrimaryKeys

LEMMA ParametersTypes ==
  ASSUME NEW d \in Models, NEW kind \in Kinds
  PROVE  Parameters(kind, d) \in Seq(Columns)
<1>1. Names(d) \o PrimaryKeys \in Seq(Columns)
  BY NamesTypes, KeyTypes, ConcatProperties
<1> QED
  BY <1>1, NamesTypes, KeyTypes DEF Parameters, Kinds

\* A field has a value of its column or NULL, the key column is in any model.
LEMMA FieldTypes ==
  ASSUME NEW r \in LoggedRecords, NEW image \in Images, NEW c \in Columns
  PROVE  /\ Field(r, image, c) \in Values \cup {NULL}
         /\ c \in Range(Names(r.model)) => Field(r, image, c) = image[c]
BY DEF Field, Images

Fields(r, image, cols) == [i \in DOMAIN cols |-> Field(r, image, cols[i])]

LEMMA FieldsTypes ==
  ASSUME NEW r \in LoggedRecords, NEW image \in Images, NEW cols \in Seq(Columns)
  PROVE  /\ Fields(r, image, cols) \in Seq(Values \cup {NULL})
         /\ Len(Fields(r, image, cols)) = Len(cols)
         /\ \A i \in 1 .. Len(cols) : Fields(r, image, cols)[i] = Field(r, image, cols[i])
<1>1. DOMAIN cols = 1 .. Len(cols) /\ Len(cols) \in Nat
  OBVIOUS
<1>2. Fields(r, image, cols) = [i \in 1 .. Len(cols) |-> Field(r, image, cols[i])]
  BY <1>1 DEF Fields
<1>3. \A i \in 1 .. Len(cols) : Field(r, image, cols[i]) \in Values \cup {NULL}
  BY FieldTypes
<1> QED
  BY <1>1, <1>2, <1>3, IsASeq

\* What is passed to Exec, in terms of Fields.
LEMMA ArgumentsAreFields ==
  ASSUME NEW r \in LoggedRecords, NEW d
  PROVE  Arguments(r, d) =
           CASE r.kind = "insert" -> Fields(r, r.new, Names(d))
             [] r.kind = "update" ->
                  Fields(r, r.new, Names(d)) \o Fields(r, r.old, PrimaryKeys)
             [] r.kind = "delete" -> Fields(r, r.old, PrimaryKeys)
BY DEF Arguments, Fields

LEMMA ArgumentsTypes ==
  ASSUME NEW r \in LoggedRecords, NEW d \in Models
  PROVE  /\ Arguments(r, d) \in Seq(Values \cup {NULL})
         /\ Len(Arguments(r, d)) = Len(Parameters(r.kind, d))
<1>1. r.kind \in Kinds
  BY DEF LoggedRecords, Records
<1>2. Names(d) \in Seq(Columns) /\ PrimaryKeys \in Seq(Columns)
  BY NamesTypes, KeyTypes
<1>3. CASE r.kind = "insert"
  BY <1>2, <1>3, ArgumentsAreFields, FieldsTypes DEF LoggedRecords, Parameters
<1>4. CASE r.kind = "update"
  <2>1. r.new \in Images /\ r.old \in Images
    BY <1>4 DEF LoggedRecords
  <2> DEFINE new == Fields(r, r.new, Names(d))
             old == Fields(r, r.old, PrimaryKeys)
  <2>2. /\ Arguments(r, d) = new \o old
        /\ Parameters(r.kind, d) = Names(d) \o PrimaryKeys
    BY <1>4, ArgumentsAreFields DEF Parameters
  <2>3. /\ new \in Seq(Values \cup {NULL}) /\ Len(new) = Len(Names(d))
        /\ old \in Seq(Values \cup {NULL}) /\ Len(old) = Len(PrimaryKeys)
    BY <1>2, <2>1, FieldsTypes
  <2> HIDE DEF new, old
  <2>4. new \o old \in Seq(Values \cup {NULL}) /\ Len(new \o old) = Len(new) + Len(old)
    BY <2>3, ConcatProperties
  <2>5. Len(Names(d) \o PrimaryKeys) = Len(Names(d)) + Len(PrimaryKeys)
    BY <1>2, ConcatProperties
  <2> QED
    BY <2>2, <2>3, <2>4, <2>5
<1>5. CASE r.kind = "delete"
  BY <1>2, <1>5, ArgumentsAreFields, FieldsTypes DEF LoggedRecords, Parameters
<1> QED
  BY <1>1, <1>3, <1>4, <1>5 DEF Kinds

-----------------------------------------------------------------------------
(* Types.                                                                  *)

LEMMA PositionIsOne ==
  ASSUME NEW cols, NEW c \in Range(cols)
  PROVE  Position(c, cols) \in DOMAIN cols /\ cols[Position(c, cols)] = c
<1>1. \E i \in DOMAIN cols : cols[i] = c
  BY DEF Range
<1> QED
  BY <1>1 DEF Position

LEMMA SetTypes ==
  ASSUME NEW r \in Rows, NEW cols \in Seq(Columns),
         NEW args \in Seq(Values \cup {NULL}), Len(cols) <= Len(args)
  PROVE  Set(r, cols, args) \in Rows
<1>1. ASSUME NEW c \in Columns, c \in Range(cols)
      PROVE  args[Position(c, cols)] \in Values \cup {NULL}
  <2>1. Position(c, cols) \in 1 .. Len(args)
    BY <1>1, PositionIsOne
  <2> QED
    BY <2>1
<1> QED
  BY <1>1 DEF Set, Rows

\* Whatever a statement does, the target stays a table with a primary key.
LEMMA ResultIsTable ==
  ASSUME target \subseteq Rows, KeyIsUnique(target), NEW kind \in Kinds,
         NEW stmt \in Seq(Columns), NEW args \in Seq(Values \cup {NULL}),
         Len(stmt) = Len(args), NEW rows \in Result(kind, stmt, args)
  PROVE  rows \subseteq Rows /\ KeyIsUnique(rows)
<1>1. CASE kind = "insert"
  <2>1. NullRow \in Rows
    BY DEF NullRow, Rows
  <2>2. Set(NullRow, stmt, args) \in Rows
    BY <2>1, SetTypes
  <2>3. rows \in Allowed(target, {Set(NullRow, stmt, args)})
    BY <1>1 DEF Result
  <2> QED
    BY <2>2, <2>3 DEF Allowed
<1>2. CASE kind = "update"
  <2> DEFINE matched == {r \in target : r[Key] = Last(args)}
             changed == {Set(r, Front(stmt), args) : r \in matched}
  <2>1. Front(stmt) \in Seq(Columns) /\ Len(Front(stmt)) <= Len(args)
    <3>1. \A i \in 1 .. Len(stmt) - 1 : stmt[i] \in Columns
      OBVIOUS
    <3> QED
      BY <3>1, SubSeqProperties DEF Front
  <2>2. changed \subseteq Rows
    BY <2>1, SetTypes
  <2>3. rows \in Allowed(target \ matched, changed)
    BY <1>2 DEF Result
  <2> QED
    BY <2>2, <2>3 DEF Allowed
<1>3. CASE kind = "delete"
  BY <1>3 DEF Result, KeyIsUnique
<1> QED
  BY <1>1, <1>2, <1>3 DEF Kinds

\* Between two passes nothing is counted.
CountOK == pc \in {"select", "fetch"} => count = 0

TypeInv == TypeOK /\ ListsOK /\ CountOK

LEMMA StatementTypes ==
  ASSUME TypeInv, Executing
  PROVE  CurrentStmt \in Seq(Columns)
<1>1. Current.kind \in Kinds
  BY CurrentIsRecord DEF TypeInv
<1> QED
  BY <1>1, ParametersTypes DEF CurrentStmt, Statement, TypeInv, TypeOK

LEMMA OutcomeIsTable ==
  ASSUME TypeInv, Executing, NEW rows \in Outcomes
  PROVE  rows \subseteq Rows /\ KeyIsUnique(rows)
<1>1. Current \in LoggedRecords /\ Current.kind \in Kinds
  BY CurrentIsRecord DEF TypeInv
<1>2. CurrentStmt \in Seq(Columns)
  BY StatementTypes
<1>3. CurrentArgs \in Seq(Values \cup {NULL})
  BY <1>1, ArgumentsTypes DEF CurrentArgs, TypeInv, TypeOK
<1>4. Len(CurrentStmt) = Len(CurrentArgs) /\ rows \in Result(Current.kind, CurrentStmt, CurrentArgs)
  BY DEF Outcomes, Accepts
<1> QED
  BY <1>1, <1>2, <1>3, <1>4, ResultIsTable DEF TypeInv, TypeOK

LEMMA TypesPreserved ==
  ASSUME TypeInv, [Next]_vars
  PROVE  TypeInv'
<1> USE DEF TypeInv
<1>1. ListsOK'
  BY ListsPreserved
<1>2. {pending, batch}' \subseteq Seq(Records) /\ model' \in Models /\ source' \in Tables
  BY <1>1 DEF ListsOK, LoggedRecords
<1> SUFFICES TypeOK' /\ CountOK'
  BY <1>1
<1> USE DEF TypeOK, CountOK
<1>3. CASE Put
  BY <1>2, <1>3 DEF Put, syncer
<1>4. ASSUME NEW kind, NEW old, NEW new, Log(kind, old, new),
             keyChanged' \in BOOLEAN
      PROVE  TypeOK' /\ CountOK'
  <2>1. logged' \in 0 .. MaxLog
    BY <1>4, ConstantsAssumption DEF Log
  <2> QED
    BY <1>2, <1>4, <2>1 DEF Log, syncer, history
<1>5. CASE LogInsert \/ LogUpdate \/ LogDelete
  BY <1>4, <1>5 DEF LogInsert, LogUpdate, LogDelete
<1>6. CASE StartSyncer
  BY <1>2, <1>6 DEF StartSyncer, FreshStmts, NewStmts, NoBatch, stored, history, PCs
<1>7. CASE StopSyncer
  BY <1>2, <1>7 DEF StopSyncer, stored, history, PCs
<1>8. CASE Tick
  BY <1>2, <1>8 DEF Tick, stored, history, PCs
<1>9. CASE Fetch
  BY <1>2, <1>9 DEF Fetch, stored, history, PCs
<1>10. ASSUME Executing, stmts' = [stmts EXCEPT ![Current.kind] = CurrentStmt]
       PROVE  stmts' \in [Kinds -> Seq(Columns)]
  BY <1>10, StatementTypes
<1>11. ASSUME Executing, target' \in {target} \cup Outcomes
       PROVE  target' \subseteq Rows /\ KeyIsUnique(target')
  BY <1>11, OutcomeIsTable
<1>12. CASE ExecuteRecord
  <2>1. count' \in 0 .. Len(batch') /\ Executing
    BY <1>12 DEF ExecuteRecord, Executing
  <2> QED
    BY <1>2, <1>10, <1>11, <1>12, <2>1 DEF ExecuteRecord, Executing, stored, history
<1>13. CASE DecodeError
  BY <1>2, <1>13 DEF DecodeError, Block, stored, PCs
<1>14. CASE StatementError
  BY <1>2, <1>10, <1>14 DEF StatementError, Block, stored, PCs
<1>15. CASE ExecuteFails
  BY <1>2, <1>11, <1>15 DEF ExecuteFails, Block, stored, PCs
<1>16. CASE RemoveBatch
  BY <1>2, <1>16 DEF RemoveBatch, NoBatch, history, PCs
<1>17. CASE Crash
  BY <1>2, <1>17 DEF Crash, NoBatch, NewStmts, PCs
<1>18. CASE UNCHANGED vars
  BY <1>2, <1>18 DEF vars, stored, syncer, history
<1> QED
  BY <1>3, <1>5, <1>6, <1>7, <1>8, <1>9, <1>12, <1>13, <1>14, <1>15, <1>16, <1>17, <1>18
     DEF Next, Others, Work

-----------------------------------------------------------------------------
(* What one statement does to the target.                                  *)

\* All that the models so far have had is in model d and in the record.
Covers(r, d) ==
  /\ Key \in synced
  /\ synced \subseteq Range(Names(d))
  /\ synced \subseteq Range(Names(r.model))

LEMMA CoveredAreColumns ==
  ASSUME NEW r \in LoggedRecords, NEW d \in Models, Covers(r, d)
  PROVE  synced \subseteq Columns
<1>1. \A i \in DOMAIN Names(d) : Names(d)[i] \in Columns
  BY NamesTypes
<1> QED
  BY <1>1 DEF Covers, Range

LEMMA SetExact ==
  ASSUME NEW r \in LoggedRecords, NEW image \in Images, NEW d \in Models,
         Covers(r, d), NEW args,
         \A i \in DOMAIN Names(d) : args[i] = Field(r, image, Names(d)[i]),
         NEW x
  PROVE  SameOn(Set(x, Names(d), args), image)
<1> SUFFICES ASSUME NEW c \in synced
             PROVE  Set(x, Names(d), args)[c] = image[c]
  BY DEF SameOn
<1>1. c \in Columns /\ c \in Range(Names(d)) /\ c \in Range(Names(r.model))
  BY CoveredAreColumns DEF Covers
<1>2. /\ Position(c, Names(d)) \in DOMAIN Names(d)
      /\ Names(d)[Position(c, Names(d))] = c
  BY <1>1, PositionIsOne
<1>3. args[Position(c, Names(d))] = image[c]
  BY <1>1, <1>2, FieldTypes
<1> QED
  BY <1>1, <1>3 DEF Set

LEMMA LastOfConcat ==
  ASSUME NEW S, NEW s \in Seq(S), NEW t \in Seq(S), Len(t) = 1
  PROVE  Last(s \o t) = t[1]
<1>0. Len(s \o t) = Len(s) + Len(t)
  BY ConcatProperties, Zenon
<1>1. Len(s) \in Nat /\ Len(s \o t) = Len(s) + 1
  BY <1>0
<1>2. \A i \in 1 .. Len(s) + Len(t) :
        (s \o t)[i] = IF i <= Len(s) THEN s[i] ELSE t[i - Len(s)]
  BY ConcatProperties, Zenon
<1>3. (s \o t)[Len(s) + 1] = t[1]
  BY <1>1, <1>2
<1> QED
  BY <1>1, <1>3 DEF Last

\* The key is the last argument of an update, and its only one of a delete.
LEMMA KeyArgument ==
  ASSUME NEW r \in LoggedRecords, NEW d \in Models, Covers(r, d),
         r.kind # "insert"
  PROVE  Last(Arguments(r, d)) = r.old[Key]
<1>1. r.old \in Images
  BY DEF LoggedRecords
<1>2. Field(r, r.old, Key) = r.old[Key]
  BY <1>1, KeyTypes, FieldTypes DEF Covers
<1> DEFINE old == Fields(r, r.old, PrimaryKeys)
<1>3. old \in Seq(Values \cup {NULL}) /\ Len(old) = 1 /\ old[1] = r.old[Key]
  <2>1. PrimaryKeys[1] = Key
    BY DEF PrimaryKeys
  <2>2. 1 \in 1 .. Len(PrimaryKeys)
    BY KeyTypes
  <2> QED
    BY <1>1, <1>2, <2>1, <2>2, KeyTypes, FieldsTypes
<1>4. CASE r.kind = "delete"
  BY <1>3, <1>4, ArgumentsAreFields DEF Last
<1>5. CASE r.kind = "update"
  <2> DEFINE new == Fields(r, r.new, Names(d))
  <2>1. new \in Seq(Values \cup {NULL})
    BY <1>5, NamesTypes, FieldsTypes DEF LoggedRecords
  <2>2. Arguments(r, d) = new \o old
    BY <1>5, ArgumentsAreFields
  <2>3. Last(new \o old) = old[1]
    <3> HIDE DEF new, old
    <3> QED
      BY <1>3, <2>1, LastOfConcat
  <2> QED
    BY <1>3, <2>2, <2>3
<1> QED
  BY <1>4, <1>5 DEF LoggedRecords, Records, Kinds

\* A sequence to which one element is added at the end.
LEMMA OneMore ==
  ASSUME NEW S, NEW q \in Seq(S), NEW r \in Seq(S), Len(r) = 1
  PROVE  /\ q \o r \in Seq(S)
         /\ Len(q \o r) = Len(q) + 1
         /\ Len(q) \in Nat
         /\ \A i \in 1 .. Len(q) : (q \o r)[i] = q[i]
<1>0. q \o r \in Seq(S) /\ Len(q \o r) = Len(q) + Len(r)
  BY ConcatProperties, Zenon
<1>1. Len(q) \in Nat
  OBVIOUS
<1>2. \A i \in 1 .. Len(q) + Len(r) :
        (q \o r)[i] = IF i <= Len(q) THEN q[i] ELSE r[i - Len(q)]
  BY ConcatProperties, Zenon
<1>3. \A i \in 1 .. Len(q) : (q \o r)[i] = q[i]
  <2> SUFFICES ASSUME NEW i \in 1 .. Len(q)
               PROVE  (q \o r)[i] = q[i]
    OBVIOUS
  <2>1. i \in 1 .. Len(q) + Len(r) /\ i <= Len(q)
    BY <1>1
  <2> QED
    BY <1>2, <2>1
<1> QED
  BY <1>0, <1>1, <1>3

\* The columns of an update and their arguments are those of the new image.
LEMMA UpdateArguments ==
  ASSUME NEW r \in LoggedRecords, NEW d \in Models, r.kind = "update"
  PROVE  /\ Front(Parameters("update", d)) = Names(d)
         /\ \A i \in DOMAIN Names(d) : Arguments(r, d)[i] = Field(r, r.new, Names(d)[i])
<1>1. /\ Names(d) \in Seq(Columns) /\ PrimaryKeys \in Seq(Columns)
      /\ Len(PrimaryKeys) = 1 /\ DOMAIN Names(d) = 1 .. Len(Names(d))
  BY NamesTypes, KeyTypes
<1>2. Front(Parameters("update", d)) = Names(d)
  <2> DEFINE s == Names(d)  stmt == s \o PrimaryKeys
  <2>1. stmt \in Seq(Columns) /\ Len(stmt) = Len(s) + 1 /\ Len(s) \in Nat
        /\ \A i \in 1 .. Len(s) : stmt[i] = s[i]
    BY <1>1, OneMore
  <2>2. Parameters("update", d) = stmt
    BY DEF Parameters
  <2> HIDE DEF s, stmt
  <2>3. SubSeq(stmt, 1, Len(s)) \in Seq(Columns) /\ Len(SubSeq(stmt, 1, Len(s))) = Len(s)
        /\ \A i \in 1 .. Len(s) : SubSeq(stmt, 1, Len(s))[i] = s[i]
    BY <2>1
  <2>4. s \in Seq(Columns)
    BY <1>1 DEF s
  <2>5. SubSeq(stmt, 1, Len(s)) = s
    BY <2>3, <2>4, SeqEqual
  <2>6. Len(stmt) - 1 = Len(s)
    BY <2>1
  <2> QED
    BY <2>2, <2>5, <2>6 DEF Front, s
<1>3. ASSUME NEW i \in DOMAIN Names(d)
      PROVE  Arguments(r, d)[i] = Field(r, r.new, Names(d)[i])
  <2> DEFINE new == Fields(r, r.new, Names(d))
             old == Fields(r, r.old, PrimaryKeys)
  <2>1. r.new \in Images /\ r.old \in Images
    BY DEF LoggedRecords
  <2>2. /\ new \in Seq(Values \cup {NULL}) /\ Len(new) = Len(Names(d))
        /\ old \in Seq(Values \cup {NULL})
        /\ new[i] = Field(r, r.new, Names(d)[i])
    BY <1>1, <2>1, FieldsTypes
  <2>3. Arguments(r, d) = new \o old
    BY ArgumentsAreFields
  <2>4. i \in 1 .. Len(new)
    BY <1>1, <2>2
  <2> HIDE DEF new, old
  <2>5. (new \o old)[i] = new[i]
    BY <2>2, <2>4
  <2> QED
    BY <2>2, <2>3, <2>5
<1> QED
  BY <1>2, <1>3

LEMMA InsertResult ==
  ASSUME NEW r \in LoggedRecords, NEW d \in Models, Covers(r, d), r.kind = "insert"
  PROVE  \E new \in Rows :
           /\ SameOn(new, r.new)
           /\ Result(r.kind, Parameters(r.kind, d), Arguments(r, d)) = Allowed(target, {new})
<1> DEFINE args == Arguments(r, d)
           new == Set(NullRow, Names(d), args)
<1>1. args \in Seq(Values \cup {NULL}) /\ Len(args) = Len(Parameters(r.kind, d))
  BY ArgumentsTypes
<1>2. \A i \in DOMAIN Names(d) : args[i] = Field(r, r.new, Names(d)[i])
  BY ArgumentsAreFields, NamesTypes, FieldsTypes DEF LoggedRecords
<1>3. SameOn(new, r.new)
  BY <1>2, SetExact DEF LoggedRecords
<1>4. new \in Rows
  <2>1. NullRow \in Rows
    BY DEF NullRow, Rows
  <2>2. Names(d) \in Seq(Columns) /\ Len(Names(d)) <= Len(args)
    BY <1>1, NamesTypes DEF Parameters
  <2> QED
    BY <1>1, <2>1, <2>2, SetTypes
<1> QED
  BY <1>3, <1>4 DEF Result, Parameters

LEMMA UpdateResult ==
  ASSUME target \subseteq Rows, KeyIsUnique(target),
         NEW r \in LoggedRecords, NEW d \in Models, Covers(r, d), r.kind = "update"
  PROVE  LET result == Result(r.kind, Parameters(r.kind, d), Arguments(r, d))
         IN  \/ /\ \A x \in target : x[Key] # r.old[Key]
                /\ result = Allowed(target, {})
             \/ \E x \in target, new \in Rows :
                  /\ x[Key] = r.old[Key]
                  /\ SameOn(new, r.new)
                  /\ result = Allowed(target \ {x}, {new})
<1> DEFINE args == Arguments(r, d)
           matched == {x \in target : x[Key] = r.old[Key]}
           new(x) == Set(x, Names(d), args)
           changed == {new(x) : x \in matched}
           result == Result(r.kind, Parameters(r.kind, d), args)
<1>1. args \in Seq(Values \cup {NULL}) /\ Len(args) = Len(Parameters(r.kind, d))
  BY ArgumentsTypes
<1>2. result = Allowed(target \ matched, changed)
  BY KeyArgument, UpdateArguments DEF Result
<1>3. CASE matched = {}
  <2>1. changed = {} /\ target \ matched = target
    BY <1>3
  <2> QED
    BY <1>2, <1>3, <2>1
<1>4. ASSUME NEW x \in matched
      PROVE  /\ x \in target /\ new(x) \in Rows
             /\ x[Key] = r.old[Key] /\ SameOn(new(x), r.new)
             /\ result = Allowed(target \ {x}, {new(x)})
  <2>1. matched = {x}
    BY DEF KeyIsUnique
  <2>2. changed = {new(x)}
    BY <2>1
  <2>3. SameOn(new(x), r.new)
    BY UpdateArguments, SetExact DEF LoggedRecords
  <2>4. new(x) \in Rows
    <3>1. Names(d) \in Seq(Columns) /\ Len(Names(d)) \in Nat
      BY NamesTypes
    <3>2. Len(Names(d) \o PrimaryKeys) = Len(Names(d)) + Len(PrimaryKeys)
      BY <3>1, KeyTypes, ConcatProperties
    <3>3. Len(Names(d)) <= Len(args)
      BY <1>1, <3>1, <3>2, KeyTypes DEF Parameters
    <3> QED
      BY <1>1, <3>1, <3>3, SetTypes
  <2> QED
    BY <1>2, <2>1, <2>2, <2>3, <2>4
<1>5. ASSUME NEW x \in matched
      PROVE  \E y \in target, z \in Rows :
               /\ y[Key] = r.old[Key]
               /\ SameOn(z, r.new)
               /\ result = Allowed(target \ {y}, {z})
  <2>1. /\ x \in target /\ new(x) \in Rows
        /\ x[Key] = r.old[Key] /\ SameOn(new(x), r.new)
        /\ result = Allowed(target \ {x}, {new(x)})
    BY <1>4
  <2> HIDE DEF new, result
  <2> QED
    BY <2>1
<1> QED
  BY <1>3, <1>5

LEMMA DeleteResult ==
  ASSUME NEW r \in LoggedRecords, NEW d \in Models, Covers(r, d), r.kind = "delete"
  PROVE  Result(r.kind, Parameters(r.kind, d), Arguments(r, d)) =
           {{x \in target : x[Key] # r.old[Key]}}
BY KeyArgument DEF Result

\* The rows that a record leaves in the target, if it is not refused.
Effect(r, rows) ==
  \/ /\ r.kind = "insert"
     /\ \E new \in Rows : SameOn(new, r.new) /\ rows = target \cup {new}
  \/ /\ r.kind = "update"
     /\ \A x \in target : x[Key] # r.old[Key]
     /\ rows = target
  \/ /\ r.kind = "update"
     /\ \E x \in target, new \in Rows :
          /\ x[Key] = r.old[Key]
          /\ SameOn(new, r.new)
          /\ rows = (target \ {x}) \cup {new}
  \/ /\ r.kind = "delete"
     /\ rows = {x \in target : x[Key] # r.old[Key]}

LEMMA ResultEffect ==
  ASSUME target \subseteq Rows, KeyIsUnique(target),
         NEW r \in LoggedRecords, NEW d \in Models, Covers(r, d),
         NEW rows \in Result(r.kind, Parameters(r.kind, d), Arguments(r, d))
  PROVE  Effect(r, rows)
<1>1. CASE r.kind = "insert"
  BY <1>1, InsertResult DEF Allowed, Effect
<1>2. CASE r.kind = "update"
  <2> DEFINE result == Result(r.kind, Parameters(r.kind, d), Arguments(r, d))
  <2>1. \/ /\ \A x \in target : x[Key] # r.old[Key]
           /\ result = Allowed(target, {})
        \/ \E x \in target, new \in Rows :
             /\ x[Key] = r.old[Key]
             /\ SameOn(new, r.new)
             /\ result = Allowed(target \ {x}, {new})
    BY <1>2, UpdateResult
  <2>2. rows \in result
    OBVIOUS
  <2> HIDE DEF result
  <2> QED
    BY <1>2, <2>1, <2>2 DEF Allowed, Effect
<1>3. CASE r.kind = "delete"
  BY <1>3, DeleteResult DEF Effect
<1> QED
  BY <1>1, <1>2, <1>3 DEF LoggedRecords, Records, Kinds

-----------------------------------------------------------------------------
(* One record, one key: the target follows the source.                     *)

LEMMA BothKeysAreUnique ==
  ASSUME NEW before \in Tables, NEW after \in Tables, NEW r \in LoggedRecords,
         Becomes(r, before, after)
  PROVE  /\ KeyIsUnique(before) /\ KeyIsUnique(after)
         /\ r.kind = "insert" => \A s \in before : s[Key] # r.new[Key]
         /\ r.kind # "insert" => \A s \in before : s[Key] = r.old[Key] <=> s = r.old
         /\ r.kind = "update" =>
              \A s \in before \ {r.old} : s[Key] # r.new[Key]
<1>1. KeyIsUnique(before) /\ KeyIsUnique(after)
  BY DEF Tables
<1>2. CASE r.kind = "insert"
  BY <1>1, <1>2 DEF Becomes, KeyIsUnique
<1>3. CASE r.kind = "update"
  BY <1>1, <1>3 DEF Becomes, KeyIsUnique
<1>4. CASE r.kind = "delete"
  BY <1>1, <1>4 DEF Becomes, KeyIsUnique
<1> QED
  BY <1>1, <1>2, <1>3, <1>4 DEF LoggedRecords, Records, Kinds

LEMMA SameKey ==
  ASSUME Key \in synced, NEW r, NEW s, SameOn(r, s)
  PROVE  r[Key] = s[Key] /\ SameOn(s, r)
BY DEF SameOn

\* A target that agrees with the source before the change agrees with it
\* after: on any key, if it does so on the row that an update is to find.
LEMMA StepAgrees ==
  ASSUME Key \in synced, KeyIsUnique(target),
         NEW before \in Tables, NEW after \in Tables, NEW r \in LoggedRecords,
         Becomes(r, before, after), NEW rows, Effect(r, rows),
         NEW k, Agree(target, before, k),
         r.kind = "update" => \/ Agree(target, before, r.old[Key])
                              \/ r.old[Key] = r.new[Key]
  PROVE  Agree(rows, after, k)
<1> USE DEF Agree, Within
<1>1. CASE r.kind = "insert"
  <2>1. PICK new \in Rows : SameOn(new, r.new) /\ rows = target \cup {new}
    BY <1>1 DEF Effect
  <2>2. after = before \cup {r.new} /\ new[Key] = r.new[Key] /\ SameOn(r.new, new)
    BY <1>1, <2>1, SameKey DEF Becomes
  <2> QED
    BY <2>1, <2>2
<1>2. CASE r.kind = "update" /\ \A x \in target : x[Key] # r.old[Key]
  <2>1. rows = target
    BY <1>2 DEF Effect
  <2>2. r.old \in before /\ after = (before \ {r.old}) \cup {r.new}
    BY <1>2 DEF Becomes
  <2>3. ~Agree(target, before, r.old[Key])
    BY <1>2, <2>2, SameKey
  <2>4. r.old[Key] = r.new[Key] /\ k # r.old[Key]
    BY <1>2, <2>3
  <2>5. \A s : s[Key] = k => (s \in after <=> s \in before)
    BY <2>2, <2>4
  <2>6. \A x, s : SameOn(x, s) => x[Key] = s[Key]
    BY SameKey
  <2> QED
    BY <2>1, <2>5, <2>6
<1>3. CASE r.kind = "update" /\ ~\A x \in target : x[Key] # r.old[Key]
  <2>1. PICK x \in target, new \in Rows :
          /\ x[Key] = r.old[Key] /\ SameOn(new, r.new)
          /\ rows = (target \ {x}) \cup {new}
    BY <1>3 DEF Effect
  <2>2. after = (before \ {r.old}) \cup {r.new} /\ new[Key] = r.new[Key] /\ SameOn(r.new, new)
    BY <1>3, <2>1, SameKey DEF Becomes
  <2>3. \A s \in before : s[Key] = r.old[Key] <=> s = r.old
    BY <1>3, BothKeysAreUnique
  <2>4. \A z \in target : z[Key] = r.old[Key] <=> z = x
    BY <2>1 DEF KeyIsUnique
  <2>5. \A z, s : SameOn(z, s) => z[Key] = s[Key]
    BY SameKey
  <2>6. ASSUME NEW z \in rows, z[Key] = k
        PROVE  \E s \in after : SameOn(z, s)
    <3>1. CASE z = new
      BY <2>1, <2>2, <3>1
    <3>2. CASE z \in target \ {x}
      <4>1. PICK s \in before : SameOn(z, s)
        BY <2>6, <3>2
      <4>2. s # r.old
        BY <2>3, <2>4, <2>5, <3>2, <4>1
      <4> QED
        BY <2>2, <4>1, <4>2
    <3> QED
      BY <2>1, <3>1, <3>2
  <2>7. ASSUME NEW s \in after, s[Key] = k
        PROVE  \E z \in rows : SameOn(s, z)
    <3>1. CASE s = r.new
      BY <2>1, <2>2, <3>1
    <3>2. CASE s \in before \ {r.old}
      <4>1. PICK z \in target : SameOn(s, z)
        BY <2>7, <3>2
      <4>2. z # x
        BY <2>3, <2>4, <2>5, <3>2, <4>1
      <4> QED
        BY <2>1, <4>1, <4>2
    <3> QED
      BY <2>2, <3>1, <3>2
  <2> QED
    BY <2>6, <2>7
<1>4. CASE r.kind = "delete"
  <2>1. rows = {x \in target : x[Key] # r.old[Key]} /\ after = before \ {r.old}
    BY <1>4 DEF Effect, Becomes
  <2>2. \A s \in before : s[Key] = r.old[Key] <=> s = r.old
    BY <1>4, BothKeysAreUnique
  <2>3. \A z, s : SameOn(z, s) => z[Key] = s[Key]
    BY SameKey
  <2> QED
    BY <2>1, <2>2, <2>3
<1> QED
  BY <1>1, <1>2, <1>3, <1>4 DEF LoggedRecords, Records, Kinds

\* A target that is further than this record, on some key, stays where it is
\* or gets to where the record leads, as long as no key is changed.
LEMMA RepeatAgrees ==
  ASSUME Key \in synced, KeyIsUnique(target), NEW rows, KeyIsUnique(rows),
         NEW before \in Tables, NEW after \in Tables, NEW r \in LoggedRecords,
         Becomes(r, before, after), Effect(r, rows),
         r.kind = "update" => r.old[Key] = r.new[Key],
         NEW k, NEW others, Agree(target, others, k)
  PROVE  Agree(rows, others, k) \/ Agree(rows, after, k)
<1> USE DEF Agree, Within
<1>0. \A z, s : SameOn(z, s) => z[Key] = s[Key]
  BY SameKey
<1>1. CASE r.kind = "insert"
  <2>1. PICK new \in Rows : SameOn(new, r.new) /\ rows = target \cup {new}
    BY <1>1 DEF Effect
  <2>2. after = before \cup {r.new} /\ new[Key] = r.new[Key] /\ SameOn(r.new, new)
    BY <1>1, <2>1, SameKey DEF Becomes
  <2>3. CASE k # r.new[Key]
    BY <2>1, <2>2, <2>3
  <2>4. CASE k = r.new[Key]
    <3>1. \A z \in rows : z[Key] = k => z = new
      BY <2>1, <2>2, <2>4 DEF KeyIsUnique
    <3>2. \A s \in after : s[Key] = k => s = r.new
      BY <1>1, <2>2, <2>4, BothKeysAreUnique
    <3> QED
      BY <2>1, <2>2, <3>1, <3>2
  <2> QED
    BY <2>3, <2>4
<1>2. CASE r.kind = "update" /\ \A x \in target : x[Key] # r.old[Key]
  BY <1>2 DEF Effect
<1>3. CASE r.kind = "update" /\ ~\A x \in target : x[Key] # r.old[Key]
  <2>1. PICK x \in target, new \in Rows :
          /\ x[Key] = r.old[Key] /\ SameOn(new, r.new)
          /\ rows = (target \ {x}) \cup {new}
    BY <1>3 DEF Effect
  <2>2. after = (before \ {r.old}) \cup {r.new} /\ new[Key] = r.new[Key] /\ SameOn(r.new, new)
    BY <1>3, <2>1, SameKey DEF Becomes
  <2>3. CASE k # r.new[Key]
    <3>1. x[Key] # k /\ new[Key] # k
      BY <1>3, <2>1, <2>2, <2>3
    <3>2. \A z : z[Key] = k => (z \in rows <=> z \in target)
      BY <2>1, <3>1
    <3> QED
      BY <1>0, <3>2
  <2>4. CASE k = r.new[Key]
    <3>1. \A z \in rows : z[Key] = k => z = new
      BY <2>1, <2>2, <2>4 DEF KeyIsUnique
    <3>2. \A s \in after : s[Key] = k => s = r.new
      BY <1>3, <2>2, <2>4, BothKeysAreUnique
    <3> QED
      BY <2>1, <2>2, <3>1, <3>2
  <2> QED
    BY <2>3, <2>4
<1>4. CASE r.kind = "delete"
  <2>1. rows = {x \in target : x[Key] # r.old[Key]} /\ after = before \ {r.old}
    BY <1>4 DEF Effect, Becomes
  <2>2. CASE k # r.old[Key]
    BY <1>0, <2>1, <2>2
  <2>3. CASE k = r.old[Key]
    <3>1. \A s \in after : s[Key] # k
      BY <1>4, <2>1, <2>3, BothKeysAreUnique
    <3> QED
      BY <2>1, <2>3, <3>1
  <2> QED
    BY <2>2, <2>3
<1> QED
  BY <1>1, <1>2, <1>3, <1>4 DEF LoggedRecords, Records, Kinds

\* A target that agrees with the source before the change refuses no statement.
LEMMA NotRefused ==
  ASSUME target \subseteq Rows, KeyIsUnique(target),
         NEW before \in Tables, NEW after \in Tables,
         NEW r \in LoggedRecords, NEW d \in Models, Covers(r, d),
         Becomes(r, before, after), \A k \in Values : Agree(target, before, k)
  PROVE  Result(r.kind, Parameters(r.kind, d), Arguments(r, d)) # {}
<1> USE DEF Agree, Within
<1>0. \A z, s : SameOn(z, s) => z[Key] = s[Key]
  BY SameKey DEF Covers
<1>1. \A x \in target : \E s \in before : s[Key] = x[Key]
  <2>1. \A x \in target : x[Key] \in Values
    BY KeyTypes DEF Rows, KeyIsUnique
  <2> QED
    BY <1>0, <2>1
<1>2. r.kind # "delete" => r.new[Key] # NULL
  BY KeyTypes, ConstantsAssumption DEF LoggedRecords, Images
<1>3. ASSUME NEW rows \in SUBSET target, NEW new, r.kind # "delete",
             new[Key] = r.new[Key], \A x \in rows : x[Key] # r.new[Key]
      PROVE  Allowed(rows, {new}) # {}
  <2>1. {new} \cap rows = {}
    BY <1>3
  <2>2. KeyIsUnique(rows \cup {new})
    BY <1>2, <1>3 DEF KeyIsUnique
  <2> QED
    BY <2>1, <2>2 DEF Allowed
<1>4. CASE r.kind = "insert"
  <2>1. \A x \in target : x[Key] # r.new[Key]
    BY <1>1, <1>4, BothKeysAreUnique
  <2>2. PICK new \in Rows :
          /\ SameOn(new, r.new)
          /\ Result(r.kind, Parameters(r.kind, d), Arguments(r, d)) = Allowed(target, {new})
    BY <1>4, InsertResult
  <2> QED
    BY <1>0, <1>3, <1>4, <2>1, <2>2
<1>5. CASE r.kind = "update"
  <2> DEFINE result == Result(r.kind, Parameters(r.kind, d), Arguments(r, d))
  <2>1. \/ result = Allowed(target, {})
        \/ \E x \in target, new \in Rows :
             /\ x[Key] = r.old[Key]
             /\ SameOn(new, r.new)
             /\ result = Allowed(target \ {x}, {new})
    BY <1>5, UpdateResult
  <2>2. Allowed(target, {}) # {}
    BY DEF Allowed
  <2>3. ASSUME NEW x \in target, x[Key] = r.old[Key], NEW z \in target \ {x}
        PROVE  z[Key] # r.new[Key]
    <3>1. z[Key] # r.old[Key]
      BY <2>3 DEF KeyIsUnique
    <3>2. PICK s \in before : s[Key] = z[Key]
      BY <1>1
    <3>3. s # r.old
      BY <3>1, <3>2
    <3> QED
      BY <1>5, <3>2, <3>3, BothKeysAreUnique
  <2>4. \A x \in target : \A new : x[Key] = r.old[Key] /\ SameOn(new, r.new) =>
          Allowed(target \ {x}, {new}) # {}
    BY <1>0, <1>3, <1>5, <2>3
  <2> HIDE DEF result
  <2>5. result # {}
    BY <2>1, <2>2, <2>4
  <2> QED
    BY <2>5 DEF result
<1>6. CASE r.kind = "delete"
  BY <1>6, DeleteResult
<1> QED
  BY <1>4, <1>5, <1>6 DEF LoggedRecords, Records, Kinds


-----------------------------------------------------------------------------
(* The records of the list.                                                *)

StepInv == TypeInv /\ CacheIsFresh /\ RecordsOK

\* The key column is in whatever model is put.
LEMMA KeyStaysSynced ==
  ASSUME RecordsOK, NEW d \in Models
  PROVE  Key \in synced \cap Range(Names(d))
BY NamesTypes DEF RecordsOK

LEMMA LogKeepsRecords ==
  ASSUME StepInv, NEW kind, NEW old, NEW new, Log(kind, old, new),
         keyChanged \/ (kind = "update" /\ old[Key] # new[Key]) => keyChanged'
  PROVE  RecordsOK'
<1> DEFINE r == [kind |-> kind, old |-> old, new |-> new, model |-> model]
<1>1. pending' = Append(pending, r) /\ UNCHANGED <<model, synced, pc, batch, count>>
  BY DEF Log, Push, syncer, history
<1>2. pending \in Seq(LoggedRecords)
  BY DEF StepInv, TypeInv, ListsOK
<1>3. /\ Len(pending') = Len(pending) + 1 /\ Len(pending) \in Nat
      /\ pending'[Len(pending) + 1] = r
      /\ \A i \in 1 .. Len(pending) : pending'[i] = pending[i]
  BY <1>1, <1>2
<1>4. r.model = model /\ r.kind = kind /\ r.old = old /\ r.new = new
  OBVIOUS
<1> HIDE DEF r
<1>5. \A i \in 1 .. Len(pending') : i = Len(pending) + 1 \/ i \in 1 .. Len(pending)
  BY <1>3
<1>6. batch \in Seq(LoggedRecords)
  BY DEF StepInv, TypeInv, ListsOK
<1>7. Key \in synced' /\ synced' \subseteq Range(Names(model')) /\ count' <= Len(batch')
  BY <1>1 DEF StepInv, RecordsOK
<1>8. \A i \in 1 .. Len(pending') : synced' \subseteq Range(Names(pending'[i].model))
  BY <1>1, <1>3, <1>4, <1>5 DEF StepInv, RecordsOK
<1>9. \A i \in 1 .. Len(pending') :
        pending'[i].kind = "update" /\ ~keyChanged' =>
          pending'[i].old[Key] = pending'[i].new[Key]
  BY <1>3, <1>4, <1>5 DEF StepInv, RecordsOK
<1>10. pc' = "apply" => Len(batch') <= Len(pending')
         /\ \A i \in 1 .. Len(batch') : batch'[i] = pending'[i]
  BY <1>1, <1>3, <1>6 DEF StepInv, RecordsOK
<1> QED
  BY <1>7, <1>8, <1>9, <1>10 DEF RecordsOK

LEMMA RecordsPreserved ==
  ASSUME StepInv, [QuietPut \/ Others]_vars
  PROVE  RecordsOK'
<1> USE DEF StepInv, RecordsOK
<1>1. CASE QuietPut
  BY <1>1, KeyStaysSynced DEF QuietPut, Put, syncer
<1>2. CASE LogInsert \/ LogUpdate \/ LogDelete
  <2> HIDE DEF StepInv, RecordsOK
  <2>1. \E kind, old, new :
          /\ Log(kind, old, new)
          /\ keyChanged \/ (kind = "update" /\ old[Key] # new[Key]) => keyChanged'
    <3>1. CASE LogInsert
      BY <3>1 DEF LogInsert
    <3>2. CASE LogUpdate
      BY <3>2 DEF LogUpdate
    <3>3. CASE LogDelete
      BY <3>3 DEF LogDelete
    <3> QED
      BY <1>2, <3>1, <3>2, <3>3
  <2> QED
    BY <2>1, LogKeepsRecords
<1>3. CASE StartSyncer
  BY <1>3 DEF StartSyncer, NoBatch, stored, history
<1>4. CASE StopSyncer
  BY <1>4 DEF StopSyncer, stored, history
<1>5. CASE Tick
  BY <1>5 DEF Tick, stored, history
<1>6. CASE Fetch
  <2>1. count = 0
    BY <1>6 DEF Fetch, TypeInv, CountOK
  <2>2. Len(pending) \in Nat
    BY DEF TypeInv, ListsOK
  <2> QED
    BY <1>6, <2>1, <2>2 DEF Fetch, stored, history
<1>7. CASE ExecuteRecord
  <2>1. count' <= Len(batch')
    BY <1>7 DEF ExecuteRecord, Executing, TypeInv, ListsOK
  <2> QED
    BY <1>7, <2>1 DEF ExecuteRecord, stored, history
<1>8. CASE DecodeError
  BY <1>8 DEF DecodeError, Block, stored
<1>9. CASE StatementError
  BY <1>9 DEF StatementError, Block, stored
<1>10. CASE ExecuteFails
  BY <1>10 DEF ExecuteFails, Block, stored
<1>11. CASE RemoveBatch
  <2>1. pending \in Seq(LoggedRecords) /\ batch \in Seq(LoggedRecords) /\ count = Len(batch)
    BY <1>11 DEF RemoveBatch, TypeInv, ListsOK
  <2>2. pending' = SubSeq(pending, count + 1, Len(pending)) /\ count <= Len(pending)
    BY <1>11 DEF RemoveBatch, Rem
  <2>3. \A i \in 1 .. Len(pending') :
          i + count \in 1 .. Len(pending) /\ pending'[i] = pending[i + count]
    BY <2>1, <2>2
  <2>4. batch' = <<>> /\ count' = 0 /\ pc' = "select"
        /\ UNCHANGED <<model, synced, keyChanged>>
    BY <1>11 DEF RemoveBatch, NoBatch, history
  <2> QED
    BY <2>3, <2>4
<1>12. CASE Crash
  <2>1. pending' = pending \/ pending' = <<>>
    BY <1>12 DEF Crash, Persisted
  <2>2. model' \in Models /\ synced' = synced \cap Range(Names(model'))
    BY <1>12 DEF Crash, TypeInv, ListsOK
  <2>3. batch' = <<>> /\ count' = 0 /\ pc' = "off" /\ keyChanged' = keyChanged
    BY <1>12 DEF Crash, NoBatch
  <2> QED
    BY <2>1, <2>2, <2>3, KeyStaysSynced
<1>13. CASE UNCHANGED vars
  BY <1>13 DEF vars, stored, syncer, history
<1> QED
  BY <1>1, <1>2, <1>3, <1>4, <1>5, <1>6, <1>7, <1>8, <1>9, <1>10, <1>11, <1>12, <1>13
     DEF Others, Work

\* The record that is executed is one of the list, and covered by its model.
LEMMA CurrentIsPending ==
  ASSUME StepInv, Executing
  PROVE  /\ count + 1 \in 1 .. Len(pending)
         /\ Current = pending[count + 1]
         /\ Current \in LoggedRecords
         /\ passModel \in Models
         /\ Covers(Current, passModel)
         /\ Outcomes = Result(Current.kind, Parameters(Current.kind, passModel),
                              Arguments(Current, passModel))
<1>1. count + 1 \in 1 .. Len(batch) /\ pc = "apply"
  BY DEF StepInv, TypeInv, ListsOK, Executing
<1>2. count + 1 \in 1 .. Len(pending) /\ batch[count + 1] = pending[count + 1]
  BY <1>1 DEF StepInv, TypeInv, ListsOK, RecordsOK
<1>3. Current \in LoggedRecords /\ passModel \in Models /\ passModel = model
  BY <1>1, CurrentIsRecord DEF StepInv, TypeInv, TypeOK, CacheIsFresh
<1>4. Covers(Current, passModel)
  BY <1>2, <1>3 DEF StepInv, RecordsOK, Covers, Current
<1>5. CurrentStmt = Parameters(Current.kind, passModel)
  BY StatementIsFresh DEF StepInv, TypeInv, QuietInv
<1>6. Accepts(CurrentStmt, CurrentArgs)
  BY <1>3, <1>5, ArgumentsTypes DEF Accepts, CurrentArgs
<1> QED
  BY <1>2, <1>3, <1>4, <1>5, <1>6 DEF Current, Outcomes, CurrentArgs

-----------------------------------------------------------------------------
(* The target is a stage of the source.                                    *)

LEMMA DoneTypes ==
  ASSUME StepInv
  PROVE  Done \in 0 .. Len(pending) /\ Len(pending) \in Nat
BY DEF StepInv, TypeInv, ListsOK, RecordsOK, Done

\* No record is executed; a pass that ends early, or columns that are not
\* synced any more, take nothing away.
LEMMA StageKept ==
  ASSUME StepInv, TargetIsAStage,
         UNCHANGED <<source, target, pending, keyChanged>>,
         synced' \subseteq synced, Done' \in {0, Done}, lost' \in BOOLEAN, lost => lost',
         ~interrupted' => ~interrupted /\ Done' = Done
  PROVE  TargetIsAStage'
<1> SUFFICES ASSUME ~lost'
             PROVE  \E h \in Histories : Stages(h)'
  BY DEF TargetIsAStage, Histories
<1>1. PICK h \in Histories : Stages(h)
  BY DEF TargetIsAStage
<1>2. ASSUME NEW k \in Values, NEW p \in 0 .. Len(pending), Agree(target, h[p], k)
      PROVE  Agree(target, h[p], k)'
  BY <1>2 DEF Agree, Within, SameOn
<1>3. Done \in 0 .. Len(pending) /\ Len(pending) \in Nat
  BY DoneTypes
<1>4. ~interrupted' => \A k \in Values : Agree(target, h[Done], k)'
  BY <1>1, <1>2, <1>3 DEF Stages
<1>5. ~keyChanged' => \A k \in Values : \E p \in Done' .. Len(pending) : Agree(target, h[p], k)'
  <2> SUFFICES ASSUME ~keyChanged, NEW k \in Values
               PROVE  \E p \in Done' .. Len(pending) : Agree(target, h[p], k)'
    OBVIOUS
  <2>1. PICK p \in Done .. Len(pending) : Agree(target, h[p], k)
    BY <1>1 DEF Stages
  <2>2. p \in Done' .. Len(pending) /\ p \in 0 .. Len(pending)
    BY <1>3
  <2> QED
    BY <1>2, <2>1, <2>2
<1> QED
  BY <1>1, <1>4, <1>5 DEF Stages


LEMMA StageByLog ==
  ASSUME StepInv, TargetIsAStage, NEW kind, NEW old, NEW new, Log(kind, old, new),
         source' \in Tables,
         \A r : r.kind = kind /\ r.old = old /\ r.new = new => Becomes(r, source, source'),
         keyChanged => keyChanged'
  PROVE  TargetIsAStage'
<1> DEFINE r == [kind |-> kind, old |-> old, new |-> new, model |-> model]
           n == Len(pending)
<1>1. /\ pending' = Append(pending, r)
      /\ UNCHANGED <<target, synced, pc, count, lost, interrupted>>
  BY DEF Log, Push, syncer, history
<1>2. n \in Nat /\ Len(pending') = n + 1 /\ pending'[n + 1] = r
      /\ \A i \in 1 .. n : pending'[i] = pending[i]
  BY <1>1 DEF StepInv, TypeInv, ListsOK
<1>3. Becomes(r, source, source')
  OBVIOUS
<1>4. Done' = Done /\ Done \in 0 .. n
  BY <1>1, DoneTypes DEF Done
<1> SUFFICES ASSUME ~lost'
             PROVE  \E g \in [0 .. n + 1 -> Tables] : Stages(g)'
  BY <1>2 DEF TargetIsAStage, Histories
<1>5. PICK h \in Histories : Stages(h)
  BY <1>1 DEF TargetIsAStage
<1>6. PICK g \in [0 .. n + 1 -> Tables] :
        g = [i \in 0 .. n + 1 |-> IF i <= n THEN h[i] ELSE source']
  BY <1>2, <1>5 DEF Histories
<1>7. \A p \in 0 .. n : g[p] = h[p]
  BY <1>2, <1>6
<1>8. g[n + 1] = source'
  BY <1>2, <1>6
<1>9. h[n] = source
  BY <1>5 DEF Stages
<1> HIDE DEF r
<1>10. \A i \in 1 .. n + 1 : Becomes(pending'[i], g[i - 1], g[i])
  <2> SUFFICES ASSUME NEW i \in 1 .. n + 1
               PROVE  Becomes(pending'[i], g[i - 1], g[i])
    OBVIOUS
  <2>1. CASE i = n + 1
    BY <1>2, <1>3, <1>7, <1>8, <1>9, <2>1
  <2>2. CASE i \in 1 .. n
    <3>1. g[i] = h[i] /\ g[i - 1] = h[i - 1]
      BY <1>2, <1>7, <2>2
    <3> QED
      BY <1>2, <1>5, <2>2, <3>1 DEF Stages
  <2> QED
    BY <1>2, <2>1, <2>2
<1>11. ASSUME NEW k \in Values, NEW p \in 0 .. n, Agree(target, h[p], k)
       PROVE  Agree(target, g[p], k)'
  BY <1>1, <1>7, <1>11 DEF Agree, Within, SameOn
<1>12. ~interrupted' => \A k \in Values : Agree(target, g[Done], k)'
  BY <1>1, <1>4, <1>5, <1>11 DEF Stages
<1>13. ~keyChanged' =>
         \A k \in Values : \E p \in Done' .. n + 1 : Agree(target, g[p], k)'
  <2> SUFFICES ASSUME ~keyChanged, NEW k \in Values
               PROVE  \E p \in Done .. n + 1 : Agree(target, g[p], k)'
    BY <1>4
  <2>1. PICK p \in Done .. n : Agree(target, h[p], k)
    BY <1>5 DEF Stages
  <2>2. p \in 0 .. n /\ p \in Done .. n + 1
    BY <1>2, <1>4
  <2> QED
    BY <1>11, <2>1, <2>2
<1>14. Stages(g)'
  BY <1>2, <1>8, <1>10, <1>12, <1>13 DEF Stages
<1> QED
  BY <1>6, <1>14

\* The records that were executed leave the list, and their tables with them.
LEMMA StageByRemove ==
  ASSUME StepInv, TargetIsAStage, RemoveBatch
  PROVE  TargetIsAStage'
<1> DEFINE n == Len(pending)
<1>1. /\ pc = "apply" /\ pc' = "select" /\ count' = 0
      /\ pending' = SubSeq(pending, count + 1, n)
      /\ UNCHANGED <<source, target, synced, keyChanged, lost, interrupted>>
  BY DEF RemoveBatch, Rem, NoBatch, history
<1>2. n \in Nat /\ count \in 0 .. n /\ Done = count /\ Done' = 0
  BY <1>1, DoneTypes DEF Done
<1>3. /\ Len(pending') = n - count
      /\ \A i \in 1 .. n - count : pending'[i] = pending[i + count]
  <2>1. pending \in Seq(LoggedRecords)
    BY DEF StepInv, TypeInv, ListsOK
  <2> QED
    BY <1>1, <1>2, <2>1
<1> SUFFICES ASSUME ~lost
             PROVE  \E g \in [0 .. n - count -> Tables] : Stages(g)'
  BY <1>1, <1>3 DEF TargetIsAStage, Histories
<1>4. PICK h \in Histories : Stages(h)
  BY DEF TargetIsAStage
<1>5. PICK g \in [0 .. n - count -> Tables] :
        g = [i \in 0 .. n - count |-> h[i + count]]
  BY <1>2, <1>4 DEF Histories
<1>6. \A p \in count .. n : p - count \in 0 .. n - count /\ g[p - count] = h[p]
  BY <1>2, <1>5
<1>7. \A i \in 0 .. n - count : g[i] = h[i + count]
  BY <1>5
<1>8. g[n - count] = source'
  BY <1>1, <1>2, <1>4, <1>6 DEF Stages
<1>9. \A i \in 1 .. n - count : Becomes(pending'[i], g[i - 1], g[i])
  <2> SUFFICES ASSUME NEW i \in 1 .. n - count
               PROVE  Becomes(pending'[i], g[i - 1], g[i])
    OBVIOUS
  <2>1. PICK j \in 1 .. n : j = i + count
    BY <1>2
  <2>2. g[i] = h[j] /\ g[i - 1] = h[j - 1] /\ pending'[i] = pending[j]
    BY <1>2, <1>3, <1>7, <2>1
  <2>3. Becomes(pending[j], h[j - 1], h[j])
    BY <1>4 DEF Stages
  <2> QED
    BY <2>2, <2>3
<1>10. ASSUME NEW k \in Values, NEW p \in count .. n, NEW q, q = p - count,
              Agree(target, h[p], k)
       PROVE  Agree(target, g[q], k)'
  BY <1>1, <1>6, <1>10 DEF Agree, Within, SameOn
<1>11. ~interrupted' => \A k \in Values : Agree(target, g[Done], k)'
  <2> SUFFICES ASSUME ~interrupted, NEW k \in Values
               PROVE  Agree(target, g[0], k)'
    BY <1>1, <1>2
  <2>1. PICK p \in count .. n : p = count
    BY <1>2
  <2>2. Agree(target, h[p], k)
    BY <1>2, <1>4, <2>1 DEF Stages
  <2> QED
    BY <1>2, <1>10, <2>1, <2>2
<1>12. ~keyChanged' =>
         \A k \in Values : \E p \in Done' .. n - count : Agree(target, g[p], k)'
  <2> SUFFICES ASSUME ~keyChanged, NEW k \in Values
               PROVE  \E p \in 0 .. n - count : Agree(target, g[p], k)'
    BY <1>1, <1>2
  <2>1. PICK p \in count .. n : Agree(target, h[p], k)
    BY <1>2, <1>4 DEF Stages
  <2>2. PICK q \in 0 .. n - count : q = p - count
    BY <1>6
  <2>3. Agree(target, g[q], k)'
    BY <1>10, <2>1, <2>2
  <2> QED
    BY <2>3
<1>13. Stages(g)'
  BY <1>3, <1>8, <1>9, <1>11, <1>12 DEF Stages
<1> QED
  BY <1>5, <1>13

\* A record that is executed brings the target to the next stage, or leaves
\* a key where it already is.
LEMMA StageByOutcome ==
  ASSUME StepInv, Executing, NEW rows \in Outcomes,
         NEW h \in Histories, Stages(h)
  PROVE  /\ ~interrupted => \A k \in Values : Agree(rows, h[count + 1], k)
         /\ ~keyChanged =>
              \A k \in Values : \E p \in count + 1 .. Len(pending) : Agree(rows, h[p], k)
<1> DEFINE i == count + 1
<1>1. /\ i \in 1 .. Len(pending) /\ Current = pending[i]
      /\ Current \in LoggedRecords /\ passModel \in Models
      /\ Covers(Current, passModel)
      /\ rows \in Result(Current.kind, Parameters(Current.kind, passModel),
                         Arguments(Current, passModel))
  BY CurrentIsPending
<1>2. target \subseteq Rows /\ KeyIsUnique(target) /\ KeyIsUnique(rows)
  BY OutcomeIsTable DEF StepInv, TypeInv, TypeOK
<1>3. Effect(Current, rows)
  BY <1>1, <1>2, ResultEffect
<1>4. Len(pending) \in Nat /\ count \in 0 .. Len(pending) /\ Done = count /\ count = i - 1
  BY <1>1, DoneTypes DEF Done, Executing
<1>5. /\ h[count] \in Tables /\ h[i] \in Tables
      /\ Becomes(Current, h[count], h[i])
  BY <1>1, <1>4 DEF Stages, Histories
<1>6. Key \in synced
  BY DEF StepInv, RecordsOK
<1>7. ASSUME ~interrupted, NEW k \in Values
      PROVE  Agree(rows, h[i], k)
  <2>1. \A l \in Values : Agree(target, h[count], l)
    BY <1>4, <1>7 DEF Stages
  <2>2. Current.kind = "update" => Current.old[Key] \in Values
    BY <1>1, KeyTypes DEF LoggedRecords, Images
  <2> QED
    BY <1>1, <1>2, <1>3, <1>5, <1>6, <2>1, <2>2, StepAgrees
<1>8. ASSUME ~keyChanged, NEW k \in Values
      PROVE  \E p \in i .. Len(pending) : Agree(rows, h[p], k)
  <2>1. Current.kind = "update" => Current.old[Key] = Current.new[Key]
    BY <1>1, <1>8 DEF StepInv, RecordsOK
  <2>2. PICK p \in count .. Len(pending) : Agree(target, h[p], k)
    BY <1>4, <1>8 DEF Stages
  <2>3. CASE p = count
    <3>1. Agree(rows, h[i], k)
      BY <1>1, <1>2, <1>3, <1>5, <1>6, <2>1, <2>2, <2>3, StepAgrees
    <3> QED
      BY <1>1, <1>4, <3>1
  <2>4. CASE p # count
    <3>1. p \in i .. Len(pending) /\ i \in i .. Len(pending)
      BY <1>1, <1>4, <2>4
    <3>2. Agree(rows, h[p], k) \/ Agree(rows, h[i], k)
      BY <1>1, <1>2, <1>3, <1>5, <1>6, <2>1, <2>2, RepeatAgrees
    <3> QED
      BY <3>1, <3>2
  <2> QED
    BY <2>3, <2>4
<1> QED
  BY <1>7, <1>8

\* The same, of a step that executes a record, whether or not it fails then.
LEMMA StageByExecution ==
  ASSUME StepInv, TargetIsAStage, Executing, target' \in Outcomes,
         UNCHANGED <<source, pending, keyChanged, synced, lost>>,
         \/ Done' = count + 1 /\ interrupted' = interrupted
         \/ Done' = 0 /\ interrupted'
  PROVE  TargetIsAStage'
<1> SUFFICES ASSUME ~lost
             PROVE  \E h \in Histories : Stages(h)'
  BY DEF TargetIsAStage, Histories
<1>1. PICK h \in Histories : Stages(h)
  BY DEF TargetIsAStage
<1>2. PICK rows \in Outcomes : rows = target'
  OBVIOUS
<1>3. /\ ~interrupted => \A k \in Values : Agree(rows, h[count + 1], k)
      /\ ~keyChanged =>
           \A k \in Values : \E p \in count + 1 .. Len(pending) : Agree(rows, h[p], k)
  BY <1>1, StageByOutcome
<1>4. ASSUME NEW k \in Values, NEW p \in 0 .. Len(pending), Agree(rows, h[p], k)
      PROVE  Agree(target, h[p], k)'
  BY <1>2, <1>4 DEF Agree, Within, SameOn
<1>5. count + 1 \in 1 .. Len(pending) /\ count \in Nat /\ Len(pending) \in Nat
  BY CurrentIsPending, DoneTypes DEF StepInv, TypeInv, ListsOK
<1>6. ~interrupted' => \A k \in Values : Agree(target, h[Done], k)'
  <2> SUFFICES ASSUME ~interrupted', NEW k \in Values
               PROVE  Agree(target, h[Done], k)'
    OBVIOUS
  <2>1. Done' = count + 1 /\ ~interrupted /\ count + 1 \in 0 .. Len(pending)
    BY <1>5
  <2> QED
    BY <1>3, <1>4, <2>1
<1>7. ~keyChanged' => \A k \in Values : \E p \in Done' .. Len(pending) : Agree(target, h[p], k)'
  <2> SUFFICES ASSUME ~keyChanged, NEW k \in Values
               PROVE  \E p \in Done' .. Len(pending) : Agree(target, h[p], k)'
    OBVIOUS
  <2>1. PICK p \in count + 1 .. Len(pending) : Agree(rows, h[p], k)
    BY <1>3
  <2>2. p \in Done' .. Len(pending) /\ p \in 0 .. Len(pending)
    BY <1>5
  <2> QED
    BY <1>4, <2>1, <2>2
<1> QED
  BY <1>1, <1>6, <1>7 DEF Stages


-----------------------------------------------------------------------------
(***************************************************************************)
(* No prepared statement ever takes an argument for another column, as     *)
(* long as /struct/put is used only while no syncer runs.                  *)
(***************************************************************************)
THEOREM BoundRightCorrect == QuietSpec => []BoundRight
<1>1. Init => QuietInv
  BY SMT DEF Init, QuietInv, ListsOK, CacheIsFresh, NewStmts
<1>2. QuietInv /\ [QuietPut \/ Others]_vars => QuietInv'
  BY ListsPreserved, CachePreserved, QuietIsNext DEF QuietInv
<1>3. QuietInv => BoundRight
  BY StatementIsFresh DEF BoundRight
<1> QED
  BY <1>1, <1>2, <1>3, PTL DEF QuietSpec

LEMMA StagePreserved ==
  ASSUME StepInv, TargetIsAStage, [QuietPut \/ Others]_vars
  PROVE  TargetIsAStage'
<1> USE DEF stored, syncer, history
<1>0. /\ Done \in {0, count} /\ lost \in BOOLEAN /\ interrupted \in BOOLEAN
      /\ source \in Tables /\ CountOK
      /\ source \subseteq Images /\ \A r \in source : source \ {r} \in Tables
  BY ImagesAreRows DEF StepInv, TypeInv, TypeOK, ListsOK, Done
<1>1. CASE QuietPut
  BY <1>0, <1>1, StageKept DEF QuietPut, Put, Done
<1>2. CASE LogInsert
  <2>1. PICK r \in Images : /\ r \notin source /\ source' = source \cup {r}
                            /\ source' \in Tables
                            /\ Log("insert", NULL, r) /\ keyChanged' = keyChanged
    BY <1>2 DEF LogInsert, Images
  <2>2. \A x : x.kind = "insert" /\ x.old = NULL /\ x.new = r => Becomes(x, source, source')
    BY <2>1 DEF Becomes
  <2> QED
    BY <2>1, <2>2, StageByLog
<1>3. CASE LogUpdate
  <2>1. PICK r \in source, y \in Images :
          /\ y \notin source /\ source' = (source \ {r}) \cup {y}
          /\ source' \in Tables
          /\ Log("update", r, y) /\ (keyChanged => keyChanged')
    BY <1>3 DEF LogUpdate, Images
  <2>2. \A x : x.kind = "update" /\ x.old = r /\ x.new = y => Becomes(x, source, source')
    BY <2>1 DEF Becomes
  <2> QED
    BY <2>1, <2>2, StageByLog
<1>4. CASE LogDelete
  <2>1. PICK r \in source :
          /\ source' = source \ {r}
          /\ Log("delete", r, NULL) /\ keyChanged' = keyChanged
    BY <1>4 DEF LogDelete
  <2>2. \A x : x.kind = "delete" /\ x.old = r /\ x.new = NULL => Becomes(x, source, source')
    BY <2>1 DEF Becomes
  <2> QED
    BY <1>0, <2>1, <2>2, StageByLog
<1>5. CASE StartSyncer
  BY <1>0, <1>5, StageKept DEF StartSyncer, Done
<1>6. CASE StopSyncer
  BY <1>0, <1>6, StageKept DEF StopSyncer, Done
<1>7. CASE Tick
  BY <1>0, <1>7, StageKept DEF Tick, Done
<1>8. CASE Fetch
  BY <1>0, <1>8, StageKept DEF Fetch, Done, CountOK
<1>9. CASE ExecuteRecord
  <2>1. Done' = count + 1
    BY <1>9 DEF ExecuteRecord, Executing, Done
  <2> QED
    BY <1>9, <2>1, StageByExecution DEF ExecuteRecord
\* An error in the middle of a batch interrupts it, one at its start does not.
<1>10. ASSUME Executing, Block, UNCHANGED <<stored, target>>
       PROVE  TargetIsAStage'
  <2>1. Done = count /\ Done' = 0 /\ count \in Nat
    BY <1>10 DEF Executing, Block, Done, StepInv, TypeInv, ListsOK
  <2>2. interrupted' = (interrupted \/ count > 0 \/ target' # target)
    BY <1>10 DEF Block
  <2>3. CASE count = 0
    <3>1. ~interrupted' => ~interrupted
      BY <2>2, Zenon
    <3> QED
      BY <1>0, <1>10, <2>1, <2>3, <3>1, StageKept DEF Block
  <2>4. CASE count # 0
    <3>1. count > 0
      BY <2>1, <2>4
    <3>2. interrupted'
      BY <2>2, <3>1, Zenon
    <3> QED
      BY <1>0, <1>10, <2>1, <3>2, StageKept DEF Block
  <2> QED
    BY <2>3, <2>4
<1>11. CASE DecodeError \/ StatementError
  BY <1>10, <1>11 DEF DecodeError, StatementError
<1>12. CASE ExecuteFails
  <2>1. CASE target' = target
    BY <1>10, <1>12, <2>1 DEF ExecuteFails
  <2>2. CASE target' # target
    <3>1. Done' = 0 /\ interrupted' /\ target' \in Outcomes /\ Executing
      BY <1>12, <2>2 DEF ExecuteFails, Block, Done
    <3> QED
      BY <1>12, <3>1, StageByExecution DEF ExecuteFails, Block
  <2> QED
    BY <2>1, <2>2
<1>13. CASE RemoveBatch
  BY <1>13, StageByRemove
<1>14. CASE Crash
  <2>1. CASE pending' = pending
    <3>1. Done' = 0 /\ count \in Nat /\ interrupted' = (interrupted \/ count > 0)
      BY <1>14 DEF Crash, Done, StepInv, TypeInv, ListsOK
    <3>2. CASE Done = 0
      <4>1. ~interrupted' => ~interrupted
        BY <3>1, Zenon
      <4> QED
        BY <1>0, <1>14, <2>1, <3>1, <3>2, <4>1, StageKept DEF Crash
    <3>3. CASE Done # 0
      <4>1. count > 0
        BY <1>0, <3>1, <3>3
      <4>2. interrupted'
        BY <3>1, <4>1, Zenon
      <4> QED
        BY <1>0, <1>14, <2>1, <3>1, <4>2, StageKept DEF Crash
    <3> QED
      BY <3>2, <3>3
  <2>2. CASE pending' # pending
    BY <1>14, <2>2 DEF Crash, TargetIsAStage
  <2> QED
    BY <2>1, <2>2
<1>15. CASE UNCHANGED vars
  BY <1>0, <1>15, StageKept DEF vars, Done
<1> QED
  BY <1>1, <1>2, <1>3, <1>4, <1>5, <1>6, <1>7, <1>8, <1>9, <1>11, <1>12, <1>13, <1>14,
     <1>15 DEF Others, Work

-----------------------------------------------------------------------------
StatementsInv == StepInv /\ TargetIsAStage

LEMMA InitStage == Init => TargetIsAStage
<1> SUFFICES ASSUME Init
             PROVE  TargetIsAStage
  OBVIOUS
<1>1. pending = <<>> /\ Len(pending) = 0 /\ Done = 0 /\ target = source /\ source \in Tables
  BY DEF Init, Done
<1>2. PICK h \in [0 .. 0 -> Tables] : h = [i \in 0 .. 0 |-> source]
  BY <1>1
<1>3. \A k \in Values : Agree(target, h[0], k)
  BY <1>1, <1>2 DEF Agree, Within, SameOn
<1>4. Stages(h)
  BY <1>1, <1>2, <1>3 DEF Stages
<1> QED
  BY <1>1, <1>4 DEF TargetIsAStage, Histories

LEMMA InitTypes == Init => TypeInv
<1> SUFFICES ASSUME Init
             PROVE  TypeInv
  OBVIOUS
<1>1. ListsOK /\ CountOK
  BY DEF Init, ListsOK, CountOK
<1>2. source \in Tables /\ source \subseteq Rows /\ KeyIsUnique(source)
  BY <1>1, ImagesAreRows DEF ListsOK, Tables
<1>3. synced \subseteq Columns
  BY NamesTypes DEF Init, Range
<1>4. stmts \in [Kinds -> Seq(Columns)] /\ count \in 0 .. Len(batch)
  BY DEF Init, NewStmts
<1>5. 0 \in 0 .. MaxLog
  BY ConstantsAssumption
<1>6. pending = <<>> /\ batch = <<>> /\ {pending, batch} \subseteq Seq(Records)
  BY DEF Init
<1>7. {model, passModel} \subseteq Models /\ {keyChanged, lost, interrupted} \subseteq BOOLEAN
  BY DEF Init
<1>8. TypeOK
  BY <1>2, <1>3, <1>4, <1>5, <1>6, <1>7 DEF Init, TypeOK, PCs
<1> QED
  BY <1>1, <1>8 DEF TypeInv

LEMMA InitStatementsInv == Init => StatementsInv
<1> SUFFICES ASSUME Init
             PROVE  StatementsInv
  OBVIOUS
<1>1. CacheIsFresh
  BY DEF Init, CacheIsFresh, NewStmts
<1>2. RecordsOK
  BY NamesTypes DEF Init, RecordsOK
<1> QED
  BY <1>1, <1>2, InitTypes, InitStage DEF StatementsInv, StepInv

LEMMA NextStatementsInv == StatementsInv /\ [QuietPut \/ Others]_vars => StatementsInv'
<1> SUFFICES ASSUME StatementsInv, [QuietPut \/ Others]_vars
             PROVE  StatementsInv'
  OBVIOUS
<1>1. TypeInv'
  BY TypesPreserved, QuietIsNext DEF StatementsInv, StepInv
<1>2. CacheIsFresh'
  BY CachePreserved DEF StatementsInv, StepInv, TypeInv, QuietInv
<1> QED
  BY <1>1, <1>2, RecordsPreserved, StagePreserved DEF StatementsInv, StepInv

LEMMA StatementsInvHolds == QuietSpec => []StatementsInv
BY InitStatementsInv, NextStatementsInv, PTL DEF QuietSpec

(***************************************************************************)
(* The types of tables, records and statements; the target keeps a primary *)
(* key whatever is executed, also while models are put under a syncer.     *)
(***************************************************************************)
THEOREM TypeCorrect == Spec => []TypeOK
<1>1. TypeInv => TypeOK
  BY DEF TypeInv
<1>2. TypeInv /\ [Next]_vars => TypeInv'
  BY TypesPreserved
<1> QED
  BY <1>1, <1>2, InitTypes, PTL DEF Spec

(***************************************************************************)
(* At every moment the target is one of the tables that the source has     *)
(* been since the first pending record: the one after the records that     *)
(* this pass has executed or, after an interrupted batch and as long as no *)
(* key was changed, for each key that one or a later one.                  *)
(***************************************************************************)
THEOREM StageCorrect == QuietSpec => []TargetIsAStage
<1>1. StatementsInv => TargetIsAStage
  BY DEF StatementsInv
<1> QED
  BY <1>1, StatementsInvHolds, PTL

(***************************************************************************)
(* With an empty log store the target is in sync, whatever columns, models *)
(* and rows there are, unless a key was changed and a batch interrupted or *)
(* a crash has lost records.                                               *)
(***************************************************************************)
THEOREM ConvergesCorrect == QuietSpec => []Converges
<1>1. StatementsInv => Converges
  <2> SUFFICES ASSUME StatementsInv, ~(keyChanged /\ interrupted), pending = <<>>, ~lost
               PROVE  Synced(target) = Synced(source)
    BY DEF Converges, InSync
  <2>1. PICK h \in Histories : Stages(h)
    BY DEF StatementsInv, TargetIsAStage
  <2>2. Len(pending) = 0 /\ Done = 0 /\ h[0] = source
    BY <2>1, DoneTypes DEF StatementsInv, Stages
  <2>3. \A k \in Values : Agree(target, source, k)
    BY <2>1, <2>2 DEF Stages, StatementsInv, StepInv, TypeInv, TypeOK
  <2>4. (\A r \in target : r[Key] \in Values) /\ (\A r \in source : r[Key] \in Values)
    BY KeyTypes DEF StatementsInv, StepInv, TypeInv, TypeOK, Tables, Rows, KeyIsUnique
  <2>5. \A r \in target : \E s \in source : SameOn(r, s)
    BY <2>3, <2>4 DEF Agree, Within
  <2>6. \A s \in source : \E r \in target : SameOn(s, r)
    BY <2>3, <2>4 DEF Agree, Within
  <2>7. \A r, s : SameOn(r, s) => [c \in synced |-> r[c]] = [c \in synced |-> s[c]]
    BY DEF SameOn
  <2> QED
    BY <2>5, <2>6, <2>7 DEF Synced
<1> QED
  BY <1>1, StatementsInvHolds, PTL

(***************************************************************************)
(* The target refuses no statement as long as no batch was interrupted and *)
(* no record lost: what a pass executes fits the rows the target has.      *)
(***************************************************************************)
THEOREM NeverRefusedCorrect == QuietSpec => []NeverRefused
<1>1. StatementsInv => NeverRefused
  <2> SUFFICES ASSUME StatementsInv, Executing, ~interrupted, ~lost
               PROVE  Outcomes # {}
    BY DEF NeverRefused
  <2>1. PICK h \in Histories : Stages(h)
    BY DEF StatementsInv, TargetIsAStage
  <2>2. /\ count + 1 \in 1 .. Len(pending) /\ Current = pending[count + 1]
        /\ Current \in LoggedRecords /\ passModel \in Models /\ Covers(Current, passModel)
        /\ Outcomes = Result(Current.kind, Parameters(Current.kind, passModel),
                             Arguments(Current, passModel))
    BY CurrentIsPending DEF StatementsInv
  <2>3. Done = count /\ count \in 0 .. Len(pending) /\ count = count + 1 - 1
    BY DoneTypes DEF StatementsInv, Executing, Done
  <2>4. /\ h[count] \in Tables /\ h[count + 1] \in Tables
        /\ Becomes(Current, h[count], h[count + 1])
    BY <2>1, <2>2, <2>3 DEF Stages, Histories
  <2>5. \A k \in Values : Agree(target, h[count], k)
    BY <2>1, <2>3 DEF Stages
  <2>6. target \subseteq Rows /\ KeyIsUnique(target)
    BY DEF StatementsInv, StepInv, TypeInv, TypeOK
  <2> QED
    BY <2>2, <2>4, <2>5, <2>6, NotRefused
<1> QED
  BY <1>1, StatementsInvHolds, PTL
=============================================================================
