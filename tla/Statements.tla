----------------------------- MODULE Statements ------------------------------
(***************************************************************************)
(* From the record of a change to the rows of the target: the model with   *)
(* which a record is written, the model with which a pass decodes it, the  *)
(* statement that was prepared for the first record of its kind, and what  *)
(* the target does with it.  /struct/put may give the table another model  *)
(* at any time; listener, log store and syncer share the map it is in.     *)
(*                                                                         *)
(* There is one table and at most one syncer that runs (two of them are    *)
(* the subject of Syncer).  A model is the sequence of its columns, no     *)
(* column twice, since Go builds no struct with two fields of one name.    *)
(* All models have one and the same key column: "user MUST define a PK in  *)
(* the datamodel" (src/syncer/store_service.go:60,67), which nothing       *)
(* enforces.  Without one, UpdateOnPK and DeleteOnPK answer an error; that *)
(* error and keys of several columns are not modelled.                     *)
(* source is the table of the source as far as the listener has logged it. *)
(***************************************************************************)
EXTENDS Integers, Sequences, SequencesExt

CONSTANTS
  Columns,      \* the columns of the table in both databases
  Key,          \* its primary key, one of Columns
  Types,        \* field types
  Models,       \* the models the operator may put
  Engines,      \* storage engines under the log store
  Values,       \* what a column holds
  NULL,         \* SQL NULL
  MaxLog,       \* bound: records logged
  MaxFaults,    \* bound: statements that fail for no reason of their own
  MaxCrashes    \* bound: crashes of the process

ASSUME ConstantsAssumption ==
  /\ Key \in Columns
  /\ \A d \in Models : d \in Seq([name : Columns, type : Types])
  /\ \A d \in Models : \E i \in DOMAIN d : d[i].name = Key
  /\ \A d \in Models : \A i, j \in DOMAIN d : d[i].name = d[j].name => i = j
  /\ Engines \subseteq {"nutsdb", "inmem"}
  /\ NULL \notin Values
  /\ {MaxLog, MaxFaults, MaxCrashes} \subseteq Nat

VARIABLES
  engine,       \* the storage engine
  model,        \* the model of the table in the shared map
  source,       \* the rows of the source
  target,       \* the rows of the target
  pending,      \* the list of the log store
  pc,           \* where the goroutine of the syncer is
  passModel,    \* the model this pass has taken from the map
  batch,        \* the records GetAll returned
  count,        \* how many of them were executed
  stmts,        \* prepared statements: for each kind, its parameters in order
  logged,       \* records logged so far
  faults, crashes,
  synced,       \* the columns that all models so far have had (history)
  keyChanged,   \* a key was updated in the source (history)
  lost,         \* a crash took pending records with it (history)
  interrupted   \* a record was executed and not removed (history)

stored == <<engine, model, source, pending, logged, keyChanged>>
syncer == <<pc, passModel, batch, count, stmts>>
history == <<faults, crashes, synced, lost, interrupted>>
vars == <<stored, target, syncer, history>>

Rows == [Columns -> Values \cup {NULL}]

KeyIsUnique(rows) ==
  /\ \A r \in rows : r[Key] # NULL
  /\ \A r, s \in rows : r[Key] = s[Key] => r = s

\* What the source may hold.
Tables == {rows \in SUBSET [Columns -> Values] : KeyIsUnique(rows)}

Names(d) == [i \in DOMAIN d |-> d[i].name]

Kinds == {"insert", "update", "delete"}
PCs == {"off", "select", "fetch", "apply", "stuck"}

\* No statement prepared yet.
NewStmts == [kind \in Kinds |-> <<>>]

Init ==
  /\ engine \in Engines
  /\ model \in Models
  /\ source \in Tables
  /\ target = source
  /\ pending = <<>>
  /\ pc = "off"
  /\ passModel = model
  /\ batch = <<>>
  /\ count = 0
  /\ stmts = NewStmts
  /\ logged = 0
  /\ faults = 0
  /\ crashes = 0
  /\ synced = Range(Names(model))
  /\ keyChanged = FALSE
  /\ lost = FALSE
  /\ interrupted = FALSE

-----------------------------------------------------------------------------
(* Statements.  The text of one matters as the sequence of the columns its *)
(* parameters stand for: getColumns gives columns and values in the order  *)
(* of the fields, the conditions on the primary key come last.             *)

\* getColumns(_, true): of any model, the one key column it has
\* (ConstantsAssumption leaves out models with none or with several).
PrimaryKeys == <<Key>>

Parameters(kind, d) ==
  CASE kind = "insert" -> Names(d)
    [] kind = "update" -> Names(d) \o PrimaryKeys
    [] kind = "delete" -> PrimaryKeys

\* Slip: fields are matched by their position and not by their name.
FieldByPosition(r, image, c) ==
  LET i == CHOOSE j \in DOMAIN passModel : passModel[j].name = c
  IN  IF i \in DOMAIN r.model THEN image[r.model[i].name] ELSE NULL

\* A field the record has not got keeps its zero value, taken to be NULL.
Field(r, image, c) == IF c \in Range(Names(r.model)) THEN image[c] ELSE NULL

\* gob refuses a field whose type has changed.
DecodeFails(r, d) ==
  \E i \in DOMAIN r.model, j \in DOMAIN d :
    r.model[i].name = d[j].name /\ r.model[i].type # d[j].type

\* The values passed to Exec: those of the new image, then the keys of the
\* old one; a delete has an old image only.
Arguments(r, d) ==
  LET of(image, cols) == [i \in DOMAIN cols |-> Field(r, image, cols[i])]
  IN  CASE r.kind = "insert" -> of(r.new, Names(d))
        [] r.kind = "update" -> of(r.new, Names(d)) \o of(r.old, PrimaryKeys)
        [] r.kind = "delete" -> of(r.old, PrimaryKeys)

\* The cached statement, or the one that is prepared now.
Statement(kind, d) ==
  IF stmts[kind] = <<>> THEN Parameters(kind, d) ELSE stmts[kind]

\* database/sql refuses a wrong number of arguments.
Accepts(stmt, args) == Len(stmt) = Len(args)

-----------------------------------------------------------------------------
(* The target: a table with a primary key.  Each operator returns the set  *)
(* of tables that may result, none if the statement fails.                 *)

\* An update that changes nothing, or a row with a key of its own.
Allowed(rows, changed) ==
  IF changed \cap rows = {} /\ KeyIsUnique(rows \cup changed)
  THEN {rows \cup changed} ELSE {}

Position(c, cols) == CHOOSE i \in DOMAIN cols : cols[i] = c

\* The row with each column of cols set to the argument at its position.
Set(r, cols, args) ==
  [c \in Columns |-> IF c \in Range(cols) THEN args[Position(c, cols)] ELSE r[c]]

NullRow == [c \in Columns |-> NULL]

Result(kind, stmt, args) ==
  LET matched == {r \in target : r[Key] = Last(args)}
      cols == Front(stmt)
  IN  CASE kind = "insert" -> Allowed(target, {Set(NullRow, stmt, args)})
        [] kind = "update" -> Allowed(target \ matched,
                                      {Set(r, cols, args) : r \in matched})
        [] kind = "delete" -> {target \ matched}

-----------------------------------------------------------------------------
(* The operator, the source with the listener, and the storage engine.     *)

\* API.Put
Put ==
  /\ model' \in Models \ {model}
  /\ synced' = synced \cap Range(Names(model'))
  /\ UNCHANGED <<engine, source, pending, logged, keyChanged>>
  /\ UNCHANGED <<target, syncer, faults, crashes, lost, interrupted>>

Push(list, r) == Append(list, r)

\* Slip: one record is left behind.
RemOneLess(list, n) == SubSeq(list, n, Len(list))

Rem(list, n) == SubSeq(list, n + 1, Len(list))

\* What the engine still has after a crash.
Persisted(list) == IF engine = "nutsdb" THEN list ELSE <<>>

Log(kind, old, new) ==
  /\ logged < MaxLog
  /\ logged' = logged + 1
  /\ pending' = Push(pending, [kind |-> kind, old |-> old, new |-> new, model |-> model])
  /\ UNCHANGED <<engine, model, target, syncer, history>>

LogInsert ==
  \E r \in [Columns -> Values] :
    /\ r \notin source
    /\ source \cup {r} \in Tables
    /\ source' = source \cup {r}
    /\ Log("insert", NULL, r)
    /\ UNCHANGED keyChanged

LogUpdate ==
  \E r \in source, s \in [Columns -> Values] :
    /\ s \notin source
    /\ source' = (source \ {r}) \cup {s}
    /\ source' \in Tables
    /\ Log("update", r, s)
    /\ keyChanged' = (keyChanged \/ r[Key] # s[Key])

LogDelete ==
  \E r \in source :
    /\ source' = source \ {r}
    /\ Log("delete", r, NULL)
    /\ UNCHANGED keyChanged

-----------------------------------------------------------------------------
(* The syncer.                                                             *)

\* Slip: count is declared outside of the loop and never reset.
NoBatchSameCount == batch' = <<>> /\ count' = count

NoBatch == batch' = <<>> /\ count' = 0

\* Slip: the statements are kept beside the syncers, not in one of them.
KeptStmts == stmts

\* NewSyncer makes the maps of the statements.
FreshStmts == NewStmts

\* /syncer/start, when no syncer has been started or the last one has
\* stopped or has blocked after an error.
StartSyncer ==
  /\ pc \in {"off", "stuck"}
  /\ pc' = "select"
  /\ stmts' = FreshStmts
  /\ NoBatch
  /\ UNCHANGED <<passModel, stored, target, history>>

StopSyncer ==
  /\ pc = "select"
  /\ pc' = "off"
  /\ UNCHANGED <<passModel, batch, count, stmts, stored, target, history>>

\* The range over Store.Models takes the model before the list is read.
Tick ==
  /\ pc = "select"
  /\ pc' = "fetch"
  /\ passModel' = model
  /\ UNCHANGED <<batch, count, stmts, stored, target, history>>

\* Size, continue if there is nothing, else GetAll.
Fetch ==
  /\ pc = "fetch"
  /\ batch' = pending
  /\ pc' = IF pending = <<>> THEN "select" ELSE "apply"
  /\ UNCHANGED <<passModel, count, stmts, stored, target, history>>

\* The record that is to be executed, its statement and arguments.
Current == batch[count + 1]
CurrentStmt == Statement(Current.kind, passModel)
CurrentArgs == Arguments(Current, passModel)

Executing == pc = "apply" /\ count < Len(batch)

\* What Exec may leave behind in the target.
Outcomes ==
  IF Accepts(CurrentStmt, CurrentArgs)
  THEN Result(Current.kind, CurrentStmt, CurrentArgs) ELSE {}

ExecuteRecord ==
  /\ Executing
  /\ ~DecodeFails(Current, passModel)
  /\ target' \in Outcomes
  /\ stmts' = [stmts EXCEPT ![Current.kind] = CurrentStmt]
  /\ count' = count + 1
  /\ UNCHANGED <<pc, passModel, batch, stored, history>>

\* The send to itself of a syncer that met an error.  The records executed
\* before it stay in the log store.
Block ==
  /\ pc' = "stuck"
  /\ interrupted' = (interrupted \/ count > 0 \/ target' # target)
  /\ UNCHANGED <<passModel, batch, count, crashes, synced, lost>>

DecodeError ==
  /\ Executing
  /\ DecodeFails(Current, passModel)
  /\ UNCHANGED <<stmts, stored, target, faults>>
  /\ Block

\* The statement is prepared, and refused by the driver or by the target.
StatementError ==
  /\ Executing
  /\ ~DecodeFails(Current, passModel)
  /\ Outcomes = {}
  /\ stmts' = [stmts EXCEPT ![Current.kind] = CurrentStmt]
  /\ UNCHANGED <<stored, target, faults>>
  /\ Block

\* The connection fails; the statement may have been committed.
ExecuteFails ==
  /\ Executing
  /\ ~DecodeFails(Current, passModel)
  /\ faults < MaxFaults
  /\ faults' = faults + 1
  /\ target' \in {target} \cup Outcomes
  /\ Block
  /\ UNCHANGED <<stmts, stored>>

RemoveBatch ==
  /\ pc = "apply"
  /\ count = Len(batch)
  /\ pending' = Rem(pending, count)
  /\ pc' = "select"
  /\ NoBatch
  /\ UNCHANGED <<engine, model, source, logged, keyChanged>>
  /\ UNCHANGED <<passModel, stmts, target, history>>

\* The process ends, at any moment, and is started again.  The models of an
\* engine in memory have to be put again.
Crash ==
  /\ crashes < MaxCrashes
  /\ crashes' = crashes + 1
  /\ pending' = Persisted(pending)
  /\ lost' = (lost \/ pending' # pending)
  /\ interrupted' = (interrupted \/ count > 0)
  /\ model' \in IF engine = "nutsdb" THEN {model} ELSE Models
  /\ synced' = synced \cap Range(Names(model'))
  /\ pc' = "off"
  /\ NoBatch
  /\ stmts' = NewStmts
  /\ UNCHANGED <<engine, source, logged, keyChanged, target, passModel, faults>>

Work == Fetch \/ ExecuteRecord \/ DecodeError \/ StatementError \/ RemoveBatch

Others ==
  \/ LogInsert \/ LogUpdate \/ LogDelete
  \/ StartSyncer \/ StopSyncer \/ Tick \/ Work \/ ExecuteFails \/ Crash

Next == Put \/ Others

Spec == Init /\ [][Next]_vars

\* Models are put only while no syncer runs.
QuietPut == pc \in {"off", "stuck"} /\ Put

QuietSpec == Init /\ [][QuietPut \/ Others]_vars

-----------------------------------------------------------------------------
Records == [kind : Kinds, old : Rows \cup {NULL}, new : Rows \cup {NULL}, model : Models]

TypeOK ==
  /\ engine \in Engines
  /\ {model, passModel} \subseteq Models
  /\ source \in Tables
  /\ target \subseteq Rows
  /\ KeyIsUnique(target)
  /\ {pending, batch} \subseteq Seq(Records)
  /\ pc \in PCs
  /\ count \in 0 .. Len(batch)
  /\ stmts \in [Kinds -> Seq(Columns)]
  /\ logged \in 0 .. MaxLog
  /\ synced \subseteq Columns
  /\ {keyChanged, lost, interrupted} \subseteq BOOLEAN

(***************************************************************************)
(* Whatever statement was prepared before, an argument that Exec accepts   *)
(* is bound to the column whose value it is.                               *)
(***************************************************************************)
BoundRight ==
  Executing /\ Accepts(CurrentStmt, CurrentArgs)
    => CurrentStmt = Parameters(Current.kind, passModel)

Synced(rows) == {[c \in synced |-> r[c]] : r \in rows}

(***************************************************************************)
(* "Synchronizing changes (CUD operations) from MySQL source database to   *)
(* MSSQL target database": with an empty log store, the target has the     *)
(* rows of the source, as far as the columns were always in the model.     *)
(* Alone this is false: an update of a key that is executed a second time  *)
(* does not find its row, or finds another one.                            *)
(***************************************************************************)
InSync == pending = <<>> /\ ~lost => Synced(target) = Synced(source)

(***************************************************************************)
(* The target is in sync unless the source changed a key and a batch was   *)
(* interrupted.  Whatever else happens, executing a batch again, in order, *)
(* leads to the same rows or does not get to its end.                      *)
(***************************************************************************)
Converges == (keyChanged /\ interrupted) \/ InSync

(***************************************************************************)
(* As long as every batch is removed that was begun, no statement is       *)
(* refused: inserted keys are new to the target and updated ones do not    *)
(* collide, whatever models the records and the statements come from.      *)
(***************************************************************************)
NeverRefused ==
  Executing /\ ~DecodeFails(Current, passModel) /\ Outcomes = {}
    => interrupted \/ lost
=============================================================================
