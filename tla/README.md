# A TLA+ model of mysql-to-mssql

mysql-to-mssql reads the binlog of a MySQL server, keeps the changes in an
embedded log store, and executes them on a SQL Server at a fixed interval. This
directory holds TLA+ modules that model the parts of it where the order of
steps matters, the TLC configurations that check them on small instances, and
theorems that TLAPS checks for all values of the constants.

## 1. The system

    MySQL --binlog--> canal --OnRow--> parser --OnInsert/..--> API --Push--> log store
                                                                                |
    SQL Server <--Insert/UpdateOnPK/DeleteOnPK-- syncer <--Size, GetAll, LRem---+
                              ^
    operator --HTTP--> handlers --> API (Put, Start/StopParser, Start/StopSyncer, LogChan)

| Component | Code | State | Operations | What is hard |
|---|---|---|---|---|
| syncing job | `syncer/store_service.go` | goroutine, ticker, unbuffered quit channel, count of a batch | `Schedule`, `Stop`, `SyncAllModels` | races with the listener, with stops, with another syncer; errors in the middle of a batch |
| statement execution | `syncer/syncer.go` | connection pool, prepared statements per table | `Insert`, `UpdateOnPK`, `DeleteOnPK`, `Close` | statement cache and a changing model; ambiguous commit |
| log store | `syncer/store.go` | one list of encoded records per table | `LogInsert/Update/Delete`, `Size`, `GetAll`, `LRem` | read by value, removed by count |
| storage engines | `db/nutsdb.go`, `db/inmemdb.go` | buckets `API` and `store` | `Put`, `Push`, `Rem`, `Size`, `GetAll`, `GetAllKey` | crash between two transactions; unsynchronised maps in memory |
| API | `server/API/api.go` | `DataModels`, `eventWrapper`, `syncer`, `logStore` | `Put`, `StartParser`, `StopParser`, `StartSyncer`, `StopSyncer`, `LoadDataModels`, the three callbacks | fields written by concurrent handlers and read by goroutines |
| log stream | `API.LogChan`, `streamStdout` in `server/handler.go` | buffer, two loggers, two unbuffered channels | `LogChan`, `SetLogger`, `streamStdout` | an unlocked buffer, loggers that streams take from each other, two goroutines that wait for each other |
| handlers, validation | `server/handler.go`, `server/server.go`, `server/param` | none | binding, validation, recovery from panics | which panics are recovered and which end the process |
| binlog listener | `mysql/parser/wrapper.go` | goroutine, `canal` field, position | `NewEventWrapper`, `StartBinlogListener`, `Close` | the goroutine is never waited for |
| row events | `mysql/parser/base_handler.go` | one shared struct per table | `OnRow` | the images of all rows go through the same struct |
| column conversion | `mysql/parser/parser.go`, `db/types.go` | fields of that struct | `getBinLogData`, `processNillable`, `processNonNil`, `getSet`, ... | NULL, unsigned numbers, assertions that panic, the 64th member of a SET |
| statement text | `syncer/syncer.go`, `syncer/data_structure.go` | none | `build*Statement`, `getColumns` | order of columns and of values |
| main, example | `main.go`, `mysql/example` | none | | |

The components share memory: `DataModels` is one Go map that the API, the
parser's handler and the store all hold, `API.syncer` and `API.eventWrapper`
are plain fields. The listener and the syncer meet in the lists of the log
store only. Every handler runs on a goroutine of its own, and so do the
listener and the syncer; a panic in a handler is recovered, a panic in one of
the other two ends the process.

What makes each of them correct:

- **syncing job with its store**: records are executed in log order, each at
  least once, none removed before it was executed; a stop is answered, ends the
  goroutine, and leaves nothing half done.
- **binlog listener**: no change of the stretch it listens to is missed or
  logged twice; a stopped listener ends; what `/parser/stop` answers is true.
- **data models**: an acknowledged model survives a restart, and is used by a
  listener that was started before it.
- **row events and conversion**: each image of the record is the image of the
  row, NULL included; a row ends the process only for reasons that are known.
- **statement execution**: an argument reaches the column it belongs to, and an
  empty log store means that the target has the rows of the source.
- **log stream**: a client sees what is logged, and a request returns.
- **the whole**: a change of the source, made while a listener listens, is
  pending or executed on the target, once logged, in the order of the source.

## 2. Modules

| Module | Models | Correspondence |
|---|---|---|
| `Outbox` | what log store and syncer promise together | three counters per table: logged, executed, removed |
| `Syncer` | `Schedule`, `Stop`, `SyncAllModels`, `API.StartSyncer`, `API.StopSyncer`, the lists of the store, the models and the pushes of the listener | see below |
| `BinlogParser` | `API.Put`, `API.StartParser`, `API.StopParser`, `LoadDataModels`, `StartBinlogListener`, `EventHandlerWrapper.Close`, `OnRow` up to the push | see below |
| `Replication` | `BinlogParser` and `Syncer` composed in one process, over one log store | see below |
| `Statements` | `Insert`, `UpdateOnPK`, `DeleteOnPK`, the cached statements, `getColumns` and the builders, gob between two models, the rows of both databases, both storage engines | see below |
| `RowReader` | `OnRow` image by image, `getBinLogData`, the two type switches, the getters, `Convert`, `encodeBytes`/`decodeBytes` | see below |
| `SetCodec` | `getSet` and `reverse`, digit by digit; extended by `RowReader` | `Width` is 64 in the program |
| `LogStream` | `LogChan`, `streamStdout`, `SetLogger`, everybody who logs | see below |
| `MCSyncer`, `MCBinlogParser`, `MCReplication`, `MCStatements`, `MCRowReader`, `MCLogStream` | sets and values for TLC | |
| `SyncerProofs`, `SyncerOrderProofs`, `SyncerOutboxProofs`, `BinlogParserProofs`, `ReplicationProofs`, `StatementsProofs`, `RowReaderProofs`, `LogStreamProofs` | theorems | section 4 |

Definitions whose comment starts with "Slip:" model no code: each is the form a
plausible mistake would give to the definition after it, and every property is
checked to fail with one of them.

### Syncer

A `Syncer` object is a member of `Instances`; its goroutine is a `pc`. `select`
is the select of `Schedule`, `range` the loop over `Store.Models` (`todo` holds
the tables it has not visited, since Go visits a map in any order), `fetch` the
gap between `Size` and `GetAll`, `apply` the callback of `GetAll` with the
fetched `batch` and the `count` of executed records. `stuck` is the send of
line 86, which has no successor but a crash. `quit` is the gap between taking
the signal and closing the pool. `models` are the tables with a model: a pass
visits those there were when it began (a Go range over a map may also visit one
that is put meanwhile; in the model the next pass does).

| Action | Code |
|---|---|
| `Put` | `API.Put`: a table gets its model |
| `Log` | `OnInsert`/`OnUpdate`/`OnDelete` of the API, then one `Push`, of a table with a model |
| `StartSyncer`, `StartSyncerPanics` | `createSyncer`, `Schedule`; a negative interval panics in `NewTicker` |
| `StopRefused`, `StopSend`, `ReceiveQuit`, `ClearQuit`, `CloseCurrent` | the steps of a stop request: nil check, blocking send, `= nil`, `a.syncer.Close()` |
| `Tick`, `SizeTable`, `FetchBatch`, `ExecuteRecord`, `RemoveBatch`, `EndRange` | one pass of `SyncAllModels`, one step per call it makes |
| `SizeFails` | `Size` answers 0 with an error that is not read: the table is skipped |
| `FetchFails`, `ExecuteFails`, `ExecuteOnClosedPool` | the error paths: `err != nil`, then the send. A failing statement may have been committed |
| `RemovePanics` | `log.Panicf` after an error of `LRem`: more records to remove than the list has, or a failure of the engine |
| `CloseOnQuit` | `ticker.Stop(); s.Close(); return` |
| `Crash` | the process ends; lists and target stay, and the models that could be saved |

Records are numbers, in the order they were logged, so that order and loss can
be stated; their content is the subject of `RowReader` and `Statements`.
`logged` and `applied` are history, and so is `overlapped`: for each syncer the
stop requests that were under way when it was created.

### BinlogParser

A change is its index in `binlog`. One `EventHandlerWrapper` is a member of
`Wrappers`, with the state of its goroutine in `listener`, whether
`baseHandler.canal` is set in `canal`, and where `Close` cut the stream in
`cut`. canal itself is external: it delivers the changes after the position
given to `RunFrom`, may still deliver what it had read when it was closed, and
may fail. `Die` is what the end of the process does to memory, `Restart` loads
the models. `OnRow` hands a change over, `OnRowPanics` is the end of the process
when its row cannot be converted: which row that is, `RowReader` says; here any
row of a table with a model may be one. Requests to the parser come one at a
time, but interleave with the
goroutines: `CloseCanal` and `ForgetWrapper` are two steps of one `StopParser`.
`Spec` lets the operator start the parser twice, `SerialSpec` does not.

### Replication

The variables of both modules; `P` and `S` are the instances, and only the
places where the two sides meet are written anew:

| Place | Code |
|---|---|
| `OnRow` | a change that `OnRow` logs is the next record of its table: `P!OnRow` and `S!Log` in one step |
| `StartSyncer` | `createSyncer` panics without data models or without a log store |
| `ParserRequest` | a table that is put has its model on both sides, which share one map |
| `Crash`, `ReadNilCanal`, `OnRowPanics`, `RemovePanics` | one process: what ends it ends both sides |

All other actions are steps of one side that leave the variables of the other
alone. `RecordNumber` translates between the two ways of counting.
`Spec` has one running syncer at a time and any order of parser requests,
`SerialSpec` also stops the parser before starting it again.

### Statements

One table, one syncer at a time. A model is the sequence of its columns with
name and type; `model` is the entry of the shared map, `passModel` the one the
range loop of the pass has taken. A record carries the model it was written
with. `Parameters` is the statement text of the three builders, reduced to the
columns its parameters stand for, `Arguments` the values passed to `Exec`,
`stmts` the statement that `Insert`, `UpdateOnPK` or `DeleteOnPK` has prepared
first. `Field` and `DecodeFails` are gob: columns matched by name, an error for
another type. `Result` is SQL Server: a table with a primary key, which refuses
duplicates. `source` holds the rows the listener has logged so far. `engine`
chooses nutsdb or the in-memory engine, whose lists and models a crash takes.
`interrupted`, `keyChanged`, `lost` and `synced` are history for the properties.

### RowReader

`placeholder` is the one struct of a table. `Schema` and `Wire` say what
go-mysql reports of a MySQL type and which Go type it delivers; `Reads`,
`AssertionFails` and `Panics` are the getters' switches and assertions,
`Assign` the two switches over field types, `Decoded` what encoding/gob does to
a pointer to a zero value. `record` is what the syncer will decode, `source`
the row images it came from. Integers stand for all values; 0 is the zero value
of each type.

### LogStream

A request to `/parser/stream` is a member of `Streams`: `handler` is where
`streamStdout` stands, `chan` where the goroutine of `LogChan` stands, `logger`
where the default logger and the driver's logger write, `setBy` (history) which
stream has set each of them last. Between `Tick` (Len and
String) and `Reset` the lines of one String are sent, each when the handler takes it.
`TickWhileWriting` and `ResetWhileWriting` are what the two data races of the
buffer with a writer may leave. A handler that serves a client never returns,
since the errors of `Send` are ignored; `Quit` follows a failed handshake only.

## 3. Runs

| Run | Instance | Shows |
|---|---|---|
| `syncer_overlap` | 1 table, 2 syncers, 2 stops, 3 records, 1 fault, 1 crash | the list stays a contiguous tail, one syncer never repeats or reorders, a batch never skips a pending record, a stop is clean and final, the pool of a running syncer is closed only by a stop that was meant for another one and under way when this one was created, whatever the operator does |
| `syncer_serial` | 2 tables, 2 syncers, 1 stop, 2 records of one table and 1 of the other, 1 fault, 1 crash | at most one running: no loss, no gap, removal by count removes what was read, `Outbox` is implemented, lists drain, a stop returns |
| `parser_any_order` | 2 tables, 2 listeners, 3 changes, 1 fault, 1 crash | no change of a stretch is missed, acknowledged models survive |
| `replication` | 1 table, 2 listeners, 2 syncers, 2 changes, 1 fault, 1 crash | nothing is missed from source to target, one listener's changes stay in order, without a crash or a failing call only a stop that overtakes a start or a row that cannot be converted ends the process, never the syncer; `Outbox` is still implemented |
| `replication_serial` | 1 table, 2 listeners, 1 syncer, 1 stop of it, 2 changes, stop before start | nothing logged twice, the refusal is true, stopped listeners end, changes reach the target |
| `row_reader` | one column of every field type, pointer or not, on every MySQL type, and three tables of two columns; 2 images per event, any sequence of events; words of 4 bits | which value every documented pair of types has in the record, where it is not the promised one, and which pairs never get there (`Logged`, `Unreadable`); which rows end the process; NULL pointers stay NULL |
| `statements` | a key and a column, 2 values, 4 models, both engines, 2 records, 1 fault, 1 crash, models edited between syncers | arguments are bound right, the target converges, nothing is refused before an interruption |
| `log_stream` | 2 streams, 4 lines | only lines logged while a buffer is being sent are lost, a stream that has lost a logger has lost it to the stream that set that logger last, lines arrive, failed handshakes return |

All of them set `CHECK_DEADLOCK FALSE`: the operator may stop sending requests,
the bounds end the log, a process may have panicked, two goroutines of a stream
may wait for each other.

**Bounds.** `MaxLog` (per table), `MaxChanges`, `MaxLines`, `MaxFaults`, `MaxCrashes`,
`MaxRows`, `Width` and the sets of objects are bounds of the guards. Two syncers
suffice for every interference there is (each pair of them meets through one
list only); three records allow a batch with something executed, something not
yet executed, and something pushed meanwhile. `syncer_overlap` has one table,
because a pass treats tables one after the other and no safety variable relates
two of them; `syncer_serial` has two, for the `continue` of an empty one. One
fault and one crash give every error path with a successor run after it. Two
listeners and two changes allow one listener in `OnRow` while the next one asks
for its position, and two tables one that has a model beside one that has none.
Two records are enough for `Statements`: an insert or update followed by the
change of the same key, a batch of two interrupted after its first statement,
and a record of each of two models; the four models differ in the order, the
number and the type of the columns. `RowReader` puts no bound on the number of
events, only on the images in one; two images are the pair of an update or two
rows that follow each other. A word of 4 bits has the same shape as one of 64:
what matters is whether the top bit belongs to a member. Four lines allow each
stream a line before and one during a send. The runs with symmetry
(`syncer_overlap`, `parser_any_order`, `replication`, `statements`,
`statements_edit`) have no liveness property and name no object in a property.

**Fairness.** Goroutines that can run are scheduled by the Go runtime, and the
tickers go on ticking: weak fairness of each syncer's own steps (`Worker`,
`Scheduled`), of each listener (`Goroutine`, `Listener`), of each `LogChan`, and
of a handler that is past its blocking send (`ForgetWrapper`, `ClearQuit`,
`CloseCurrent`). `ReceiveQuit` needs strong fairness: the goroutine comes back to
its select again and again, and Go's select picks at random among the cases that
are ready. A handshake ends (`Handshake`), and `Quit` is a send that, once its
receiver waits, is made; it needs no strong fairness because a buffer that is
empty stays so unless a line is logged, which `FailedHandshakeReturns` excepts.
Nothing is assumed about requests, faults, crashes, new changes or new lines.

### Disagreements the runs show

Each of these runs checks what a document or a message of the program says, and
TLC gives the behaviour of the code that contradicts it.

| Run | Behaviour |
|---|---|
| `syncer_error_stops` | "stopping syncer..." is followed by a send to itself: the goroutine blocks for good |
| `syncer_two_running` | two started syncers read the same batch; the second removal deletes records nobody executed |
| `row_reader_null` | NULL in a plain or `*int` column takes the value of the row read before |
| `statements_edit` | a model edited while a syncer runs: the statement prepared before binds the values to other columns |

The models contain more of them, which no run of their own states, but which
the exceptions in the properties name:

- after two `/parser/start` and one `/parser/stop` the parser is "closed" while
  the first listener goes on and logs (`RefusedMeansClosed` and `LoggedOnce` are
  stated for `SerialSpec` only);
- a stop that comes before the new goroutine has read its canal ends the
  process with "canal is nil", and so does a row that cannot be converted, the
  syncer with it in the middle of a batch (`PanicNeedsACause`);
- a stopped listener may push its last change after those of its successor
  (`TargetFollowsSource`);
- a batch that is executed again does not lead to the rows of the source when a
  key was changed, and a repeated insert is refused and blocks the log store for
  good (`Converges`, `NeverRefused`);
- a stop that was sent to one syncer and has not returned when the next one is
  started closes the pool of the next one (`OnlyOverlapCloses`), the second of
  two concurrent stops never returns (`StopReturns`);
- a second stream silences the first one, and so does a stream whose handshake
  fails, by giving "its" loggers back to the console, even if it was started
  before the stream it silences (`CutOffByAnother`); and a failed handshake to
  which a line was logged may leave two goroutines waiting for each other
  (`FailedHandshakeReturns`);
- of the pairs that `mysql/parser/README.md` and `db/types.go` promise, `*uint`
  on any unsigned column, `uint` on those narrower than bigint and `float64` on
  a decimal end the process with every value but NULL (`Unreadable`), while
  `uint` on an unsigned mediumint is silently 0; a 64-member SET with its last
  member chosen becomes the members of the opposite number (both `Read`); a
  pointer to zero comes back as NULL, also the `*bool` of which the README says
  "0 (&other) = false" (`Logged`);
- a zero date, an enum of index 0, a column the table has not got and some
  of the undocumented pairs end the process, too (`PanicsExplained`);
- a change committed between the answer of `/parser/start` and the reading of
  the position is not captured (`RunFrom`).

## 4. Proofs

TLAPS checks these for every choice of the sets and every bound, from the
`ConstantsAssumption` of each module alone.

| Theorem | Statement |
|---|---|
| `SyncerProofs`: `TypeCorrect`, `StoreCorrect`, `StoppedCorrect`, `OverlapCorrect` | `Spec => []TypeOK`, `[]StoreIsTail`, `[]StoppedForGood`, `OnlyOverlapCloses` |
| `SyncerOrderProofs`: `InstanceOrderCorrect`, `CleanStopCorrect`, `BatchIsWindowCorrect` | the same for `InstanceOrder`, `CleanStop`, `BatchIsWindow` |
| `SyncerOutboxProofs`: `NothingLost`, `NoGapCorrect`, `BatchIsPendingCorrect` | `SerialSpec => []RemovedWereExecuted`, `[]NoGap`, `[]BatchIsPending` |
| `SyncerOutboxProofs`: `ExecutesPendingCorrect`, `Refinement` | `SerialSpec => ExecutesPending`, `ImplementsOutbox` |
| `BinlogParserProofs`: `TypeCorrect`, `StretchIsLoggedCorrect`, `PutSurvivesCorrect` | `Spec => []TypeOK`, `[]StretchIsLogged`, `[]PutSurvives` |
| `BinlogParserProofs`: `LoggedOnceCorrect`, `RefusedCorrect` | `SerialSpec => []LoggedOnce`, `[]RefusedMeansClosed` |
| `ReplicationProofs`: `TargetMissesNothingCorrect`, `TargetFollowsSourceCorrect` | `Spec => []TargetMissesNothing`, `[]TargetFollowsSource` |
| `ReplicationProofs`: `PanicNeedsACauseCorrect`, `RefinementCorrect` | `Spec => PanicNeedsACause`, `ImplementsOutbox` |
| `ReplicationProofs`: `LoggedOnceCorrect`, `RefusedCorrect` | `SerialSpec => []LoggedOnce`, `[]RefusedMeansClosed` |
| `StatementsProofs`: `TypeCorrect` | `Spec => []TypeOK` |
| `StatementsProofs`: `BoundRightCorrect`, `StageCorrect`, `ConvergesCorrect`, `NeverRefusedCorrect` | `QuietSpec => []BoundRight`, `[]TargetIsAStage`, `[]Converges`, `[]NeverRefused` |
| `RowReaderProofs`: `TypeCorrect`, `ValuesCorrect`, `PanicsCorrect`, `PointersCorrect` | `Spec => []TypeOK`, `[]ValuesArrive`, `[]PanicsExplained`, `[]PointersExact` |
| `RowReaderProofs`: `GetSetCorrect` | `Word(getSet(n, Signed(v))) = v` for every number `n` of members and every word `v` of `n` bits whose top bit is clear |
| `RowReaderProofs`: `GetSetOfSign` | `Word(getSet(Width, Signed(v))) = Pow2[Width] - v` for every word `v` whose top bit is set |
| `LogStreamProofs`: `TypeCorrect`, `OnlyLateLinesCorrect`, `CutOffCorrect` | `Spec => []TypeOK`, `[]OnlyLateLinesAreLost`, `[]CutOffByAnother` |

### Syncer

*Types.* `TypeOK` alone is not inductive: that an idle syncer has no table, no
batch and no count is needed too (`IdleIsEmpty`). Their conjunction is `TypeInv`.

*Any number of syncers.* `StoreIsTail` is inductive over `TypeInv`, since
appending keeps a tail and every removal, whoever makes it, is a suffix. The
next three need to know how far one syncer is: `Progress(s)` says that while
`s` is in a batch, the batch is a run of consecutive records with nothing
pending before it, that nothing `s` has executed on that table is at or after
the next record of the batch, and that what it has executed on the other tables
has been removed. A removal by *another* syncer only moves the removed
prefix further (`RemovedGrows`), so it never invalidates `Progress(s)`: this is
why one syncer keeps its order even when two of them run, although the two
together lose records.

*Pools.* The pool of a syncer that goes on running is closed by `CloseCurrent`
only (`RunningKeepsPool`), on the syncer `API.syncer` holds by then. That the
request was meant for another one is `StoppedForGood`: its own syncer runs no
more. That it was under way when this one was created is `OverlapKnown`: a
request is sent to the syncer that is current, and the current one changes only
by a `Create`, which records the requests under way (or with the process, which
ends them).

*One running syncer.* `SerialInv` adds that the batch is the left end of the
list and that its first `count` records were executed. Only the listener acts
on the list meanwhile, and it appends. When the batch is removed all of it was
executed (`NothingLost`); a batch starts right after what was removed, which was
executed, hence no gap. This is the step that fails with two syncers, and the
run `syncer_two_running` shows how.

*Refinement.* `executed[t]` is mapped to the newest record in `applied[t]`,
`removed[t]` to what has left the list. By `NoGap` the newest record moves by
one at most: an execution is `Execute(t)` if it is the next record and a
stutter if it repeats an older one; `RemoveBatch` is `Remove(t)` because what is
removed was executed.

### BinlogParser

`StretchIsLogged` is inductive together with the types once one knows that a
change committed while its table had a model finds it there when it is handled:
models only grow (what is saved is in the map, and a crash leaves what is
saved), unless the process ends, which ends the listener too (`StretchInv`).

`LoggedOnce` has the harder argument, because a stopped listener may still be in
`OnRow`. `Ahead(w)` is what listener `w` may still deliver: up to the cut if its
stream was closed, up to the end of the binlog otherwise. `OnceInv` says that
only the listener the API holds is open, that the `Ahead` sets of two listeners
are disjoint (a new one starts at the end of a binlog in which the others were
cut), and that nothing ahead of a listener is in the log yet. A step takes a change
from one of these sets to the log, so that it is logged once.
`RefusedMeansClosed` is the first of these facts when the API holds none.

Two more invariants serve the composition. `OrderInv`: the entries of one
listener are behind its `next` and in the order of the binlog. `NilInv`: a
listener without a canal was closed.

### Replication

The invariants of both sides are carried over, not proved again. Every step of
the server is a parser step or leaves the parser's variables alone
or ends the process (`ParserMoves`), and so for the job
(`JobMoves`): the step lemmas of the two sides apply. What is new is `Link`:
`logged[t]` is the number of entries of table `t` in `log`. From it follows that
the record number of an entry is at most `logged`, that an entry which is not
pending was removed, hence (`RemovedWereExecuted`) executed, and that record
numbers and entries are in the same order, so that `NoGap` of the job and
`OrderInv` give the order on the target. `PanicNeedsACause` takes one
invariant of each side: by `NilInv` a listener without a canal was closed, and by
`BatchIsPending` a list holds at least what its syncer is about to remove
(`RemovesWhatIsThere`), so that `LRem` fails for a fault only.

The refinement of `Outbox` is carried over too: a step of the job is mapped as
before (`OutboxRefines`), and every other step leaves lists and target alone
(`Elsewhere`), hence stutters, also the panic of a listener, which ends the
syncers in the middle of a batch.

### Statements

*Binding.* `BoundRight` needs `CacheIsFresh`: while a syncer runs, a prepared
statement has the parameters of the model in the map, which is the model of the
pass, and a new syncer starts without statements. Both hold as long as no model
is edited under a running syncer (`QuietSpec`). The conclusion does not depend
on how many columns or models there are.

*Rows.* `Converges` speaks of an empty log store only; an invariant that leads
there has to relate the target to the whole list at all times. It takes the
history `h` of the tables the source has been before each pending record, the
last one being the source (`Becomes` is what a record says of two successive
ones). `TargetIsAStage` says that such a history exists for which

- the target agrees with `h[Done]`, `Done` being the number of records this
  pass has executed, unless a batch was interrupted;
- for each key separately, the target agrees with `h[p]` for some `p >= Done`,
  unless a key was changed.

Two tables agree on a key when they have the same row of it in the columns that
all models have had (`synced`). `RecordsOK` keeps what the records must say for
this: their models have the synced columns, their batch is the left end of the
list. The steps:

- a logged change extends `h` at its end (`StageByLog`);
- an executed record moves the target to the next table of `h`
  (`ResultEffect`, `StepAgrees`); that the statement does this, in whatever
  order the columns of the two models are, is `ArgumentsAreFields`,
  `UpdateArguments` and `KeyArgument`;
- a crash or a failing statement sets `Done` back to 0. A record that is
  executed again leaves its key where the target has it, or puts it where it was
  after that record, from where the later records of the list lead on
  (`RepeatAgrees`); or it is refused, and then the batch is not removed;
- a removed batch drops the tables before `Done` (`StageByRemove`).

An empty list leaves one table, the source: `Converges`. `NotRefused` shows that
in a history a record always finds what it changes, and no duplicate:
`NeverRefused`. When a batch was interrupted *and* a key changed nothing is
said: an update that is executed again looks for a key that is gone.

`ConstantsAssumption` says that every model contains the key (a restriction of
the model, see section 5) and no column twice: a model is a Go struct built with
`reflect`, which refuses two fields of
one name.

### RowReader

`ReadFrom(image, x)` says that `image` is what comes out of reading row `x` into
*some* struct. That each image of the record was read from the image of the
row is inductive, since an image is copied before the next one is read into the
shared struct (`RecordIsRead`). `Assign` then shows which fields cannot depend
on the struct: those are the ones of `PointersExact` and `ValuesArrive`, for which
`GetIsRead` compares the getters with `Read`. `PanicsExplained` needs that a
process which has ended has ended on an image under way (`PanicKnown`). What
does depend on it is what `row_reader_null` shows. `TypeCorrect` needs the types
of the intermediate structs (`StructsOK`).

*Sets.* `getSet` takes digits off a word until it is 0, so that `GetSetCorrect`
is an induction over digits. The library's induction theorems have an operator
as a parameter; `NatBySteps` states the principle with a set instead (derived
from the well-founded ordering of finite sets), and `RecursionExists`
derives that functions defined by recursion exist, hence that the equations of
`Pow2` and `Word` hold. `GetSetDigits` says which digits `getSet` returns,
`SumOfDigits` that they sum up to the word. `SignedDigits` is the first of them
for a negative number, whose sign faces no member. `ConstantsAssumption` asks for words
of at least 3 bits (64 in the program): in a word of two bits the narrow integers
would be negative.

### LogStream

`Kept` extends `OnlyLateLinesAreLost` to the whole life of a `LogChan` and says
where a line is that is not late: with the client or in the buffer, and during a
send with the client or in what String has read. The reset then deletes late lines
only, and the two races of the buffer take nothing else.
`CutOffByAnother` holds from the moment a logger was handed over (`Owns`), also
before the stream serves: whoever writes a logger is recorded in `setBy` by the
same step, so that a stream that owns a logger and does not have it any more was
not the last to set it (`CutOff`). And who was the last has the logger or has
given it back on its end (`SetByIsKnown`), for which its handler had returned
(`QuitIsReturned`).

**Model-checked only**: liveness (`Drains`, `StopReturns`, `ListenersEnd`,
`Replicated`, `Relayed`, `FailedHandshakeReturns`), which needs ENABLED and is
out of the prover's reach. Every invariant and every other property of a passing
run is proved.

## 5. Not modelled

- A second `/syncer/start` between the two statements of `StartSyncer`, and two
  overlapping requests to the parser.
- Models without a primary key, for which `UpdateOnPK` and `DeleteOnPK` answer an
  error, and keys of several columns: `ConstantsAssumption` of `Statements` leaves
  them out ("user MUST define a PK in the datamodel",
  `syncer/store_service.go:60,67`; nothing in the code enforces it).
- The in-memory engine's `Release`, `Truncate` and `GetAll` (tests only); Go's
  detection of concurrent map access. A crash at any moment covers what the
  latter does to the process.
- Validation and binding of requests, connection strings, TLS, `main` and the
  example: no state. `Update`, `Delete` and `truncate` of the syncer have no caller
  in the server.
- Columns filled from JSON by the tag `fromJson`, which the structs that
  `/struct/put` generates never have, and the parsing of struct tags.
- Composition of `Statements` with `RowReader`: the first starts from rows the
  listener has logged, the second ends with the record; NULL and gob's zero
  values are the subject of the second only.

## 6. What could follow

1. Overlapping starts in `Syncer`, overlapping requests in `BinlogParser`.
2. An abstract table of which `Statements` is an implementation, with the
   replay of an interrupted batch as a step of its own.
