---------------------------- MODULE Replication ----------------------------
(***************************************************************************)
(* The whole server between the source and the target: the binlog listener *)
(* of BinlogParser and the syncing job of Syncer, which meet in three      *)
(* places.  A change OnRow hands to the log store is the next record of    *)
(* its table; a syncer is only created once the data models and the log    *)
(* store of the API exist; and the two live in one process, so that a      *)
(* crash, or a panic of a listener or of a syncer, ends both.  The map of  *)
(* the data models is one variable of both modules.                        *)
(*                                                                         *)
(* The requests are those of an operator who lets one syncer run at a time *)
(* and, in SerialSpec, stops the parser before starting it again.          *)
(***************************************************************************)
EXTENDS Integers, Sequences, FiniteSets

CONSTANTS
  Tables,       \* the tables of the source
  Wrappers,     \* the EventHandlerWrappers /parser/start may create
  Instances,    \* the Syncer objects /syncer/start may create
  Requests,     \* the /syncer/stop requests
  None,         \* Go's nil
  MaxChanges,   \* bound: changes committed on the source
  MaxFaults,    \* bound: failing calls, on either side
  MaxCrashes    \* bound: crashes of the process

ASSUME ConstantsAssumption ==
  /\ None \notin Tables \cup Wrappers \cup Instances
  /\ IsFiniteSet(Wrappers)
  /\ MaxChanges \in Nat
  /\ MaxFaults \in Nat
  /\ MaxCrashes \in Nat

VARIABLES
  (* the source, nutsdb, the parser's part of the API, the listeners *)
  binlog, saved, log, alive, models, logStore, wrapper, parserStopping,
  listener, canal, cut, start, next, acked, dropped,
  (* the lists of the log store, the target, the syncers, their API *)
  logged, store, applied, pc, todo, table, batch, count, quit, open,
  current, request, stopping, overlapped,
  (* counters of the bounds, shared *)
  faults, crashes

parserVars == <<binlog, saved, log, alive, models, logStore, wrapper,
                parserStopping, listener, canal, cut, start, next, acked,
                dropped>>

syncerVars == <<logged, store, applied, pc, todo, table, batch, count, quit,
                open, current, request, stopping, overlapped>>

vars == <<parserVars, syncerVars, faults, crashes>>

P == INSTANCE BinlogParser WITH stopping <- parserStopping

\* Every listener pushes a change at most once.
S == INSTANCE Syncer WITH
  MaxLog <- [t \in Tables |-> MaxChanges * Cardinality(Wrappers)]

Init == P!Init /\ S!Init

-----------------------------------------------------------------------------
(* Steps of one side.                                                      *)

ParserRequest ==
  /\ \/ \E t \in Tables : P!Commit(t) \/ P!Put(t) \/ P!PutFails(t)
     \/ \E w \in Wrappers : P!StartParser(w) \/ P!CloseCanal(w)
     \/ P!StartParserPanics
     \/ P!Restart
  /\ UNCHANGED syncerVars

ForgetWrapper(w) == P!ForgetWrapper(w) /\ UNCHANGED syncerVars

Streams(w) == P!Streams(w) /\ UNCHANGED syncerVars

ListenerFails(w) ==
  /\ P!StreamFails(w) \/ P!OnRowPushFails(w)
  /\ UNCHANGED syncerVars

\* createSyncer panics without data models (a guard of S!Create) or without a
\* log store.
StartSyncer(s) ==
  /\ alive
  /\ logStore
  /\ S!StartSyncer(s) \/ S!StartSyncerPanics(s)
  /\ UNCHANGED parserVars

StopSyncer(r) == alive /\ S!Stop(r) /\ UNCHANGED parserVars

ReceiveQuit(s, r) == S!ReceiveQuit(s, r) /\ UNCHANGED parserVars

Scheduled(s) == S!Scheduled(s) /\ UNCHANGED parserVars

SyncerFails(s) ==
  /\ \/ \E t \in Tables : S!SizeFails(s, t)
     \/ S!FetchFails(s)
     \/ S!ExecuteFails(s)
  /\ UNCHANGED parserVars

-----------------------------------------------------------------------------
(* Steps of both sides.                                                    *)

\* OnInsert, OnUpdate or OnDelete pushes the record the syncer will read.
OnRow(w) ==
  /\ P!OnRow(w)
  /\ IF log' = log
     THEN UNCHANGED syncerVars
     ELSE S!Log(binlog[next[w]].table)

Crash == P!Crash /\ S!Crash

\* The panic of a listener that finds no canal ends the syncers too.
ReadNilCanal(w) == P!ReadNilCanal(w) /\ S!Die

\* So does the panic of a listener that cannot convert a row.
OnRowPanics(w) == P!OnRowPanics(w) /\ S!Die

\* The panic of a syncer whose LRem fails ends the listeners too.
RemovePanics(s) == P!Die /\ S!RemovePanics(s)

-----------------------------------------------------------------------------
Listener(w) == Streams(w) \/ OnRow(w) \/ ReadNilCanal(w)

Next ==
  \/ ParserRequest
  \/ \E w \in Wrappers : ForgetWrapper(w) \/ Listener(w) \/ ListenerFails(w)
                          \/ OnRowPanics(w)
  \/ \E s \in Instances : StartSyncer(s) \/ Scheduled(s) \/ SyncerFails(s)
                          \/ RemovePanics(s)
  \/ \E r \in Requests : StopSyncer(r)
  \/ \E s \in Instances, r \in Requests : ReceiveQuit(s, r)
  \/ Crash

Spec == Init /\ [][Next /\ S!OneRunning']_vars

\* The operator also stops the parser before it is started again.
SerialSpec == Init /\ [][Next /\ P!StopBeforeStart /\ S!OneRunning']_vars

(***************************************************************************)
(* The goroutines of both sides are scheduled.                             *)
(***************************************************************************)
FairSpec ==
  /\ SerialSpec
  /\ \A w \in Wrappers : WF_vars(Listener(w)) /\ WF_vars(ForgetWrapper(w))
  /\ \A s \in Instances : WF_vars(Scheduled(s))

-----------------------------------------------------------------------------
\* The records of a table are numbered in the order of the log.
RecordNumber(i) ==
  Cardinality({j \in 1 .. i :
    binlog[log[j].change].table = binlog[log[i].change].table})

\* The record of the i-th entry of the log was executed.
EntryExecuted(i) == S!Executed(binlog[log[i].change].table, RecordNumber(i))

EntryPending(i) == RecordNumber(i) > S!Removed(binlog[log[i].change].table)

ExecutedOnTarget(n) == \E i \in 1 .. Len(log) : log[i].change = n /\ EntryExecuted(i)

(***************************************************************************)
(* From the source to the target nothing is missed: a change that was      *)
(* committed, on a table with a model, within the stretch a listener has   *)
(* handled, is pending in the log store or was executed on the target,     *)
(* whatever the order of the requests to the parser, and whatever crashes, *)
(* restarts and failing statements come between, except for the pushes     *)
(* that were reported as errors.                                           *)
(***************************************************************************)
TargetMissesNothing ==
  \A w \in Wrappers : \A n \in start[w] + 1 .. next[w] - 1 :
    binlog[n].defined /\ n \notin dropped =>
      \E i \in 1 .. Len(log) :
        log[i].change = n /\ (EntryPending(i) \/ EntryExecuted(i))

(***************************************************************************)
(* The target follows the source: of the records one listener has made of  *)
(* two changes of a table, that of the later change is never executed on   *)
(* the target before that of the earlier one, even when several listeners  *)
(* push to the list.  (Between listeners it is false: one that was stopped *)
(* in OnRow may push its change after those of its successor.)             *)
(***************************************************************************)
TargetFollowsSource ==
  \A i, j \in 1 .. Len(log) :
    /\ log[i].by = log[j].by
    /\ log[i].change < log[j].change
    /\ binlog[log[i].change].table = binlog[log[j].change].table
    /\ EntryExecuted(j)
    => EntryExecuted(i)

(***************************************************************************)
(* When nothing crashes and no call fails, the process ends in two ways    *)
(* only: a stop has overtaken the goroutine of a listener that has not     *)
(* read its canal yet, or a listener handles a row of a table with a model *)
(* (and cannot convert it).  It is never the syncer that ends it: what the *)
(* syncer has read by value and removes by count is still in the list,     *)
(* whatever the listeners have pushed meanwhile.                           *)
(***************************************************************************)
Overtaken(w) == listener[w] = "started" /\ ~P!Open(w)

Converting(w) == listener[w] = "handling" /\ binlog[next[w]].table \in models

PanicNeedsACause ==
  [][alive /\ ~alive' /\ UNCHANGED <<faults, crashes>>
       => /\ \E w \in Wrappers : Overtaken(w) \/ Converting(w)
          /\ \A s \in Instances : ~RemovePanics(s)]_vars

(***************************************************************************)
(* In the server, whatever a listener does to the process and to the lists *)
(* the syncers read, log store and syncers still are the outbox of a       *)
(* syncer alone: in order, at least once, removed after the execution.     *)
(***************************************************************************)
ImplementsOutbox == S!ImplementsOutbox

(***************************************************************************)
(* When the operator stops the parser before starting it again: no change  *)
(* is logged twice, the refusal of /parser/stop is true, and a listener    *)
(* that was stopped ends.                                                  *)
(***************************************************************************)
LoggedOnce == P!LoggedOnce

RefusedMeansClosed == P!RefusedMeansClosed

ListenersEnd == P!ListenersEnd

(***************************************************************************)
(* A change committed on a table with a model, while a listener listens    *)
(* and a syncer runs, eventually reaches the target, unless the parser is  *)
(* stopped, the syncer stops running (with the process, when a row cannot  *)
(* be converted), or a call fails.                                         *)
(***************************************************************************)
Replicated ==
  \A w \in Wrappers : \A n \in 1 .. MaxChanges :
    (/\ n <= Len(binlog)
     /\ listener[w] \in {"listening", "handling"}
     /\ start[w] < n
     /\ binlog[n].defined
     /\ \E s \in Instances : S!Running(s))
      ~> (\/ ExecutedOnTarget(n)
          \/ ~P!Open(w)
          \/ faults > 0
          \/ ~ \E s \in Instances : S!Running(s))
=============================================================================
