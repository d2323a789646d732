------------------------------- MODULE Syncer -------------------------------
(***************************************************************************)
(* The syncing job of package syncer and the two API calls that start and  *)
(* stop it.                                                                *)
(*                                                                         *)
(* A Syncer object owns a connection pool and, once scheduled, a goroutine *)
(* that alternates between waiting in a select (for its ticker or for the  *)
(* quit channel) and one pass of SyncAllModels: for each table, read the   *)
(* pending records, execute them one by one on the target and, when all    *)
(* of them succeeded, remove as many records from the left of the list.    *)
(* The binlog listener pushes records to the same lists at any moment, and *)
(* an operator may start further syncers and send stop requests.           *)
(*                                                                         *)
(* The n-th record logged for a table is represented by the number n, so   *)
(* that the properties can say which record was executed, and in which     *)
(* order; the rows it carries are abstracted, and with them the reason why *)
(* a statement fails.  The data models are the map every part of the       *)
(* program shares: /struct/put adds to it, records are logged for tables   *)
(* with a model only, and a pass visits these tables only.  The log store  *)
(* is there from the start (after /parser/start).                          *)
(***************************************************************************)
EXTENDS Integers, Sequences

CONSTANTS
  Tables,       \* the tables of the source
  Instances,    \* the Syncer objects /syncer/start may create
  Requests,     \* the /syncer/stop requests the operator may send
  None,         \* Go's nil
  MaxLog,       \* bound: MaxLog[t] records are logged for t
  MaxFaults,    \* bound: failing statements and failing calls of the store
  MaxCrashes    \* bound: crashes of the process

ASSUME ConstantsAssumption ==
  /\ None \notin Tables
  /\ None \notin Instances
  /\ MaxLog \in [Tables -> Nat]
  /\ MaxFaults \in Nat
  /\ MaxCrashes \in Nat

VARIABLES
  (* durable state *)
  logged,     \* logged[t]: number of records ever pushed for t (history)
  store,      \* store[t]: the pending list of t in the log store
  applied,    \* applied[t]: the statements the target committed (history)
  (* one goroutine and one object per Syncer *)
  pc,         \* where the goroutine of the instance stands
  todo,       \* tables the range loop of the pass has not visited
  table,      \* the table being synced
  batch,      \* the records GetAll returned for it
  count,      \* how many of them were executed
  quit,       \* syncQuitSignal is not nil
  open,       \* the connection pool is open
  (* the API object and the stop requests *)
  current,    \* API.syncer
  request,    \* progress of each stop request
  stopping,   \* the syncer the request found in API.syncer
  models,     \* the tables in Store.Models
  overlapped, \* the stop requests under way when the object was made (history)
  (* counters of the bounds *)
  faults,
  crashes

durable == <<logged, store, applied>>
pass == <<todo, table, batch, count>>
objects == <<quit, open>>
setup == <<models, overlapped>>
api == <<current, request, stopping, setup>>
budget == <<faults, crashes>>

vars == <<logged, store, applied, pc, todo, table, batch, count, quit, open,
          current, request, stopping, models, overlapped, faults, crashes>>

(***************************************************************************)
(* "unused"       the object does not exist yet                            *)
(* "unscheduled"  created, but Schedule panicked before its goroutine      *)
(* "select"       waiting for a tick or for the quit signal                *)
(* "range"        between two tables of a pass                             *)
(* "fetch"        the size was read, the records were not                  *)
(* "apply"        executing the records of the batch                       *)
(* "stuck"        sending on its own quit channel after an error           *)
(* "quit"         quit signal received, the pool is still open             *)
(* "closed"       the goroutine has returned                               *)
(* "dead"         the process it lived in has crashed                      *)
(***************************************************************************)
PCs == {"unused", "unscheduled", "select", "range", "fetch", "apply",
        "stuck", "quit", "closed", "dead"}

\* "new": not sent yet; "sending": blocked on the quit channel; "sent": the
\* signal was taken; "cleared": the field was set to nil; "done": answered
\* OK; "refused": answered with an error; "aborted": lost in a crash.
RequestStates ==
  {"new", "sending", "sent", "cleared", "done", "refused", "aborted"}

Executions == [by : Instances, rec : Nat]

Removed(t) == logged[t] - Len(store[t])

Running(s) == pc[s] \in {"select", "range", "fetch", "apply"}

\* The request has found its syncer and has not returned yet.
UnderWay(r) == request[r] \in {"sending", "sent", "cleared"}

-----------------------------------------------------------------------------
Init ==
  /\ logged = [t \in Tables |-> 0]
  /\ store = [t \in Tables |-> <<>>]
  /\ applied = [t \in Tables |-> <<>>]
  /\ pc = [s \in Instances |-> "unused"]
  /\ todo = [s \in Instances |-> {}]
  /\ table = [s \in Instances |-> None]
  /\ batch = [s \in Instances |-> <<>>]
  /\ count = [s \in Instances |-> 0]
  /\ quit = [s \in Instances |-> FALSE]
  /\ open = [s \in Instances |-> FALSE]
  /\ current = None
  /\ request = [r \in Requests |-> "new"]
  /\ stopping = [r \in Requests |-> None]
  /\ models = {}
  /\ overlapped = [s \in Instances |-> {}]
  /\ faults = 0
  /\ crashes = 0

-----------------------------------------------------------------------------
(* The lists of the log store: a record is pushed at the right end, and    *)
(* the oldest ones are removed from the left.                              *)

\* Slip: the left end (LPush for RPush).
PushLeft(list, rec) == <<rec>> \o list

Push(list, rec) == Append(list, rec)

\* Slip: one record too few is removed.
RemOneLess(list, n) == IF n = 0 THEN list ELSE SubSeq(list, n, Len(list))

\* Slip: the whole list is truncated, with what was logged in the meantime.
RemAll(list, n) == <<>>

Rem(list, n) == SubSeq(list, n + 1, Len(list))

-----------------------------------------------------------------------------
(* POST /struct/put: the table gets a model, in the map all parts share.   *)

Put(t) ==
  /\ models' = models \cup {t}
  /\ UNCHANGED <<durable, pc, pass, objects, current, request, stopping,
                 overlapped, budget>>

-----------------------------------------------------------------------------
(* The binlog listener: OnInsert, OnUpdate and OnDelete push one record.   *)

Log(t) ==
  /\ t \in models
  /\ logged[t] < MaxLog[t]
  /\ logged' = [logged EXCEPT ![t] = @ + 1]
  /\ store' = [store EXCEPT ![t] = Push(@, logged[t] + 1)]
  /\ UNCHANGED <<applied, pc, pass, objects, api, budget>>

-----------------------------------------------------------------------------
(* POST /syncer/start: a new object, whatever API.syncer was before, and   *)
(* refused as long as there is no model.                                   *)

Create(s) ==
  /\ models # {}
  /\ pc[s] = "unused"
  /\ current' = s
  /\ open' = [open EXCEPT ![s] = TRUE]
  /\ overlapped' = [overlapped EXCEPT ![s] = {r \in Requests : UnderWay(r)}]
  /\ UNCHANGED <<durable, pass, request, stopping, models, budget>>

StartSyncer(s) ==
  /\ Create(s)
  /\ pc' = [pc EXCEPT ![s] = "select"]
  /\ quit' = [quit EXCEPT ![s] = TRUE]

\* A negative interval passes the validation and makes NewTicker panic: the
\* handler recovers, and API.syncer is an object that never runs.
StartSyncerPanics(s) ==
  /\ Create(s)
  /\ pc' = [pc EXCEPT ![s] = "unscheduled"]
  /\ UNCHANGED quit

-----------------------------------------------------------------------------
(* POST /syncer/stop: Syncer.Stop, then Close on what API.syncer is then.  *)

StopRefused(r) ==
  /\ request[r] = "new"
  /\ ~ \E s \in Instances : current = s /\ quit[s]
  /\ request' = [request EXCEPT ![r] = "refused"]
  /\ UNCHANGED <<durable, pc, pass, objects, current, stopping, setup, budget>>

StopSend(r) ==
  /\ request[r] = "new"
  /\ \E s \in Instances :
       /\ current = s
       /\ quit[s]
       /\ stopping' = [stopping EXCEPT ![r] = s]
  /\ request' = [request EXCEPT ![r] = "sending"]
  /\ UNCHANGED <<durable, pc, pass, objects, current, setup, budget>>

\* Slip: the signal is also taken between two records of a batch.
SelectsInBatch(s) == pc[s] \in {"select", "apply"}

Selects(s) == pc[s] = "select"

\* The channel is unbuffered: the send completes when the goroutine selects.
ReceiveQuit(s, r) ==
  /\ Selects(s)
  /\ request[r] = "sending"
  /\ stopping[r] = s
  /\ pc' = [pc EXCEPT ![s] = "quit"]
  /\ request' = [request EXCEPT ![r] = "sent"]
  /\ UNCHANGED <<durable, pass, objects, current, stopping, setup, budget>>

\* Slip: Close is not followed by return, the goroutine selects again.
CloseWithoutReturn(s) ==
  /\ pc[s] = "quit"
  /\ pc' = [pc EXCEPT ![s] = "select"]
  /\ open' = [open EXCEPT ![s] = FALSE]
  /\ UNCHANGED <<durable, pass, quit, api, budget>>

\* Slip: API.syncer is closed instead of the object that was stopped.
CloseCurrentOnQuit(s) ==
  /\ pc[s] = "quit"
  /\ pc' = [pc EXCEPT ![s] = "closed"]
  /\ open' = [open EXCEPT ![current] = FALSE]
  /\ UNCHANGED <<durable, pass, quit, api, budget>>

CloseOnQuit(s) ==
  /\ pc[s] = "quit"
  /\ pc' = [pc EXCEPT ![s] = "closed"]
  /\ open' = [open EXCEPT ![s] = FALSE]
  /\ UNCHANGED <<durable, pass, quit, api, budget>>

ClearQuit(r) ==
  /\ request[r] = "sent"
  /\ request' = [request EXCEPT ![r] = "cleared"]
  /\ quit' = [quit EXCEPT ![stopping[r]] = FALSE]
  /\ UNCHANGED <<durable, pc, pass, open, current, stopping, setup, budget>>

\* API.syncer is read again here: it may be another object than the one the
\* request has stopped.
CloseCurrent(r) ==
  /\ request[r] = "cleared"
  /\ request' = [request EXCEPT ![r] = "done"]
  /\ open' = [open EXCEPT ![current] = FALSE]
  /\ UNCHANGED <<durable, pc, pass, quit, current, stopping, setup, budget>>

-----------------------------------------------------------------------------
(* SyncAllModels, one step per call it makes.                              *)

\* The pass ranges over the tables with a model.
Tick(s) ==
  /\ Selects(s)
  /\ pc' = [pc EXCEPT ![s] = "range"]
  /\ todo' = [todo EXCEPT ![s] = models]
  /\ UNCHANGED <<durable, table, batch, count, objects, api, budget>>

\* Slip: "break" for "continue", an empty table ends the pass.
RestUnlessEmpty(s, t) == IF store[t] = <<>> THEN {} ELSE todo[s] \ {t}

Rest(s, t) == todo[s] \ {t}

\* Go visits the tables of the map in any order; an empty list is skipped.
SizeTable(s, t) ==
  /\ pc[s] = "range"
  /\ t \in todo[s]
  /\ todo' = [todo EXCEPT ![s] = Rest(s, t)]
  /\ \/ /\ store[t] = <<>>
        /\ UNCHANGED <<pc, table>>
     \/ /\ store[t] # <<>>
        /\ pc' = [pc EXCEPT ![s] = "fetch"]
        /\ table' = [table EXCEPT ![s] = t]
  /\ UNCHANGED <<durable, batch, count, objects, api, budget>>

\* Slip: the records leave the list when they are read, not once executed.
FetchAndRemove(s) ==
  /\ pc[s] = "fetch"
  /\ pc' = [pc EXCEPT ![s] = "apply"]
  /\ batch' = [batch EXCEPT ![s] = store[table[s]]]
  /\ store' = [store EXCEPT ![table[s]] = <<>>]
  /\ UNCHANGED <<logged, applied, todo, table, count, objects, api, budget>>

FetchBatch(s) ==
  /\ pc[s] = "fetch"
  /\ pc' = [pc EXCEPT ![s] = "apply"]
  /\ batch' = [batch EXCEPT ![s] = store[table[s]]]
  /\ UNCHANGED <<durable, todo, table, count, objects, api, budget>>

\* Insert, UpdateOnPK or DeleteOnPK succeeds.
ExecuteRecord(s) ==
  /\ pc[s] = "apply"
  /\ count[s] < Len(batch[s])
  /\ open[s]
  /\ applied' = [applied EXCEPT ![table[s]] =
                   Append(@, [by |-> s, rec |-> batch[s][count[s] + 1]])]
  /\ count' = [count EXCEPT ![s] = @ + 1]
  /\ UNCHANGED <<logged, store, pc, todo, table, batch, objects, api, budget>>

\* Slip: the count is declared outside the loop over the tables.
LeaveTableKeepsCount(s) ==
  /\ table' = [table EXCEPT ![s] = None]
  /\ batch' = [batch EXCEPT ![s] = <<>>]
  /\ UNCHANGED count

LeaveTable(s) ==
  /\ table' = [table EXCEPT ![s] = None]
  /\ batch' = [batch EXCEPT ![s] = <<>>]
  /\ count' = [count EXCEPT ![s] = 0]

\* The whole batch was executed: LRem removes as many records from the left.
RemoveBatch(s) ==
  /\ pc[s] = "apply"
  /\ count[s] = Len(batch[s])
  /\ count[s] <= Len(store[table[s]])
  /\ store' = [store EXCEPT ![table[s]] = Rem(@, count[s])]
  /\ pc' = [pc EXCEPT ![s] = "range"]
  /\ LeaveTable(s)
  /\ UNCHANGED <<logged, applied, todo, objects, api, budget>>

\* Slip: the next pass starts at once, without a select.
EndRangeStartsOver(s) ==
  /\ pc[s] = "range"
  /\ todo[s] = {}
  /\ todo' = [todo EXCEPT ![s] = models]
  /\ UNCHANGED <<durable, pc, table, batch, count, objects, api, budget>>

EndRange(s) ==
  /\ pc[s] = "range"
  /\ todo[s] = {}
  /\ pc' = [pc EXCEPT ![s] = "select"]
  /\ UNCHANGED <<durable, pass, objects, api, budget>>

-----------------------------------------------------------------------------
(* Errors.  SyncAllModels reports one by sending on the quit channel, whose *)
(* only receiver is the goroutine that is sending.                         *)

Block(s) ==
  /\ pc' = [pc EXCEPT ![s] = "stuck"]
  /\ todo' = [todo EXCEPT ![s] = {}]
  /\ LeaveTable(s)

\* Size fails: it answers 0 with an error nobody reads, and the table is
\* skipped as if its list were empty.
SizeFails(s, t) ==
  /\ pc[s] = "range"
  /\ t \in todo[s]
  /\ store[t] # <<>>
  /\ faults < MaxFaults
  /\ faults' = faults + 1
  /\ todo' = [todo EXCEPT ![s] = Rest(s, t)]
  /\ UNCHANGED <<durable, pc, table, batch, count, objects, api, crashes>>

FetchFails(s) ==
  /\ pc[s] = "fetch"
  /\ faults < MaxFaults
  /\ faults' = faults + 1
  /\ Block(s)
  /\ UNCHANGED <<durable, objects, api, crashes>>

\* Slip: the error of a statement is swallowed and the loop goes on.
ExecuteErrorSwallowed(s) ==
  /\ pc[s] = "apply"
  /\ count[s] < Len(batch[s])
  /\ open[s]
  /\ faults < MaxFaults
  /\ faults' = faults + 1
  /\ count' = [count EXCEPT ![s] = @ + 1]
  /\ UNCHANGED <<durable, pc, todo, table, batch, objects, api, crashes>>

\* The statement fails on the target, or it is committed and the answer is
\* lost with the connection.
ExecuteFails(s) ==
  /\ pc[s] = "apply"
  /\ count[s] < Len(batch[s])
  /\ open[s]
  /\ faults < MaxFaults
  /\ faults' = faults + 1
  /\ \/ UNCHANGED applied
     \/ applied' = [applied EXCEPT ![table[s]] =
                      Append(@, [by |-> s, rec |-> batch[s][count[s] + 1]])]
  /\ Block(s)
  /\ UNCHANGED <<logged, store, objects, api, crashes>>

\* Every statement on a closed pool fails.
ExecuteOnClosedPool(s) ==
  /\ pc[s] = "apply"
  /\ count[s] < Len(batch[s])
  /\ ~open[s]
  /\ Block(s)
  /\ UNCHANGED <<durable, objects, api, budget>>

\* The process ends: the log store and the target survive, and the models
\* /struct/put could save.
Die ==
  /\ pc' = [s \in Instances |-> IF pc[s] = "unused" THEN "unused" ELSE "dead"]
  /\ todo' = [s \in Instances |-> {}]
  /\ table' = [s \in Instances |-> None]
  /\ batch' = [s \in Instances |-> <<>>]
  /\ count' = [s \in Instances |-> 0]
  /\ quit' = [s \in Instances |-> FALSE]
  /\ open' = [s \in Instances |-> FALSE]
  /\ current' = None
  /\ request' = [r \in Requests |->
                   IF UnderWay(r) THEN "aborted" ELSE request[r]]
  /\ models' \in SUBSET models
  /\ UNCHANGED <<durable, stopping, overlapped>>

Crash ==
  /\ crashes < MaxCrashes
  /\ crashes' = crashes + 1
  /\ Die
  /\ UNCHANGED faults

\* LRem answers an error, because it shall remove more records than the list
\* holds or because nutsdb fails, and that is a panic in a goroutine nobody
\* recovers.  (When the records were removed all the same, RemoveBatch and
\* Crash say so.)
RemovePanics(s) ==
  /\ pc[s] = "apply"
  /\ count[s] = Len(batch[s])
  /\ count[s] > 0
  /\ \/ /\ count[s] > Len(store[table[s]])
        /\ UNCHANGED faults
     \/ /\ faults < MaxFaults
        /\ faults' = faults + 1
  /\ Die
  /\ UNCHANGED crashes

-----------------------------------------------------------------------------
Scheduled(s) ==
  \/ Tick(s)
  \/ \E t \in Tables : SizeTable(s, t)
  \/ FetchBatch(s)
  \/ ExecuteRecord(s)
  \/ ExecuteOnClosedPool(s)
  \/ RemoveBatch(s)
  \/ EndRange(s)
  \/ CloseOnQuit(s)

Worker(s) == Scheduled(s) \/ RemovePanics(s)

Stop(r) ==
  \/ StopRefused(r)
  \/ StopSend(r)
  \/ ClearQuit(r)
  \/ CloseCurrent(r)

Next ==
  \/ \E t \in Tables : Put(t) \/ Log(t)
  \/ \E s \in Instances :
       \/ StartSyncer(s)
       \/ StartSyncerPanics(s)
       \/ Worker(s)
       \/ \E t \in Tables : SizeFails(s, t)
       \/ FetchFails(s)
       \/ ExecuteFails(s)
  \/ \E r \in Requests : Stop(r)
  \/ \E s \in Instances, r \in Requests : ReceiveQuit(s, r)
  \/ Crash

Spec == Init /\ [][Next]_vars

(***************************************************************************)
(* "There's only one running instance": the operator starts a syncer only  *)
(* when no other one runs.  Nothing in the code enforces it.               *)
(***************************************************************************)
OneRunning == \A s1, s2 \in Instances : Running(s1) /\ Running(s2) => s1 = s2

SerialSpec == Init /\ [][Next /\ OneRunning']_vars

(***************************************************************************)
(* The runtime schedules every goroutine, and the ticker keeps ticking.    *)
(* A goroutine that returns to its select while a stop request is sending  *)
(* chooses between the tick and the signal at random: strong fairness.     *)
(***************************************************************************)
Fairness ==
  /\ \A s \in Instances : WF_vars(Worker(s))
  /\ \A r \in Requests : WF_vars(ClearQuit(r) \/ CloseCurrent(r))
  /\ \A s \in Instances, r \in Requests : SF_vars(ReceiveQuit(s, r))

FairSpec == SerialSpec /\ Fairness

-----------------------------------------------------------------------------
TypeOK ==
  /\ logged \in [Tables -> Nat]
  /\ store \in [Tables -> Seq(Nat)]
  /\ applied \in [Tables -> Seq(Executions)]
  /\ pc \in [Instances -> PCs]
  /\ todo \in [Instances -> SUBSET Tables]
  /\ table \in [Instances -> Tables \cup {None}]
  /\ batch \in [Instances -> Seq(Nat)]
  /\ count \in [Instances -> Nat]
  /\ quit \in [Instances -> BOOLEAN]
  /\ open \in [Instances -> BOOLEAN]
  /\ current \in Instances \cup {None}
  /\ request \in [Requests -> RequestStates]
  /\ stopping \in [Requests -> Instances \cup {None}]
  /\ models \in SUBSET Tables
  /\ overlapped \in [Instances -> SUBSET Requests]
  /\ faults \in Nat
  /\ crashes \in Nat
  /\ \A s \in Instances :
       /\ pc[s] \in {"fetch", "apply"} => table[s] \in Tables
       /\ count[s] <= Len(batch[s])
  /\ \A r \in Requests :
       /\ request[r] \in {"sending", "sent", "cleared", "done"} => stopping[r] # None
       /\ UnderWay(r) => current # None

(***************************************************************************)
(* The pending list of a table is a contiguous tail of what was logged for *)
(* it: pushes at the right, removals at the left and crashes never lose a  *)
(* record in the middle, duplicate one or change the order.                *)
(***************************************************************************)
StoreIsTail ==
  \A t \in Tables :
    /\ Len(store[t]) <= logged[t]
    /\ \A i \in 1 .. Len(store[t]) : store[t][i] = Removed(t) + i

(***************************************************************************)
(* One syncer never executes a record twice, nor an older one after a      *)
(* newer one, however many other syncers share the log store with it.      *)
(***************************************************************************)
InstanceOrder ==
  \A t \in Tables : \A i, j \in 1 .. Len(applied[t]) :
    i < j /\ applied[t][i].by = applied[t][j].by
      => applied[t][i].rec < applied[t][j].rec

(***************************************************************************)
(* A batch is a run of consecutive records, and every record before it has *)
(* left the log store: no other syncer can make it skip a pending record.  *)
(***************************************************************************)
Window(s) ==
  /\ \A i \in 1 .. Len(batch[s]) : batch[s][i] = batch[s][1] + i - 1
  /\ batch[s] # <<>> => batch[s][1] <= Removed(table[s]) + 1

BatchIsWindow == \A s \in Instances : pc[s] = "apply" => Window(s)

\* Every record that s has executed has left the log store.
Settled(s) ==
  \A t \in Tables : \A i \in 1 .. Len(applied[t]) :
    applied[t][i].by = s => applied[t][i].rec <= Removed(t)

(***************************************************************************)
(* A stop is clean: the signal is taken between two passes only, so the    *)
(* syncer it ends leaves behind no record that was executed and is still   *)
(* pending, which the next syncer would execute again.                     *)
(***************************************************************************)
CleanStop ==
  \A s \in Instances : pc[s] \in {"select", "quit", "closed"} => Settled(s)

(***************************************************************************)
(* Once the stop signal is taken, the goroutine of that syncer never runs  *)
(* again, whatever the other requests do.                                  *)
(***************************************************************************)
StoppedForGood ==
  \A r \in Requests :
    request[r] \in {"sent", "cleared", "done"} =>
      pc[stopping[r]] \in {"quit", "closed", "dead"}

(***************************************************************************)
(* A running syncer loses its connection pool in one way only: a stop      *)
(* request that had ended another syncer, and was still under way when     *)
(* this one was started, closes API.syncer before it returns.  An operator *)
(* who lets each stop return before the next start never sees statements   *)
(* fail on a closed pool.                                                  *)
(***************************************************************************)
ClosesAnother(r, s) ==
  /\ request[r] = "cleared"
  /\ request'[r] = "done"
  /\ stopping[r] # s
  /\ r \in overlapped[s]

OnlyOverlapCloses ==
  [][\A s \in Instances :
       Running(s) /\ open[s] /\ Running(s)' /\ ~open'[s] =>
         \E r \in Requests : ClosesAnother(r, s)]_vars

Executed(t, n) == \E i \in 1 .. Len(applied[t]) : applied[t][i].rec = n

(***************************************************************************)
(* No loss: a record leaves the log store only after it was executed on    *)
(* the target.                                                             *)
(***************************************************************************)
RemovedWereExecuted ==
  \A t \in Tables : \A n \in 1 .. Removed(t) : Executed(t, n)

(***************************************************************************)
(* No gap: a record is never executed before the one logged before it.     *)
(***************************************************************************)
NoGap ==
  \A t \in Tables : \A i \in 1 .. Len(applied[t]) :
    applied[t][i].rec > 1 =>
      \E j \in 1 .. i - 1 : applied[t][j].rec = applied[t][i].rec - 1

(***************************************************************************)
(* What LRem will remove by count is what was read by value: until the     *)
(* batch is removed it stays the left end of the list, whatever the        *)
(* listener pushes meanwhile (and so the removal cannot panic).            *)
(***************************************************************************)
BatchIsPending ==
  \A s \in Instances : pc[s] = "apply" =>
    /\ Len(batch[s]) <= Len(store[table[s]])
    /\ \A i \in 1 .. Len(batch[s]) : batch[s][i] = store[table[s]][i]

(***************************************************************************)
(* What the syncer executes is still pending at that moment: a record that *)
(* was removed is never executed again.                                    *)
(***************************************************************************)
ExecutesPending ==
  [][\A t \in Tables :
       Len(applied'[t]) > Len(applied[t]) =>
         applied'[t][Len(applied'[t])].rec > Removed(t)]_vars

(***************************************************************************)
(* The syncer and its log store implement the outbox: executed up to the   *)
(* newest record the target has seen, removed up to the head of the list.  *)
(***************************************************************************)
Newest(t) ==
  CHOOSE n \in 0 .. logged[t] :
    /\ n = 0 \/ \E i \in 1 .. Len(applied[t]) : applied[t][i].rec = n
    /\ \A i \in 1 .. Len(applied[t]) : applied[t][i].rec <= n

OutboxOf == INSTANCE Outbox WITH
  executed <- [t \in Tables |-> Newest(t)],
  removed <- [t \in Tables |-> Removed(t)]

ImplementsOutbox == OutboxOf!Spec

(***************************************************************************)
(* While a syncer runs, the pending records of every table with a model    *)
(* are eventually executed and removed, unless that syncer stops running.  *)
(***************************************************************************)
Drains ==
  \A t \in Tables :
    (t \in models /\ store[t] # <<>> /\ \E s \in Instances : Running(s))
      ~> (store[t] = <<>> \/ \A s \in Instances : ~Running(s))

(***************************************************************************)
(* A stop request that waits for the goroutine is eventually answered,     *)
(* unless that goroutine blocks after an error, or takes the signal of     *)
(* another request: the quit channel has no receiver left then.            *)
(***************************************************************************)
TakenBy(s, r) == stopping[r] = s /\ request[r] \in {"sent", "cleared", "done"}

StopReturns ==
  \A r \in Requests :
    (request[r] = "sending")
      ~> (\/ request[r] \in {"done", "aborted"}
          \/ \E s \in Instances :
               /\ stopping[r] = s
               /\ pc[s] = "stuck" \/ \E other \in Requests \ {r} : TakenBy(s, other))

(***************************************************************************)
(* "error: ... - stopping syncer...": a syncer that met an error stops.    *)
(***************************************************************************)
StopsOnError ==
  \A s \in Instances : (pc[s] = "stuck") ~> (pc[s] \in {"closed", "dead"})
=============================================================================
