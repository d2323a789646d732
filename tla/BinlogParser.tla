---------------------------- MODULE BinlogParser ----------------------------
(***************************************************************************)
(* From the binlog to the log store: the API calls that define a table     *)
(* (/struct/put) and that start and stop the parser, the goroutine that    *)
(* runs StartBinlogListener, and the callback OnRow that hands a change to *)
(* the log store.                                                          *)
(*                                                                         *)
(* A change is the index of an entry of the binlog.  canal is a library:   *)
(* it is modelled by what the parser relies on, a stream of the changes    *)
(* after the position RunFrom was given, which an error may end.  Close    *)
(* cuts the stream and does not wait for the goroutine, which may still    *)
(* handle what canal has read.  The requests come one at a time.           *)
(***************************************************************************)
EXTENDS Integers, Sequences

CONSTANTS
  Tables,       \* the tables of the source
  Wrappers,     \* the EventHandlerWrappers /parser/start may create
  None,         \* Go's nil
  MaxChanges,   \* bound: changes committed on the source
  MaxFaults,    \* bound: failing calls (MySQL, stream, log store)
  MaxCrashes    \* bound: crashes of the process

ASSUME ConstantsAssumption ==
  /\ None \notin Wrappers
  /\ MaxChanges \in Nat
  /\ MaxFaults \in Nat
  /\ MaxCrashes \in Nat

VARIABLES
  (* the source *)
  binlog,     \* each change: its table, and whether a model was defined for
              \* it at that moment (history)
  (* nutsdb *)
  saved,      \* the tables in bucket "API"
  log,        \* the changes pushed to the lists of bucket "store", with the
              \* listener that pushed each (history: nothing is removed here)
  (* the process *)
  alive,
  models,     \* DataModels, the one map every part of the program shares
  logStore,   \* API.logStore is not nil
  wrapper,    \* API.eventWrapper
  stopping,   \* a StopParser has closed the canal and not returned yet
  (* one goroutine and one canal per wrapper *)
  listener,   \* where the goroutine stands
  canal,      \* baseHandler.canal is not nil
  cut,        \* where canal.Close has cut the stream
  start,      \* the position GetMasterPos returned
  next,       \* the next change the stream delivers
  (* history and bounds *)
  acked,      \* the tables for which Put has answered without error
  dropped,    \* the changes that met an error of the log store
  faults,
  crashes

nutsdb == <<saved, log>>
apiState == <<models, logStore, wrapper, stopping>>
goroutines == <<listener, canal, cut, start, next>>
budget == <<faults, crashes>>

vars == <<binlog, saved, log, alive, models, logStore, wrapper, stopping,
          listener, canal, cut, start, next, acked, dropped, faults, crashes>>

\* "unused" no such object, "started" the go statement was executed, "asking"
\* GetMasterPos is under way, "listening" waiting for the stream, "handling"
\* in OnRow, "ended" the goroutine has returned.
Listeners == {"unused", "started", "asking", "listening", "handling", "ended"}

NoCut == -1
Open(w) == cut[w] = NoCut

Going(w) == listener[w] \in {"asking", "listening", "handling"}

Fault ==
  /\ faults < MaxFaults
  /\ faults' = faults + 1
  /\ UNCHANGED crashes

Init ==
  /\ binlog = <<>>
  /\ saved = {}
  /\ log = <<>>
  /\ alive = TRUE
  /\ models = {}
  /\ logStore = FALSE
  /\ wrapper = None
  /\ stopping = FALSE
  /\ listener = [w \in Wrappers |-> "unused"]
  /\ canal = [w \in Wrappers |-> FALSE]
  /\ cut = [w \in Wrappers |-> NoCut]
  /\ start = [w \in Wrappers |-> 0]
  /\ next = [w \in Wrappers |-> 1]
  /\ acked = {}
  /\ dropped = {}
  /\ faults = 0
  /\ crashes = 0

-----------------------------------------------------------------------------
(* The source database commits a change.                                   *)

Commit(t) ==
  /\ Len(binlog) < MaxChanges
  /\ binlog' = Append(binlog, [table |-> t, defined |-> t \in models])
  /\ UNCHANGED <<nutsdb, alive, apiState, goroutines, acked, dropped, budget>>

-----------------------------------------------------------------------------
(* POST /struct/put: the shared map first, then bucket "API".              *)

\* Slip: the answer does not wait for the record in nutsdb.
PutInMemory(t) ==
  /\ alive
  /\ t \notin acked
  /\ models' = models \cup {t}
  /\ acked' = acked \cup {t}
  /\ UNCHANGED <<binlog, saved, log, alive, logStore, wrapper, stopping,
                 goroutines, dropped, budget>>

Put(t) ==
  /\ alive
  /\ t \notin acked
  /\ models' = models \cup {t}
  /\ saved' = saved \cup {t}
  /\ acked' = acked \cup {t}
  /\ UNCHANGED <<binlog, log, alive, logStore, wrapper, stopping,
                 goroutines, dropped, budget>>

\* nutsdb fails: the answer is an error, the model stays in the map.
PutFails(t) ==
  /\ alive
  /\ models' = models \cup {t}
  /\ Fault
  /\ UNCHANGED <<binlog, nutsdb, alive, logStore, wrapper, stopping,
                 goroutines, acked, dropped>>

-----------------------------------------------------------------------------
(* POST /parser/start.  NewStore panics, and the handler recovers, as long *)
(* as no model is defined; what API.eventWrapper was is not looked at.     *)

\* Slip: API.logStore is assigned once the listener runs.
StartWithoutStore(w) ==
  /\ alive
  /\ ~stopping
  /\ models # {}
  /\ listener[w] = "unused"
  /\ wrapper' = w
  /\ listener' = [listener EXCEPT ![w] = "started"]
  /\ canal' = [canal EXCEPT ![w] = TRUE]
  /\ UNCHANGED <<binlog, nutsdb, alive, models, logStore, stopping, cut, start,
                 next, acked, dropped, budget>>

\* Slip: the canal is assigned once the goroutine is on its way.
StartWithoutCanal(w) ==
  /\ alive
  /\ ~stopping
  /\ models # {}
  /\ listener[w] = "unused"
  /\ logStore' = TRUE
  /\ wrapper' = w
  /\ listener' = [listener EXCEPT ![w] = "started"]
  /\ UNCHANGED <<binlog, nutsdb, alive, models, stopping, canal, cut, start,
                 next, acked, dropped, budget>>

StartParser(w) ==
  /\ alive
  /\ ~stopping
  /\ models # {}
  /\ listener[w] = "unused"
  /\ logStore' = TRUE
  /\ wrapper' = w
  /\ listener' = [listener EXCEPT ![w] = "started"]
  /\ canal' = [canal EXCEPT ![w] = TRUE]
  /\ UNCHANGED <<binlog, nutsdb, alive, models, stopping, cut, start, next,
                 acked, dropped, budget>>

\* NewCanal fails: NewEventWrapper panics after API.logStore was assigned.
StartParserPanics ==
  /\ alive
  /\ ~stopping
  /\ models # {}
  /\ Fault
  /\ logStore' = TRUE
  /\ UNCHANGED <<binlog, nutsdb, alive, models, wrapper, stopping, goroutines,
                 acked, dropped>>

-----------------------------------------------------------------------------
(* POST /parser/stop, refused without effect when API.eventWrapper is nil. *)

\* Slip: the wrapper is forgotten and its canal never closed.
CloseNothing(w) ==
  /\ alive
  /\ wrapper = w
  /\ ~stopping
  /\ stopping' = TRUE
  /\ UNCHANGED <<binlog, nutsdb, alive, models, logStore, wrapper, goroutines,
                 acked, dropped, budget>>

CloseCanal(w) ==
  /\ alive
  /\ wrapper = w
  /\ ~stopping
  /\ stopping' = TRUE
  /\ cut' = [cut EXCEPT ![w] = Len(binlog)]
  /\ UNCHANGED <<binlog, nutsdb, alive, models, logStore, wrapper, listener,
                 canal, start, next, acked, dropped, budget>>

\* baseHandler.canal, then API.eventWrapper, are set to nil.
ForgetWrapper(w) ==
  /\ alive
  /\ wrapper = w
  /\ stopping
  /\ stopping' = FALSE
  /\ canal' = [canal EXCEPT ![w] = FALSE]
  /\ wrapper' = None
  /\ UNCHANGED <<binlog, nutsdb, alive, models, logStore, listener, cut, start,
                 next, acked, dropped, budget>>

-----------------------------------------------------------------------------
(* The end of the process: what is in memory is lost, and the models are   *)
(* loaded from bucket "API" when it is started again.                      *)

Die ==
  /\ alive
  /\ alive' = FALSE
  /\ models' = saved
  /\ logStore' = FALSE
  /\ wrapper' = None
  /\ stopping' = FALSE
  /\ listener' = [w \in Wrappers |->
                    IF listener[w] = "unused" THEN "unused" ELSE "ended"]
  /\ canal' = [w \in Wrappers |-> FALSE]
  /\ UNCHANGED <<binlog, nutsdb, cut, start, next, acked, dropped>>

Crash ==
  /\ crashes < MaxCrashes
  /\ crashes' = crashes + 1
  /\ Die
  /\ UNCHANGED faults

Restart ==
  /\ ~alive
  /\ alive' = TRUE
  /\ UNCHANGED <<binlog, nutsdb, apiState, goroutines, acked, dropped, budget>>

-----------------------------------------------------------------------------
(* StartBinlogListener, on a goroutine of its own.                         *)

ReadCanal(w) ==
  /\ listener[w] = "started"
  /\ canal[w]
  /\ listener' = [listener EXCEPT ![w] = "asking"]
  /\ UNCHANGED <<binlog, nutsdb, alive, apiState, canal, cut, start, next,
                 acked, dropped, budget>>

\* A stop came first: "canal is nil", a panic that nobody recovers.
ReadNilCanal(w) ==
  /\ listener[w] = "started"
  /\ ~canal[w]
  /\ Die
  /\ UNCHANGED budget

\* Slip: the position is the beginning of the binlog.
RunFromTheBeginning(w) ==
  /\ listener[w] = "asking"
  /\ listener' = [listener EXCEPT ![w] = "listening"]
  /\ UNCHANGED <<binlog, nutsdb, alive, apiState, canal, cut, start, next,
                 acked, dropped, budget>>

RunFrom(w) ==
  /\ listener[w] = "asking"
  /\ start' = [start EXCEPT ![w] = Len(binlog)]
  /\ next' = [next EXCEPT ![w] = Len(binlog) + 1]
  /\ listener' = [listener EXCEPT ![w] = "listening"]
  /\ UNCHANGED <<binlog, nutsdb, alive, apiState, canal, cut, acked, dropped,
                 budget>>

\* GetMasterPos fails or the stream breaks: the goroutine returns without a
\* word, and API.eventWrapper stays.
StreamFails(w) ==
  /\ listener[w] \in {"asking", "listening"}
  /\ Fault
  /\ listener' = [listener EXCEPT ![w] = "ended"]
  /\ UNCHANGED <<binlog, nutsdb, alive, apiState, canal, cut, start, next,
                 acked, dropped>>

StreamCloses(w) ==
  /\ listener[w] = "listening"
  /\ ~Open(w)
  /\ listener' = [listener EXCEPT ![w] = "ended"]
  /\ UNCHANGED <<binlog, nutsdb, alive, apiState, canal, cut, start, next,
                 acked, dropped, budget>>

Receive(w) ==
  /\ listener[w] = "listening"
  /\ next[w] <= IF Open(w) THEN Len(binlog) ELSE cut[w]
  /\ listener' = [listener EXCEPT ![w] = "handling"]
  /\ UNCHANGED <<binlog, nutsdb, alive, apiState, canal, cut, start, next,
                 acked, dropped, budget>>

HandledOnRow(w) ==
  /\ next' = [next EXCEPT ![w] = @ + 1]
  /\ listener' = [listener EXCEPT ![w] = "listening"]

\* Slip: the handler works on the models in nutsdb.
ModelsInNutsdb == saved

ModelsOfHandler == models

\* A change of a table without a model is reported and skipped.
OnRow(w) ==
  /\ listener[w] = "handling"
  /\ log' = IF binlog[next[w]].table \in ModelsOfHandler
            THEN Append(log, [by |-> w, change |-> next[w]])
            ELSE log
  /\ HandledOnRow(w)
  /\ UNCHANGED <<binlog, saved, alive, apiState, canal, cut, start, acked, dropped,
                 budget>>

\* The row cannot be converted (which rows is RowReader's matter): getBinLogData
\* panics on the goroutine of the stream, and nobody recovers.
OnRowPanics(w) ==
  /\ listener[w] = "handling"
  /\ binlog[next[w]].table \in ModelsOfHandler
  /\ Die
  /\ UNCHANGED budget

\* Push fails: OnInsert, OnUpdate or OnDelete reports it and returns.
OnRowPushFails(w) ==
  /\ listener[w] = "handling"
  /\ binlog[next[w]].table \in ModelsOfHandler
  /\ Fault
  /\ dropped' = dropped \cup {next[w]}
  /\ HandledOnRow(w)
  /\ UNCHANGED <<binlog, nutsdb, alive, apiState, canal, cut, start, acked>>

-----------------------------------------------------------------------------
Streams(w) ==
  \/ ReadCanal(w)
  \/ RunFrom(w)
  \/ StreamCloses(w)
  \/ Receive(w)

Goroutine(w) == ReadNilCanal(w) \/ Streams(w) \/ OnRow(w)

Next ==
  \/ \E t \in Tables : Commit(t) \/ Put(t) \/ PutFails(t)
  \/ \E w \in Wrappers :
       \/ StartParser(w)
       \/ CloseCanal(w)
       \/ ForgetWrapper(w)
       \/ Goroutine(w)
       \/ StreamFails(w)
       \/ OnRowPushFails(w)
       \/ OnRowPanics(w)
  \/ StartParserPanics
  \/ Crash
  \/ Restart

Spec == Init /\ [][Next]_vars

(***************************************************************************)
(* The operator stops the parser before it is started again.               *)
(***************************************************************************)
StopBeforeStart == wrapper' # wrapper => wrapper = None \/ wrapper' = None

SerialSpec == Init /\ [][Next /\ StopBeforeStart]_vars

(***************************************************************************)
(* The runtime schedules every goroutine, and that of a StopParser too.    *)
(***************************************************************************)
FairSpec ==
  /\ SerialSpec
  /\ \A w \in Wrappers : WF_vars(Goroutine(w)) /\ WF_vars(ForgetWrapper(w))

-----------------------------------------------------------------------------
Change == [table : Tables, defined : BOOLEAN]

TypeOK ==
  /\ binlog \in Seq(Change)
  /\ log \in Seq([by : Wrappers, change : Nat])
  /\ \A i \in 1 .. Len(log) : log[i].change \in 1 .. Len(binlog)
  /\ saved \subseteq models
  /\ models \subseteq Tables
  /\ alive \in BOOLEAN
  /\ logStore \in BOOLEAN
  /\ wrapper \in Wrappers \cup {None}
  /\ stopping \in BOOLEAN
  /\ listener \in [Wrappers -> Listeners]
  /\ canal \in [Wrappers -> BOOLEAN]
  /\ cut \in [Wrappers -> (0 .. Len(binlog)) \cup {NoCut}]
  /\ start \in [Wrappers -> 0 .. Len(binlog)]
  /\ next \in [Wrappers -> 1 .. Len(binlog) + 1]
  /\ acked \subseteq Tables
  /\ dropped \subseteq 1 .. Len(binlog)
  /\ faults \in Nat
  /\ crashes \in Nat
  /\ \A w \in Wrappers :
       /\ listener[w] = "handling" => next[w] <= Len(binlog)
       /\ Going(w) => logStore

LoggedBy(w, n) == \E i \in 1 .. Len(log) : log[i] = [by |-> w, change |-> n]

(***************************************************************************)
(* One listener misses nothing: every change of the stretch it has handled *)
(* whose table had a model when it was committed is in the log store or    *)
(* was reported as an error, even if the model was put after the start.    *)
(* The stretch ends before a row that ended the process.                   *)
(***************************************************************************)
StretchIsLogged ==
  \A w \in Wrappers : \A n \in start[w] + 1 .. next[w] - 1 :
    binlog[n].defined => LoggedBy(w, n) \/ n \in dropped

(***************************************************************************)
(* A model Put has answered for is still there after any crash.            *)
(***************************************************************************)
PutSurvives == acked \subseteq models

(***************************************************************************)
(* When the parser is stopped before it is started again, no change is     *)
(* logged twice, although the goroutine of the old listener is not waited  *)
(* for and may still be in OnRow when the new one asks for its position.   *)
(***************************************************************************)
LoggedOnce ==
  \A i, j \in 1 .. Len(log) : log[i].change = log[j].change => i = j

(***************************************************************************)
(* "Parser is closed, or has not been started": what StopParser answers    *)
(* when API.eventWrapper is nil.  No stream is open then.                  *)
(***************************************************************************)
RefusedMeansClosed ==
  wrapper = None => \A w \in Wrappers : ~(Going(w) /\ Open(w))

(***************************************************************************)
(* Every listener that was stopped ends, although nothing waits for it.    *)
(***************************************************************************)
ListenersEnd ==
  \A w \in Wrappers : (Going(w) /\ wrapper # w) ~> (listener[w] = "ended")
=============================================================================
