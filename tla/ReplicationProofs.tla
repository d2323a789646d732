------------------------- MODULE ReplicationProofs --------------------------
(***************************************************************************)
(* Proofs about Replication for any number of tables, wrappers, syncers,   *)
(* stop requests, changes, failing calls and crashes.                      *)
(*                                                                         *)
(* Every step of the server is a step of BinlogParser, or changes nothing  *)
(* there, or ends its process; and the same is true of Syncer.  The        *)
(* invariants proved of the two parts therefore hold of the whole, and the *)
(* last one below ties the log of the one to the lists of the other.       *)
(***************************************************************************)
EXTENDS Replication, FiniteSetTheorems, TLAPS

Parser == INSTANCE BinlogParserProofs WITH stopping <- parserStopping

Job == INSTANCE SyncerOutboxProofs WITH
  MaxLog <- [t \in Tables |-> MaxChanges * Cardinality(Wrappers)]

\* The constants the two parts are given satisfy their assumptions.
LEMMA PartsAssumption ==
  /\ None \notin Wrappers /\ None \notin Tables /\ None \notin Instances
  /\ MaxChanges \in Nat /\ MaxFaults \in Nat /\ MaxCrashes \in Nat
  /\ [t \in Tables |-> MaxChanges * Cardinality(Wrappers)] \in [Tables -> Nat]
<1>1. Cardinality(Wrappers) \in Nat
  BY ConstantsAssumption, FS_CardinalityType
<1>2. MaxChanges * Cardinality(Wrappers) \in Nat
  BY <1>1, ConstantsAssumption
<1> QED BY <1>2, ConstantsAssumption

-----------------------------------------------------------------------------
(* The two parts as Replication names them, and as their proofs do.        *)

LEMMA SameParser ==
  /\ P!Next <=> Parser!Next
  /\ P!Init <=> Parser!Init
  /\ P!StopBeforeStart <=> Parser!StopBeforeStart
  /\ P!Die <=> Parser!Die
<1>1. P!Next <=> Parser!Next
  BY
     DEF P!Next, Parser!Next, P!Commit, Parser!Commit, P!Put, Parser!Put,
         P!PutFails, Parser!PutFails, P!StartParser, Parser!StartParser,
         P!StartParserPanics, Parser!StartParserPanics, P!CloseCanal, Parser!CloseCanal,
         P!ForgetWrapper, Parser!ForgetWrapper, P!Goroutine, Parser!Goroutine,
         P!Streams, Parser!Streams, P!StreamFails, Parser!StreamFails,
         P!OnRowPushFails, Parser!OnRowPushFails, P!Crash, Parser!Crash,
         P!Restart, Parser!Restart, P!ReadCanal, Parser!ReadCanal,
         P!ReadNilCanal, Parser!ReadNilCanal, P!RunFrom, Parser!RunFrom,
         P!StreamCloses, Parser!StreamCloses, P!Receive, Parser!Receive,
         P!OnRow, Parser!OnRow, P!OnRowPanics, Parser!OnRowPanics,
         P!HandledOnRow, Parser!HandledOnRow,
         P!ModelsOfHandler, Parser!ModelsOfHandler, P!Die, Parser!Die,
         P!Fault, Parser!Fault, P!Open, Parser!Open, P!NoCut, Parser!NoCut,
         P!nutsdb, Parser!nutsdb, P!apiState, Parser!apiState,
         P!goroutines, Parser!goroutines, P!budget, Parser!budget
<1>2. P!Init <=> Parser!Init
  BY DEF P!Init, Parser!Init, P!NoCut, Parser!NoCut
<1>3. P!StopBeforeStart <=> Parser!StopBeforeStart
  BY DEF P!StopBeforeStart, Parser!StopBeforeStart
<1>4. P!Die <=> Parser!Die
  BY DEF P!Die, Parser!Die, P!nutsdb, Parser!nutsdb
<1> QED BY <1>1, <1>2, <1>3, <1>4

LEMMA SameJob ==
  /\ S!Next <=> Job!Next
  /\ S!Init <=> Job!Init
  /\ S!Die <=> Job!Die
  /\ S!OneRunning' <=> Job!OneRunning'
  /\ \A t \in Tables : S!Removed(t) = Job!Removed(t)
  /\ \A t \in Tables, n \in Nat : S!Executed(t, n) <=> Job!Executed(t, n)
<1>1. S!Next <=> Job!Next
  BY
     DEF S!Next, Job!Next, S!Put, Job!Put, S!Log, Job!Log, S!SizeFails, Job!SizeFails,
         S!UnderWay, Job!UnderWay, S!setup, Job!setup, S!Create, Job!Create,
         S!StartSyncer, Job!StartSyncer, S!StartSyncerPanics, Job!StartSyncerPanics,
         S!StopRefused, Job!StopRefused, S!StopSend, Job!StopSend, S!Stop, Job!Stop,
         S!ReceiveQuit, Job!ReceiveQuit, S!CloseOnQuit, Job!CloseOnQuit,
         S!ClearQuit, Job!ClearQuit, S!CloseCurrent, Job!CloseCurrent, S!Tick, Job!Tick,
         S!SizeTable, Job!SizeTable, S!Rest, Job!Rest, S!Selects, Job!Selects,
         S!FetchBatch, Job!FetchBatch, S!ExecuteRecord, Job!ExecuteRecord,
         S!LeaveTable, Job!LeaveTable, S!RemoveBatch, Job!RemoveBatch,
         S!EndRange, Job!EndRange, S!Block, Job!Block, S!FetchFails, Job!FetchFails,
         S!ExecuteFails, Job!ExecuteFails, S!ExecuteOnClosedPool, Job!ExecuteOnClosedPool,
         S!Die, Job!Die, S!Crash, Job!Crash, S!RemovePanics, Job!RemovePanics,
         S!Scheduled, Job!Scheduled, S!Worker, Job!Worker, S!Push, Job!Push,
         S!Rem, Job!Rem, S!durable, Job!durable, S!pass, Job!pass, S!objects, Job!objects,
         S!api, Job!api, S!budget, Job!budget
<1>2. S!Init <=> Job!Init
  BY DEF S!Init, Job!Init
<1>3. S!Die <=> Job!Die
  BY DEF S!Die, Job!Die, S!durable, Job!durable, S!UnderWay, Job!UnderWay
<1>4. S!OneRunning' <=> Job!OneRunning'
  BY DEF S!OneRunning, Job!OneRunning, S!Running, Job!Running
<1>5. \A t \in Tables : S!Removed(t) = Job!Removed(t)
  BY DEF S!Removed, Job!Removed
<1>6. \A t \in Tables, n \in Nat : S!Executed(t, n) <=> Job!Executed(t, n)
  BY DEF S!Executed, Job!Executed
<1> QED BY <1>1, <1>2, <1>3, <1>4, <1>5, <1>6

-----------------------------------------------------------------------------
(* What a step of the server is for each part.                             *)

Moved == faults' \in {faults, faults + 1} /\ crashes' \in {crashes, crashes + 1}

SyncerPanics == \E s \in Instances : RemovePanics(s)

LEMMA ParserMoves ==
  ASSUME Next
  PROVE  P!Next \/ ((UNCHANGED parserVars \/ (P!Die /\ SyncerPanics)) /\ Moved)
<1>1. ASSUME ParserRequest PROVE P!Next
  BY <1>1 DEF ParserRequest, P!Next
<1>2. ASSUME NEW w \in Wrappers,
             ForgetWrapper(w) \/ Listener(w) \/ ListenerFails(w) \/ OnRowPanics(w)
      PROVE  P!Next
  BY <1>2 DEF ForgetWrapper, Listener, Streams, OnRow, ReadNilCanal, ListenerFails,
     OnRowPanics, P!Next, P!Goroutine
<1>3. ASSUME NEW s \in Instances, StartSyncer(s) PROVE UNCHANGED parserVars /\ Moved
  BY <1>3 DEF StartSyncer, Moved, S!StartSyncer, S!StartSyncerPanics, S!Create, S!budget
<1>4. ASSUME NEW s \in Instances, Scheduled(s) PROVE UNCHANGED parserVars /\ Moved
  BY <1>4 DEF Scheduled, Moved, S!Scheduled, S!Tick, S!SizeTable, S!FetchBatch,
     S!ExecuteRecord, S!ExecuteOnClosedPool, S!RemoveBatch, S!EndRange, S!CloseOnQuit, S!budget
<1>5. ASSUME NEW s \in Instances, SyncerFails(s) PROVE UNCHANGED parserVars /\ Moved
  BY <1>5 DEF SyncerFails, Moved, S!SizeFails, S!FetchFails, S!ExecuteFails
<1>6. ASSUME NEW r \in Requests, StopSyncer(r) PROVE UNCHANGED parserVars /\ Moved
  BY <1>6 DEF StopSyncer, Moved, S!Stop, S!StopRefused, S!StopSend, S!ClearQuit,
     S!CloseCurrent, S!budget
<1>7. ASSUME NEW s \in Instances, NEW r \in Requests, ReceiveQuit(s, r)
      PROVE  UNCHANGED parserVars /\ Moved
  BY <1>7 DEF ReceiveQuit, Moved, S!ReceiveQuit, S!budget
<1>8. ASSUME Crash PROVE P!Next
  BY <1>8 DEF Crash, P!Next
<1>9. ASSUME NEW s \in Instances, RemovePanics(s) PROVE P!Die /\ SyncerPanics /\ Moved
  BY <1>9 DEF SyncerPanics, RemovePanics, Moved, S!RemovePanics
<1> QED BY <1>1, <1>2, <1>3, <1>4, <1>5, <1>6, <1>7, <1>8, <1>9 DEF Next

LEMMA JobMoves ==
  Next /\ Parser!TypeInv => S!Next \/ ((UNCHANGED syncerVars \/ S!Die) /\ Moved)
<1> SUFFICES ASSUME Next, Parser!TypeInv
             PROVE  S!Next \/ ((UNCHANGED syncerVars \/ S!Die) /\ Moved)
  OBVIOUS
<1>1. ASSUME ParserRequest PROVE UNCHANGED syncerVars /\ Moved
  BY <1>1 DEF ParserRequest, Moved, P!Commit, P!Put, P!PutFails, P!StartParser, P!CloseCanal,
     P!StartParserPanics, P!Restart, P!Fault, P!budget
<1>2. ASSUME NEW w \in Wrappers, ForgetWrapper(w) \/ Streams(w) \/ ListenerFails(w)
      PROVE  UNCHANGED syncerVars /\ Moved
  BY <1>2 DEF ForgetWrapper, Streams, ListenerFails, Moved, P!ForgetWrapper, P!Streams,
     P!ReadCanal, P!RunFrom, P!StreamCloses, P!Receive, P!StreamFails, P!OnRowPushFails,
     P!Fault, P!budget
<1>3. ASSUME NEW w \in Wrappers, OnRow(w) PROVE S!Next \/ (UNCHANGED syncerVars /\ Moved)
  <2>1. Moved
    BY <1>3 DEF OnRow, P!OnRow, P!budget, Moved
  <2>2. binlog[next[w]].table \in Tables
    <3>1. /\ binlog \in Seq(Parser!Change)
          /\ next[w] \in 1 .. Len(binlog)
      BY <1>3 DEF OnRow, P!OnRow, Parser!TypeInv, Parser!TypeOK
    <3>2. binlog[next[w]] \in Parser!Change
      BY <3>1
    <3> QED BY <3>2 DEF Parser!Change
  <2> QED BY <1>3, <2>1, <2>2 DEF OnRow, S!Next
<1>4. ASSUME NEW w \in Wrappers, ReadNilCanal(w) \/ OnRowPanics(w) PROVE S!Die /\ Moved
  BY <1>4 DEF ReadNilCanal, OnRowPanics, Moved, P!ReadNilCanal, P!OnRowPanics, P!budget
<1>5. ASSUME NEW s \in Instances,
             StartSyncer(s) \/ Scheduled(s) \/ SyncerFails(s) \/ RemovePanics(s)
      PROVE  S!Next
  BY <1>5 DEF StartSyncer, Scheduled, SyncerFails, RemovePanics, S!Next, S!Worker
<1>6. ASSUME NEW r \in Requests, StopSyncer(r) PROVE S!Next
  BY <1>6 DEF StopSyncer, S!Next
<1>7. ASSUME NEW s \in Instances, NEW r \in Requests, ReceiveQuit(s, r) PROVE S!Next
  BY <1>7 DEF ReceiveQuit, S!Next
<1>8. ASSUME Crash PROVE S!Next
  BY <1>8 DEF Crash, S!Next
<1> QED
  BY <1>1, <1>2, <1>3, <1>4, <1>5, <1>6, <1>7, <1>8 DEF Next, Listener

\* For BinlogParser a step of the server is one of its own or one from elsewhere.
LEMMA ParserStep ==
  ASSUME Parser!TypeInv, Next
  PROVE  Parser!Next \/ Parser!Elsewhere
<1>1. faults \in Nat /\ crashes \in Nat
  BY DEF Parser!TypeInv, Parser!TypeOK
<1>2. CASE (UNCHANGED parserVars \/ P!Die) /\ Moved
  BY <1>1, <1>2, SameParser DEF Moved, parserVars, Parser!Elsewhere, Parser!Untouched
<1> QED BY <1>2, ParserMoves, SameParser

\* The models stay within the tables, whatever the step.
LEMMA ModelsMove ==
  ASSUME Parser!TypeInv, Next
  PROVE  models' \in SUBSET Tables
<1>1. Parser!TypeInv'
  BY ParserStep, PartsAssumption, Parser!TypeStep, Parser!TypeElsewhere
<1> QED BY <1>1 DEF Parser!TypeInv, Parser!TypeOK

\* A step either leaves the log and the lists alone, or is an OnRow that
\* appends to both.
LEMMA LogMoves ==
  ASSUME Next
  PROVE  \/ UNCHANGED <<log, logged>>
         \/ \E w \in Wrappers : P!OnRow(w) /\ log' # log /\ S!Log(binlog[next[w]].table)
<1>1. ASSUME ParserRequest PROVE UNCHANGED <<log, logged>>
  BY <1>1 DEF ParserRequest, syncerVars, P!Commit, P!Put, P!PutFails, P!StartParser,
     P!CloseCanal, P!StartParserPanics, P!Restart, P!nutsdb
<1>2. ASSUME NEW w \in Wrappers, ForgetWrapper(w) \/ Streams(w) \/ ListenerFails(w)
      PROVE  UNCHANGED <<log, logged>>
  BY <1>2 DEF ForgetWrapper, Streams, ListenerFails, syncerVars, P!ForgetWrapper, P!Streams,
     P!ReadCanal, P!RunFrom, P!StreamCloses, P!Receive, P!StreamFails, P!OnRowPushFails,
     P!nutsdb
<1>3. ASSUME NEW w \in Wrappers, OnRow(w)
      PROVE  \/ UNCHANGED <<log, logged>>
             \/ P!OnRow(w) /\ log' # log /\ S!Log(binlog[next[w]].table)
  BY <1>3 DEF OnRow, syncerVars
<1>4. ASSUME \/ Crash
             \/ \E w \in Wrappers : ReadNilCanal(w) \/ OnRowPanics(w)
             \/ \E s \in Instances : RemovePanics(s)
      PROVE  UNCHANGED <<log, logged>>
  <2>1. P!Die /\ S!Die
    BY <1>4 DEF Crash, ReadNilCanal, OnRowPanics, RemovePanics, P!Crash, S!Crash,
       S!RemovePanics, P!ReadNilCanal, P!OnRowPanics
  <2> QED BY <2>1 DEF P!Die, S!Die, P!nutsdb, S!durable
<1>5. ASSUME NEW s \in Instances, StartSyncer(s) \/ Scheduled(s) \/ SyncerFails(s)
      PROVE  UNCHANGED <<log, logged>>
  BY <1>5 DEF StartSyncer, Scheduled, SyncerFails, parserVars, S!StartSyncer,
     S!StartSyncerPanics, S!Create, S!Scheduled, S!Tick, S!SizeTable, S!FetchBatch,
     S!ExecuteRecord, S!ExecuteOnClosedPool, S!RemoveBatch, S!EndRange, S!CloseOnQuit,
     S!SizeFails, S!FetchFails, S!ExecuteFails, S!durable
<1>6. ASSUME NEW r \in Requests,
             StopSyncer(r) \/ \E s \in Instances : ReceiveQuit(s, r)
      PROVE  UNCHANGED <<log, logged>>
  BY <1>6 DEF StopSyncer, ReceiveQuit, parserVars, S!Stop, S!StopRefused, S!StopSend,
     S!ClearQuit, S!CloseCurrent, S!ReceiveQuit, S!durable
<1> QED BY <1>1, <1>2, <1>3, <1>4, <1>5, <1>6 DEF Next, Listener

-----------------------------------------------------------------------------
(* The entries of a table in the log are the records of its list.          *)

Entries(t, n) == {j \in 1 .. n : binlog[log[j].change].table = t}

Link == \A t \in Tables : logged[t] = Cardinality(Entries(t, Len(log)))

LEMMA EntriesFinite ==
  ASSUME NEW t, NEW n \in Nat
  PROVE  IsFiniteSet(Entries(t, n)) /\ Cardinality(Entries(t, n)) \in Nat
<1>1. IsFiniteSet(1 .. n)
  BY FS_Interval
<1>2. Entries(t, n) \in SUBSET (1 .. n)
  BY DEF Entries
<1>3. IsFiniteSet(Entries(t, n))
  BY <1>1, <1>2, FS_Subset
<1> QED BY <1>3, FS_CardinalityType

LEMMA LinkInit == Init => Link
<1> SUFFICES ASSUME Init, NEW t \in Tables
             PROVE  logged[t] = Cardinality(Entries(t, Len(log)))
  BY DEF Link
<1>1. log = <<>> /\ logged[t] = 0
  BY DEF Init, P!Init, S!Init
<1>2. Entries(t, Len(log)) = {}
  BY <1>1 DEF Entries
<1> QED BY <1>1, <1>2, FS_EmptySet

LEMMA LinkStep ==
  ASSUME Parser!TypeInv, Job!TypeInv, Link, Next
  PROVE  Link'
<1>1. Parser!Next \/ Parser!Elsewhere
  BY ParserStep
<1>2. /\ Len(binlog) \in Nat /\ Len(log) \in Nat
      /\ log \in Seq([by : Wrappers, change : Nat])
      /\ \A j \in 1 .. Len(log) : log[j].change \in 1 .. Len(binlog)
      /\ next \in [Wrappers -> 1 .. Len(binlog) + 1]
  BY DEF Parser!TypeInv, Parser!TypeOK
<1>3. \A n \in 1 .. Len(binlog) : binlog'[n] = binlog[n]
  BY <1>1, PartsAssumption, Parser!HistoryGrows
     DEF Parser!Elsewhere, Parser!Untouched, Parser!Die
<1>4. ASSUME UNCHANGED <<log, logged>> PROVE Link'
  <2>1. \A t : Entries(t, Len(log))' = Entries(t, Len(log))
    BY <1>2, <1>3, <1>4 DEF Entries
  <2> QED BY <1>4, <2>1 DEF Link
<1>5. ASSUME NEW w \in Wrappers, P!OnRow(w), log' # log, S!Log(binlog[next[w]].table)
      PROVE  Link'
  <2> DEFINE entry == [by |-> w, change |-> next[w]]
             t0 == binlog[next[w]].table
  <2>1. /\ entry \in [by : Wrappers, change : Nat] /\ entry.change = next[w]
        /\ log' = Append(log, entry) /\ binlog' = binlog
    BY <1>2, <1>5 DEF P!OnRow
  <2>2. logged' = [logged EXCEPT ![t0] = @ + 1] /\ logged \in [Tables -> Nat]
    BY <1>5 DEF S!Log, Job!TypeInv, Job!TypeOK
  <2> HIDE DEF entry, t0
  <2>3. /\ Len(log') = Len(log) + 1
        /\ \A j \in 1 .. Len(log) : log'[j] = log[j]
        /\ log'[Len(log) + 1] = entry
    BY <1>2, <2>1, PartsAssumption, Parser!AppendEntry
  <2>4. binlog'[log'[Len(log) + 1].change].table = t0
    BY <2>1, <2>3 DEF t0
  <2>5. ASSUME NEW t \in Tables PROVE logged'[t] = Cardinality(Entries(t, Len(log))')
    <3>1. /\ IsFiniteSet(Entries(t, Len(log))) /\ Len(log) + 1 \notin Entries(t, Len(log))
          /\ logged[t] = Cardinality(Entries(t, Len(log)))
      <4>1. IsFiniteSet(Entries(t, Len(log)))
        BY <1>2, EntriesFinite
      <4>2. Len(log) + 1 \notin Entries(t, Len(log))
        BY <1>2 DEF Entries
      <4>3. logged[t] = Cardinality(Entries(t, Len(log)))
        BY DEF Link
      <4> QED BY <4>1, <4>2, <4>3
    <3>2. CASE t = t0
      <4>1. Entries(t, Len(log))' = Entries(t, Len(log)) \cup {Len(log) + 1}
        <5>1. Len(log) \in Nat
          BY <1>2
        <5>2. ASSUME NEW j \in 1 .. Len(log)
              PROVE  j \in Entries(t, Len(log))' <=> j \in Entries(t, Len(log))
          <6>1. j \in 1 .. Len(log')
            BY <2>3, <5>1
          <6> QED BY <2>1, <2>3, <6>1 DEF Entries
        <5>3. Len(log) + 1 \in Entries(t, Len(log))'
          BY <2>3, <2>4, <3>2, <5>1 DEF Entries
        <5>4. Entries(t, Len(log))' \subseteq 1 .. Len(log) + 1
          BY <2>3 DEF Entries
        <5>5. Entries(t, Len(log)) \subseteq 1 .. Len(log)
          BY DEF Entries
        <5> QED BY <5>1, <5>2, <5>3, <5>4, <5>5
      <4>2. Cardinality(Entries(t, Len(log))') = Cardinality(Entries(t, Len(log))) + 1
        BY <3>1, <4>1, FS_AddElement
      <4>3. logged'[t] = logged[t] + 1
        BY <2>2, <3>2
      <4> QED BY <3>1, <4>2, <4>3
    <3>3. CASE t # t0
      <4>1. Entries(t, Len(log))' = Entries(t, Len(log))
        BY <1>2, <2>1, <2>3, <2>4, <3>3 DEF Entries
      <4> QED BY <2>2, <3>1, <3>3, <4>1
    <3> QED BY <3>2, <3>3
  <2> QED BY <2>5 DEF Link
<1> QED BY <1>4, <1>5, LogMoves

-----------------------------------------------------------------------------
(* The invariant of the whole, and its preservation.                       *)

WholeInv ==
  /\ Parser!StretchInv
  /\ Parser!OrderInv
  /\ Parser!NilInv
  /\ Job!OutboxInv
  /\ Link

LEMMA WholeInit == Init => WholeInv
<1> SUFFICES ASSUME Init PROVE WholeInv
  OBVIOUS
<1>1. Parser!Init /\ Job!Init
  BY SameParser, SameJob DEF Init
<1>2. Parser!StretchInv /\ Parser!NilInv
  BY <1>1, PartsAssumption, Parser!StretchInit, Parser!NilInit
<1>3. Parser!OrderInv
  BY <1>1, PartsAssumption, Parser!OrderInit
<1>4. Job!OutboxInv
  BY <1>1, PartsAssumption, Job!OutboxInit
<1> QED BY <1>2, <1>3, <1>4, LinkInit DEF WholeInv

\* Each step is one of the job, or leaves the job alone or ends it.
LEMMA JobStep ==
  WholeInv /\ [Next /\ S!OneRunning']_vars =>
    [Job!SerialNext]_(Job!vars) \/ Job!Elsewhere
<1> SUFFICES ASSUME WholeInv, [Next /\ S!OneRunning']_vars
             PROVE  [Job!SerialNext]_(Job!vars) \/ Job!Elsewhere
  OBVIOUS
<1>1. Parser!TypeInv /\ faults \in Nat /\ crashes \in Nat
  BY DEF WholeInv, Parser!StretchInv, Parser!TypeInv, Parser!TypeOK
<1>2. CASE Next /\ S!OneRunning'
  <2>1. models' \in SUBSET Tables
    BY <1>1, <1>2, ModelsMove
  <2> QED
    BY <1>1, <1>2, <2>1, JobMoves, SameJob
       DEF Moved, syncerVars, Job!SerialNext, Job!Elsewhere
<1>3. CASE UNCHANGED vars
  BY <1>3 DEF vars, syncerVars, parserVars, Job!vars
<1> QED BY <1>2, <1>3

LEMMA WholeStep == WholeInv /\ [Next /\ S!OneRunning']_vars => WholeInv'
<1> SUFFICES ASSUME WholeInv, [Next /\ S!OneRunning']_vars PROVE WholeInv'
  OBVIOUS
<1>1. /\ Parser!StretchInv /\ Parser!OrderInv /\ Parser!NilInv /\ Parser!TypeInv
      /\ Job!OutboxInv /\ Job!TypeInv
      /\ Link
  BY DEF WholeInv, Parser!StretchInv, Job!OutboxInv, Job!SerialInv
<1>3. [Parser!Next]_(Parser!vars) \/ Parser!Elsewhere
  BY <1>1, ParserStep DEF vars, parserVars, Parser!vars
<1>4. [Job!SerialNext]_(Job!vars) \/ Job!Elsewhere
  BY JobStep
<1>5. Parser!StretchInv' /\ Parser!OrderInv' /\ Parser!NilInv'
  BY <1>1, <1>3, PartsAssumption, Parser!StretchInvStep, Parser!OrderStep, Parser!NilStep,
     Parser!StretchElsewhere, Parser!OrderElsewhere, Parser!NilElsewhere
<1>6. Job!OutboxInv'
  BY <1>1, <1>4, PartsAssumption, Job!OutboxStep, Job!OutboxElsewhere
<1>7. Link'
  <2>1. CASE Next
    BY <1>1, <2>1, LinkStep
  <2>2. CASE UNCHANGED vars
    BY <1>1, <2>2 DEF vars, parserVars, syncerVars, Link, Entries
  <2> QED BY <2>1, <2>2
<1> QED BY <1>5, <1>6, <1>7 DEF WholeInv

LEMMA WholeCorrect == Spec => []WholeInv
BY WholeInit, WholeStep, PTL DEF Spec

-----------------------------------------------------------------------------
LEMMA RecordBounds ==
  ASSUME WholeInv, NEW i \in 1 .. Len(log), NEW t, t = binlog[log[i].change].table
  PROVE  t \in Tables /\ RecordNumber(i) = Cardinality(Entries(t, i))
         /\ RecordNumber(i) \in 1 .. logged[t]
<1>1. /\ binlog \in Seq(Parser!Change) /\ Len(log) \in Nat
      /\ log[i].change \in 1 .. Len(binlog)
  <2>1. Parser!TypeInv
    BY DEF WholeInv, Parser!StretchInv
  <2>2. /\ binlog \in Seq(Parser!Change)
        /\ log \in Seq([by : Wrappers, change : Nat])
        /\ \A j \in 1 .. Len(log) : log[j].change \in 1 .. Len(binlog)
    BY <2>1 DEF Parser!TypeInv, Parser!TypeOK
  <2> QED BY <2>2
<1>2. t \in Tables
  <2>1. binlog[log[i].change] \in Parser!Change
    BY <1>1
  <2> QED BY <2>1 DEF Parser!Change
<1>3. RecordNumber(i) = Cardinality(Entries(t, i))
  BY DEF RecordNumber, Entries
<1>4. Entries(t, i) \in SUBSET Entries(t, Len(log)) /\ i \in Entries(t, i)
  BY <1>1 DEF Entries
<1>5. /\ IsFiniteSet(Entries(t, i)) /\ Cardinality(Entries(t, i)) \in Nat
      /\ IsFiniteSet(Entries(t, Len(log)))
  BY <1>1, EntriesFinite
<1>6. Cardinality(Entries(t, i)) <= Cardinality(Entries(t, Len(log)))
  BY <1>4, <1>5, FS_Subset
<1>7. Cardinality(Entries(t, i)) # 0
  BY <1>4, <1>5, FS_EmptySet
<1>8. logged[t] = Cardinality(Entries(t, Len(log))) /\ logged[t] \in Nat
  BY <1>1, <1>2, EntriesFinite DEF WholeInv, Link
<1> QED BY <1>2, <1>3, <1>5, <1>6, <1>7, <1>8

(***************************************************************************)
(* Nothing a listener has read is missed on the way to the target: it is   *)
(* pending in the log store or was executed, or reported as an error.      *)
(***************************************************************************)
THEOREM TargetMissesNothingCorrect == Spec => []TargetMissesNothing
<1>1. WholeInv => TargetMissesNothing
  <2> SUFFICES ASSUME WholeInv, NEW w \in Wrappers, NEW n \in start[w] + 1 .. next[w] - 1,
                      binlog[n].defined, n \notin dropped
               PROVE  \E i \in 1 .. Len(log) :
                        log[i].change = n /\ (EntryPending(i) \/ EntryExecuted(i))
    BY DEF TargetMissesNothing
  <2>1. PICK i \in 1 .. Len(log) : log[i] = [by |-> w, change |-> n]
    BY DEF WholeInv, Parser!StretchInv, Parser!StretchIsLogged, Parser!LoggedBy
  <2> DEFINE t == binlog[log[i].change].table
             m == RecordNumber(i)
  <2>2. t \in Tables /\ m \in 1 .. logged[t]
    BY RecordBounds
  <2>3. logged[t] \in Nat /\ Job!Removed(t) = logged[t] - Len(store[t]) /\ Len(store[t]) \in Nat
    BY <2>2 DEF WholeInv, Job!OutboxInv, Job!SerialInv, Job!TypeInv, Job!TypeOK, Job!Removed
  <2>4. CASE m > Job!Removed(t)
    BY <2>1, <2>2, <2>4, SameJob DEF EntryPending
  <2>5. CASE ~(m > Job!Removed(t))
    <3>1. m \in 1 .. Job!Removed(t)
      BY <2>2, <2>3, <2>5
    <3>2. Job!Executed(t, m)
      BY <2>2, <3>1 DEF WholeInv, Job!OutboxInv, Job!SerialInv, Job!RemovedWereExecuted
    <3> QED BY <2>1, <2>2, <3>1, <3>2, SameJob DEF EntryExecuted
  <2> QED BY <2>4, <2>5
<1> QED BY <1>1, WholeCorrect, PTL

(***************************************************************************)
(* The target sees the changes one listener has made of a table in the     *)
(* order of the source.                                                    *)
(***************************************************************************)
THEOREM TargetFollowsSourceCorrect == Spec => []TargetFollowsSource
<1>1. WholeInv => TargetFollowsSource
  <2> SUFFICES ASSUME WholeInv, NEW i \in 1 .. Len(log), NEW j \in 1 .. Len(log),
                      log[i].by = log[j].by, log[i].change < log[j].change,
                      binlog[log[i].change].table = binlog[log[j].change].table,
                      EntryExecuted(j)
               PROVE  EntryExecuted(i)
    BY DEF TargetFollowsSource
  <2> DEFINE t == binlog[log[i].change].table
  <2>1. i < j
    BY DEF WholeInv, Parser!OrderInv, Parser!InOrder
  <2>2. /\ t \in Tables
        /\ RecordNumber(i) = Cardinality(Entries(t, i)) /\ RecordNumber(i) \in 1 .. logged[t]
        /\ RecordNumber(j) = Cardinality(Entries(t, j)) /\ RecordNumber(j) \in 1 .. logged[t]
    BY RecordBounds
  <2> HIDE DEF t
  <2>3. i \in Nat /\ j \in Nat
    OBVIOUS
  <2>4. Entries(t, i) \in SUBSET Entries(t, j) /\ IsFiniteSet(Entries(t, j))
    <3>1. Entries(t, i) \in SUBSET Entries(t, j)
      BY <2>1, <2>3 DEF Entries
    <3> QED BY <2>3, <3>1, EntriesFinite
  <2>5. RecordNumber(i) <= RecordNumber(j)
    BY <2>2, <2>4, FS_Subset
  <2>6. Job!Executed(t, RecordNumber(j))
    BY <2>2, SameJob DEF EntryExecuted, t
  <2>7. PICK k \in Nat : Job!IsNewest(t, k)
    BY <2>2 DEF WholeInv, Job!OutboxInv
  <2>8. RecordNumber(j) \in 1 .. k
    BY <2>6, <2>7 DEF Job!Executed, Job!IsNewest
  <2>9. RecordNumber(i) \in 1 .. k
    BY <2>2, <2>5, <2>8
  <2>10. Job!Executed(t, RecordNumber(i))
    BY <2>7, <2>9 DEF Job!IsNewest
  <2> QED BY <2>2, <2>10, SameJob DEF EntryExecuted, t
<1> QED BY <1>1, WholeCorrect, PTL

\* What LRem shall remove is in the list, when one syncer runs at a time.
LEMMA RemovesWhatIsThere ==
  ASSUME WholeInv, NEW s \in Instances, pc[s] = "apply"
  PROVE  /\ table[s] \in Tables
         /\ Len(batch[s]) <= Len(store[table[s]])
         /\ Len(batch[s]) \in Nat /\ Len(store[table[s]]) \in Nat
BY DEF WholeInv, Job!OutboxInv, Job!SerialInv, Job!TypeInv, Job!TypeOK, Job!BatchIsPending

(***************************************************************************)
(* Unless the process crashes or a call fails, it is a stop that overtook  *)
(* a listener, or the row a listener handles, that ends it; what LRem is   *)
(* asked to remove is always there.                                        *)
(***************************************************************************)
THEOREM PanicNeedsACauseCorrect == Spec => PanicNeedsACause
<1>1. WholeInv /\ [Next /\ S!OneRunning']_vars =>
        [alive /\ ~alive' /\ UNCHANGED <<faults, crashes>>
           => /\ \E w \in Wrappers : Overtaken(w) \/ Converting(w)
              /\ \A s \in Instances : ~RemovePanics(s)]_vars
  <2> SUFFICES ASSUME WholeInv, Next, alive, ~alive', UNCHANGED <<faults, crashes>>
               PROVE  /\ \E w \in Wrappers : Overtaken(w) \/ Converting(w)
                      /\ \A s \in Instances : ~RemovePanics(s)
    BY DEF vars
  <2>1. crashes \in Nat /\ faults \in Nat
    BY DEF WholeInv, Parser!NilInv, Parser!TypeInv, Parser!TypeOK
  <2>2. ASSUME NEW w \in Wrappers, P!ReadNilCanal(w) PROVE Overtaken(w)
    <3>1. listener[w] = "started" /\ ~canal[w]
      BY <2>2 DEF P!ReadNilCanal
    <3> QED
      BY <3>1 DEF Overtaken, WholeInv, Parser!NilInv, Parser!NilIsClosed, Parser!Live,
         Parser!Open, P!Open, Parser!NoCut, P!NoCut
  <2>3. ASSUME NEW w \in Wrappers, P!OnRowPanics(w) PROVE Converting(w)
    BY <2>3 DEF P!OnRowPanics, P!ModelsOfHandler, Converting
  <2>4. ASSUME NEW s \in Instances, RemovePanics(s) PROVE FALSE
    <3>1. /\ pc[s] = "apply" /\ count[s] = Len(batch[s])
          /\ count[s] > Len(store[table[s]]) \/ faults' = faults + 1
      BY <2>4 DEF RemovePanics, S!RemovePanics
    <3> QED BY <2>1, <3>1, RemovesWhatIsThere
  <2>5. ~P!Crash
    BY <2>1 DEF P!Crash
  <2>6. ASSUME P!Next PROVE \E w \in Wrappers : Overtaken(w) \/ Converting(w)
    <3>1. \/ \E w \in Wrappers : P!ReadNilCanal(w) \/ P!OnRowPanics(w)
          \/ alive' = alive \/ alive' = TRUE
      BY <2>5, <2>6 DEF P!Next, P!Goroutine, P!Streams, P!Commit, P!Put, P!PutFails,
         P!StartParser, P!StartParserPanics, P!CloseCanal, P!ForgetWrapper, P!Restart,
         P!ReadCanal, P!RunFrom, P!StreamFails, P!StreamCloses, P!Receive, P!OnRow,
         P!OnRowPushFails
    <3> QED BY <2>2, <2>3, <3>1
  <2>7. P!Next
    <3>1. P!Next \/ SyncerPanics
      BY ParserMoves DEF parserVars
    <3> QED BY <2>4, <3>1 DEF SyncerPanics
  <2> QED BY <2>4, <2>6, <2>7
<1> QED BY <1>1, WholeCorrect, PTL DEF Spec, PanicNeedsACause

-----------------------------------------------------------------------------
(* The outbox the lists and the syncers are.                               *)

LEMMA SameOutbox ==
  /\ S!OutboxOf!Init <=> Job!OutboxOf!Init
  /\ [S!OutboxOf!Next]_(S!OutboxOf!vars) <=> [Job!OutboxOf!Next]_(Job!OutboxOf!vars)
BY DEF S!OutboxOf!Init, Job!OutboxOf!Init, S!OutboxOf!Next, Job!OutboxOf!Next,
   S!OutboxOf!vars, Job!OutboxOf!vars, S!OutboxOf!Log, Job!OutboxOf!Log,
   S!OutboxOf!Execute, Job!OutboxOf!Execute, S!OutboxOf!Remove, Job!OutboxOf!Remove,
   S!Newest, Job!Newest, S!Removed, Job!Removed

(***************************************************************************)
(* In the server, log store and syncers remain an at-least-once outbox: a  *)
(* step of a listener logs one record or leaves the lists alone, and a     *)
(* listener whose panic ends the process leaves them as they are.          *)
(***************************************************************************)
THEOREM RefinementCorrect == Spec => ImplementsOutbox
<1>1. Init => S!OutboxOf!Init
  BY SameJob, SameOutbox, PartsAssumption, Job!OutboxStarts DEF Init
<1>2. WholeInv /\ WholeInv' /\ [Next /\ S!OneRunning']_vars =>
        [S!OutboxOf!Next]_(S!OutboxOf!vars)
  <2> SUFFICES ASSUME WholeInv, WholeInv', [Next /\ S!OneRunning']_vars
               PROVE  [Job!OutboxOf!Next]_(Job!OutboxOf!vars)
    BY SameOutbox
  <2>1. Job!OutboxInv /\ Job!OutboxInv'
    BY DEF WholeInv
  <2>2. CASE [Job!SerialNext]_(Job!vars)
    BY <2>1, <2>2, PartsAssumption, Job!OutboxRefines
  <2>3. CASE Job!Elsewhere
    <3>1. UNCHANGED <<logged, store, applied>>
      BY <2>3 DEF Job!Elsewhere, Job!Die, Job!durable
    <3> QED BY <3>1 DEF Job!OutboxOf!vars, Job!Newest, Job!Removed
  <2> QED BY <2>2, <2>3, JobStep
<1> QED
  BY <1>1, <1>2, WholeInit, WholeStep, PTL
     DEF Spec, ImplementsOutbox, S!ImplementsOutbox, S!OutboxOf!Spec

-----------------------------------------------------------------------------
(* The operator who stops the parser before starting it again.             *)

LEMMA OnceCorrect == SerialSpec => []Parser!OnceInv
<1>1. Init => Parser!OnceInv
  BY PartsAssumption, SameParser, Parser!OnceInit DEF Init
<1>2. ASSUME Parser!OnceInv, [Next /\ P!StopBeforeStart /\ S!OneRunning']_vars
      PROVE  Parser!OnceInv'
  <2>1. Parser!TypeInv
    BY <1>2 DEF Parser!OnceInv
  <2>2. [Parser!Next /\ Parser!StopBeforeStart]_(Parser!vars) \/ Parser!Elsewhere
    BY <1>2, <2>1, ParserStep, SameParser DEF vars, parserVars, Parser!vars
  <2> QED BY <1>2, <2>2, PartsAssumption, Parser!OnceStep, Parser!OnceElsewhere
<1> QED BY <1>1, <1>2, PTL DEF SerialSpec

(***************************************************************************)
(* No change is logged twice: what a stopped stream may still deliver lies *)
(* before the position the next listener asks for.                         *)
(***************************************************************************)
THEOREM LoggedOnceCorrect == SerialSpec => []LoggedOnce
<1>1. Parser!OnceInv => LoggedOnce
  BY DEF Parser!OnceInv, Parser!LoggedOnce, LoggedOnce, P!LoggedOnce
<1> QED BY <1>1, OnceCorrect, PTL

(***************************************************************************)
(* When /parser/stop is refused, no stream is open.                        *)
(***************************************************************************)
THEOREM RefusedCorrect == SerialSpec => []RefusedMeansClosed
<1>1. Parser!OnceInv => RefusedMeansClosed
  BY PartsAssumption
     DEF Parser!OnceInv, Parser!OpenIsCurrent, Parser!Current, Parser!Live, Parser!Open,
         Parser!NoCut, RefusedMeansClosed, P!RefusedMeansClosed, P!Going, P!Open, P!NoCut
<1> QED BY <1>1, OnceCorrect, PTL
=============================================================================
