------------------------- MODULE BinlogParserProofs -------------------------
(***************************************************************************)
(* Proofs about BinlogParser for any number of tables, wrappers, changes,  *)
(* failing calls and crashes.                                              *)
(***************************************************************************)
EXTENDS BinlogParser, TLAPS

\* A listener, from the go statement to its end, has a store to log to.
Live(w) == listener[w] \in {"started", "asking", "listening", "handling"}

LiveHasStore == \A w \in Wrappers : Live(w) => logStore

TypeInv == TypeOK /\ LiveHasStore

-----------------------------------------------------------------------------
\* The entries of a log to which one was appended.
LEMMA AppendEntry ==
  ASSUME NEW S, NEW seq \in Seq(S), NEW e \in S
  PROVE  /\ Append(seq, e) \in Seq(S)
         /\ Len(seq) \in Nat
         /\ Len(Append(seq, e)) = Len(seq) + 1
         /\ \A i \in 1 .. Len(seq) : Append(seq, e)[i] = seq[i]
         /\ Append(seq, e)[Len(seq) + 1] = e
         /\ \A i \in 1 .. Len(Append(seq, e)) :
              i \in 1 .. Len(seq) \/ i = Len(seq) + 1
OBVIOUS

\* An element of a sequence over S is in S.
LEMMA ElementOfSeq ==
  ASSUME NEW S, NEW seq \in Seq(S), NEW i \in 1 .. Len(seq)
  PROVE  seq[i] \in S
OBVIOUS

LEMMA TypeInit == Init => TypeInv
<1> SUFFICES ASSUME Init PROVE TypeInv
  OBVIOUS
<1>1. binlog = <<>> /\ log = <<>> /\ Len(binlog) = 0
  BY DEF Init
<1>2. /\ binlog \in Seq(Change)
      /\ log \in Seq([by : Wrappers, change : Nat])
      /\ \A i \in 1 .. Len(log) : log[i].change \in 1 .. Len(binlog)
  BY <1>1
<1>3. 0 \in 0 .. Len(binlog) /\ 1 \in 1 .. Len(binlog) + 1
  BY <1>1
<1> QED
  BY ConstantsAssumption, <1>2, <1>3
     DEF Init, TypeInv, TypeOK, LiveHasStore, Live, Going, Listeners, NoCut

LEMMA TypeStep == TypeInv /\ [Next]_vars => TypeInv'
<1> SUFFICES ASSUME TypeInv, [Next]_vars PROVE TypeInv'
  OBVIOUS
<1> USE ConstantsAssumption
    DEF TypeInv, TypeOK, LiveHasStore, Live, Going, Listeners, Change, NoCut, Open
<1>1. ASSUME NEW t \in Tables, Commit(t) PROVE TypeInv'
  <2>1. /\ binlog' \in Seq(Change)
        /\ Len(binlog') = Len(binlog) + 1
    BY <1>1 DEF Commit
  <2>2. 1 .. Len(binlog) \subseteq 1 .. Len(binlog')
    BY <2>1
  <2>3. \A i \in 1 .. Len(log') : log'[i].change \in 1 .. Len(binlog')
    BY <1>1, <2>2 DEF Commit, nutsdb
  <2>4. /\ cut' \in [Wrappers -> (0 .. Len(binlog')) \cup {NoCut}]
        /\ start' \in [Wrappers -> 0 .. Len(binlog')]
        /\ next' \in [Wrappers -> 1 .. Len(binlog') + 1]
        /\ dropped' \subseteq 1 .. Len(binlog')
    BY <1>1, <2>1 DEF Commit, goroutines
  <2>5. \A w \in Wrappers : listener'[w] = "handling" => next'[w] <= Len(binlog')
    BY <1>1, <2>1 DEF Commit, goroutines
  <2> QED
    BY <1>1, <2>1, <2>3, <2>4, <2>5 DEF Commit, nutsdb, apiState, goroutines, budget
<1>2. ASSUME NEW t \in Tables, Put(t) PROVE TypeInv'
  BY <1>2 DEF Put, goroutines, budget
<1>3. ASSUME NEW t \in Tables, PutFails(t) PROVE TypeInv'
  BY <1>3 DEF PutFails, Fault, nutsdb, goroutines
<1>4. ASSUME NEW w \in Wrappers, StartParser(w) PROVE TypeInv'
  BY <1>4 DEF StartParser, nutsdb, budget
<1>5. ASSUME StartParserPanics PROVE TypeInv'
  BY <1>5 DEF StartParserPanics, Fault, nutsdb, goroutines
<1>6. ASSUME NEW w \in Wrappers, CloseCanal(w) PROVE TypeInv'
  BY <1>6 DEF CloseCanal, nutsdb, budget
<1>7. ASSUME NEW w \in Wrappers, ForgetWrapper(w) PROVE TypeInv'
  BY <1>7 DEF ForgetWrapper, nutsdb, budget
<1>8. ASSUME Die, faults' \in Nat, crashes' \in Nat PROVE TypeInv'
  BY <1>8 DEF Die, nutsdb
<1>9. ASSUME Restart PROVE TypeInv'
  BY <1>9 DEF Restart, nutsdb, apiState, goroutines, budget
<1>10. ASSUME NEW w \in Wrappers, ReadCanal(w) PROVE TypeInv'
  BY <1>10 DEF ReadCanal, nutsdb, apiState, budget
<1>11. ASSUME NEW w \in Wrappers, RunFrom(w) PROVE TypeInv'
  BY <1>11 DEF RunFrom, nutsdb, apiState, budget
<1>12. ASSUME NEW w \in Wrappers, StreamFails(w) PROVE TypeInv'
  BY <1>12 DEF StreamFails, Fault, nutsdb, apiState
<1>13. ASSUME NEW w \in Wrappers, StreamCloses(w) PROVE TypeInv'
  BY <1>13 DEF StreamCloses, nutsdb, apiState, budget
<1>14. ASSUME NEW w \in Wrappers, Receive(w) PROVE TypeInv'
  BY <1>14 DEF Receive, nutsdb, apiState, budget
<1>15. ASSUME NEW w \in Wrappers, OnRow(w) PROVE TypeInv'
  <2>1. next[w] \in 1 .. Len(binlog) /\ Len(binlog) \in Nat
    BY <1>15 DEF OnRow
  <2>2. /\ log' \in Seq([by : Wrappers, change : Nat])
        /\ \A i \in 1 .. Len(log') : log'[i].change \in 1 .. Len(binlog)
    <3> DEFINE entry == [by |-> w, change |-> next[w]]
               Entries == [by : Wrappers, change : Nat]
    <3>1. entry \in Entries /\ entry.change = next[w] /\ log \in Seq(Entries)
      BY <2>1
    <3>2. CASE log' = log
      BY <3>2
    <3>3. CASE log' = Append(log, entry)
      <4> HIDE DEF entry, Entries
      <4>1. log' \in Seq(Entries)
        BY <3>1, <3>3, AppendEntry
      <4>2. ASSUME NEW i \in 1 .. Len(log') PROVE log'[i].change \in 1 .. Len(binlog)
        <5>1. \/ i \in 1 .. Len(log) /\ log'[i] = log[i]
              \/ log'[i] = entry
          BY ONLY <3>1, <3>3, AppendEntry, i \in 1 .. Len(log')
        <5> QED BY <5>1, <3>1, <2>1
      <4> QED BY <4>1, <4>2 DEF Entries
    <3> QED BY <1>15, <3>2, <3>3 DEF OnRow
  <2>3. next' \in [Wrappers -> 1 .. Len(binlog) + 1]
    BY <1>15, <2>1 DEF OnRow, HandledOnRow
  <2>4. listener' \in [Wrappers -> Listeners]
    BY <1>15 DEF OnRow, HandledOnRow
  <2>5. \A v \in Wrappers : listener'[v] = "handling" => next'[v] <= Len(binlog)
    BY <1>15 DEF OnRow, HandledOnRow
  <2>6. \A v \in Wrappers : Live(v)' => Live(v)
    BY <1>15 DEF OnRow, HandledOnRow
  <2> QED
    BY <1>15, <2>2, <2>3, <2>4, <2>5, <2>6 DEF OnRow, apiState, budget
<1>16. ASSUME NEW w \in Wrappers, OnRowPushFails(w) PROVE TypeInv'
  <2>1. next[w] \in 1 .. Len(binlog) /\ Len(binlog) \in Nat
    BY <1>16 DEF OnRowPushFails
  <2>2. /\ next' \in [Wrappers -> 1 .. Len(binlog) + 1]
        /\ listener' \in [Wrappers -> Listeners]
        /\ \A v \in Wrappers : listener'[v] = "handling" => next'[v] <= Len(binlog)
        /\ \A v \in Wrappers : Live(v)' => Live(v)
    BY <1>16, <2>1 DEF OnRowPushFails, HandledOnRow
  <2>3. dropped' \subseteq 1 .. Len(binlog)
    BY <1>16, <2>1 DEF OnRowPushFails
  <2>4. /\ UNCHANGED <<binlog, saved, log, alive, models, logStore, wrapper, stopping,
                       canal, cut, start, acked>>
        /\ faults' \in Nat /\ crashes' \in Nat
    BY <1>16 DEF OnRowPushFails, Fault, nutsdb, apiState
  <2> QED BY <2>2, <2>3, <2>4
<1>17. CASE UNCHANGED vars
  BY <1>17 DEF vars
<1>18. ASSUME Crash PROVE TypeInv'
  <2>1. Die /\ crashes' \in Nat /\ faults' \in Nat
    BY <1>18 DEF Crash
  <2> QED BY ONLY <1>8, <2>1
<1>19. ASSUME NEW w \in Wrappers, ReadNilCanal(w) \/ OnRowPanics(w) PROVE TypeInv'
  <2>1. Die /\ crashes' \in Nat /\ faults' \in Nat
    BY <1>19 DEF ReadNilCanal, OnRowPanics, budget
  <2> QED BY ONLY <1>8, <2>1
<1> QED
  BY <1>1, <1>2, <1>3, <1>4, <1>5, <1>6, <1>7, <1>9, <1>10, <1>11, <1>12, <1>13,
     <1>14, <1>15, <1>16, <1>17, <1>18, <1>19 DEF Next, Goroutine, Streams

(***************************************************************************)
(* The type invariant, with what it says of the log store: a goroutine     *)
(* that may call OnRow finds API.logStore assigned.                        *)
(***************************************************************************)
THEOREM TypeCorrect == Spec => []TypeOK
<1>1. TypeInv => TypeOK
  BY DEF TypeInv
<1> QED BY TypeInit, TypeStep, <1>1, PTL DEF Spec

-----------------------------------------------------------------------------
(***************************************************************************)
(* A model Put has answered for survives every crash: it is in nutsdb, and *)
(* what is in nutsdb is what the models are loaded from.                   *)
(***************************************************************************)
AckedIsSaved == acked \subseteq saved

THEOREM PutSurvivesCorrect == Spec => []PutSurvives
<1>1. Init => AckedIsSaved
  BY DEF Init, AckedIsSaved
<1>2. AckedIsSaved /\ [Next]_vars => AckedIsSaved'
  BY DEF AckedIsSaved, Next, Goroutine, Streams, Commit, Put, PutFails, StartParser,
     StartParserPanics, CloseCanal, ForgetWrapper, Die, Crash, Restart, ReadCanal,
     ReadNilCanal, OnRowPanics, RunFrom, StreamFails, StreamCloses, Receive, OnRow, OnRowPushFails,
     nutsdb, vars
<1>3. TypeInv /\ AckedIsSaved => PutSurvives
  BY DEF TypeInv, TypeOK, AckedIsSaved, PutSurvives
<1> QED BY <1>1, <1>2, <1>3, TypeInit, TypeStep, PTL DEF Spec

-----------------------------------------------------------------------------
Listening(w) == listener[w] \in {"listening", "handling"}

\* What is defined when it is committed stays so while a listener listens:
\* models only disappear when the process ends.
StillDefined ==
  \A w \in Wrappers : Listening(w) =>
    \A n \in start[w] + 1 .. Len(binlog) :
      binlog[n].defined => binlog[n].table \in models

StretchInv == TypeInv /\ StillDefined /\ StretchIsLogged

\* The histories only grow.
LEMMA HistoryGrows ==
  ASSUME TypeInv, [Next]_vars
  PROVE  /\ Len(binlog) \in Nat /\ Len(binlog') \in Nat
         /\ Len(binlog) <= Len(binlog')
         /\ \A n \in 1 .. Len(binlog) : binlog'[n] = binlog[n]
         /\ \A w, n : LoggedBy(w, n) => LoggedBy(w, n)'
         /\ dropped \subseteq dropped'
<1>1. binlog \in Seq(Change) /\ log \in Seq([by : Wrappers, change : Nat])
  BY DEF TypeInv, TypeOK
<1>2. ASSUME NEW t \in Tables, Commit(t)
      PROVE  /\ Len(binlog') = Len(binlog) + 1
             /\ \A n \in 1 .. Len(binlog) : binlog'[n] = binlog[n]
             /\ log' = log /\ dropped' = dropped
  <2>1. [table |-> t, defined |-> t \in models] \in Change
    BY DEF Change
  <2> QED BY <1>1, <1>2, <2>1, AppendEntry DEF Commit, nutsdb
<1>3. ASSUME NEW w \in Wrappers, OnRow(w)
      PROVE  binlog' = binlog /\ dropped' = dropped
             /\ \A v, n : LoggedBy(v, n) => LoggedBy(v, n)'
  <2> DEFINE entry == [by |-> w, change |-> next[w]]
  <2>1. entry \in [by : Wrappers, change : Nat]
    BY DEF TypeInv, TypeOK
  <2>2. log' = log \/ log' = Append(log, entry)
    BY <1>3 DEF OnRow
  <2>3. /\ Len(log) \in Nat /\ Len(log') \in Nat
        /\ Len(log) <= Len(log')
        /\ \A i \in 1 .. Len(log) : log'[i] = log[i]
    <3> HIDE DEF entry
    <3>1. CASE log' = log
      BY <1>1, <3>1
    <3>2. CASE log' = Append(log, entry)
      BY ONLY <1>1, <2>1, <3>2, AppendEntry
    <3> QED BY <2>2, <3>1, <3>2
  <2> QED BY <1>3, <2>3 DEF OnRow, LoggedBy
<1>4. \/ \E t \in Tables : Commit(t)
      \/ \E w \in Wrappers : OnRow(w)
      \/ binlog' = binlog /\ log' = log /\ dropped \subseteq dropped'
  BY DEF Next, Goroutine, Streams, Put, PutFails, StartParser,
     StartParserPanics, CloseCanal, ForgetWrapper, Die, Crash, Restart, ReadCanal,
     ReadNilCanal, OnRowPanics, RunFrom, StreamFails, StreamCloses, Receive, OnRowPushFails,
     nutsdb, vars
<1>5. CASE \E t \in Tables : Commit(t)
  BY <1>1, <1>2, <1>5 DEF LoggedBy
<1>6. CASE \E w \in Wrappers : OnRow(w)
  BY <1>1, <1>3, <1>6
<1>7. CASE binlog' = binlog /\ log' = log /\ dropped \subseteq dropped'
  BY <1>1, <1>7 DEF LoggedBy
<1> QED BY <1>4, <1>5, <1>6, <1>7

LEMMA StillDefinedStep ==
  ASSUME TypeInv, StillDefined, [Next]_vars
  PROVE  StillDefined'
<1> USE DEF Listening
<1>1. SUFFICES ASSUME NEW w \in Wrappers, Listening(w)',
                      NEW n \in start'[w] + 1 .. Len(binlog'), binlog'[n].defined
               PROVE  binlog'[n].table \in models'
  BY DEF StillDefined
<1>2. /\ binlog \in Seq(Change) /\ Len(binlog) \in Nat
      /\ start \in [Wrappers -> 0 .. Len(binlog)]
      /\ listener \in [Wrappers -> Listeners]
  BY DEF TypeInv, TypeOK
<1>3. ASSUME NEW t \in Tables, Commit(t) PROVE binlog'[n].table \in models'
  <2> DEFINE change == [table |-> t, defined |-> t \in models]
  <2>1. binlog' = Append(binlog, change) /\ models' = models
        /\ start' = start /\ listener' = listener
    BY <1>3 DEF Commit, apiState, goroutines
  <2>2. change \in Change
    BY DEF Change
  <2>3. \/ n \in 1 .. Len(binlog) /\ binlog'[n] = binlog[n]
        \/ binlog'[n] = change
    <3>1. n \in 1 .. Len(binlog')
      BY <1>2, <2>1
    <3> HIDE DEF change
    <3> QED BY ONLY <3>1, <2>1, <2>2, <1>2, AppendEntry
  <2>4. CASE n \in 1 .. Len(binlog) /\ binlog'[n] = binlog[n]
    BY <1>1, <2>1, <2>4, <1>2 DEF StillDefined
  <2>5. CASE binlog'[n] = change
    <3>1. change.table = t /\ change.defined = (t \in models)
      OBVIOUS
    <3> HIDE DEF change
    <3>2. change.defined
      BY <1>1, <2>5
    <3> QED BY <2>1, <2>5, <3>1, <3>2
  <2> QED BY <2>3, <2>4, <2>5
<1>4. ASSUME NEW v \in Wrappers, RunFrom(v) PROVE binlog'[n].table \in models'
  <2>1. binlog' = binlog /\ models' = models
    BY <1>4 DEF RunFrom, apiState
  <2>2. CASE w = v
    BY <1>2, <1>4, <2>1, <2>2 DEF RunFrom
  <2>3. CASE w # v
    BY <1>1, <1>2, <1>4, <2>1, <2>3 DEF RunFrom, StillDefined
  <2> QED BY <2>2, <2>3
<1>5. ASSUME Die PROVE FALSE
  BY <1>1, <1>5, <1>2 DEF Die
<1>6. ASSUME binlog' = binlog, models \subseteq models', start' = start, Listening(w)
      PROVE  binlog'[n].table \in models'
  BY <1>1, <1>6 DEF StillDefined
<1>7. ASSUME NEW t \in Tables, Put(t) \/ PutFails(t)
      PROVE  binlog' = binlog /\ models \subseteq models' /\ start' = start /\ Listening(w)
  BY <1>1, <1>7 DEF Put, PutFails, goroutines
<1>8. ASSUME NEW v \in Wrappers,
             \/ StartParser(v) \/ CloseCanal(v) \/ ForgetWrapper(v) \/ ReadCanal(v)
             \/ StreamFails(v) \/ StreamCloses(v) \/ Receive(v) \/ OnRow(v)
             \/ OnRowPushFails(v)
      PROVE  binlog' = binlog /\ models \subseteq models' /\ start' = start /\ Listening(w)
  BY <1>1, <1>2, <1>8 DEF StartParser, CloseCanal, ForgetWrapper, ReadCanal, StreamFails,
     StreamCloses, Receive, OnRow, OnRowPushFails, HandledOnRow, apiState, goroutines
<1>9. ASSUME StartParserPanics \/ Restart \/ UNCHANGED vars
      PROVE  binlog' = binlog /\ models \subseteq models' /\ start' = start /\ Listening(w)
  BY <1>1, <1>9 DEF StartParserPanics, Restart, vars, apiState, goroutines
<1> QED
  BY <1>3, <1>4, <1>5, <1>6, <1>7, <1>8, <1>9 DEF Next, Goroutine, Streams, Crash, ReadNilCanal, OnRowPanics

LEMMA StretchStep ==
  ASSUME TypeInv, StillDefined, StretchIsLogged, [Next]_vars
  PROVE  StretchIsLogged'
<1>1. SUFFICES ASSUME NEW w \in Wrappers, NEW n \in start'[w] + 1 .. next'[w] - 1,
                      binlog'[n].defined
               PROVE  LoggedBy(w, n)' \/ n \in dropped'
  BY DEF StretchIsLogged
<1>2. /\ Len(binlog) \in Nat
      /\ start \in [Wrappers -> 0 .. Len(binlog)]
      /\ next \in [Wrappers -> 1 .. Len(binlog) + 1]
      /\ listener \in [Wrappers -> Listeners]
      /\ listener[w] = "handling" => next[w] <= Len(binlog)
  BY DEF TypeInv, TypeOK
<1>3. ASSUME n \in start[w] + 1 .. next[w] - 1
      PROVE  LoggedBy(w, n)' \/ n \in dropped'
  <2>1. n \in 1 .. Len(binlog)
    BY <1>2, <1>3
  <2>2. binlog[n].defined
    BY <1>1, <2>1, HistoryGrows
  <2> QED BY <1>3, <2>2, HistoryGrows DEF StretchIsLogged
<1>4. ASSUME NEW v \in Wrappers, RunFrom(v) PROVE n \in start[w] + 1 .. next[w] - 1
  BY <1>1, <1>2, <1>4 DEF RunFrom
<1>5. ASSUME NEW v \in Wrappers, OnRow(v) \/ OnRowPushFails(v),
             n \notin start[w] + 1 .. next[w] - 1
      PROVE  LoggedBy(w, n)' \/ n \in dropped'
  <2>1. start' = start /\ next' = [next EXCEPT ![v] = @ + 1] /\ binlog' = binlog
    BY <1>5 DEF OnRow, OnRowPushFails, HandledOnRow
  <2>2. w = v /\ n = next[w] /\ n \in start[w] + 1 .. Len(binlog)
    BY <1>1, <1>2, <1>5, <2>1 DEF OnRow, OnRowPushFails
  <2>3. binlog[n].table \in models
    BY <1>1, <1>5, <2>1, <2>2 DEF StillDefined, Listening, OnRow, OnRowPushFails
  <2>4. CASE OnRow(v)
    <3> DEFINE entry == [by |-> w, change |-> n]
    <3>1. log' = Append(log, entry)
      BY <2>2, <2>3, <2>4 DEF OnRow, ModelsOfHandler
    <3>2. log \in Seq([by : Wrappers, change : Nat]) /\ entry \in [by : Wrappers, change : Nat]
      BY <1>2, <2>2 DEF TypeInv, TypeOK
    <3>3. Len(log) + 1 \in 1 .. Len(log') /\ log'[Len(log) + 1] = entry
      <4> HIDE DEF entry
      <4> QED BY <3>1, <3>2, AppendEntry
    <3> QED BY <3>3 DEF LoggedBy
  <2>5. CASE OnRowPushFails(v)
    BY <2>2, <2>5 DEF OnRowPushFails
  <2> QED BY <1>5, <2>4, <2>5
<1>6. \/ \E v \in Wrappers : RunFrom(v) \/ OnRow(v) \/ OnRowPushFails(v)
      \/ start' = start /\ next' = next
  BY DEF Next, Goroutine, Streams, Commit, Put, PutFails, StartParser,
     StartParserPanics, CloseCanal, ForgetWrapper, Die, Crash, Restart, ReadCanal,
     ReadNilCanal, OnRowPanics, StreamFails, StreamCloses, Receive, goroutines, vars
<1> QED BY <1>1, <1>3, <1>4, <1>5, <1>6

LEMMA StretchInit == Init => StretchInv
<1> SUFFICES ASSUME Init PROVE StillDefined /\ StretchIsLogged
  BY TypeInit DEF StretchInv
<1> QED BY DEF Init, StillDefined, Listening, StretchIsLogged

LEMMA StretchInvStep == StretchInv /\ [Next]_vars => StretchInv'
BY TypeStep, StillDefinedStep, StretchStep DEF StretchInv

(***************************************************************************)
(* A listener misses no change of its stretch, whatever the order of the   *)
(* requests, the failing calls and the crashes.                            *)
(***************************************************************************)
THEOREM StretchIsLoggedCorrect == Spec => []StretchIsLogged
<1>1. StretchInv => StretchIsLogged
  BY DEF StretchInv
<1> QED BY <1>1, StretchInit, StretchInvStep, PTL DEF Spec

-----------------------------------------------------------------------------
(* One stop before each start.                                             *)

\* What the stream of w may still deliver.
Limit(w) == IF Open(w) THEN Len(binlog) ELSE cut[w]

Ahead(w) == IF Listening(w) THEN next[w] .. Limit(w) ELSE {}

\* An open stream is that of API.eventWrapper.
Current(w) ==
  /\ listener[w] = "unused" => Open(w) /\ wrapper # w
  /\ Live(w) /\ Open(w) => wrapper = w
  /\ wrapper = w => (Open(w) <=> ~stopping)

OpenIsCurrent ==
  \A w \in Wrappers :
    /\ Current(w)
    /\ listener[w] = "handling" => next[w] \in Ahead(w)

Disjoint ==
  \A v, w \in Wrappers : v # w => Ahead(v) \cap Ahead(w) = {}

AheadIsNew ==
  \A w \in Wrappers : \A i \in 1 .. Len(log) : log[i].change \notin Ahead(w)

OnceInv == TypeInv /\ OpenIsCurrent /\ Disjoint /\ AheadIsNew /\ LoggedOnce

\* What a stream may deliver is in the binlog.
LEMMA AheadInBinlog ==
  ASSUME TypeInv, NEW w \in Wrappers
  PROVE  Ahead(w) \subseteq 1 .. Len(binlog)
<1>1. /\ Len(binlog) \in Nat
      /\ cut[w] \in (0 .. Len(binlog)) \cup {NoCut}
      /\ next[w] \in 1 .. Len(binlog) + 1
  BY DEF TypeInv, TypeOK
<1> QED BY <1>1 DEF Ahead, Limit, Open

\* A commit extends the open streams by the change committed, and no other
\* step makes a stream deliver more.
LEMMA AheadStep ==
  ASSUME TypeInv, OpenIsCurrent, [Next]_vars, NEW w \in Wrappers
  PROVE  /\ Ahead(w)' \subseteq Ahead(w) \cup {Len(binlog) + 1}
         /\ Len(binlog) + 1 \in Ahead(w)' => Live(w) /\ Open(w)
<1>1. /\ Len(binlog) \in Nat
      /\ listener \in [Wrappers -> Listeners]
      /\ cut \in [Wrappers -> (0 .. Len(binlog)) \cup {NoCut}]
      /\ next \in [Wrappers -> 1 .. Len(binlog) + 1]
  BY DEF TypeInv, TypeOK
<1>2. ASSUME NEW t \in Tables, Commit(t)
      PROVE  /\ Ahead(w)' \subseteq Ahead(w) \cup {Len(binlog) + 1}
             /\ Len(binlog) + 1 \in Ahead(w)' => Live(w) /\ Open(w)
  <2>1. Len(binlog') = Len(binlog) + 1
    BY <1>1, <1>2 DEF Commit, TypeInv, TypeOK
  <2>2. listener' = listener /\ cut' = cut /\ next' = next
    BY <1>2 DEF Commit, goroutines
  <2> QED BY <1>1, <2>1, <2>2 DEF Ahead, Limit, Listening, Open, Live
<1>3. SUFFICES Ahead(w)' \subseteq Ahead(w) \/ \E t \in Tables : Commit(t)
  BY <1>2, <1>1, AheadInBinlog
<1>4. ASSUME NEW v \in Wrappers, CloseCanal(v) PROVE Ahead(w)' \subseteq Ahead(w)
  <2>1. Open(v)
    BY <1>4 DEF CloseCanal, OpenIsCurrent, Current
  <2>2. /\ binlog' = binlog /\ listener' = listener /\ next' = next
        /\ cut' = [cut EXCEPT ![v] = Len(binlog)]
    BY <1>4 DEF CloseCanal
  <2> QED BY <1>1, <2>1, <2>2 DEF Ahead, Limit, Listening, Open, NoCut
<1>5. ASSUME NEW v \in Wrappers, RunFrom(v) PROVE Ahead(w)' \subseteq Ahead(w)
  <2>1. /\ binlog' = binlog /\ cut' = cut
        /\ listener' = [listener EXCEPT ![v] = "listening"]
        /\ next' = [next EXCEPT ![v] = Len(binlog) + 1]
    BY <1>5 DEF RunFrom
  <2> QED BY <1>1, <2>1 DEF Ahead, Limit, Listening, Open, NoCut
<1>6. ASSUME NEW v \in Wrappers, OnRow(v) \/ OnRowPushFails(v)
      PROVE  Ahead(w)' \subseteq Ahead(w)
  <2>1. /\ binlog' = binlog /\ cut' = cut /\ listener[v] = "handling"
        /\ listener' = [listener EXCEPT ![v] = "listening"]
        /\ next' = [next EXCEPT ![v] = @ + 1]
    BY <1>6 DEF OnRow, OnRowPushFails, HandledOnRow
  <2> QED BY <1>1, <2>1 DEF Ahead, Limit, Listening, Open
<1>7. ASSUME NEW v \in Wrappers,
             \/ StartParser(v) \/ ReadCanal(v) \/ StreamFails(v) \/ StreamCloses(v)
             \/ Receive(v)
      PROVE  Ahead(w)' \subseteq Ahead(w)
  <2>1. binlog' = binlog /\ cut' = cut /\ next' = next
    BY <1>7 DEF StartParser, ReadCanal, StreamFails, StreamCloses, Receive
  <2>2. Listening(w)' => Listening(w)
    BY <1>1, <1>7 DEF StartParser, ReadCanal, StreamFails, StreamCloses, Receive, Listening
  <2> QED BY <2>1, <2>2 DEF Ahead, Limit, Open
<1>8. ASSUME Die PROVE Ahead(w)' \subseteq Ahead(w)
  BY <1>8 DEF Die, Ahead, Listening
<1>9. ASSUME UNCHANGED <<binlog, listener, cut, next>>
      PROVE  Ahead(w)' \subseteq Ahead(w)
  BY <1>9 DEF Ahead, Limit, Listening, Open
<1> QED
  BY <1>4, <1>5, <1>6, <1>7, <1>8, <1>9
     DEF Next, Goroutine, Streams, Put, PutFails, StartParserPanics, ForgetWrapper, Crash,
     Restart, ReadNilCanal, OnRowPanics, goroutines, vars

\* A change that was handled is behind the stream that delivered it.
LEMMA Handled ==
  ASSUME TypeInv, OpenIsCurrent, NEW w \in Wrappers, OnRow(w)
  PROVE  next[w] \in Ahead(w) /\ next[w] \notin Ahead(w)'
<1>1. next[w] \in Nat /\ next'[w] = next[w] + 1
  BY DEF TypeInv, TypeOK, OnRow, HandledOnRow
<1>2. next[w] \in Ahead(w)
  BY DEF OnRow, OpenIsCurrent
<1>3. Limit(w)' \in Int
  BY DEF TypeInv, TypeOK, OnRow, Limit, Open, NoCut
<1> QED BY <1>1, <1>2, <1>3 DEF Ahead

LEMMA CurrentStep ==
  ASSUME TypeInv, OpenIsCurrent, [Next /\ StopBeforeStart]_vars, NEW w \in Wrappers
  PROVE  Current(w)'
<1>1. /\ Len(binlog) \in Nat /\ wrapper \in Wrappers \cup {None} /\ None \notin Wrappers
      /\ listener \in [Wrappers -> Listeners]
      /\ cut \in [Wrappers -> (0 .. Len(binlog)) \cup {NoCut}]
  BY ConstantsAssumption DEF TypeInv, TypeOK
<1>2. \A v \in Wrappers : Current(v)
  BY DEF OpenIsCurrent
<1>3. wrapper' # wrapper => wrapper = None \/ wrapper' = None
  BY DEF StopBeforeStart, vars
<1> USE DEF Current, Live, Open
<1>4. ASSUME NEW v \in Wrappers, StartParser(v) PROVE Current(w)'
  <2>1. /\ wrapper' = v /\ wrapper # v /\ cut[v] = NoCut /\ cut' = cut
        /\ ~stopping /\ stopping' = stopping
        /\ listener[v] = "unused" /\ listener' = [listener EXCEPT ![v] = "started"]
    BY <1>2, <1>4 DEF StartParser
  <2>2. wrapper = None
    BY <1>1, <1>3, <2>1
  <2>3. CASE w = v
    BY <1>1, <2>1, <2>3
  <2>4. CASE w # v
    BY <1>1, <1>2, <2>1, <2>2, <2>4
  <2> QED BY <2>3, <2>4
<1>5. ASSUME NEW v \in Wrappers, CloseCanal(v) PROVE Current(w)'
  <2>1. /\ wrapper = v /\ wrapper' = v /\ stopping' = TRUE /\ listener' = listener
        /\ cut' = [cut EXCEPT ![v] = Len(binlog)] /\ listener[v] # "unused"
    BY <1>2, <1>5 DEF CloseCanal
  <2> QED BY <1>1, <1>2, <2>1 DEF NoCut
<1>6. ASSUME NEW v \in Wrappers, ForgetWrapper(v) PROVE Current(w)'
  <2>1. /\ wrapper = v /\ wrapper' = None /\ listener' = listener /\ cut' = cut
        /\ cut[v] # NoCut
    BY <1>2, <1>6 DEF ForgetWrapper
  <2> QED BY <1>1, <1>2, <2>1
<1>7. ASSUME NEW v \in Wrappers,
             \/ ReadCanal(v) \/ RunFrom(v) \/ StreamFails(v) \/ StreamCloses(v)
             \/ Receive(v) \/ OnRow(v) \/ OnRowPushFails(v)
      PROVE  Current(w)'
  <2>1. wrapper' = wrapper /\ stopping' = stopping /\ cut' = cut
    BY <1>7 DEF ReadCanal, RunFrom, StreamFails, StreamCloses, Receive, OnRow,
       OnRowPushFails, apiState
  <2>2. \/ Live(w) /\ listener'[w] # "unused"
        \/ listener'[w] = listener[w]
    BY <1>1, <1>7 DEF ReadCanal, RunFrom, StreamFails, StreamCloses, Receive, OnRow,
       OnRowPushFails, HandledOnRow
  <2>3. Current(w)
    BY <1>2
  <2> QED BY <2>1, <2>2, <2>3
<1>8. ASSUME Die PROVE Current(w)'
  BY <1>1, <1>2, <1>8 DEF Die
<1>9. ASSUME UNCHANGED <<listener, cut, wrapper, stopping>> PROVE Current(w)'
  BY <1>2, <1>9
<1> QED
  BY <1>4, <1>5, <1>6, <1>7, <1>8, <1>9
     DEF Next, Goroutine, Streams, Commit, Put, PutFails, StartParserPanics, Crash, Restart,
     ReadNilCanal, OnRowPanics, apiState, goroutines, vars

LEMMA HandlingStep ==
  ASSUME TypeInv, OpenIsCurrent, [Next]_vars, NEW w \in Wrappers, listener'[w] = "handling"
  PROVE  next'[w] \in Ahead(w)'
<1>1. /\ Len(binlog) \in Nat
      /\ listener \in [Wrappers -> Listeners]
      /\ cut \in [Wrappers -> (0 .. Len(binlog)) \cup {NoCut}]
      /\ next \in [Wrappers -> 1 .. Len(binlog) + 1]
  BY DEF TypeInv, TypeOK
<1>2. listener[w] = "handling" => next[w] \in Ahead(w)
  BY DEF OpenIsCurrent
<1> USE DEF Ahead, Limit, Listening, Open
<1>3. ASSUME NEW t \in Tables, Commit(t) PROVE next'[w] \in Ahead(w)'
  <2>1. Len(binlog') = Len(binlog) + 1
    BY <1>1, <1>3 DEF Commit, TypeInv, TypeOK
  <2>2. listener' = listener /\ cut' = cut /\ next' = next
    BY <1>3 DEF Commit, goroutines
  <2> QED BY <1>1, <1>2, <2>1, <2>2
<1>4. ASSUME NEW v \in Wrappers, CloseCanal(v) PROVE next'[w] \in Ahead(w)'
  <2>1. Open(v)
    BY <1>4 DEF CloseCanal, OpenIsCurrent, Current
  <2>2. /\ binlog' = binlog /\ listener' = listener /\ next' = next
        /\ cut' = [cut EXCEPT ![v] = Len(binlog)]
    BY <1>4 DEF CloseCanal
  <2> QED BY <1>1, <1>2, <2>1, <2>2 DEF NoCut
<1>5. ASSUME NEW v \in Wrappers, Receive(v) PROVE next'[w] \in Ahead(w)'
  <2>1. /\ binlog' = binlog /\ cut' = cut /\ next' = next /\ next[v] <= Limit(v)
        /\ listener' = [listener EXCEPT ![v] = "handling"]
    BY <1>5 DEF Receive
  <2>2. CASE w = v
    BY <1>1, <2>1, <2>2
  <2>3. CASE w # v
    BY <1>1, <1>2, <2>1, <2>3
  <2> QED BY <2>2, <2>3
<1>6. ASSUME NEW v \in Wrappers,
             \/ StartParser(v) \/ ReadCanal(v) \/ StreamFails(v) \/ StreamCloses(v)
             \/ RunFrom(v) \/ OnRow(v) \/ OnRowPushFails(v)
      PROVE  next'[w] \in Ahead(w)'
  <2>1. binlog' = binlog /\ cut' = cut
    BY <1>6 DEF StartParser, ReadCanal, StreamFails, StreamCloses, RunFrom, OnRow,
       OnRowPushFails
  <2>2. listener[w] = "handling" /\ next'[w] = next[w]
    BY <1>1, <1>6 DEF StartParser, ReadCanal, StreamFails, StreamCloses, RunFrom, OnRow,
       OnRowPushFails, HandledOnRow
  <2> QED BY <1>2, <2>1, <2>2
<1>7. ASSUME Die PROVE FALSE
  BY <1>7 DEF Die
<1>8. ASSUME UNCHANGED <<binlog, listener, cut, next>> PROVE next'[w] \in Ahead(w)'
  BY <1>2, <1>8
<1> QED
  BY <1>3, <1>4, <1>5, <1>6, <1>7, <1>8
     DEF Next, Goroutine, Streams, Put, PutFails, StartParserPanics, ForgetWrapper, Crash,
     Restart, ReadNilCanal, OnRowPanics, goroutines, vars

LEMMA OnceStep == OnceInv /\ [Next /\ StopBeforeStart]_vars => OnceInv'
<1> SUFFICES ASSUME OnceInv, [Next /\ StopBeforeStart]_vars PROVE OnceInv'
  OBVIOUS
<1>1. TypeInv /\ OpenIsCurrent /\ Disjoint /\ AheadIsNew /\ LoggedOnce /\ [Next]_vars
  BY DEF OnceInv
<1>2. TypeInv'
  BY <1>1, TypeStep
<1>3. OpenIsCurrent'
  BY <1>1, CurrentStep, HandlingStep DEF OpenIsCurrent
<1>4. Len(binlog) \in Nat /\ log \in Seq([by : Wrappers, change : Nat])
  BY <1>1 DEF TypeInv, TypeOK
<1>5. \A w \in Wrappers :
        /\ Ahead(w) \subseteq 1 .. Len(binlog)
        /\ Ahead(w)' \subseteq Ahead(w) \cup {Len(binlog) + 1}
        /\ Len(binlog) + 1 \in Ahead(w)' => Live(w) /\ Open(w)
  BY <1>1, AheadInBinlog, AheadStep
<1>6. \A w \in Wrappers : Live(w) /\ Open(w) => wrapper = w
  BY <1>1 DEF OpenIsCurrent, Current
<1>7. Disjoint'
  BY <1>1, <1>4, <1>5, <1>6 DEF Disjoint
<1>8. ASSUME log' = log PROVE AheadIsNew' /\ LoggedOnce'
  <2>1. \A i \in 1 .. Len(log) : log[i].change # Len(binlog) + 1
    <3>1. \A i \in 1 .. Len(log) : log[i].change \in 1 .. Len(binlog)
      BY <1>1 DEF TypeInv, TypeOK
    <3> QED BY <1>4, <3>1
  <2> QED BY <1>1, <1>5, <1>8, <2>1 DEF AheadIsNew, LoggedOnce
<1>9. ASSUME NEW w \in Wrappers, OnRow(w), log' # log PROVE AheadIsNew' /\ LoggedOnce'
  <2> DEFINE entry == [by |-> w, change |-> next[w]]
  <2>1. entry \in [by : Wrappers, change : Nat] /\ entry.change = next[w]
    BY <1>1 DEF TypeInv, TypeOK
  <2>2. log' = Append(log, entry)
    BY <1>9 DEF OnRow
  <2> HIDE DEF entry
  <2>3. /\ Len(log') = Len(log) + 1 /\ Len(log) \in Nat
        /\ \A i \in 1 .. Len(log) : log'[i] = log[i]
        /\ log'[Len(log) + 1] = entry
    BY <1>4, <2>1, <2>2, AppendEntry
  <2>4. \A i \in 1 .. Len(log') : i \in 1 .. Len(log) \/ i = Len(log) + 1
    BY <2>3
  <2>5. next[w] \in Ahead(w) /\ next[w] \notin Ahead(w)'
    BY <1>1, <1>9, Handled
  <2>6. \A i \in 1 .. Len(log) : log[i].change # next[w]
    BY <1>1, <2>5 DEF AheadIsNew
  <2>7. LoggedOnce'
    BY <1>1, <2>1, <2>3, <2>4, <2>6 DEF LoggedOnce
  <2>8. \A v \in Wrappers : Ahead(v)' \subseteq Ahead(v) \cup {Len(binlog) + 1}
    BY <1>5
  <2>9. ASSUME NEW v \in Wrappers, NEW i \in 1 .. Len(log') PROVE log'[i].change \notin Ahead(v)'
    <3>1. CASE i \in 1 .. Len(log)
      <4>1. log'[i].change \notin Ahead(v) /\ log'[i].change \in 1 .. Len(binlog)
        BY <1>1, <2>3, <3>1 DEF AheadIsNew, TypeInv, TypeOK
      <4> QED BY <1>4, <2>8, <4>1
    <3>2. CASE i = Len(log) + 1
      <4>1. log'[i].change = next[w]
        BY <2>1, <2>3, <3>2
      <4>2. CASE v = w
        BY <2>5, <4>1, <4>2
      <4>3. CASE v # w
        <5>1. next[w] \notin Ahead(v) /\ next[w] \in 1 .. Len(binlog)
          BY <1>1, <1>5, <2>5, <4>3 DEF Disjoint
        <5> QED BY <1>4, <2>8, <4>1, <5>1
      <4> QED BY <4>2, <4>3
    <3> QED BY <2>4, <3>1, <3>2
  <2> QED BY <2>7, <2>9 DEF AheadIsNew
<1>10. log' = log \/ \E w \in Wrappers : OnRow(w)
  BY <1>1 DEF Next, Goroutine, Streams, Commit, Put, PutFails, StartParser,
     StartParserPanics, CloseCanal, ForgetWrapper, Die, Crash, Restart, ReadCanal,
     ReadNilCanal, OnRowPanics, RunFrom, StreamFails, StreamCloses, Receive, OnRowPushFails, nutsdb, vars
<1> QED BY <1>2, <1>3, <1>1, <1>7, <1>8, <1>9, <1>10 DEF OnceInv

LEMMA OnceInit == Init => OnceInv
<1> SUFFICES ASSUME Init PROVE OnceInv
  OBVIOUS
<1>1. /\ TypeInv /\ Len(log) = 0 /\ wrapper = None /\ None \notin Wrappers
      /\ \A w \in Wrappers : listener[w] = "unused" /\ Open(w)
  BY TypeInit, ConstantsAssumption DEF Init, Open
<1>2. \A w \in Wrappers : Ahead(w) = {} /\ ~Live(w) /\ wrapper # w
  BY <1>1 DEF Ahead, Listening, Live
<1> QED
  BY <1>1, <1>2 DEF OnceInv, OpenIsCurrent, Current, Disjoint, AheadIsNew, LoggedOnce

(***************************************************************************)
(* When the parser is stopped before it is started again, no change is     *)
(* logged twice, although nothing waits for the goroutine that was         *)
(* stopped: what its stream may still deliver lies before the position the *)
(* new listener asks for.                                                  *)
(***************************************************************************)
THEOREM LoggedOnceCorrect == SerialSpec => []LoggedOnce
<1>1. OnceInv => LoggedOnce
  BY DEF OnceInv
<1> QED BY <1>1, OnceInit, OnceStep, PTL DEF SerialSpec

(***************************************************************************)
(* Under the same order of the requests, the refusal of /parser/stop is    *)
(* true: without a wrapper, no stream is open.                             *)
(***************************************************************************)
THEOREM RefusedCorrect == SerialSpec => []RefusedMeansClosed
<1>1. OnceInv => RefusedMeansClosed
  BY ConstantsAssumption
     DEF OnceInv, OpenIsCurrent, Current, RefusedMeansClosed, Going, Live
<1> QED BY <1>1, OnceInit, OnceStep, PTL DEF SerialSpec

-----------------------------------------------------------------------------
(* One listener pushes its changes in the order of the binlog.             *)

Behind == \A i \in 1 .. Len(log) : log[i].change < next[log[i].by]

InOrder ==
  \A i, j \in 1 .. Len(log) :
    log[i].by = log[j].by /\ log[i].change < log[j].change => i < j

OrderInv == TypeInv /\ Behind /\ InOrder

LEMMA OrderInit == Init => OrderInv
BY TypeInit DEF Init, OrderInv, Behind, InOrder

LEMMA OrderStep == OrderInv /\ [Next]_vars => OrderInv'
<1> SUFFICES ASSUME OrderInv, [Next]_vars PROVE OrderInv'
  OBVIOUS
<1>0. TypeInv /\ Behind /\ InOrder /\ TypeInv'
  BY TypeStep DEF OrderInv
<1>a. /\ Len(binlog) \in Nat
      /\ log \in Seq([by : Wrappers, change : Nat])
      /\ \A i \in 1 .. Len(log) : log[i].change \in 1 .. Len(binlog)
      /\ next \in [Wrappers -> 1 .. Len(binlog) + 1]
  <2>1. binlog \in Seq(Change)
    BY <1>0 DEF TypeInv, TypeOK
  <2>2. Len(binlog) \in Nat
    BY <2>1
  <2>3. log \in Seq([by : Wrappers, change : Nat])
    BY <1>0 DEF TypeInv, TypeOK
  <2>4. \A i \in 1 .. Len(log) : log[i].change \in 1 .. Len(binlog)
    BY <1>0 DEF TypeInv, TypeOK
  <2>5. next \in [Wrappers -> 1 .. Len(binlog) + 1]
    BY <1>0 DEF TypeInv, TypeOK
  <2> QED BY <2>2, <2>3, <2>4, <2>5
<1>1. /\ TypeInv /\ Behind /\ InOrder /\ TypeInv'
      /\ Len(binlog) \in Nat
      /\ log \in Seq([by : Wrappers, change : Nat])
      /\ \A i \in 1 .. Len(log) : log[i].change \in 1 .. Len(binlog)
      /\ next \in [Wrappers -> 1 .. Len(binlog) + 1]
  BY <1>0, <1>a
<1>2. ASSUME NEW w \in Wrappers, OnRow(w) PROVE Behind' /\ InOrder'
  <2> DEFINE entry == [by |-> w, change |-> next[w]]
  <2>1. entry \in [by : Wrappers, change : Nat] /\ entry.by = w /\ entry.change = next[w]
    BY <1>1
  <2>2. /\ next' = [next EXCEPT ![w] = @ + 1]
        /\ log' = log \/ log' = Append(log, entry)
    BY <1>2 DEF OnRow, HandledOnRow
  <2> HIDE DEF entry
  <2>3. CASE log' = log
    BY <1>1, <2>2, <2>3 DEF Behind, InOrder
  <2>4. CASE log' = Append(log, entry)
    <3>1. /\ Len(log') = Len(log) + 1 /\ Len(log) \in Nat
          /\ \A i \in 1 .. Len(log) : log'[i] = log[i]
          /\ log'[Len(log) + 1] = entry
      BY <1>1, <2>1, <2>4, AppendEntry
    <3>2. \A i \in 1 .. Len(log') : i \in 1 .. Len(log) \/ i = Len(log) + 1
      BY <3>1
    <3>3. \A i \in 1 .. Len(log) : log[i].change < next[log[i].by]
      BY <1>1 DEF Behind
    <3>4. \A i \in 1 .. Len(log) : log[i].by \in Wrappers /\ log[i].change \in Nat
      <4>1. \A i \in 1 .. Len(log) : log[i] \in [by : Wrappers, change : Nat]
        <5> DEFINE Entry == [by : Wrappers, change : Nat]
        <5>1. log \in Seq(Entry)
          BY <1>1
        <5> HIDE DEF Entry
        <5>2. \A i \in 1 .. Len(log) : log[i] \in Entry
          BY <5>1
        <5> QED BY <5>2 DEF Entry
      <4> QED BY <4>1
    <3>5. /\ next[w] \in Nat
          /\ \A v \in Wrappers : next[v] \in Nat /\ next'[v] \in Nat /\ next[v] <= next'[v]
          /\ next'[w] = next[w] + 1
      BY <1>1, <2>2
    <3>6. ASSUME NEW i \in 1 .. Len(log') PROVE log'[i].change < next'[log'[i].by]
      <4>1. CASE i \in 1 .. Len(log)
        <5>1. /\ log'[i] = log[i] /\ log[i].by \in Wrappers /\ log[i].change \in Nat
              /\ log[i].change < next[log[i].by]
          BY <3>1, <3>3, <3>4, <4>1
        <5>2. next[log[i].by] \in Nat /\ next[log[i].by] <= next'[log[i].by]
          BY <3>5, <5>1
        <5>3. next'[log[i].by] \in Nat
          BY <3>5, <5>1
        <5> QED BY <5>1, <5>2, <5>3
      <4>2. CASE i = Len(log) + 1
        BY <2>1, <3>1, <3>5, <4>2
      <4> QED BY <3>2, <4>1, <4>2
    <3>7. ASSUME NEW i \in 1 .. Len(log'), NEW j \in 1 .. Len(log'),
                 log'[i].by = log'[j].by, log'[i].change < log'[j].change
          PROVE  i < j
      <4>1. CASE i \in 1 .. Len(log) /\ j \in 1 .. Len(log)
        BY <1>1, <3>1, <3>7, <4>1 DEF InOrder
      <4>2. CASE i \in 1 .. Len(log) /\ j = Len(log) + 1
        BY <3>1, <4>2
      <4>3. CASE i = Len(log) + 1
        <5>1. j \in 1 .. Len(log)
          BY <2>1, <3>1, <3>2, <3>5, <3>7, <4>3
        <5> QED BY <2>1, <3>1, <3>3, <3>4, <3>5, <3>7, <4>3, <5>1
      <4> QED BY <3>2, <4>1, <4>2, <4>3
    <3> QED BY <3>6, <3>7 DEF Behind, InOrder
  <2> QED BY <2>2, <2>3, <2>4
<1>3. ASSUME NEW w \in Wrappers, RunFrom(w) PROVE Behind' /\ InOrder'
  BY <1>1, <1>3 DEF RunFrom, Behind, InOrder, nutsdb
<1>4. ASSUME NEW w \in Wrappers, OnRowPushFails(w) PROVE Behind' /\ InOrder'
  <2>1. log' = log /\ next' = [next EXCEPT ![w] = @ + 1]
    BY <1>4 DEF OnRowPushFails, HandledOnRow, nutsdb
  <2>2. \A v \in Wrappers : next[v] \in Nat /\ next'[v] \in {next[v], next[v] + 1}
    BY <1>1, <2>1
  <2>3. ASSUME NEW i \in 1 .. Len(log) PROVE log'[i].change < next'[log'[i].by]
    <3> DEFINE Entry == [by : Wrappers, change : Nat]
    <3>1. log[i] \in Entry
      <4>1. log \in Seq(Entry)
        BY <1>1
      <4> HIDE DEF Entry
      <4> QED BY <4>1, ElementOfSeq
    <3>2. log[i].by \in Wrappers /\ log[i].change \in Nat
      BY <3>1
    <3>3. log[i].change < next[log[i].by]
      BY <1>1 DEF Behind
    <3> QED BY <2>1, <2>2, <3>2, <3>3
  <2> QED BY <1>1, <2>1, <2>3 DEF Behind, InOrder
<1>5. ASSUME log' = log, next' = next PROVE Behind' /\ InOrder'
  BY <1>1, <1>5 DEF Behind, InOrder
<1>6. \/ \E w \in Wrappers : OnRow(w) \/ RunFrom(w) \/ OnRowPushFails(w)
      \/ log' = log /\ next' = next
  BY DEF Next, Goroutine, Streams, Commit, Put, PutFails, StartParser,
     StartParserPanics, CloseCanal, ForgetWrapper, Die, Crash, Restart, ReadCanal,
     ReadNilCanal, OnRowPanics, StreamFails, StreamCloses, Receive, nutsdb, goroutines, vars
<1> QED BY <1>1, <1>2, <1>3, <1>4, <1>5, <1>6 DEF OrderInv

-----------------------------------------------------------------------------
(* A goroutine that finds no canal was stopped before it read it.          *)

NilIsClosed ==
  \A w \in Wrappers :
    /\ wrapper = w /\ stopping => ~Open(w)
    /\ Live(w) /\ ~canal[w] => ~Open(w)

NilInv == TypeInv /\ NilIsClosed

LEMMA NilInit == Init => NilInv
BY TypeInit DEF Init, NilInv, NilIsClosed, Live

LEMMA NilStep == NilInv /\ [Next]_vars => NilInv'
<1> SUFFICES ASSUME NilInv, [Next]_vars PROVE NilInv'
  OBVIOUS
<1>0. TypeInv /\ NilIsClosed
  BY DEF NilInv
<1>1. /\ listener \in [Wrappers -> Listeners] /\ canal \in [Wrappers -> BOOLEAN]
      /\ cut \in [Wrappers -> (0 .. Len(binlog)) \cup {NoCut}]
      /\ Len(binlog) \in Nat /\ None \notin Wrappers
  BY <1>0, ConstantsAssumption DEF TypeInv, TypeOK
<1> USE DEF NilIsClosed, Live, Open
<1>2. ASSUME NEW v \in Wrappers, StartParser(v) PROVE NilIsClosed'
  BY <1>0, <1>1, <1>2 DEF StartParser
<1>3. ASSUME NEW v \in Wrappers, CloseCanal(v) PROVE NilIsClosed'
  BY <1>0, <1>1, <1>3 DEF CloseCanal, NoCut
<1>4. ASSUME NEW v \in Wrappers, ForgetWrapper(v) PROVE NilIsClosed'
  BY <1>0, <1>1, <1>4 DEF ForgetWrapper
<1>5. ASSUME NEW v \in Wrappers,
             \/ ReadCanal(v) \/ RunFrom(v) \/ StreamFails(v) \/ StreamCloses(v)
             \/ Receive(v) \/ OnRow(v) \/ OnRowPushFails(v)
      PROVE  NilIsClosed'
  <2>1. wrapper' = wrapper /\ stopping' = stopping /\ cut' = cut /\ canal' = canal
    BY <1>5 DEF ReadCanal, RunFrom, StreamFails, StreamCloses, Receive, OnRow,
       OnRowPushFails, apiState
  <2>2. \A w \in Wrappers : Live(w)' => Live(w)
    BY <1>1, <1>5 DEF ReadCanal, RunFrom, StreamFails, StreamCloses, Receive, OnRow,
       OnRowPushFails, HandledOnRow
  <2> QED BY <1>0, <2>1, <2>2
<1>6. ASSUME Die PROVE NilIsClosed'
  BY <1>1, <1>6 DEF Die
<1>7. ASSUME UNCHANGED <<listener, canal, cut, wrapper, stopping>> PROVE NilIsClosed'
  BY <1>0, <1>7
<1>8. TypeInv'
  BY <1>0, TypeStep
<1> QED
  BY <1>2, <1>3, <1>4, <1>5, <1>6, <1>7, <1>8
     DEF NilInv, Next, Goroutine, Streams, Commit, Put, PutFails, StartParserPanics, Crash,
     Restart, ReadNilCanal, OnRowPanics, apiState, goroutines, vars

-----------------------------------------------------------------------------
(* What a step of another part of the process keeps: it changes nothing    *)
(* here but the counters of the bounds, or it ends the process.            *)

Untouched ==
  UNCHANGED <<binlog, saved, log, alive, models, logStore, wrapper, stopping,
              listener, canal, cut, start, next, acked, dropped>>

Elsewhere == (Untouched \/ Die) /\ faults' \in Nat /\ crashes' \in Nat

LEMMA TypeElsewhere == TypeInv /\ Elsewhere => TypeInv'
<1> SUFFICES ASSUME TypeInv, Elsewhere PROVE TypeInv'
  OBVIOUS
<1>1. CASE Untouched
  <2>1. /\ binlog' = binlog /\ saved' = saved /\ log' = log /\ alive' = alive
        /\ models' = models /\ logStore' = logStore /\ wrapper' = wrapper
        /\ stopping' = stopping /\ listener' = listener /\ canal' = canal
        /\ cut' = cut /\ start' = start /\ next' = next /\ acked' = acked
        /\ dropped' = dropped /\ faults' \in Nat /\ crashes' \in Nat
    BY <1>1 DEF Elsewhere, Untouched
  <2>2. TypeOK'
    BY <2>1 DEF TypeInv, TypeOK, Going
  <2>3. LiveHasStore'
    BY <2>1 DEF TypeInv, LiveHasStore, Live
  <2> QED BY <2>2, <2>3 DEF TypeInv
<1>2. CASE Die
  BY <1>2, ConstantsAssumption
     DEF Elsewhere, Die, TypeInv, TypeOK, LiveHasStore, Live, Going, Listeners, nutsdb
<1> QED BY <1>1, <1>2 DEF Elsewhere

\* Nobody listens once the process has ended.
LEMMA DeadListen ==
  ASSUME TypeInv, Die, NEW w \in Wrappers
  PROVE  /\ listener'[w] \in {"unused", "ended"}
         /\ listener'[w] = "unused" => listener[w] = "unused"
         /\ UNCHANGED <<binlog, log, cut, start, next, acked, dropped, saved>>
         /\ wrapper' = None /\ stopping' = FALSE
BY DEF Die, TypeInv, TypeOK, nutsdb

LEMMA StretchElsewhere == StretchInv /\ Elsewhere => StretchInv'
<1> SUFFICES ASSUME StretchInv, Elsewhere PROVE StillDefined' /\ StretchIsLogged'
  BY TypeElsewhere DEF StretchInv
<1>1. CASE Untouched
  BY <1>1 DEF Untouched, StretchInv, StillDefined, Listening, StretchIsLogged, LoggedBy
<1>2. CASE Die
  BY <1>2, DeadListen DEF StretchInv, StillDefined, Listening, StretchIsLogged, LoggedBy
<1> QED BY <1>1, <1>2 DEF Elsewhere

LEMMA OrderElsewhere == OrderInv /\ Elsewhere => OrderInv'
<1> SUFFICES ASSUME OrderInv, Elsewhere PROVE Behind' /\ InOrder'
  BY TypeElsewhere DEF OrderInv
<1>1. log' = log /\ next' = next
  BY DEF Elsewhere, Untouched, Die, nutsdb
<1> QED BY <1>1 DEF OrderInv, Behind, InOrder

LEMMA NilElsewhere == NilInv /\ Elsewhere => NilInv'
<1> SUFFICES ASSUME NilInv, Elsewhere PROVE NilIsClosed'
  BY TypeElsewhere DEF NilInv
<1>1. CASE Untouched
  BY <1>1 DEF Untouched, NilInv, NilIsClosed, Live, Open
<1>2. CASE Die
  BY <1>2, DeadListen DEF NilInv, NilIsClosed, Live, Open
<1> QED BY <1>1, <1>2 DEF Elsewhere

LEMMA OnceElsewhere == OnceInv /\ Elsewhere => OnceInv'
<1> SUFFICES ASSUME OnceInv, Elsewhere
             PROVE  OpenIsCurrent' /\ Disjoint' /\ AheadIsNew' /\ LoggedOnce'
  BY TypeElsewhere DEF OnceInv
<1>1. CASE Untouched
  BY <1>1 DEF Untouched, OnceInv, OpenIsCurrent, Current, Live, Open, Disjoint, AheadIsNew,
     Ahead, Limit, Listening, LoggedOnce
<1>2. CASE Die
  <2>1. \A w \in Wrappers : Ahead(w)' = {} /\ ~Live(w)' /\ listener'[w] # "handling"
    BY <1>2, DeadListen DEF OnceInv, Ahead, Listening, Live
  <2>2. \A w \in Wrappers : Current(w)'
    BY <1>2, <2>1, DeadListen, ConstantsAssumption
       DEF OnceInv, OpenIsCurrent, Current, Open
  <2>3. log' = log
    BY <1>2 DEF Die, nutsdb
  <2> QED
    BY <2>1, <2>2, <2>3 DEF OnceInv, OpenIsCurrent, Disjoint, AheadIsNew, LoggedOnce
<1> QED BY <1>1, <1>2 DEF Elsewhere
=============================================================================
