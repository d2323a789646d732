---------------------------- MODULE SyncerProofs ----------------------------
(***************************************************************************)
(* Proofs about Syncer for any number of tables, syncers, stop requests,   *)
(* records, faults and crashes.                                            *)
(***************************************************************************)
EXTENDS Syncer, TLAPS

\* Outside of a batch there is no batch.
IdleIsEmpty ==
  \A s \in Instances : pc[s] # "apply" => batch[s] = <<>> /\ count[s] = 0

TypeInv == TypeOK /\ IdleIsEmpty

-----------------------------------------------------------------------------
(***************************************************************************)
(* What the list operations keep: pushing and removing stay within lists   *)
(* of naturals.                                                            *)
(***************************************************************************)
LEMMA ListTypes ==
  ASSUME NEW list \in Seq(Nat), NEW n \in Nat
  PROVE  /\ Push(list, n) \in Seq(Nat)
         /\ Len(Push(list, n)) = Len(list) + 1
         /\ \A i \in 1 .. Len(list) : Push(list, n)[i] = list[i]
         /\ Push(list, n)[Len(list) + 1] = n
         /\ n <= Len(list) =>
              /\ Rem(list, n) \in Seq(Nat)
              /\ Len(Rem(list, n)) = Len(list) - n
              /\ \A i \in 1 .. Len(list) - n : Rem(list, n)[i] = list[n + i]
BY DEF Push, Rem

LEMMA TypeInit == Init => TypeInv
BY DEF Init, TypeInv, TypeOK, IdleIsEmpty, PCs, RequestStates, UnderWay

LEMMA TypeStep == TypeInv /\ [Next]_vars => TypeInv'
<1> SUFFICES ASSUME TypeInv, [Next]_vars PROVE TypeInv'
  OBVIOUS
<1> USE ConstantsAssumption
    DEF TypeInv, TypeOK, IdleIsEmpty, PCs, RequestStates, UnderWay, setup
<1>1. ASSUME NEW t \in Tables, Log(t) PROVE TypeInv'
  <2>1. Push(store[t], logged[t] + 1) \in Seq(Nat)
    BY <1>1, ListTypes
  <2> QED BY <1>1, <2>1 DEF Log, pass, objects, api, budget
<1>2. ASSUME NEW s \in Instances, StartSyncer(s) PROVE TypeInv'
  BY <1>2 DEF StartSyncer, Create, durable, pass, budget
<1>3. ASSUME NEW s \in Instances, StartSyncerPanics(s) PROVE TypeInv'
  BY <1>3 DEF StartSyncerPanics, Create, durable, pass, budget
<1>4. ASSUME NEW s \in Instances, Tick(s) PROVE TypeInv'
  BY <1>4 DEF Tick, Selects, durable, objects, api, budget
<1>5. ASSUME NEW s \in Instances, NEW t \in Tables, SizeTable(s, t) PROVE TypeInv'
  <2>1. todo' \in [Instances -> SUBSET Tables]
    BY <1>5 DEF SizeTable, Rest
  <2>2. CASE store[t] = <<>>
    BY <1>5, <2>1, <2>2 DEF SizeTable, durable, objects, api, budget
  <2>3. CASE store[t] # <<>>
    <3>1. /\ pc' = [pc EXCEPT ![s] = "fetch"]
          /\ table' = [table EXCEPT ![s] = t]
          /\ UNCHANGED <<durable, batch, count, objects, api, budget>>
      BY <1>5, <2>3 DEF SizeTable
    <3>2. pc[s] # "apply"
      BY <1>5 DEF SizeTable
    <3> QED BY <2>1, <3>1, <3>2 DEF durable, objects, api, budget
  <2> QED BY <2>2, <2>3
<1>6. ASSUME NEW s \in Instances, FetchBatch(s) PROVE TypeInv'
  BY <1>6 DEF FetchBatch, durable, objects, api, budget
<1>7. ASSUME NEW s \in Instances, ExecuteRecord(s) PROVE TypeInv'
  <2>1. /\ table[s] \in Tables
        /\ [by |-> s, rec |-> batch[s][count[s] + 1]] \in Executions
    BY <1>7 DEF ExecuteRecord, Executions
  <2>2. applied' \in [Tables -> Seq(Executions)]
    BY <1>7, <2>1 DEF ExecuteRecord
  <2>3. /\ count' = [count EXCEPT ![s] = @ + 1]
        /\ count[s] < Len(batch[s])
        /\ pc[s] = "apply"
        /\ UNCHANGED <<logged, store, pc, todo, table, batch, objects, api, budget>>
    BY <1>7 DEF ExecuteRecord
  <2> QED BY <2>2, <2>3 DEF objects, api, budget
<1>8. ASSUME NEW s \in Instances, ExecuteOnClosedPool(s) PROVE TypeInv'
  BY <1>8 DEF ExecuteOnClosedPool, Block, LeaveTable, durable, objects, api, budget
<1>9. ASSUME NEW s \in Instances, RemoveBatch(s) PROVE TypeInv'
  <2>1. Rem(store[table[s]], count[s]) \in Seq(Nat)
    BY <1>9, ListTypes DEF RemoveBatch
  <2> QED BY <1>9, <2>1 DEF RemoveBatch, LeaveTable, objects, api, budget
<1>10. ASSUME NEW s \in Instances, RemovePanics(s) PROVE TypeInv'
  BY <1>10 DEF RemovePanics, Die, durable, budget
<1>11. ASSUME NEW s \in Instances, EndRange(s) PROVE TypeInv'
  BY <1>11 DEF EndRange, durable, pass, objects, api, budget
<1>12. ASSUME NEW s \in Instances, CloseOnQuit(s) PROVE TypeInv'
  BY <1>12 DEF CloseOnQuit, durable, pass, api, budget
<1>13. ASSUME NEW s \in Instances, FetchFails(s) PROVE TypeInv'
  BY <1>13 DEF FetchFails, Block, LeaveTable, durable, objects, api
<1>14. ASSUME NEW s \in Instances, ExecuteFails(s) PROVE TypeInv'
  <2>1. /\ table[s] \in Tables
        /\ [by |-> s, rec |-> batch[s][count[s] + 1]] \in Executions
    BY <1>14 DEF ExecuteFails, Executions
  <2> DEFINE e == [by |-> s, rec |-> batch[s][count[s] + 1]]
  <2>2. Append(applied[table[s]], e) \in Seq(Executions)
    BY <2>1
  <2>3. applied' = applied \/ applied' = [applied EXCEPT ![table[s]] = Append(@, e)]
    BY <1>14 DEF ExecuteFails
  <2>4. applied' \in [Tables -> Seq(Executions)]
    <3> HIDE DEF e
    <3> QED BY <2>1, <2>2, <2>3
  <2> QED BY <1>14, <2>4 DEF ExecuteFails, Block, LeaveTable, objects, api
<1>15. ASSUME NEW r \in Requests, Stop(r) PROVE TypeInv'
  <2>1. CASE StopRefused(r)
    BY <2>1 DEF StopRefused, durable, pass, objects, budget
  <2>2. CASE StopSend(r)
    BY <2>2 DEF StopSend, durable, pass, objects, budget
  <2>3. CASE ClearQuit(r)
    BY <2>3 DEF ClearQuit, durable, pass, budget
  <2>4. CASE CloseCurrent(r)
    BY <2>4 DEF CloseCurrent, durable, pass, budget
  <2> QED BY <1>15, <2>1, <2>2, <2>3, <2>4 DEF Stop
<1>16. ASSUME NEW s \in Instances, NEW r \in Requests, ReceiveQuit(s, r) PROVE TypeInv'
  BY <1>16 DEF ReceiveQuit, Selects, durable, pass, objects, budget
<1>17. ASSUME Crash PROVE TypeInv'
  BY <1>17 DEF Crash, Die, durable
<1>18. ASSUME NEW s \in Instances, NEW t \in Tables, SizeFails(s, t) PROVE TypeInv'
  BY <1>18 DEF SizeFails, Rest, durable, objects, api
<1>19. ASSUME NEW t \in Tables, Put(t) PROVE TypeInv'
  BY <1>19 DEF Put, durable, pass, objects, budget
<1>20. ASSUME UNCHANGED vars PROVE TypeInv'
  BY <1>20 DEF vars
<1> QED
  BY <1>1, <1>2, <1>3, <1>4, <1>5, <1>6, <1>7, <1>8, <1>9, <1>10, <1>11,
     <1>12, <1>13, <1>14, <1>15, <1>16, <1>17, <1>18, <1>19, <1>20 DEF Next, Worker, Scheduled

(***************************************************************************)
(* Every variable keeps its type, and a batch is never executed past its   *)
(* end, whatever syncers, requests, faults and crashes there are.          *)
(***************************************************************************)
THEOREM TypeCorrect == Spec => []TypeOK
<1>1. TypeInv => TypeOK
  BY DEF TypeInv
<1> QED
  BY TypeInit, TypeStep, <1>1, PTL DEF Spec

-----------------------------------------------------------------------------
(***************************************************************************)
(* Only a push and a removal change the pending lists.                     *)
(***************************************************************************)
LEMMA ListsMove ==
  [Next]_vars => \/ \E t \in Tables : Log(t)
                 \/ \E s \in Instances : RemoveBatch(s)
                 \/ UNCHANGED <<logged, store>>
<1> SUFFICES ASSUME [Next]_vars,
                    ~ \E t \in Tables : Log(t),
                    ~ \E s \in Instances : RemoveBatch(s)
             PROVE  UNCHANGED <<logged, store>>
  OBVIOUS
<1>1. ASSUME NEW s \in Instances, Worker(s) PROVE UNCHANGED <<logged, store>>
  BY <1>1 DEF Worker, Scheduled, Tick, SizeTable, FetchBatch, ExecuteRecord, ExecuteOnClosedPool,
       RemovePanics, EndRange, CloseOnQuit, Die, durable
<1>2. ASSUME NEW r \in Requests, Stop(r) PROVE UNCHANGED <<logged, store>>
  BY <1>2 DEF Stop, StopRefused, StopSend, ClearQuit, CloseCurrent, durable
<1>3. ASSUME NEW s \in Instances,
             StartSyncer(s) \/ StartSyncerPanics(s) \/ FetchFails(s) \/ ExecuteFails(s)
             \/ \E t \in Tables : SizeFails(s, t)
      PROVE  UNCHANGED <<logged, store>>
  BY <1>3 DEF StartSyncer, StartSyncerPanics, Create, FetchFails, ExecuteFails,
       SizeFails, durable
<1>4. ASSUME NEW s \in Instances, NEW r \in Requests, ReceiveQuit(s, r)
      PROVE  UNCHANGED <<logged, store>>
  BY <1>4 DEF ReceiveQuit, durable
<1>5. ASSUME Crash PROVE UNCHANGED <<logged, store>>
  BY <1>5 DEF Crash, Die, durable
<1>6. ASSUME NEW t \in Tables, Put(t) PROVE UNCHANGED <<logged, store>>
  BY <1>6 DEF Put, durable
<1>7. ASSUME UNCHANGED vars PROVE UNCHANGED <<logged, store>>
  BY <1>7 DEF vars
<1> QED BY <1>1, <1>2, <1>3, <1>4, <1>5, <1>6, <1>7 DEF Next

LEMMA StoreInit == Init => StoreIsTail
<1> SUFFICES ASSUME Init, NEW t \in Tables
             PROVE  /\ Len(store[t]) <= logged[t]
                    /\ \A i \in 1 .. Len(store[t]) : store[t][i] = Removed(t) + i
  BY DEF StoreIsTail
<1>1. store[t] = <<>> /\ logged[t] = 0
  BY DEF Init
<1> QED BY <1>1

LEMMA StoreStep == TypeInv /\ StoreIsTail /\ [Next]_vars => StoreIsTail'
<1> SUFFICES ASSUME TypeInv, StoreIsTail, [Next]_vars PROVE StoreIsTail'
  OBVIOUS
<1> logged \in [Tables -> Nat] /\ store \in [Tables -> Seq(Nat)]
  BY DEF TypeInv, TypeOK
<1>1. ASSUME NEW t \in Tables, Log(t) PROVE StoreIsTail'
  <2> DEFINE list == Push(store[t], logged[t] + 1)
  <2>1. /\ logged' = [logged EXCEPT ![t] = @ + 1]
        /\ store' = [store EXCEPT ![t] = list]
    BY <1>1 DEF Log
  <2>2. /\ Len(list) = Len(store[t]) + 1
        /\ \A i \in 1 .. Len(store[t]) : list[i] = store[t][i]
        /\ list[Len(store[t]) + 1] = logged[t] + 1
    <3>1. store[t] \in Seq(Nat) /\ logged[t] + 1 \in Nat
      OBVIOUS
    <3> QED BY <3>1, ListTypes
  <2> HIDE DEF list
  <2>3. ASSUME NEW t1 \in Tables
        PROVE  /\ Len(store'[t1]) <= logged'[t1]
               /\ \A i \in 1 .. Len(store'[t1]) :
                    store'[t1][i] = logged'[t1] - Len(store'[t1]) + i
    <3>1. CASE t1 = t
      <4>1. store'[t1] = list /\ logged'[t1] = logged[t] + 1
        BY <2>1, <3>1
      <4>2. /\ Len(store[t]) <= logged[t]
            /\ \A i \in 1 .. Len(store[t]) :
                 store[t][i] = logged[t] - Len(store[t]) + i
        BY DEF StoreIsTail, Removed
      <4>3. Len(store[t]) \in Nat /\ logged[t] \in Nat
        OBVIOUS
      <4>4. ASSUME NEW i \in 1 .. Len(list)
            PROVE  list[i] = logged[t] - Len(store[t]) + i
        <5>1. i \in 1 .. Len(store[t]) \/ i = Len(store[t]) + 1
          BY <2>2, <4>3
        <5> QED BY <5>1, <2>2, <4>2, <4>3
      <4> QED BY <4>1, <4>2, <4>3, <4>4, <2>2
    <3>2. CASE t1 # t
      BY <2>1, <3>2 DEF StoreIsTail, Removed
    <3> QED BY <3>1, <3>2
  <2> QED BY <2>3 DEF StoreIsTail, Removed
<1>2. ASSUME NEW s \in Instances, RemoveBatch(s) PROVE StoreIsTail'
  <2> DEFINE t == table[s]
             n == count[s]
             list == Rem(store[t], n)
  <2>1. /\ t \in Tables
        /\ n \in Nat
        /\ n <= Len(store[t])
        /\ store' = [store EXCEPT ![t] = list]
        /\ logged' = logged
    BY <1>2 DEF RemoveBatch, TypeInv, TypeOK
  <2>2. /\ Len(list) = Len(store[t]) - n
        /\ \A i \in 1 .. Len(store[t]) - n : list[i] = store[t][n + i]
    <3>1. store[t] \in Seq(Nat)
      BY <2>1
    <3> QED BY <2>1, <3>1, ListTypes
  <2> HIDE DEF t, n, list
  <2>3. ASSUME NEW t1 \in Tables
        PROVE  /\ Len(store'[t1]) <= logged'[t1]
               /\ \A i \in 1 .. Len(store'[t1]) :
                    store'[t1][i] = logged'[t1] - Len(store'[t1]) + i
    <3>1. CASE t1 = t
      <4>1. store'[t1] = list /\ logged'[t1] = logged[t]
        BY <2>1, <3>1
      <4>2. /\ Len(store[t]) <= logged[t]
            /\ \A i \in 1 .. Len(store[t]) :
                 store[t][i] = logged[t] - Len(store[t]) + i
        BY <2>1 DEF StoreIsTail, Removed
      <4>3. Len(store[t]) \in Nat /\ logged[t] \in Nat
        BY <2>1
      <4>4. ASSUME NEW i \in 1 .. Len(list)
            PROVE  list[i] = logged[t] - Len(list) + i
        <5>1. n + i \in 1 .. Len(store[t]) /\ list[i] = store[t][n + i]
          BY <2>1, <2>2, <4>3
        <5>2. store[t][n + i] = logged[t] - Len(store[t]) + (n + i)
          BY <4>2, <5>1
        <5> QED BY <5>1, <5>2, <2>1, <2>2, <4>3
      <4> QED BY <4>1, <4>2, <4>3, <4>4, <2>1, <2>2
    <3>2. CASE t1 # t
      BY <2>1, <3>2 DEF StoreIsTail, Removed
    <3> QED BY <3>1, <3>2
  <2> QED BY <2>3 DEF StoreIsTail, Removed
<1>3. ASSUME UNCHANGED <<logged, store>> PROVE StoreIsTail'
  BY <1>3 DEF StoreIsTail, Removed
<1> QED BY <1>1, <1>2, <1>3, ListsMove

(***************************************************************************)
(* No interleaving of pushes, removals by any number of syncers, failures  *)
(* and crashes makes a hole in a pending list or changes its order.        *)
(***************************************************************************)
THEOREM StoreCorrect == Spec => []StoreIsTail
<1>1. TypeInv /\ StoreIsTail /\ [Next]_vars => (TypeInv /\ StoreIsTail)'
  BY TypeStep, StoreStep
<1> QED
  BY TypeInit, StoreInit, <1>1, PTL DEF Spec

-----------------------------------------------------------------------------
LEMMA StoppedStep == TypeInv /\ StoppedForGood /\ [Next]_vars => StoppedForGood'
<1> SUFFICES ASSUME TypeInv, StoppedForGood, [Next]_vars,
                    NEW r \in Requests,
                    request'[r] \in {"sent", "cleared", "done"}
             PROVE  pc'[stopping'[r]] \in {"quit", "closed", "dead"}
  BY DEF StoppedForGood
<1> USE ConstantsAssumption DEF TypeInv, TypeOK
<1>1. ASSUME NEW s \in Instances, ReceiveQuit(s, r)
      PROVE  pc'[stopping'[r]] \in {"quit", "closed", "dead"}
  BY <1>1 DEF ReceiveQuit
<1>2. ASSUME request[r] \in {"sent", "cleared", "done"}, stopping'[r] = stopping[r]
      PROVE  pc'[stopping'[r]] \in {"quit", "closed", "dead"}
  <2> DEFINE s == stopping[r]
  <2>1. s \in Instances /\ pc[s] \in {"quit", "closed", "dead"}
    BY <1>2 DEF StoppedForGood
  <2>2. pc'[s] \in {"quit", "closed", "dead"}
    <3> HIDE DEF s
    <3>1. CASE \E s1 \in Instances : Worker(s1) \/ FetchFails(s1) \/ ExecuteFails(s1)
      BY <3>1, <2>1 DEF Worker, Scheduled, Tick, Selects, SizeTable, FetchBatch, ExecuteRecord,
           ExecuteOnClosedPool, RemoveBatch, RemovePanics, EndRange, CloseOnQuit,
           Die, Block, FetchFails, ExecuteFails
    <3>2. CASE \E r1 \in Requests : Stop(r1)
      BY <3>2, <2>1 DEF Stop, StopRefused, StopSend, ClearQuit, CloseCurrent
    <3>3. CASE \E s1 \in Instances, r1 \in Requests : ReceiveQuit(s1, r1)
      BY <3>3, <2>1 DEF ReceiveQuit, Selects
    <3>4. CASE \E s1 \in Instances, t \in Tables : SizeFails(s1, t)
      BY <3>4, <2>1 DEF SizeFails
    <3> QED
      BY <3>1, <3>2, <3>3, <3>4, <2>1 DEF Next, Put, Log, StartSyncer, StartSyncerPanics,
           Create, Crash, Die, vars
  <2> QED BY <2>2, <1>2
<1>3. \/ \E s \in Instances : ReceiveQuit(s, r)
      \/ request[r] \in {"sent", "cleared", "done"} /\ stopping'[r] = stopping[r]
  <2>1. CASE \E s1 \in Instances : Worker(s1) \/ FetchFails(s1) \/ ExecuteFails(s1)
    BY <2>1 DEF Worker, Scheduled, Tick, SizeTable, FetchBatch, ExecuteRecord,
         ExecuteOnClosedPool, RemoveBatch, RemovePanics, EndRange, CloseOnQuit,
         Die, UnderWay, FetchFails, ExecuteFails, api
  <2>2. CASE \E r1 \in Requests : Stop(r1)
    BY <2>2 DEF Stop, StopRefused, StopSend, ClearQuit, CloseCurrent
  <2>3. CASE \E s1 \in Instances, r1 \in Requests : ReceiveQuit(s1, r1)
    BY <2>3 DEF ReceiveQuit
  <2>4. CASE \E s1 \in Instances, t \in Tables : SizeFails(s1, t)
    BY <2>4 DEF SizeFails, api
  <2> QED
    BY <2>1, <2>2, <2>3, <2>4 DEF Next, Put, Log, StartSyncer, StartSyncerPanics, Create,
         Crash, Die, UnderWay, api, vars
<1> QED BY <1>1, <1>2, <1>3

(***************************************************************************)
(* A stop request that was taken has ended its syncer for good, also when  *)
(* other syncers are started and stopped around it.                        *)
(***************************************************************************)
THEOREM StoppedCorrect == Spec => []StoppedForGood
<1>1. Init => StoppedForGood
  BY DEF Init, StoppedForGood
<1>2. TypeInv /\ StoppedForGood /\ [Next]_vars => (TypeInv /\ StoppedForGood)'
  BY TypeStep, StoppedStep
<1> QED
  BY TypeInit, <1>1, <1>2, PTL DEF Spec

-----------------------------------------------------------------------------
(* The pool of a running syncer.                                           *)

\* A request that will close another syncer than the one it has ended was
\* under way when the one it will close was started.
OverlapKnown ==
  \A r \in Requests :
    UnderWay(r) /\ current # stopping[r] => r \in overlapped[current]

OverlapInv == TypeInv /\ StoppedForGood /\ OverlapKnown

\* What a step does to the requests and to API.syncer.
LEMMA RequestsMove ==
  ASSUME TypeInv, [Next]_vars
  PROVE  \/ UNCHANGED <<current, request, stopping, overlapped>>
         \/ \E s \in Instances : Create(s)
         \/ \E r \in Requests : Stop(r)
         \/ \E s \in Instances, r \in Requests : ReceiveQuit(s, r)
         \/ Die
<1>1. CASE \E s \in Instances :
             \/ Worker(s) \/ FetchFails(s) \/ ExecuteFails(s)
             \/ \E t \in Tables : SizeFails(s, t)
  BY <1>1 DEF Worker, Scheduled, Tick, SizeTable, FetchBatch, ExecuteRecord,
       ExecuteOnClosedPool, RemoveBatch, RemovePanics, EndRange, CloseOnQuit,
       FetchFails, ExecuteFails, SizeFails, api, setup
<1> QED
  BY <1>1 DEF Next, Put, Log, StartSyncer, StartSyncerPanics, Crash, api, setup, vars

LEMMA OverlapStep == OverlapInv /\ [Next]_vars => OverlapInv'
<1> SUFFICES ASSUME OverlapInv, [Next]_vars PROVE OverlapKnown'
  BY TypeStep, StoppedStep DEF OverlapInv
<1> SUFFICES ASSUME NEW r \in Requests, UnderWay(r)', current' # stopping'[r]
             PROVE  r \in overlapped'[current']
  BY DEF OverlapKnown
<1>t. /\ current \in Instances \cup {None}
      /\ request \in [Requests -> RequestStates]
      /\ stopping \in [Requests -> Instances \cup {None}]
      /\ overlapped \in [Instances -> SUBSET Requests]
      /\ UnderWay(r) /\ current # stopping[r] => r \in overlapped[current]
  BY DEF OverlapInv, OverlapKnown, TypeInv, TypeOK
<1>1. CASE UNCHANGED <<current, request, stopping, overlapped>>
  BY <1>1, <1>t DEF UnderWay
<1>2. ASSUME NEW s \in Instances, Create(s) PROVE r \in overlapped'[current']
  BY <1>2, <1>t DEF Create, UnderWay
<1>3. ASSUME NEW q \in Requests, Stop(q) PROVE r \in overlapped'[current']
  <2>1. CASE StopSend(q)
    BY <2>1, <1>t DEF StopSend, UnderWay, setup
  <2>2. CASE StopRefused(q) \/ ClearQuit(q) \/ CloseCurrent(q)
    BY <2>2, <1>t DEF StopRefused, ClearQuit, CloseCurrent, UnderWay, setup
  <2> QED BY <1>3, <2>1, <2>2 DEF Stop
<1>4. ASSUME NEW s \in Instances, NEW q \in Requests, ReceiveQuit(s, q)
      PROVE  r \in overlapped'[current']
  BY <1>4, <1>t DEF ReceiveQuit, UnderWay, setup
<1>5. CASE Die
  BY <1>5, <1>t DEF Die, UnderWay
<1> QED BY <1>1, <1>2, <1>3, <1>4, <1>5, RequestsMove DEF OverlapInv

\* Only CloseCurrent closes the pool of a syncer that goes on running.
LEMMA RunningKeepsPool ==
  ASSUME TypeInv, [Next]_vars, NEW s \in Instances,
         Running(s), open[s], Running(s)', ~open'[s]
  PROVE  \E r \in Requests : CloseCurrent(r)
<1> USE DEF TypeInv, TypeOK, Running
<1>1. ASSUME NEW s1 \in Instances,
             \/ Worker(s1) \/ FetchFails(s1) \/ ExecuteFails(s1)
             \/ \E t \in Tables : SizeFails(s1, t)
      PROVE  FALSE
  <2>1. CASE Tick(s1) \/ FetchBatch(s1) \/ RemoveBatch(s1) \/ EndRange(s1)
    BY <2>1 DEF Tick, Selects, FetchBatch, RemoveBatch, EndRange, objects
  <2>2. CASE \E t \in Tables : SizeTable(s1, t) \/ SizeFails(s1, t)
    BY <2>2 DEF SizeTable, SizeFails, objects
  <2>3. CASE ExecuteRecord(s1)
    BY <2>3 DEF ExecuteRecord, objects
  <2>4. CASE FetchFails(s1) \/ ExecuteFails(s1) \/ ExecuteOnClosedPool(s1)
    BY <2>4 DEF FetchFails, ExecuteFails, ExecuteOnClosedPool, Block, objects
  <2>5. CASE RemovePanics(s1)
    BY <2>5 DEF RemovePanics, Die
  <2>6. CASE CloseOnQuit(s1)
    BY <2>6 DEF CloseOnQuit
  <2> QED BY <1>1, <2>1, <2>2, <2>3, <2>4, <2>5, <2>6 DEF Worker, Scheduled
<1>2. ASSUME NEW s1 \in Instances, StartSyncer(s1) \/ StartSyncerPanics(s1) PROVE FALSE
  BY <1>2 DEF StartSyncer, StartSyncerPanics, Create
<1>3. ASSUME NEW r \in Requests, Stop(r), ~CloseCurrent(r) PROVE FALSE
  BY <1>3 DEF Stop, StopRefused, StopSend, ClearQuit, objects
<1>4. ASSUME NEW s1 \in Instances, NEW r \in Requests, ReceiveQuit(s1, r) PROVE FALSE
  BY <1>4 DEF ReceiveQuit, objects
<1>5. ASSUME NEW t \in Tables, Put(t) \/ Log(t) PROVE FALSE
  BY <1>5 DEF Put, Log, objects
<1>6. ASSUME Crash PROVE FALSE
  BY <1>6 DEF Crash, Die
<1>7. ASSUME UNCHANGED vars PROVE FALSE
  BY <1>7 DEF vars
<1> QED
  BY <1>1, <1>2, <1>3, <1>4, <1>5, <1>6, <1>7 DEF Next

(***************************************************************************)
(* However many syncers and requests there are, the pool of a running      *)
(* syncer is only closed by the request whose stop was under way when that *)
(* syncer was started: CloseCurrent of a request finds in API.syncer the   *)
(* syncer the request has ended, or one that was started meanwhile.        *)
(***************************************************************************)
THEOREM OverlapCorrect == Spec => OnlyOverlapCloses
<1> DEFINE Step == \A s \in Instances :
                     Running(s) /\ open[s] /\ Running(s)' /\ ~open'[s] =>
                       \E r \in Requests : ClosesAnother(r, s)
<1>1. Init => OverlapInv
  BY TypeInit DEF Init, OverlapInv, StoppedForGood, OverlapKnown, UnderWay
<1>2. OverlapInv /\ [Next]_vars => [Step]_vars
  <2> SUFFICES ASSUME OverlapInv, [Next]_vars, NEW s \in Instances,
                      Running(s), open[s], Running(s)', ~open'[s]
               PROVE  \E r \in Requests : ClosesAnother(r, s)
    OBVIOUS
  <2>1. PICK r \in Requests : CloseCurrent(r)
    BY RunningKeepsPool DEF OverlapInv
  <2>2. /\ request[r] = "cleared"
        /\ request' = [request EXCEPT ![r] = "done"]
        /\ open' = [open EXCEPT ![current] = FALSE]
    BY <2>1 DEF CloseCurrent
  <2>3. current = s
    BY <2>2 DEF OverlapInv, TypeInv, TypeOK
  <2>4. pc[stopping[r]] \in {"quit", "closed", "dead"}
    BY <2>2 DEF OverlapInv, StoppedForGood
  <2>5. stopping[r] # s
    BY <2>4 DEF Running
  <2>6. r \in overlapped[s]
    BY <2>2, <2>3, <2>5 DEF OverlapInv, OverlapKnown, UnderWay
  <2>7. request'[r] = "done"
    BY <2>2 DEF OverlapInv, TypeInv, TypeOK
  <2> QED BY <2>2, <2>5, <2>6, <2>7 DEF ClosesAnother
<1> QED
  BY <1>1, <1>2, OverlapStep, PTL DEF Spec, OnlyOverlapCloses
=============================================================================
