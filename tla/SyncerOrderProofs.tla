------------------------- MODULE SyncerOrderProofs --------------------------
(***************************************************************************)
(* Proofs about Syncer: the order in which one syncer executes records,    *)
(* and what a stop leaves behind, for any number of overlapping syncers.   *)
(*                                                                         *)
(* The inductive invariant follows each syncer through its pass.  Outside  *)
(* of a batch everything it has executed has been removed; inside of one,  *)
(* it has executed nothing at or after the next record of the batch.       *)
(***************************************************************************)
EXTENDS SyncerProofs

Stopped(s) == pc[s] \in {"stuck", "dead"}

InBatch(s, t) == pc[s] = "apply" /\ table[s] = t

By(s, t, i) == i \in 1 .. Len(applied[t]) /\ applied[t][i].by = s

\* Nothing that s has executed is at or after the next record of its batch.
Ordered(s) ==
  pc[s] = "apply" /\ batch[s] # <<>> =>
    \A i \in Nat :
      By(s, table[s], i) => applied[table[s]][i].rec < batch[s][1] + count[s]

\* What s has executed on the other tables has been removed.
SettledElsewhere(s) ==
  ~Stopped(s) =>
    \A t \in Tables :
      \/ InBatch(s, t) /\ batch[s] # <<>>
      \/ \A i \in Nat : By(s, t, i) => applied[t][i].rec <= Removed(t)

Progress(s) ==
  /\ pc[s] = "apply" => Window(s)
  /\ Ordered(s)
  /\ SettledElsewhere(s)

OrderInv == TypeInv /\ StoreIsTail /\ \A s \in Instances : Progress(s)

-----------------------------------------------------------------------------
(***************************************************************************)
(* The effect of one executed statement on the history of its table.       *)
(***************************************************************************)
LEMMA OneMore ==
  ASSUME NEW seq \in Seq(Executions), NEW s \in Instances, NEW n \in Nat
  PROVE  LET e == [by |-> s, rec |-> n]
         IN  /\ Append(seq, e) \in Seq(Executions)
             /\ Len(Append(seq, e)) = Len(seq) + 1
             /\ \A i \in 1 .. Len(seq) : Append(seq, e)[i] = seq[i]
             /\ Append(seq, e)[Len(seq) + 1].by = s
             /\ Append(seq, e)[Len(seq) + 1].rec = n
<1> DEFINE e == [by |-> s, rec |-> n]
<1>1. e \in Executions /\ e.by = s /\ e.rec = n
  BY DEF Executions
<1> HIDE DEF e
<1>2. /\ Append(seq, e) \in Seq(Executions)
      /\ Len(Append(seq, e)) = Len(seq) + 1
      /\ \A i \in 1 .. Len(seq) : Append(seq, e)[i] = seq[i]
      /\ Append(seq, e)[Len(seq) + 1] = e
  BY <1>1
<1> QED BY <1>1, <1>2 DEF e

(***************************************************************************)
(* A removal takes exactly the executed batch off the list of its table.   *)
(***************************************************************************)
LEMMA RemovedByBatch ==
  ASSUME TypeInv, StoreIsTail, NEW s \in Instances, RemoveBatch(s), NEW t \in Tables
  PROVE  /\ table[s] \in Tables
         /\ count[s] \in Nat
         /\ Removed(t) \in Nat
         /\ t = table[s] => Removed(t)' = Removed(t) + count[s]
         /\ t # table[s] => Removed(t)' = Removed(t)
<1> DEFINE t1 == table[s]
           n == count[s]
           list == Rem(store[t1], n)
<1>0. logged \in [Tables -> Nat] /\ store \in [Tables -> Seq(Nat)]
  BY DEF TypeInv, TypeOK
<1>1. /\ t1 \in Tables
      /\ n \in Nat
      /\ n <= Len(store[t1])
      /\ store' = [store EXCEPT ![t1] = list]
      /\ logged' = logged
  BY DEF RemoveBatch, TypeInv, TypeOK
<1>2. store[t1] \in Seq(Nat)
  BY <1>0, <1>1
<1>3. Len(list) = Len(store[t1]) - n
  BY <1>1, <1>2, ListTypes
<1>4. Removed(t) \in Nat
  BY <1>0 DEF Removed, StoreIsTail
<1> HIDE DEF t1, n, list
<1>5. CASE t = t1
  <2>1. store'[t] = list
    BY <1>0, <1>1, <1>5
  <2> QED BY <2>1, <1>0, <1>1, <1>3, <1>4, <1>5 DEF Removed, t1, n
<1>6. CASE t # t1
  BY <1>0, <1>1, <1>4, <1>6 DEF Removed, t1, n
<1> QED BY <1>5, <1>6

(***************************************************************************)
(* Records leave a pending list and never come back.                       *)
(***************************************************************************)
LEMMA RemovedGrows ==
  TypeInv /\ StoreIsTail /\ [Next]_vars =>
    \A t \in Tables : /\ Removed(t) \in Nat
                      /\ Removed(t)' \in Nat
                      /\ Removed(t) <= Removed(t)'
<1> SUFFICES ASSUME TypeInv, StoreIsTail, [Next]_vars, NEW t \in Tables
             PROVE  /\ Removed(t) \in Nat
                    /\ Removed(t)' \in Nat
                    /\ Removed(t) <= Removed(t)'
  OBVIOUS
<1> logged \in [Tables -> Nat] /\ store \in [Tables -> Seq(Nat)]
  BY DEF TypeInv, TypeOK
<1> Len(store[t]) \in Nat /\ logged[t] \in Nat /\ Len(store[t]) <= logged[t]
  BY DEF StoreIsTail
<1>1. ASSUME NEW t1 \in Tables, Log(t1)
      PROVE  Removed(t)' = Removed(t)
  <2>1. /\ logged' = [logged EXCEPT ![t1] = @ + 1]
        /\ store' = [store EXCEPT ![t1] = Push(@, logged[t1] + 1)]
    BY <1>1 DEF Log
  <2>2. store[t1] \in Seq(Nat) /\ logged[t1] + 1 \in Nat
    OBVIOUS
  <2>3. Len(Push(store[t1], logged[t1] + 1)) = Len(store[t1]) + 1
    BY <2>2, ListTypes
  <2>4. CASE t = t1
    BY <2>1, <2>3, <2>4 DEF Removed
  <2>5. CASE t # t1
    BY <2>1, <2>5 DEF Removed
  <2> QED BY <2>4, <2>5
<1>2. ASSUME NEW s \in Instances, RemoveBatch(s)
      PROVE  Removed(t)' \in Nat /\ Removed(t) <= Removed(t)'
  BY <1>2, RemovedByBatch
<1>3. ASSUME UNCHANGED <<logged, store>> PROVE Removed(t)' = Removed(t)
  BY <1>3 DEF Removed
<1>4. Removed(t) \in Nat
  BY DEF Removed
<1> QED BY <1>1, <1>2, <1>3, <1>4, ListsMove

-----------------------------------------------------------------------------
(* What a step of the system is for one syncer s.                          *)

\* s has executed nothing in this step.
Keeps(s) ==
  \A t \in Tables : \A i \in Nat :
    By(s, t, i)' => By(s, t, i) /\ applied'[t][i] = applied[t][i]

Same(s) ==
  /\ pc'[s] = pc[s]
  /\ table'[s] = table[s]
  /\ batch'[s] = batch[s]
  /\ count'[s] = count[s]

Outside(s) == ~Stopped(s) /\ pc[s] # "apply" /\ pc'[s] # "apply"

(***************************************************************************)
(* One statement executed by s1 is appended to the history of one table,   *)
(* under the name of s1.                                                   *)
(***************************************************************************)
LEMMA Appends ==
  ASSUME TypeInv, NEW s1 \in Instances, pc[s1] = "apply", count[s1] < Len(batch[s1]),
         applied' = [applied EXCEPT ![table[s1]] =
                       Append(@, [by |-> s1, rec |-> batch[s1][count[s1] + 1]])]
  PROVE  /\ table[s1] \in Tables
         /\ batch[s1][count[s1] + 1] \in Nat
         /\ \A t \in Tables : t # table[s1] => applied'[t] = applied[t]
         /\ LET old == applied[table[s1]]
                new == applied'[table[s1]]
            IN  /\ Len(new) = Len(old) + 1
                /\ \A i \in 1 .. Len(old) : new[i] = old[i]
                /\ new[Len(old) + 1].by = s1
                /\ new[Len(old) + 1].rec = batch[s1][count[s1] + 1]
<1> DEFINE t1 == table[s1]
           n == batch[s1][count[s1] + 1]
           seq == Append(applied[t1], [by |-> s1, rec |-> n])
<1>1. t1 \in Tables /\ n \in Nat
  BY DEF TypeInv, TypeOK
<1>2. applied \in [Tables -> Seq(Executions)]
  BY DEF TypeInv, TypeOK
<1>3. applied[t1] \in Seq(Executions)
  BY <1>1, <1>2
<1>4. /\ Len(seq) = Len(applied[t1]) + 1
      /\ \A i \in 1 .. Len(applied[t1]) : seq[i] = applied[t1][i]
      /\ seq[Len(applied[t1]) + 1].by = s1
      /\ seq[Len(applied[t1]) + 1].rec = n
  BY <1>1, <1>3, OneMore
<1>5. applied' = [applied EXCEPT ![t1] = seq]
  OBVIOUS
<1> HIDE DEF t1, n, seq
<1>6. applied'[t1] = seq /\ \A t \in Tables : t # t1 => applied'[t] = applied[t]
  BY <1>1, <1>2, <1>5
<1>7. /\ t1 \in Tables
      /\ n \in Nat
      /\ \A t \in Tables : t # t1 => applied'[t] = applied[t]
      /\ Len(applied'[t1]) = Len(applied[t1]) + 1
      /\ \A i \in 1 .. Len(applied[t1]) : applied'[t1][i] = applied[t1][i]
      /\ applied'[t1][Len(applied[t1]) + 1].by = s1
      /\ applied'[t1][Len(applied[t1]) + 1].rec = n
  BY <1>1, <1>4, <1>6
<1> QED BY <1>7 DEF t1, n

LEMMA OthersKeep ==
  ASSUME TypeInv, NEW s1 \in Instances, NEW s \in Instances, s # s1,
         ExecuteRecord(s1) \/ ExecuteFails(s1)
  PROVE  Keeps(s)
<1>1. CASE UNCHANGED applied
  BY <1>1 DEF Keeps, By
<1>2. CASE ~ UNCHANGED applied
  <2>1. /\ pc[s1] = "apply"
        /\ count[s1] < Len(batch[s1])
        /\ applied' = [applied EXCEPT ![table[s1]] =
                         Append(@, [by |-> s1, rec |-> batch[s1][count[s1] + 1]])]
    BY <1>2 DEF ExecuteRecord, ExecuteFails
  <2>2. applied \in [Tables -> Seq(Executions)]
    BY DEF TypeInv, TypeOK
  <2> SUFFICES ASSUME NEW t \in Tables, NEW i \in Nat, By(s, t, i)'
               PROVE  By(s, t, i) /\ applied'[t][i] = applied[t][i]
    BY DEF Keeps
  <2>3. CASE t # table[s1]
    BY <2>1, <2>3, Appends DEF By
  <2>4. CASE t = table[s1]
    <3>1. /\ Len(applied'[t]) = Len(applied[t]) + 1
          /\ \A j \in 1 .. Len(applied[t]) : applied'[t][j] = applied[t][j]
          /\ applied'[t][Len(applied[t]) + 1].by = s1
      <4>1. /\ Len(applied'[table[s1]]) = Len(applied[table[s1]]) + 1
            /\ \A j \in 1 .. Len(applied[table[s1]]) :
                 applied'[table[s1]][j] = applied[table[s1]][j]
            /\ applied'[table[s1]][Len(applied[table[s1]]) + 1].by = s1
        BY <2>1, Appends
      <4> QED BY <4>1, <2>4
    <3>2. i \in 1 .. Len(applied'[t]) /\ applied'[t][i].by = s
      BY DEF By
    <3>3. Len(applied[t]) \in Nat
      BY <2>2
    <3>4. i \in 1 .. Len(applied[t])
      BY <3>1, <3>2, <3>3
    <3> QED BY <3>1, <3>2, <3>4 DEF By
  <2> QED BY <2>3, <2>4
<1> QED BY <1>1, <1>2

LEMMA StepCases ==
  ASSUME TypeInv, [Next]_vars, NEW s \in Instances
  PROVE  \/ Keeps(s) /\ Same(s)
         \/ Keeps(s) /\ Outside(s)
         \/ Stopped(s)' /\ batch'[s] = <<>>
         \/ FetchBatch(s)
         \/ ExecuteRecord(s)
         \/ RemoveBatch(s)
<1> DEFINE Goal == \/ Keeps(s) /\ Same(s)
                   \/ Keeps(s) /\ Outside(s)
                   \/ Stopped(s)' /\ batch'[s] = <<>>
                   \/ FetchBatch(s)
                   \/ ExecuteRecord(s)
                   \/ RemoveBatch(s)
<1>t. /\ pc \in [Instances -> PCs]
      /\ table \in [Instances -> Tables \cup {None}]
      /\ batch \in [Instances -> Seq(Nat)]
      /\ count \in [Instances -> Nat]
  BY DEF TypeInv, TypeOK
<1>0. UNCHANGED applied => Keeps(s)
  BY DEF Keeps, By
<1>d. ASSUME Die
      PROVE  (Stopped(s)' /\ batch'[s] = <<>>) \/ (UNCHANGED applied /\ Outside(s))
  <2>1. /\ pc'[s] = IF pc[s] = "unused" THEN "unused" ELSE "dead"
        /\ batch'[s] = <<>>
        /\ UNCHANGED applied
    BY <1>d DEF Die, durable
  <2>2. CASE pc[s] = "unused"
    BY <2>1, <2>2 DEF Outside, Stopped
  <2>3. CASE pc[s] # "unused"
    BY <2>1, <2>3 DEF Stopped
  <2> QED BY <2>2, <2>3
<1>1. ASSUME NEW s1 \in Instances,
             StartSyncer(s1) \/ StartSyncerPanics(s1) \/ Tick(s1) \/ EndRange(s1)
             \/ CloseOnQuit(s1)
      PROVE  UNCHANGED applied /\ (Same(s) \/ Outside(s))
  BY <1>1, <1>t DEF StartSyncer, StartSyncerPanics, Create, Tick, Selects, EndRange,
       CloseOnQuit, durable, pass, Same, Outside, Stopped
<1>2. ASSUME NEW s1 \in Instances, NEW t \in Tables, SizeTable(s1, t) \/ SizeFails(s1, t)
      PROVE  UNCHANGED applied /\ (Same(s) \/ Outside(s))
  <2>1. CASE s = s1
    BY <1>2, <2>1, <1>t DEF SizeTable, SizeFails, durable, Same, Outside, Stopped
  <2>2. CASE s # s1
    BY <1>2, <2>2, <1>t DEF SizeTable, SizeFails, durable, Same
  <2> QED BY <2>1, <2>2
<1>3. ASSUME NEW s1 \in Instances, FetchBatch(s1) \/ RemoveBatch(s1), s # s1
      PROVE  UNCHANGED applied /\ Same(s)
  BY <1>3, <1>t DEF FetchBatch, RemoveBatch, LeaveTable, durable, Same
<1>4. ASSUME NEW s1 \in Instances, ExecuteRecord(s1), s # s1
      PROVE  Same(s)
  BY <1>4, <1>t DEF ExecuteRecord, Same
<1>5. ASSUME NEW s1 \in Instances,
             FetchFails(s1) \/ ExecuteFails(s1) \/ ExecuteOnClosedPool(s1)
      PROVE  /\ s # s1 => Same(s)
             /\ s = s1 => Stopped(s)' /\ batch'[s] = <<>>
  BY <1>5, <1>t DEF FetchFails, ExecuteFails, ExecuteOnClosedPool, Block, LeaveTable,
       durable, Same, Stopped
<1>6. ASSUME NEW s1 \in Instances, FetchFails(s1) \/ ExecuteOnClosedPool(s1)
      PROVE  UNCHANGED applied
  BY <1>6 DEF FetchFails, ExecuteOnClosedPool, durable
<1>7. ASSUME NEW r \in Requests, Stop(r)
      PROVE  UNCHANGED applied /\ Same(s)
  BY <1>7 DEF Stop, StopRefused, StopSend, ClearQuit, CloseCurrent, durable, pass, Same
<1>8. ASSUME NEW s1 \in Instances, NEW r \in Requests, ReceiveQuit(s1, r)
      PROVE  UNCHANGED applied /\ (Same(s) \/ Outside(s))
  BY <1>8, <1>t DEF ReceiveQuit, Selects, durable, pass, Same, Outside, Stopped
<1>9. ASSUME NEW t \in Tables, Put(t) \/ Log(t)
      PROVE  UNCHANGED applied /\ Same(s)
  BY <1>9 DEF Put, Log, durable, pass, Same
<1>10. ASSUME UNCHANGED vars
       PROVE  UNCHANGED applied /\ Same(s)
  BY <1>10 DEF vars, Same
<1>11. ASSUME NEW s1 \in Instances, Worker(s1) PROVE Goal
  <2>1. CASE Tick(s1) \/ EndRange(s1) \/ CloseOnQuit(s1)
    BY <2>1, <1>0, <1>1
  <2>2. CASE \E t \in Tables : SizeTable(s1, t)
    BY <2>2, <1>0, <1>2
  <2>3. CASE FetchBatch(s1) \/ RemoveBatch(s1)
    BY <2>3, <1>0, <1>3
  <2>4. CASE ExecuteRecord(s1)
    BY <2>4, <1>4, OthersKeep
  <2>5. CASE ExecuteOnClosedPool(s1)
    BY <2>5, <1>0, <1>5, <1>6
  <2>6. CASE RemovePanics(s1)
    BY <2>6, <1>0, <1>d DEF RemovePanics
  <2> QED BY <1>11, <2>1, <2>2, <2>3, <2>4, <2>5, <2>6 DEF Worker, Scheduled
<1>12. ASSUME NEW s1 \in Instances, ExecuteFails(s1) PROVE Goal
  BY <1>12, <1>5, OthersKeep
<1>13. ASSUME Crash PROVE Goal
  BY <1>13, <1>0, <1>d DEF Crash
<1> HIDE DEF Goal
<1>14. ASSUME NEW s1 \in Instances,
              StartSyncer(s1) \/ StartSyncerPanics(s1) \/ FetchFails(s1)
       PROVE  Goal
  BY <1>14, <1>0, <1>1, <1>5, <1>6 DEF Goal
<1>15. ASSUME UNCHANGED applied, Same(s) \/ Outside(s) PROVE Goal
  BY <1>15, <1>0 DEF Goal
<1>16. ASSUME NEW s1 \in Instances, NEW t \in Tables, SizeFails(s1, t) PROVE Goal
  BY <1>16, <1>2, <1>15
<1>17. Goal
  BY <1>7, <1>8, <1>9, <1>10, <1>11, <1>12, <1>13, <1>14, <1>15, <1>16 DEF Next
<1> QED BY <1>17 DEF Goal

-----------------------------------------------------------------------------
LEMMA ProgressStep ==
  ASSUME OrderInv, [Next]_vars, NEW s \in Instances
  PROVE  Progress(s)'
<1>t. /\ TypeInv
      /\ StoreIsTail
      /\ Progress(s)
      /\ applied \in [Tables -> Seq(Executions)]
      /\ store \in [Tables -> Seq(Nat)]
      /\ pc \in [Instances -> PCs]
      /\ table \in [Instances -> Tables \cup {None}]
      /\ batch \in [Instances -> Seq(Nat)]
      /\ count \in [Instances -> Nat]
      /\ pc[s] \in {"fetch", "apply"} => table[s] \in Tables
      /\ count[s] <= Len(batch[s])
  BY DEF OrderInv, TypeInv, TypeOK
<1>r. \A t \in Tables : /\ Removed(t) \in Nat
                        /\ Removed(t)' \in Nat
                        /\ Removed(t) <= Removed(t)'
  BY <1>t, RemovedGrows
<1>e. \A t \in Tables, i \in Nat : By(s, t, i) => applied[t][i].rec \in Nat
  <2> SUFFICES ASSUME NEW t \in Tables, NEW i \in Nat, By(s, t, i)
               PROVE  applied[t][i].rec \in Nat
    OBVIOUS
  <2>1. applied[t] \in Seq(Executions) /\ i \in 1 .. Len(applied[t])
    BY <1>t DEF By
  <2>2. applied[t][i] \in Executions
    BY <2>1
  <2> QED BY <2>2 DEF Executions
<1>1. CASE Keeps(s) /\ Same(s)
  <2>1. (pc[s] = "apply" => Window(s))'
    BY <1>1, <1>t, <1>r DEF Same, Progress, Window
  <2>2. Ordered(s)'
    BY <1>1, <1>t DEF Same, Keeps, Progress, Ordered
  <2>3. SettledElsewhere(s)'
    <3> SUFFICES ASSUME ~Stopped(s)', NEW t \in Tables,
                        ~(InBatch(s, t) /\ batch[s] # <<>>)',
                        NEW i \in Nat, By(s, t, i)'
                 PROVE  applied'[t][i].rec <= Removed(t)'
      BY DEF SettledElsewhere
    <3>1. ~Stopped(s) /\ ~(InBatch(s, t) /\ batch[s] # <<>>)
      BY <1>1 DEF Same, Stopped, InBatch
    <3>2. By(s, t, i) /\ applied'[t][i] = applied[t][i]
      BY <1>1 DEF Keeps
    <3>3. applied[t][i].rec <= Removed(t)
      BY <1>t, <3>1, <3>2 DEF Progress, SettledElsewhere
    <3> QED BY <3>2, <3>3, <1>r, <1>e
  <2> QED BY <2>1, <2>2, <2>3 DEF Progress
<1>2. CASE Keeps(s) /\ Outside(s)
  <2>1. (pc[s] = "apply" => Window(s))' /\ Ordered(s)'
    BY <1>2 DEF Outside, Ordered
  <2>2. SettledElsewhere(s)'
    <3> SUFFICES ASSUME NEW t \in Tables, NEW i \in Nat, By(s, t, i)'
                 PROVE  applied'[t][i].rec <= Removed(t)'
      BY DEF SettledElsewhere
    <3>1. By(s, t, i) /\ applied'[t][i] = applied[t][i]
      BY <1>2 DEF Keeps
    <3>2. applied[t][i].rec <= Removed(t)
      BY <1>2, <1>t, <3>1 DEF Progress, SettledElsewhere, Outside, InBatch
    <3> QED BY <3>1, <3>2, <1>r, <1>e
  <2> QED BY <2>1, <2>2 DEF Progress
<1>3. CASE Stopped(s)' /\ batch'[s] = <<>>
  BY <1>3 DEF Stopped, Progress, Ordered, SettledElsewhere
<1>4. CASE FetchBatch(s)
  <2> DEFINE t1 == table[s]
  <2>1. /\ pc[s] = "fetch" /\ pc'[s] = "apply"
        /\ t1 \in Tables
        /\ table' = table
        /\ batch'[s] = store[t1]
        /\ count' = count
        /\ UNCHANGED <<logged, store, applied>>
    BY <1>4, <1>t DEF FetchBatch, durable
  <2>2. count[s] = 0
    BY <2>1, <1>t DEF TypeInv, IdleIsEmpty
  <2>3. \A i \in 1 .. Len(batch'[s]) : batch'[s][i] = Removed(t1) + i
    BY <2>1, <1>t DEF StoreIsTail
  <2>4. \A t \in Tables : Removed(t)' = Removed(t)
    BY <2>1 DEF Removed
  <2>5. batch'[s] \in Seq(Nat)
    BY <2>1, <1>t
  <2>6. \A t \in Tables, i \in Nat :
          By(s, t, i) => applied[t][i].rec <= Removed(t)
    BY <2>1, <1>t DEF Progress, SettledElsewhere, Stopped, InBatch
  <2>7. batch'[s] # <<>> => batch'[s][1] = Removed(t1) + 1
    BY <2>3, <2>5
  <2>8. (pc[s] = "apply" => Window(s))'
    BY <2>1, <2>3, <2>4, <2>5, <2>7, <1>r DEF Window
  <2>9. Ordered(s)'
    BY <2>1, <2>2, <2>6, <2>7, <1>r, <1>e DEF Ordered, By
  <2>10. SettledElsewhere(s)'
    BY <2>1, <2>4, <2>6 DEF SettledElsewhere, By
  <2> QED BY <2>8, <2>9, <2>10 DEF Progress
<1>5. CASE ExecuteRecord(s)
  <2> DEFINE t1 == table[s]
             n == batch[s][count[s] + 1]
  <2>1. /\ pc[s] = "apply" /\ pc'[s] = "apply"
        /\ table' = table /\ batch' = batch
        /\ count'[s] = count[s] + 1
        /\ count[s] < Len(batch[s])
        /\ batch[s] # <<>>
        /\ UNCHANGED <<logged, store>>
    BY <1>5, <1>t DEF ExecuteRecord
  <2>2. applied' = [applied EXCEPT ![table[s]] =
                      Append(@, [by |-> s, rec |-> batch[s][count[s] + 1]])]
    BY <1>5 DEF ExecuteRecord
  <2>3. /\ t1 \in Tables
        /\ n \in Nat
        /\ \A t \in Tables : t # t1 => applied'[t] = applied[t]
        /\ Len(applied'[t1]) = Len(applied[t1]) + 1
        /\ \A i \in 1 .. Len(applied[t1]) : applied'[t1][i] = applied[t1][i]
        /\ applied'[t1][Len(applied[t1]) + 1].rec = n
    BY <2>1, <2>2, <1>t, Appends
  <2>4. Window(s) /\ n = batch[s][1] + count[s] /\ batch[s][1] \in Nat /\ count[s] \in Nat
    <3>1. batch[s] \in Seq(Nat) /\ count[s] \in Nat
      BY <1>t
    <3>2. count[s] + 1 \in 1 .. Len(batch[s]) /\ 1 \in 1 .. Len(batch[s])
      BY <2>1, <3>1
    <3>3. Window(s)
      BY <2>1, <1>t DEF Progress
    <3>4. batch[s][count[s] + 1] = batch[s][1] + (count[s] + 1) - 1
      BY <3>2, <3>3 DEF Window
    <3>5. batch[s][1] \in Nat
      BY <3>1, <3>2
    <3> QED BY <3>1, <3>3, <3>4, <3>5
  <2>5. \A t \in Tables : Removed(t)' = Removed(t)
    BY <2>1 DEF Removed
  <2> HIDE DEF t1, n
  <2>6. (pc[s] = "apply" => Window(s))'
    BY <2>1, <2>3, <2>4, <2>5 DEF Window, t1
  <2>7. ASSUME NEW i \in Nat, i \in 1 .. Len(applied'[t1]), applied'[t1][i].by = s
        PROVE  applied'[t1][i].rec < batch[s][1] + count[s] + 1
    <3>1. Len(applied[t1]) \in Nat
      BY <2>3, <1>t
    <3>2. CASE i = Len(applied[t1]) + 1
      BY <3>2, <2>3, <2>4
    <3>3. CASE i # Len(applied[t1]) + 1
      <4>1. i \in 1 .. Len(applied[t1]) /\ applied'[t1][i] = applied[t1][i]
        BY <3>1, <3>3, <2>3, <2>7
      <4>2. By(s, t1, i)
        BY <4>1, <2>7 DEF By
      <4>3. applied[t1][i].rec < batch[s][1] + count[s]
        BY <4>2, <2>1, <1>t DEF Progress, Ordered, t1
      <4> QED BY <4>1, <4>2, <4>3, <2>3, <2>4, <1>e
    <3> QED BY <3>2, <3>3
  <2>8. Ordered(s)'
    <3> SUFFICES ASSUME NEW i \in Nat, By(s, table[s], i)'
                 PROVE  applied'[t1][i].rec < batch'[s][1] + count'[s]
      BY <2>1 DEF Ordered, t1
    <3>1. i \in 1 .. Len(applied'[t1]) /\ applied'[t1][i].by = s
      BY <2>1 DEF By, t1
    <3>2. applied'[t1][i].rec < batch[s][1] + count[s] + 1
      BY <3>1, <2>7
    <3>3. batch' = batch /\ count'[s] = count[s] + 1
      BY <2>1, <1>t
    <3>4. batch'[s][1] + count'[s] = batch[s][1] + count[s] + 1
      BY <3>3, <2>4
    <3> QED BY <3>2, <3>4
  <2>9. SettledElsewhere(s)'
    <3> SUFFICES ASSUME NEW t \in Tables, t # t1, NEW i \in Nat, By(s, t, i)'
                 PROVE  applied'[t][i].rec <= Removed(t)'
      BY <2>1 DEF SettledElsewhere, InBatch, t1
    <3>1. By(s, t, i) /\ applied'[t] = applied[t]
      BY <2>3 DEF By
    <3>2. applied[t][i].rec <= Removed(t)
      BY <3>1, <2>1, <1>t DEF Progress, SettledElsewhere, Stopped, InBatch, t1
    <3> QED BY <3>1, <3>2, <2>5
  <2> QED BY <2>6, <2>8, <2>9 DEF Progress
<1>6. CASE RemoveBatch(s)
  <2> DEFINE t1 == table[s]
  <2>1. /\ pc[s] = "apply" /\ pc'[s] = "range"
        /\ t1 \in Tables
        /\ applied' = applied
    BY <1>6, <1>t DEF RemoveBatch
  <2>2. (pc[s] = "apply" => Window(s))' /\ Ordered(s)'
    BY <2>1 DEF Ordered
  <2>3. SettledElsewhere(s)'
    <3> SUFFICES ASSUME NEW t \in Tables, NEW i \in Nat, By(s, t, i)
                 PROVE  applied[t][i].rec <= Removed(t)'
      BY <2>1 DEF SettledElsewhere, By
    <3>1. CASE t = t1 /\ batch[s] # <<>>
      <4>1. Window(s) /\ batch[s][1] \in Nat /\ count[s] \in Nat
        BY <3>1, <2>1, <1>t DEF Progress
      <4>2. applied[t][i].rec < batch[s][1] + count[s]
        BY <3>1, <2>1, <1>t DEF Progress, Ordered
      <4>3. batch[s][1] <= Removed(t) + 1
        BY <3>1, <4>1 DEF Window
      <4>4. Removed(t)' = Removed(t) + count[s]
        BY <1>6, <1>t, <3>1, RemovedByBatch
      <4> QED BY <4>1, <4>2, <4>3, <4>4, <1>r, <1>e
    <3>2. CASE ~(t = t1 /\ batch[s] # <<>>)
      <4>1. applied[t][i].rec <= Removed(t)
        BY <3>2, <2>1, <1>t DEF Progress, SettledElsewhere, Stopped, InBatch
      <4> QED BY <4>1, <1>r, <1>e
    <3> QED BY <3>1, <3>2
  <2> QED BY <2>2, <2>3 DEF Progress
<1> QED BY <1>1, <1>2, <1>3, <1>4, <1>5, <1>6, <1>t, StepCases

LEMMA OrderInit == Init => OrderInv
<1> SUFFICES ASSUME Init PROVE OrderInv
  OBVIOUS
<1>1. TypeInv /\ StoreIsTail
  BY TypeInit, StoreInit
<1>2. ASSUME NEW s \in Instances PROVE Progress(s)
  <2>1. pc[s] = "unused" /\ \A t \in Tables : applied[t] = <<>>
    BY DEF Init
  <2>2. \A t \in Tables, i \in Nat : ~By(s, t, i)
    BY <2>1 DEF By
  <2> QED BY <2>1, <2>2 DEF Progress, Ordered, SettledElsewhere
<1> QED BY <1>1, <1>2 DEF OrderInv

LEMMA OrderStep == OrderInv /\ [Next]_vars => OrderInv'
<1> SUFFICES ASSUME OrderInv, [Next]_vars PROVE OrderInv'
  OBVIOUS
<1>1. (TypeInv /\ StoreIsTail)'
  BY TypeStep, StoreStep DEF OrderInv
<1>2. ASSUME NEW s \in Instances PROVE Progress(s)'
  BY ProgressStep
<1> QED BY <1>1, <1>2 DEF OrderInv

LEMMA AppliedMoves ==
  [Next]_vars => \/ UNCHANGED applied
                 \/ \E s \in Instances : ExecuteRecord(s) \/ ExecuteFails(s)
<1> SUFFICES ASSUME [Next]_vars,
                    ~ \E s \in Instances : ExecuteRecord(s) \/ ExecuteFails(s)
             PROVE  UNCHANGED applied
  OBVIOUS
<1>1. ASSUME NEW s \in Instances, Worker(s) PROVE UNCHANGED applied
  BY <1>1 DEF Worker, Scheduled, Tick, SizeTable, FetchBatch, RemoveBatch, ExecuteOnClosedPool,
       RemovePanics, EndRange, CloseOnQuit, Die, durable
<1>2. ASSUME NEW r \in Requests, Stop(r) PROVE UNCHANGED applied
  BY <1>2 DEF Stop, StopRefused, StopSend, ClearQuit, CloseCurrent, durable
<1>3. ASSUME NEW s \in Instances,
             \/ StartSyncer(s) \/ StartSyncerPanics(s) \/ FetchFails(s)
             \/ \E t \in Tables : SizeFails(s, t)
      PROVE  UNCHANGED applied
  BY <1>3 DEF StartSyncer, StartSyncerPanics, Create, FetchFails, SizeFails, durable
<1>4. ASSUME NEW s \in Instances, NEW r \in Requests, ReceiveQuit(s, r)
      PROVE  UNCHANGED applied
  BY <1>4 DEF ReceiveQuit, durable
<1>5. ASSUME Crash \/ (\E t \in Tables : Put(t) \/ Log(t)) \/ UNCHANGED vars
      PROVE  UNCHANGED applied
  BY <1>5 DEF Crash, Die, durable, Put, Log, vars
<1> QED BY <1>1, <1>2, <1>3, <1>4, <1>5 DEF Next

(***************************************************************************)
(* The record a syncer executes is newer than all it has executed before.  *)
(***************************************************************************)
LEMMA NextIsNewer ==
  ASSUME OrderInv, NEW s \in Instances, pc[s] = "apply", count[s] < Len(batch[s])
  PROVE  \A i \in Nat : By(s, table[s], i) =>
           applied[table[s]][i].rec < batch[s][count[s] + 1]
<1>1. /\ batch[s] \in Seq(Nat) /\ count[s] \in Nat
      /\ Window(s) /\ Ordered(s)
  BY DEF OrderInv, TypeInv, TypeOK, Progress
<1>2. count[s] + 1 \in 1 .. Len(batch[s]) /\ batch[s] # <<>> /\ 1 \in 1 .. Len(batch[s])
  BY <1>1
<1>3. batch[s][1] \in Nat
  BY <1>1, <1>2
<1>4. batch[s][count[s] + 1] = batch[s][1] + count[s]
  <2>1. batch[s][count[s] + 1] = batch[s][1] + (count[s] + 1) - 1
    BY <1>1, <1>2 DEF Window
  <2> QED BY <2>1, <1>1, <1>3
<1> QED BY <1>1, <1>2, <1>4 DEF Ordered

LEMMA InstanceOrderStep == OrderInv /\ InstanceOrder /\ [Next]_vars => InstanceOrder'
<1> SUFFICES ASSUME OrderInv, InstanceOrder, [Next]_vars,
                    NEW t \in Tables, NEW i \in 1 .. Len(applied'[t]),
                    NEW j \in 1 .. Len(applied'[t]), i < j,
                    applied'[t][i].by = applied'[t][j].by
             PROVE  applied'[t][i].rec < applied'[t][j].rec
  BY DEF InstanceOrder
<1>t. /\ TypeInv
      /\ applied \in [Tables -> Seq(Executions)]
  BY DEF OrderInv, TypeInv, TypeOK
<1>1. CASE applied'[t] = applied[t]
  BY <1>1 DEF InstanceOrder
<1>2. CASE applied'[t] # applied[t]
  <2>1. PICK s \in Instances : ExecuteRecord(s) \/ ExecuteFails(s)
    BY <1>2, AppliedMoves
  <2>2. /\ pc[s] = "apply"
        /\ count[s] < Len(batch[s])
        /\ applied' = [applied EXCEPT ![table[s]] =
                         Append(@, [by |-> s, rec |-> batch[s][count[s] + 1]])]
    BY <2>1, <1>2 DEF ExecuteRecord, ExecuteFails
  <2> DEFINE t1 == table[s]
             n == batch[s][count[s] + 1]
  <2>3. /\ \A t2 \in Tables : t2 # t1 => applied'[t2] = applied[t2]
        /\ Len(applied'[t1]) = Len(applied[t1]) + 1
        /\ \A k \in 1 .. Len(applied[t1]) : applied'[t1][k] = applied[t1][k]
        /\ applied'[t1][Len(applied[t1]) + 1].by = s
        /\ applied'[t1][Len(applied[t1]) + 1].rec = n
    BY <2>2, <1>t, Appends
  <2>4. \A k \in Nat : By(s, t1, k) => applied[t1][k].rec < n
    BY <2>2, NextIsNewer
  <2> HIDE DEF t1, n
  <2>5. t = t1
    BY <1>2, <2>3
  <2>6. Len(applied[t]) \in Nat
    BY <1>t
  <2>7. i \in 1 .. Len(applied[t])
    BY <2>3, <2>5, <2>6
  <2>8. CASE j = Len(applied[t]) + 1
    BY <2>3, <2>4, <2>5, <2>7, <2>8 DEF By
  <2>9. CASE j # Len(applied[t]) + 1
    <3>1. j \in 1 .. Len(applied[t])
      BY <2>3, <2>5, <2>6, <2>9
    <3> QED BY <3>1, <2>3, <2>5, <2>7 DEF InstanceOrder
  <2> QED BY <2>8, <2>9
<1> QED BY <1>1, <1>2

(***************************************************************************)
(* One syncer executes the records of a table in log order and none twice, *)
(* however many other syncers remove records under its feet.               *)
(***************************************************************************)
THEOREM InstanceOrderCorrect == Spec => []InstanceOrder
<1>1. Init => InstanceOrder
  BY DEF Init, InstanceOrder
<1>2. OrderInv /\ InstanceOrder /\ [Next]_vars => (OrderInv /\ InstanceOrder)'
  BY OrderStep, InstanceOrderStep
<1> QED
  BY OrderInit, <1>1, <1>2, PTL DEF Spec

(***************************************************************************)
(* A syncer that selects, and so one that a stop request can end, leaves   *)
(* no executed record pending.                                             *)
(***************************************************************************)
THEOREM CleanStopCorrect == Spec => []CleanStop
<1>1. OrderInv => CleanStop
  <2> SUFFICES ASSUME OrderInv, NEW s \in Instances,
                      pc[s] \in {"select", "quit", "closed"},
                      NEW t \in Tables, NEW i \in 1 .. Len(applied[t]),
                      applied[t][i].by = s
               PROVE  applied[t][i].rec <= Removed(t)
    BY DEF CleanStop, Settled
  <2>1. i \in Nat /\ By(s, t, i)
    BY DEF By
  <2> QED
    BY <2>1 DEF OrderInv, Progress, SettledElsewhere, Stopped, InBatch
<1> QED
  BY OrderInit, OrderStep, <1>1, PTL DEF Spec

(***************************************************************************)
(* A batch is a run of consecutive records that starts at or before the    *)
(* first pending one, under any interleaving of removals.                  *)
(***************************************************************************)
THEOREM BatchIsWindowCorrect == Spec => []BatchIsWindow
<1>1. OrderInv => BatchIsWindow
  BY DEF OrderInv, Progress, BatchIsWindow
<1> QED
  BY OrderInit, OrderStep, <1>1, PTL DEF Spec
=============================================================================
