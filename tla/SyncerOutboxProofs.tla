------------------------ MODULE SyncerOutboxProofs --------------------------
(***************************************************************************)
(* Proofs about Syncer when at most one syncer runs at a time: no record   *)
(* is lost or skipped, and the system implements the abstract Outbox.      *)
(*                                                                         *)
(* The inductive invariant is about the batch of the running syncer: it is *)
(* still the left end of its list, and what was executed of it, together   *)
(* with what has left the list, is all that was ever executed.             *)
(***************************************************************************)
EXTENDS SyncerOrderProofs

BatchExecuted ==
  \A s \in Instances : pc[s] = "apply" =>
    \A k \in 1 .. count[s] : Executed(table[s], batch[s][k])

SerialInv ==
  /\ TypeInv
  /\ StoreIsTail
  /\ OneRunning
  /\ BatchIsPending
  /\ BatchExecuted
  /\ RemovedWereExecuted
  /\ NoGap

SerialNext == Next /\ OneRunning'

-----------------------------------------------------------------------------
(***************************************************************************)
(* The history of a table only grows at its right end.                     *)
(***************************************************************************)
LEMMA AppliedGrows ==
  ASSUME TypeInv, [Next]_vars, NEW t \in Tables
  PROVE  /\ Len(applied[t]) \in Nat
         /\ Len(applied'[t]) \in Nat
         /\ Len(applied[t]) <= Len(applied'[t])
         /\ Len(applied'[t]) <= Len(applied[t]) + 1
         /\ Len(applied'[t]) = Len(applied[t]) => applied'[t] = applied[t]
         /\ \A i \in 1 .. Len(applied[t]) : applied'[t][i] = applied[t][i]
<1>t. applied \in [Tables -> Seq(Executions)] /\ applied[t] \in Seq(Executions)
  BY DEF TypeInv, TypeOK
<1>0. Len(applied[t]) \in Nat
  BY <1>t
<1>1. CASE applied'[t] = applied[t]
  BY <1>0, <1>1
<1>2. CASE applied'[t] # applied[t]
  <2>1. PICK s \in Instances : ExecuteRecord(s) \/ ExecuteFails(s)
    BY <1>2, AppliedMoves
  <2>2. /\ pc[s] = "apply"
        /\ count[s] < Len(batch[s])
        /\ applied' = [applied EXCEPT ![table[s]] =
                         Append(@, [by |-> s, rec |-> batch[s][count[s] + 1]])]
    BY <2>1, <1>2 DEF ExecuteRecord, ExecuteFails
  <2> DEFINE t1 == table[s]
  <2>3. /\ \A t2 \in Tables : t2 # t1 => applied'[t2] = applied[t2]
        /\ Len(applied'[t1]) = Len(applied[t1]) + 1
        /\ \A k \in 1 .. Len(applied[t1]) : applied'[t1][k] = applied[t1][k]
    BY <2>2, Appends
  <2> HIDE DEF t1
  <2>4. t = t1
    BY <1>2, <2>3
  <2> QED BY <1>0, <2>3, <2>4
<1> QED BY <1>1, <1>2

LEMMA ExecutedStays ==
  ASSUME TypeInv, [Next]_vars, NEW t \in Tables, NEW n, Executed(t, n)
  PROVE  Executed(t, n)'
<1>1. PICK i \in 1 .. Len(applied[t]) : applied[t][i].rec = n
  BY DEF Executed
<1>2. i \in 1 .. Len(applied'[t]) /\ applied'[t][i] = applied[t][i]
  BY AppliedGrows
<1> QED BY <1>1, <1>2 DEF Executed

(***************************************************************************)
(* The record executed next is the first pending one that was not yet      *)
(* executed in this batch.                                                 *)
(***************************************************************************)
LEMMA NextIsPending ==
  ASSUME SerialInv, NEW s \in Instances, pc[s] = "apply", count[s] < Len(batch[s])
  PROVE  /\ table[s] \in Tables
         /\ count[s] \in Nat
         /\ Removed(table[s]) \in Nat
         /\ batch[s][count[s] + 1] = Removed(table[s]) + count[s] + 1
         /\ batch[s][count[s] + 1] <= logged[table[s]]
         /\ batch[s][count[s] + 1] > 1 =>
              Executed(table[s], batch[s][count[s] + 1] - 1)
<1> DEFINE t == table[s]
           c == count[s]
<1>1. /\ t \in Tables /\ c \in Nat
      /\ store[t] \in Seq(Nat) /\ logged[t] \in Nat
      /\ batch[s] \in Seq(Nat)
  BY DEF SerialInv, TypeInv, TypeOK
<1>2. /\ Len(store[t]) <= logged[t]
      /\ \A i \in 1 .. Len(store[t]) : store[t][i] = Removed(t) + i
  BY <1>1 DEF SerialInv, StoreIsTail
<1>3. /\ Len(batch[s]) <= Len(store[t])
      /\ \A i \in 1 .. Len(batch[s]) : batch[s][i] = store[t][i]
  BY DEF SerialInv, BatchIsPending
<1>4. Removed(t) \in Nat /\ Removed(t) + Len(store[t]) = logged[t]
  <2>1. Len(store[t]) \in Nat /\ Removed(t) = logged[t] - Len(store[t])
    BY <1>1 DEF Removed
  <2> HIDE DEF t
  <2> QED BY <2>1, <1>1, <1>2
<1>5. \A i \in 1 .. Len(batch[s]) : batch[s][i] = Removed(t) + i
  BY <1>1, <1>2, <1>3
<1>6. c + 1 \in 1 .. Len(batch[s])
  BY <1>1
<1>7. \A k \in 1 .. c : Executed(t, batch[s][k])
  BY DEF SerialInv, BatchExecuted
<1>8. \A n \in 1 .. Removed(t) : Executed(t, n)
  BY <1>1 DEF SerialInv, RemovedWereExecuted
<1> HIDE DEF t, c
<1>9. batch[s][c + 1] = Removed(t) + c + 1
  BY <1>1, <1>4, <1>5, <1>6
<1>10. ASSUME batch[s][c + 1] > 1
       PROVE  Executed(t, Removed(t) + c)
  <2>1. CASE c = 0
    BY <2>1, <1>1, <1>4, <1>8, <1>9, <1>10
  <2>2. CASE c # 0
    <3>1. c \in 1 .. c /\ c \in 1 .. Len(batch[s])
      BY <2>2, <1>1, <1>6
    <3>2. batch[s][c] = Removed(t) + c
      BY <3>1, <1>5
    <3> QED BY <3>1, <3>2, <1>7
  <2> QED BY <2>1, <2>2
<1>11. batch[s][c + 1] - 1 = Removed(t) + c
  BY <1>1, <1>4, <1>9
<1>12. batch[s][c + 1] <= logged[t]
  BY <1>1, <1>3, <1>4, <1>6, <1>9
<1> QED BY <1>1, <1>4, <1>9, <1>10, <1>11, <1>12 DEF t, c

-----------------------------------------------------------------------------
(***************************************************************************)
(* While a batch is executed, the list of its table is only pushed to.     *)
(***************************************************************************)
LEMMA ListKept ==
  ASSUME SerialInv, SerialNext, NEW s \in Instances,
         pc[s] = "apply", pc'[s] = "apply", NEW t \in Tables
  PROVE  /\ Removed(t)' = Removed(t)
         /\ Len(store[t]) <= Len(store'[t])
         /\ \A i \in 1 .. Len(store[t]) : store'[t][i] = store[t][i]
<1>t. /\ TypeInv /\ StoreIsTail
      /\ logged \in [Tables -> Nat] /\ store \in [Tables -> Seq(Nat)]
      /\ pc \in [Instances -> PCs]
  BY DEF SerialInv, TypeInv, TypeOK
<1>1. CASE UNCHANGED <<logged, store>>
  BY <1>1, <1>t DEF Removed
<1>2. CASE \E t1 \in Tables : Log(t1)
  <2>1. PICK t1 \in Tables : Log(t1)
    BY <1>2
  <2> DEFINE list == Push(store[t1], logged[t1] + 1)
  <2>2. /\ logged' = [logged EXCEPT ![t1] = @ + 1]
        /\ store' = [store EXCEPT ![t1] = list]
    BY <2>1 DEF Log
  <2>3. store[t1] \in Seq(Nat) /\ logged[t1] + 1 \in Nat
    BY <1>t
  <2>4. /\ Len(list) = Len(store[t1]) + 1
        /\ \A i \in 1 .. Len(store[t1]) : list[i] = store[t1][i]
    BY <2>3, ListTypes
  <2>5. Len(store[t]) \in Nat /\ logged[t] \in Nat
    BY <1>t
  <2> HIDE DEF list
  <2>6. CASE t = t1
    <3>1. store'[t] = list /\ logged'[t] = logged[t] + 1
      BY <2>2, <2>6, <1>t
    <3>2. Removed(t)' = (logged[t] + 1) - (Len(store[t]) + 1)
      BY <3>1, <2>4, <2>6 DEF Removed
    <3>3. Removed(t) = logged[t] - Len(store[t])
      BY DEF Removed
    <3>5. Removed(t)' = Removed(t)
      BY <3>2, <3>3, <2>5
    <3>6. Len(store'[t]) = Len(store[t]) + 1
      BY <3>1, <2>4, <2>6
    <3>7. Len(store[t]) <= Len(store'[t])
      BY <3>6, <2>5
    <3>4. \A i \in 1 .. Len(store[t]) : store'[t][i] = store[t][i]
      BY <3>1, <2>4, <2>6
    <3> QED BY <3>4, <3>5, <3>7
  <2>7. CASE t # t1
    <3>1. store'[t] = store[t] /\ logged'[t] = logged[t]
      BY <2>2, <2>7, <1>t
    <3> QED BY <3>1, <2>5 DEF Removed
  <2> QED BY <2>6, <2>7
<1>3. CASE \E s1 \in Instances : RemoveBatch(s1)
  <2>1. PICK s1 \in Instances : RemoveBatch(s1)
    BY <1>3
  <2>2. pc[s1] = "apply" /\ pc' = [pc EXCEPT ![s1] = "range"]
    BY <2>1 DEF RemoveBatch
  <2>3. s1 = s
    BY <2>2 DEF SerialInv, OneRunning, Running
  <2>4. pc'[s] = "range"
    BY <2>2, <2>3, <1>t
  <2> QED BY <2>4
<1>4. [Next]_vars
  BY DEF SerialNext
<1> QED BY <1>1, <1>2, <1>3, <1>4, ListsMove

LEMMA PendingStep == SerialInv /\ SerialNext => BatchIsPending' /\ BatchExecuted'
<1> SUFFICES ASSUME SerialInv, SerialNext, NEW s \in Instances, pc'[s] = "apply"
             PROVE  /\ Len(batch'[s]) <= Len(store'[table'[s]])
                    /\ \A i \in 1 .. Len(batch'[s]) :
                         batch'[s][i] = store'[table'[s]][i]
                    /\ \A k \in 1 .. count'[s] :
                         Executed(table[s], batch[s][k])'
  BY DEF BatchIsPending, BatchExecuted
<1>t. /\ TypeInv /\ [Next]_vars
      /\ pc \in [Instances -> PCs]
      /\ batch \in [Instances -> Seq(Nat)]
      /\ count \in [Instances -> Nat]
      /\ store \in [Tables -> Seq(Nat)]
      /\ pc[s] \in {"fetch", "apply"} => table[s] \in Tables
  BY DEF SerialInv, SerialNext, TypeInv, TypeOK
<1> DEFINE t == table[s]
<1>1. ASSUME pc[s] = "apply", table'[s] = table[s], batch'[s] = batch[s]
      PROVE  /\ t \in Tables
             /\ Len(batch'[s]) <= Len(store'[t])
             /\ \A i \in 1 .. Len(batch'[s]) : batch'[s][i] = store'[t][i]
             /\ \A k \in 1 .. count[s] : Executed(t, batch[s][k])'
  <2>1. t \in Tables
    BY <1>1, <1>t
  <2>2. /\ Len(batch[s]) <= Len(store[t])
        /\ \A i \in 1 .. Len(batch[s]) : batch[s][i] = store[t][i]
        /\ \A k \in 1 .. count[s] : Executed(t, batch[s][k])
    BY <1>1 DEF SerialInv, BatchIsPending, BatchExecuted
  <2>3. /\ Len(store[t]) <= Len(store'[t])
        /\ \A i \in 1 .. Len(store[t]) : store'[t][i] = store[t][i]
    BY <1>1, <2>1, ListKept
  <2>4. ASSUME NEW k \in 1 .. count[s]
        PROVE  \E i \in 1 .. Len(applied'[t]) : applied'[t][i].rec = batch[s][k]
    <3> DEFINE n == batch[s][k]
    <3>1. Executed(t, n)
      BY <2>2
    <3> HIDE DEF n, t
    <3>2. PICK i \in 1 .. Len(applied[t]) : applied[t][i].rec = n
      BY <3>1 DEF Executed
    <3>3. /\ Len(applied[t]) \in Nat
          /\ Len(applied'[t]) \in Nat
          /\ Len(applied[t]) <= Len(applied'[t])
          /\ \A j \in 1 .. Len(applied[t]) : applied'[t][j] = applied[t][j]
      BY <2>1, <1>t, AppliedGrows
    <3>4. i \in 1 .. Len(applied'[t]) /\ applied'[t][i] = applied[t][i]
      BY <3>3
    <3> QED BY <3>2, <3>4 DEF n
  <2>5. Len(batch[s]) \in Nat /\ Len(store[t]) \in Nat /\ Len(store'[t]) \in Nat
    <3>1. store'[t] \in Seq(Nat)
      BY <1>t, <2>1, TypeStep DEF TypeInv, TypeOK
    <3> QED BY <3>1, <1>t, <2>1
  <2>6. \A k \in 1 .. count[s] : Executed(t, batch[s][k])'
    BY <2>4, <1>1 DEF Executed
  <2> QED BY <1>1, <2>1, <2>2, <2>3, <2>5, <2>6
<1>2. CASE Same(s)
  <2>1. pc[s] = "apply" /\ table'[s] = table[s] /\ batch'[s] = batch[s] /\ count'[s] = count[s]
    BY <1>2 DEF Same
  <2> QED BY <2>1, <1>1
<1>3. CASE FetchBatch(s)
  <2>1. /\ pc[s] = "fetch"
        /\ t \in Tables
        /\ table' = table
        /\ batch'[s] = store[t]
        /\ count'[s] = count[s]
        /\ store' = store
    BY <1>3, <1>t DEF FetchBatch, durable
  <2>2. count[s] = 0
    BY <2>1, <1>t DEF TypeInv, IdleIsEmpty
  <2>3. Len(store[t]) \in Nat
    BY <2>1, <1>t
  <2> QED BY <2>1, <2>2, <2>3
<1>4. CASE ExecuteRecord(s)
  <2>1. /\ pc[s] = "apply"
        /\ table' = table /\ batch' = batch
        /\ count'[s] = count[s] + 1
        /\ count[s] < Len(batch[s])
        /\ applied' = [applied EXCEPT ![table[s]] =
                         Append(@, [by |-> s, rec |-> batch[s][count[s] + 1]])]
    BY <1>4, <1>t DEF ExecuteRecord
  <2>2. /\ t \in Tables
        /\ Len(batch'[s]) <= Len(store'[t])
        /\ \A i \in 1 .. Len(batch'[s]) : batch'[s][i] = store'[t][i]
        /\ \A k \in 1 .. count[s] : Executed(t, batch[s][k])'
    BY <2>1, <1>1
  <2>3. /\ Len(applied'[t]) = Len(applied[t]) + 1
        /\ applied'[t][Len(applied[t]) + 1].rec = batch[s][count[s] + 1]
    BY <2>1, <1>t, Appends
  <2>4. ASSUME NEW k, k = count[s] + 1
        PROVE  Executed(table[s], batch[s][k])'
    <3>1. Len(applied[t]) \in Nat
      BY <2>2, <1>t, AppliedGrows
    <3>2. Len(applied[t]) + 1 \in 1 .. Len(applied'[t])
      BY <3>1, <2>3
    <3> QED BY <3>2, <2>3, <2>1, <2>4 DEF Executed
  <2>5. count[s] \in Nat
    BY <1>t
  <2>6. \A k \in 1 .. count'[s] : k \in 1 .. count[s] \/ k = count[s] + 1
    BY <2>1, <2>5
  <2> QED BY <2>1, <2>2, <2>4, <2>6
<1> QED
  BY <1>2, <1>3, <1>4, <1>t, StepCases DEF Outside, Stopped, RemoveBatch

LEMMA RemovedStep == SerialInv /\ SerialNext => RemovedWereExecuted'
<1> SUFFICES ASSUME SerialInv, SerialNext,
                    NEW t \in Tables, NEW n \in 1 .. Removed(t)'
             PROVE  Executed(t, n)'
  BY DEF RemovedWereExecuted
<1>t. /\ TypeInv /\ StoreIsTail /\ [Next]_vars
      /\ logged \in [Tables -> Nat] /\ store \in [Tables -> Seq(Nat)]
  BY DEF SerialInv, SerialNext, TypeInv, TypeOK
<1>1. CASE n \in 1 .. Removed(t)
  <2>1. Executed(t, n)
    BY <1>1 DEF SerialInv, RemovedWereExecuted
  <2> QED BY <2>1, <1>t, ExecutedStays
<1>2. CASE n \notin 1 .. Removed(t)
  <2>0. Removed(t) \in Nat /\ Removed(t)' \in Nat
    BY <1>t, RemovedGrows
  <2>1. Removed(t)' # Removed(t)
    BY <1>2
  <2>2. PICK s \in Instances : RemoveBatch(s)
    <3>1. CASE UNCHANGED <<logged, store>>
      BY <3>1, <2>1 DEF Removed
    <3>2. CASE \E t1 \in Tables : Log(t1)
      <4>1. PICK t1 \in Tables : Log(t1)
        BY <3>2
      <4>2. /\ logged' = [logged EXCEPT ![t1] = @ + 1]
            /\ store' = [store EXCEPT ![t1] = Push(@, logged[t1] + 1)]
        BY <4>1 DEF Log
      <4>3. store[t1] \in Seq(Nat) /\ logged[t1] + 1 \in Nat
        BY <1>t
      <4>4. Len(Push(store[t1], logged[t1] + 1)) = Len(store[t1]) + 1
        BY <4>3, ListTypes
      <4>5. Len(store[t1]) \in Nat /\ logged[t1] \in Nat
        BY <1>t
      <4> QED BY <1>t, <2>1, <4>2, <4>4, <4>5 DEF Removed
    <3> QED BY <3>1, <3>2, <1>t, ListsMove
  <2>3. /\ pc[s] = "apply"
        /\ count[s] = Len(batch[s])
        /\ count[s] \in Nat
        /\ applied' = applied
    BY <2>2, <1>t DEF RemoveBatch, TypeInv, TypeOK
  <2>4. t = table[s] /\ Removed(t)' = Removed(t) + count[s]
    BY <2>1, <2>2, <1>t, RemovedByBatch
  <2> DEFINE k == n - Removed(t)
  <2>5. k \in 1 .. count[s] /\ n = Removed(t) + k
    BY <1>2, <2>0, <2>3, <2>4
  <2> HIDE DEF k
  <2>6. Executed(t, batch[s][k])
    BY <2>3, <2>4, <2>5 DEF SerialInv, BatchExecuted
  <2>7. batch[s][k] = store[t][k] /\ k \in 1 .. Len(store[t])
    <3>1. Len(store[t]) \in Nat
      BY <1>t
    <3> QED BY <3>1, <2>3, <2>4, <2>5 DEF SerialInv, BatchIsPending
  <2>8. store[t][k] = Removed(t) + k
    BY <2>7, <1>t DEF StoreIsTail
  <2>9. Executed(t, n)
    BY <2>5, <2>6, <2>7, <2>8
  <2> QED BY <2>9, <1>t, ExecutedStays
<1> QED BY <1>1, <1>2

(***************************************************************************)
(* A step that executes a record executes the one NextIsPending describes. *)
(***************************************************************************)
LEMMA ExecuteStep ==
  ASSUME SerialInv, [Next]_vars, NEW t \in Tables, applied'[t] # applied[t]
  PROVE  \E s \in Instances :
           /\ pc[s] = "apply"
           /\ table[s] = t
           /\ count[s] < Len(batch[s])
           /\ Len(applied'[t]) = Len(applied[t]) + 1
           /\ applied'[t][Len(applied[t]) + 1].rec = batch[s][count[s] + 1]
<1>t. TypeInv
  BY DEF SerialInv
<1>1. PICK s \in Instances : ExecuteRecord(s) \/ ExecuteFails(s)
  BY AppliedMoves
<1>2. /\ pc[s] = "apply"
      /\ count[s] < Len(batch[s])
      /\ applied' = [applied EXCEPT ![table[s]] =
                       Append(@, [by |-> s, rec |-> batch[s][count[s] + 1]])]
  BY <1>1 DEF ExecuteRecord, ExecuteFails
<1> DEFINE t1 == table[s]
           n == batch[s][count[s] + 1]
<1>3. /\ \A t2 \in Tables : t2 # t1 => applied'[t2] = applied[t2]
      /\ Len(applied'[t1]) = Len(applied[t1]) + 1
      /\ applied'[t1][Len(applied[t1]) + 1].rec = n
  BY <1>2, <1>t, Appends
<1> HIDE DEF t1, n
<1>4. t1 = t
  BY <1>3
<1> QED BY <1>2, <1>3, <1>4 DEF t1, n

LEMMA NoGapStep == SerialInv /\ SerialNext => NoGap'
<1> SUFFICES ASSUME SerialInv, SerialNext,
                    NEW t \in Tables, NEW i \in 1 .. Len(applied'[t]),
                    applied'[t][i].rec > 1
             PROVE  \E j \in 1 .. i - 1 : applied'[t][j].rec = applied'[t][i].rec - 1
  BY DEF NoGap
<1>t. TypeInv /\ [Next]_vars
  BY DEF SerialInv, SerialNext
<1>0. /\ Len(applied[t]) \in Nat
      /\ \A j \in 1 .. Len(applied[t]) : applied'[t][j] = applied[t][j]
  BY <1>t, AppliedGrows
<1>1. CASE i \in 1 .. Len(applied[t])
  <2>1. applied[t][i].rec > 1
    BY <1>0, <1>1
  <2>2. PICK j \in 1 .. i - 1 : applied[t][j].rec = applied[t][i].rec - 1
    BY <1>1, <2>1 DEF SerialInv, NoGap
  <2>3. j \in 1 .. Len(applied[t])
    BY <1>0, <1>1
  <2> QED BY <1>0, <1>1, <2>2, <2>3
<1>2. CASE i \notin 1 .. Len(applied[t])
  <2>1. applied'[t] # applied[t]
    BY <1>2
  <2>2. PICK s \in Instances :
           /\ pc[s] = "apply"
           /\ table[s] = t
           /\ count[s] < Len(batch[s])
           /\ Len(applied'[t]) = Len(applied[t]) + 1
           /\ applied'[t][Len(applied[t]) + 1].rec = batch[s][count[s] + 1]
    BY <2>1, <1>t, ExecuteStep
  <2> DEFINE n == batch[s][count[s] + 1]
  <2>3. n > 1 => Executed(t, n - 1)
    BY <2>2, NextIsPending
  <2> HIDE DEF n
  <2>4. i = Len(applied[t]) + 1 /\ applied'[t][i].rec = n
    BY <1>0, <1>2, <2>2 DEF n
  <2>5. PICK j \in 1 .. Len(applied[t]) : applied[t][j].rec = n - 1
    BY <2>3, <2>4 DEF Executed
  <2>6. j \in 1 .. i - 1 /\ applied'[t][j].rec = n - 1
    BY <1>0, <2>4, <2>5
  <2> QED BY <2>4, <2>6
<1> QED BY <1>1, <1>2

LEMMA SerialInit == Init => SerialInv
<1> SUFFICES ASSUME Init PROVE SerialInv
  OBVIOUS
<1>1. TypeInv /\ StoreIsTail
  BY TypeInit, StoreInit
<1>2. \A s \in Instances : pc[s] = "unused"
  BY DEF Init
<1>3. ASSUME NEW t \in Tables PROVE Removed(t) = 0 /\ applied[t] = <<>>
  <2>1. store[t] = <<>> /\ applied[t] = <<>>
    BY DEF Init
  <2>2. logged[t] = 0
    BY DEF Init
  <2>3. Len(store[t]) = 0
    BY <2>1
  <2>4. Removed(t) = 0
    BY <2>2, <2>3 DEF Removed
  <2> QED BY <2>1, <2>4
<1>4. OneRunning /\ BatchIsPending /\ BatchExecuted
  BY <1>2 DEF OneRunning, Running, BatchIsPending, BatchExecuted
<1>5. RemovedWereExecuted /\ NoGap
  BY <1>3 DEF RemovedWereExecuted, NoGap
<1> QED BY <1>1, <1>4, <1>5 DEF SerialInv

LEMMA SerialStep == SerialInv /\ [SerialNext]_vars => SerialInv'
<1>1. ASSUME SerialInv, SerialNext PROVE SerialInv'
  <2>1. TypeInv' /\ StoreIsTail' /\ OneRunning'
    BY <1>1, TypeStep, StoreStep DEF SerialInv, SerialNext
  <2>2. BatchIsPending' /\ BatchExecuted' /\ RemovedWereExecuted' /\ NoGap'
    BY <1>1, PendingStep, RemovedStep, NoGapStep
  <2> QED BY <2>1, <2>2 DEF SerialInv
<1>2. ASSUME SerialInv, UNCHANGED vars PROVE SerialInv'
  <2>1. TypeInv' /\ StoreIsTail'
    BY <1>2, TypeStep, StoreStep DEF SerialInv
  <2>2. OneRunning' /\ BatchIsPending' /\ BatchExecuted' /\ RemovedWereExecuted' /\ NoGap'
    BY <1>2 DEF SerialInv, vars, OneRunning, Running, BatchIsPending, BatchExecuted,
         RemovedWereExecuted, Executed, Removed, NoGap
  <2> QED BY <2>1, <2>2 DEF SerialInv
<1> QED BY <1>1, <1>2

LEMMA SerialCorrect == SerialSpec => []SerialInv
BY SerialInit, SerialStep, PTL DEF SerialSpec, SerialNext

(***************************************************************************)
(* With one running syncer no record leaves the log store unexecuted,      *)
(* whatever fails or crashes, and however stops and restarts interleave.   *)
(***************************************************************************)
THEOREM NothingLost == SerialSpec => []RemovedWereExecuted
<1>1. SerialInv => RemovedWereExecuted
  BY DEF SerialInv
<1> QED BY SerialCorrect, <1>1, PTL

(***************************************************************************)
(* With one running syncer at a time, the records of a table reach the     *)
(* target without a gap, across stops, errors and crashes.                 *)
(***************************************************************************)
THEOREM NoGapCorrect == SerialSpec => []NoGap
<1>1. SerialInv => NoGap
  BY DEF SerialInv
<1> QED BY SerialCorrect, <1>1, PTL

(***************************************************************************)
(* With one running syncer, what is removed by count is what was executed, *)
(* and the removal never finds too short a list.                           *)
(***************************************************************************)
THEOREM BatchIsPendingCorrect == SerialSpec => []BatchIsPending
<1>1. SerialInv => BatchIsPending
  BY DEF SerialInv
<1> QED BY SerialCorrect, <1>1, PTL

(***************************************************************************)
(* With one running syncer, a record that was removed is never executed    *)
(* again.                                                                  *)
(***************************************************************************)
THEOREM ExecutesPendingCorrect == SerialSpec => ExecutesPending
<1>1. SerialInv /\ [SerialNext]_vars =>
        [\A t \in Tables :
           Len(applied'[t]) > Len(applied[t]) =>
             applied'[t][Len(applied'[t])].rec > Removed(t)]_vars
  <2> SUFFICES ASSUME SerialInv, [SerialNext]_vars, NEW t \in Tables,
                      Len(applied'[t]) > Len(applied[t])
               PROVE  applied'[t][Len(applied'[t])].rec > Removed(t)
    OBVIOUS
  <2>1. TypeInv /\ [Next]_vars
    BY DEF SerialInv, SerialNext
  <2>2. Len(applied[t]) \in Nat /\ applied'[t] # applied[t]
    BY <2>1, AppliedGrows
  <2>3. PICK s \in Instances :
           /\ pc[s] = "apply"
           /\ table[s] = t
           /\ count[s] < Len(batch[s])
           /\ Len(applied'[t]) = Len(applied[t]) + 1
           /\ applied'[t][Len(applied[t]) + 1].rec = batch[s][count[s] + 1]
    BY <2>1, <2>2, ExecuteStep
  <2>4. /\ count[s] \in Nat /\ Removed(t) \in Nat
        /\ batch[s][count[s] + 1] = Removed(t) + count[s] + 1
    BY <2>3, NextIsPending
  <2>5. applied'[t][Len(applied'[t])].rec = Removed(t) + count[s] + 1
    BY <2>3, <2>4
  <2> QED BY <2>4, <2>5
<1> QED BY SerialCorrect, <1>1, PTL DEF SerialSpec, SerialNext, ExecutesPending

-----------------------------------------------------------------------------
(* The refinement: Newest names the record up to which all were executed.  *)

IsNewest(t, k) ==
  /\ k \in 0 .. logged[t]
  /\ \A i \in 1 .. Len(applied[t]) : applied[t][i].rec \in 1 .. k
  /\ \A n \in 1 .. k : Executed(t, n)

OutboxInv ==
  /\ SerialInv
  /\ \A t \in Tables : \E k \in Nat : IsNewest(t, k)

LEMMA NewestIs ==
  ASSUME TypeInv, NEW t \in Tables, NEW k \in Nat, IsNewest(t, k)
  PROVE  Newest(t) = k
<1> DEFINE P(n) ==
      /\ n = 0 \/ \E i \in 1 .. Len(applied[t]) : applied[t][i].rec = n
      /\ \A i \in 1 .. Len(applied[t]) : applied[t][i].rec <= n
<1>1. logged[t] \in Nat
  BY DEF TypeInv, TypeOK
<1>2. k = 0 \/ \E i \in 1 .. Len(applied[t]) : applied[t][i].rec = k
  <2>1. CASE k = 0
    BY <2>1
  <2>2. CASE k # 0
    BY <2>2 DEF IsNewest, Executed
  <2> QED BY <2>1, <2>2
<1>3. k \in 0 .. logged[t] /\ P(k)
  BY <1>2 DEF IsNewest
<1>4. ASSUME NEW m \in 0 .. logged[t], P(m) PROVE m = k
  <2>1. m <= k
    BY <1>4 DEF IsNewest
  <2>2. k <= m
    BY <1>2, <1>4
  <2> QED BY <2>1, <2>2, <1>1
<1>5. Newest(t) = CHOOSE n \in 0 .. logged[t] : P(n)
  BY DEF Newest
<1> HIDE DEF P
<1>6. (CHOOSE n \in 0 .. logged[t] : P(n)) \in 0 .. logged[t]
      /\ P(CHOOSE n \in 0 .. logged[t] : P(n))
  BY <1>3
<1> QED BY <1>4, <1>5, <1>6

LEMMA LoggedGrows ==
  ASSUME TypeInv, [Next]_vars, NEW t \in Tables
  PROVE  logged[t] \in Nat /\ logged'[t] \in Nat /\ logged[t] <= logged'[t]
<1>1. logged \in [Tables -> Nat]
  BY DEF TypeInv, TypeOK
<1> QED BY <1>1, ListsMove DEF Log, RemoveBatch

(***************************************************************************)
(* A step executes nothing newer than the record after the newest.         *)
(***************************************************************************)
LEMMA NewestStep ==
  ASSUME SerialInv, [Next]_vars, NEW t \in Tables, NEW k \in Nat, IsNewest(t, k)
  PROVE  \/ IsNewest(t, k)'
         \/ /\ applied'[t] # applied[t]
            /\ k < logged[t]
            /\ IsNewest(t, k + 1)'
<1>t. TypeInv
  BY DEF SerialInv
<1>l. logged[t] \in Nat /\ logged'[t] \in Nat /\ logged[t] <= logged'[t]
  BY <1>t, LoggedGrows
<1>g. /\ Len(applied[t]) \in Nat
      /\ \A i \in 1 .. Len(applied[t]) : applied'[t][i] = applied[t][i]
  BY <1>t, AppliedGrows
<1>e. \A n \in 1 .. k : Executed(t, n)'
  BY <1>t, ExecutedStays DEF IsNewest
<1>1. CASE applied'[t] = applied[t]
  <2>1. k \in 0 .. logged'[t]
    BY <1>l DEF IsNewest
  <2> QED BY <1>1, <1>e, <2>1 DEF IsNewest
<1>2. CASE applied'[t] # applied[t]
  <2>1. PICK s \in Instances :
           /\ pc[s] = "apply"
           /\ table[s] = t
           /\ count[s] < Len(batch[s])
           /\ Len(applied'[t]) = Len(applied[t]) + 1
           /\ applied'[t][Len(applied[t]) + 1].rec = batch[s][count[s] + 1]
    BY <1>2, ExecuteStep
  <2> DEFINE n == batch[s][count[s] + 1]
  <2>2. /\ n \in Nat /\ n >= 1
        /\ n <= logged[t]
        /\ n > 1 => Executed(t, n - 1)
    BY <2>1, NextIsPending
  <2>3. /\ Len(applied'[t]) = Len(applied[t]) + 1
        /\ applied'[t][Len(applied[t]) + 1].rec = n
    BY <2>1
  <2> HIDE DEF n
  <2>4. n <= k + 1
    <3>1. CASE n = 1
      BY <3>1
    <3>2. CASE n > 1
      <4>1. PICK i \in 1 .. Len(applied[t]) : applied[t][i].rec = n - 1
        BY <3>2, <2>2 DEF Executed
      <4>2. n - 1 \in 1 .. k
        BY <4>1 DEF IsNewest
      <4> QED BY <4>2, <2>2
    <3> QED BY <3>1, <3>2, <2>2
  <2>5. ASSUME NEW m \in Nat, k <= m, n <= m, NEW i \in 1 .. Len(applied'[t])
        PROVE  applied'[t][i].rec \in 1 .. m
    <3>1. CASE i = Len(applied[t]) + 1
      BY <3>1, <2>2, <2>3, <2>5
    <3>2. CASE i # Len(applied[t]) + 1
      <4>1. i \in 1 .. Len(applied[t])
        BY <3>2, <1>g, <2>3
      <4>2. applied'[t][i].rec \in 1 .. k
        BY <4>1, <1>g DEF IsNewest
      <4> QED BY <4>2, <2>5
    <3> QED BY <3>1, <3>2
  <2>6. CASE n <= k
    <3>1. k \in 0 .. logged'[t]
      BY <1>l DEF IsNewest
    <3>2. \A i \in 1 .. Len(applied'[t]) : applied'[t][i].rec \in 1 .. k
      BY <2>5, <2>6
    <3> QED BY <3>1, <3>2, <1>e DEF IsNewest
  <2>7. CASE n = k + 1
    <3>1. k + 1 \in 0 .. logged'[t] /\ k < logged[t]
      BY <1>l, <2>2, <2>7
    <3>2. \A i \in 1 .. Len(applied'[t]) : applied'[t][i].rec \in 1 .. k + 1
      BY <2>5, <2>7
    <3>3. Executed(t, k + 1)'
      <4>1. Len(applied[t]) + 1 \in 1 .. Len(applied'[t])
        BY <1>g, <2>3
      <4> QED BY <4>1, <2>3, <2>7 DEF Executed
    <3>4. \A m \in 1 .. k + 1 : Executed(t, m)'
      BY <1>e, <3>3
    <3> QED BY <3>1, <3>2, <3>4, <1>2 DEF IsNewest
  <2> QED BY <2>2, <2>4, <2>6, <2>7
<1> QED BY <1>1, <1>2

LEMMA OutboxInit == Init => OutboxInv
<1> SUFFICES ASSUME Init PROVE OutboxInv
  OBVIOUS
<1>1. ASSUME NEW t \in Tables PROVE IsNewest(t, 0)
  <2>1. applied[t] = <<>> /\ logged[t] = 0
    BY DEF Init
  <2> QED BY <2>1 DEF IsNewest
<1> QED BY <1>1, SerialInit DEF OutboxInv

LEMMA OutboxStep == OutboxInv /\ [SerialNext]_vars => OutboxInv'
<1> SUFFICES ASSUME OutboxInv, [SerialNext]_vars PROVE OutboxInv'
  OBVIOUS
<1>1. SerialInv' /\ [Next]_vars
  BY SerialStep DEF OutboxInv, SerialNext
<1>2. ASSUME NEW t \in Tables PROVE \E k \in Nat : IsNewest(t, k)'
  <2>1. PICK k \in Nat : IsNewest(t, k)
    BY DEF OutboxInv
  <2>2. IsNewest(t, k)' \/ IsNewest(t, k + 1)'
    BY <1>1, <2>1, NewestStep DEF OutboxInv
  <2>3. k + 1 \in Nat
    BY <2>1
  <2> QED BY <2>1, <2>2, <2>3
<1> QED BY <1>1, <1>2 DEF OutboxInv

(***************************************************************************)
(* The abstract state is well defined, and removes what it executed only.  *)
(***************************************************************************)
UniqueNewest == \A t \in Tables, k \in Nat : IsNewest(t, k) => Newest(t) = k

LEMMA NewestUnique == TypeInv => UniqueNewest
BY NewestIs DEF UniqueNewest

LEMMA RemovedUpToNewest ==
  OutboxInv => \A t \in Tables : Removed(t) <= Newest(t)
<1> SUFFICES ASSUME OutboxInv, NEW t \in Tables PROVE Removed(t) <= Newest(t)
  OBVIOUS
<1>1. PICK k \in Nat : IsNewest(t, k)
  BY DEF OutboxInv
<1>2. Newest(t) = k
  BY <1>1, NewestIs DEF OutboxInv, SerialInv
<1>3. Removed(t) \in Nat
  <2>1. logged[t] \in Nat /\ Len(store[t]) \in Nat /\ Len(store[t]) <= logged[t]
    BY DEF OutboxInv, SerialInv, TypeInv, TypeOK, StoreIsTail
  <2> QED BY <2>1 DEF Removed
<1>4. CASE Removed(t) = 0
  BY <1>2, <1>4
<1>5. CASE Removed(t) # 0
  <2>1. Executed(t, Removed(t))
    BY <1>3, <1>5 DEF OutboxInv, SerialInv, RemovedWereExecuted
  <2>2. PICK i \in 1 .. Len(applied[t]) : applied[t][i].rec = Removed(t)
    BY <2>1 DEF Executed
  <2> QED BY <2>2, <1>1, <1>2 DEF IsNewest
<1> QED BY <1>4, <1>5

(***************************************************************************)
(* Every step of the system is a step of the outbox or leaves it alone.    *)
(***************************************************************************)
LEMMA OutboxRefines ==
  OutboxInv /\ OutboxInv' /\ [SerialNext]_vars =>
    [OutboxOf!Next]_(OutboxOf!vars)
<1> SUFFICES ASSUME OutboxInv, OutboxInv', [SerialNext]_vars
             PROVE  OutboxOf!Next \/ UNCHANGED OutboxOf!vars
  OBVIOUS
<1> DEFINE executed == [t \in Tables |-> Newest(t)]
           removed == [t \in Tables |-> Removed(t)]
<1>t. /\ SerialInv /\ TypeInv /\ TypeInv' /\ StoreIsTail /\ [Next]_vars
      /\ logged \in [Tables -> Nat]
      /\ store \in [Tables -> Seq(Nat)]
      /\ applied \in [Tables -> Seq(Executions)]
      /\ applied' \in [Tables -> Seq(Executions)]
  BY DEF OutboxInv, SerialInv, SerialNext, TypeInv, TypeOK
<1>u. \A t \in Tables, m \in Nat : IsNewest(t, m)' => Newest(t)' = m
  <2>1. (TypeInv => UniqueNewest)'
    BY NewestUnique, PTL
  <2> QED BY <2>1, <1>t DEF UniqueNewest
<1>r. \A t \in Tables : Removed(t)' <= Newest(t)'
  <2>1. (OutboxInv => \A t \in Tables : Removed(t) <= Newest(t))'
    BY RemovedUpToNewest, PTL
  <2> QED BY <2>1
<1>n. ASSUME NEW t \in Tables
      PROVE  /\ Newest(t) \in 0 .. logged[t]
             /\ \/ Newest(t)' = Newest(t)
                \/ /\ applied'[t] # applied[t]
                   /\ Newest(t) < logged[t]
                   /\ Newest(t)' = Newest(t) + 1
  <2>1. PICK k \in Nat : IsNewest(t, k)
    BY DEF OutboxInv
  <2>2. Newest(t) = k
    BY <1>t, <2>1, NewestIs
  <2>3. \/ IsNewest(t, k)'
        \/ /\ applied'[t] # applied[t]
           /\ k < logged[t]
           /\ IsNewest(t, k + 1)'
    BY <1>t, <2>1, NewestStep
  <2>4. k + 1 \in Nat /\ k \in 0 .. logged[t]
    BY <2>1 DEF IsNewest
  <2> QED BY <2>1, <2>2, <2>3, <2>4, <1>u
<1>1. CASE UNCHANGED <<logged, store>>
  <2>1. removed' = removed
    BY <1>1 DEF Removed
  <2>2. CASE UNCHANGED applied
    <3>1. \A t \in Tables : Newest(t)' = Newest(t)
      BY <1>n, <2>2
    <3>2. executed' = executed
      BY <3>1
    <3> QED BY <1>1, <2>1, <3>2 DEF OutboxOf!vars
  <2>3. CASE ~ UNCHANGED applied
    <3>1. PICK t \in Tables : applied'[t] # applied[t]
      BY <1>t, <2>3
    <3>2. \A t1 \in Tables : t1 # t => applied'[t1] = applied[t1]
      <4>1. PICK s \in Instances : ExecuteRecord(s) \/ ExecuteFails(s)
        BY <2>3, <1>t, AppliedMoves
      <4>2. applied' = [applied EXCEPT ![table[s]] =
                          Append(@, [by |-> s, rec |-> batch[s][count[s] + 1]])]
        BY <4>1, <2>3 DEF ExecuteRecord, ExecuteFails
      <4> DEFINE seq == Append(applied[table[s]], [by |-> s, rec |-> batch[s][count[s] + 1]])
      <4>3. applied' = [applied EXCEPT ![table[s]] = seq]
        BY <4>2
      <4> HIDE DEF seq
      <4> QED BY <1>t, <4>3, <3>1
    <3>3. \A t1 \in Tables : t1 # t => Newest(t1)' = Newest(t1)
      BY <1>n, <3>2
    <3>4. CASE Newest(t)' = Newest(t)
      <4>1. executed' = executed
        BY <3>3, <3>4
      <4> QED BY <1>1, <2>1, <4>1 DEF OutboxOf!vars
    <3>5. CASE Newest(t)' # Newest(t)
      <4>1. Newest(t) < logged[t] /\ Newest(t)' = Newest(t) + 1
        BY <1>n, <3>5
      <4>2. executed' = [executed EXCEPT ![t] = @ + 1]
        BY <3>3, <4>1
      <4>3. executed[t] < logged[t]
        BY <4>1
      <4>4. OutboxOf!Execute(t)
        BY <1>1, <2>1, <4>2, <4>3 DEF OutboxOf!Execute
      <4> QED BY <4>4 DEF OutboxOf!Next
    <3> QED BY <3>4, <3>5
  <2> QED BY <2>2, <2>3
<1>2. CASE \E t \in Tables : Log(t)
  <2>1. PICK t \in Tables : Log(t)
    BY <1>2
  <2>2. /\ logged' = [logged EXCEPT ![t] = @ + 1]
        /\ store' = [store EXCEPT ![t] = Push(@, logged[t] + 1)]
        /\ applied' = applied
    BY <2>1 DEF Log
  <2>3. \A t1 \in Tables : Newest(t1)' = Newest(t1)
    BY <1>n, <2>2
  <2>4. executed' = executed
    BY <2>3
  <2>5. ASSUME NEW t1 \in Tables PROVE Removed(t1)' = Removed(t1)
    <3>1. store[t] \in Seq(Nat) /\ logged[t] + 1 \in Nat
      BY <1>t
    <3>2. Len(Push(store[t], logged[t] + 1)) = Len(store[t]) + 1
      BY <3>1, ListTypes
    <3>3. Len(store[t]) \in Nat /\ logged[t] \in Nat
      BY <1>t
    <3>4. CASE t1 = t
      <4>1. Removed(t1)' = (logged[t] + 1) - (Len(store[t]) + 1)
        BY <1>t, <2>2, <3>2, <3>4 DEF Removed
      <4> QED BY <4>1, <3>3, <3>4 DEF Removed
    <3>5. CASE t1 # t
      BY <1>t, <2>2, <3>5 DEF Removed
    <3> QED BY <3>4, <3>5
  <2>6. removed' = removed
    BY <2>5
  <2>7. OutboxOf!Log(t)
    BY <2>2, <2>4, <2>6 DEF OutboxOf!Log
  <2> QED BY <2>7 DEF OutboxOf!Next
<1>3. CASE \E s \in Instances : RemoveBatch(s)
  <2>1. PICK s \in Instances : RemoveBatch(s)
    BY <1>3
  <2> DEFINE t == table[s]
  <2>2. t \in Tables /\ logged' = logged /\ applied' = applied
    <3>1. logged' = logged /\ applied' = applied /\ pc[s] = "apply"
      BY <2>1 DEF RemoveBatch
    <3> QED BY <3>1, <1>t DEF TypeInv, TypeOK
  <2>r. \A t1 \in Tables :
          /\ count[s] \in Nat
          /\ Removed(t1) \in Nat
          /\ t1 = t => Removed(t1)' = Removed(t1) + count[s]
          /\ t1 # t => Removed(t1)' = Removed(t1)
    BY <2>1, <1>t, RemovedByBatch
  <2>3. /\ \A t1 \in Tables : t1 # t => Removed(t1)' = Removed(t1)
        /\ count[s] \in Nat
        /\ Removed(t) \in Nat
    BY <2>2, <2>r
  <2> HIDE DEF t
  <2>4. \A t1 \in Tables : Newest(t1)' = Newest(t1)
    BY <1>n, <2>2
  <2>5. executed' = executed
    BY <2>4
  <2>6. PICK n : n = Removed(t) + count[s]
    OBVIOUS
  <2>7. \A t1 \in Tables : Removed(t1)' = IF t1 = t THEN n ELSE Removed(t1)
    <3>1. (\A t1 \in Tables : t1 = t => Removed(t1)' = n)
      BY <2>6, <2>r
    <3> QED BY <3>1, <2>3
  <2>8. removed' = [removed EXCEPT ![t] = n]
    BY <2>2, <2>7
  <2>9. n \in removed[t] .. executed[t]
    <3>1. n <= Newest(t)
      <4>1. \A t1 \in Tables : t1 = t => n <= Newest(t1)
        BY <1>r, <2>4, <2>7
      <4> QED BY <4>1, <2>2
    <3>2. Newest(t) \in Int
      <4>1. logged[t] \in Nat /\ Newest(t) \in 0 .. logged[t]
        BY <1>n, <1>t, <2>2
      <4> QED BY <4>1
    <3>3. removed[t] = Removed(t) /\ executed[t] = Newest(t)
      BY <2>2
    <3> HIDE DEF removed, executed
    <3> QED BY <3>1, <3>2, <3>3, <2>3, <2>6
  <2>10. OutboxOf!Remove(t)
    BY <2>2, <2>5, <2>8, <2>9 DEF OutboxOf!Remove
  <2> QED BY <2>2, <2>10 DEF OutboxOf!Next
<1> QED BY <1>1, <1>2, <1>3, <1>t, ListsMove

LEMMA OutboxStarts == Init => OutboxOf!Init
<1> SUFFICES ASSUME Init PROVE OutboxOf!Init
  OBVIOUS
<1>1. OutboxInv /\ TypeInv
  BY OutboxInit DEF OutboxInv, SerialInv
<1>2. ASSUME NEW t \in Tables PROVE Newest(t) = 0 /\ Removed(t) = 0
  <2>1. applied[t] = <<>> /\ store[t] = <<>>
    BY DEF Init
  <2>2. logged[t] = 0
    BY DEF Init
  <2>3. IsNewest(t, 0)
    BY <2>1, <2>2 DEF IsNewest
  <2>4. Len(store[t]) = 0
    BY <2>1
  <2>5. Removed(t) = 0
    BY <2>2, <2>4 DEF Removed
  <2> QED BY <1>1, <2>3, <2>5, NewestIs
<1>3. logged = [t \in Tables |-> 0]
  BY DEF Init
<1> QED BY <1>2, <1>3 DEF OutboxOf!Init

(***************************************************************************)
(* With one running syncer at a time, the log store and the syncer are an  *)
(* at-least-once outbox: in order, without loss, across failures, stops,   *)
(* restarts and crashes.                                                   *)
(***************************************************************************)
THEOREM Refinement == SerialSpec => ImplementsOutbox
<1>1. SerialSpec => Init /\ [][SerialNext]_vars
  BY PTL DEF SerialSpec, SerialNext
<1> QED
  BY <1>1, OutboxStarts, OutboxInit, OutboxStep, OutboxRefines, PTL
     DEF ImplementsOutbox, OutboxOf!Spec

-----------------------------------------------------------------------------
(* What a step of another part of the process keeps: it changes nothing    *)
(* here but the map of the models and the counters of the bounds, or it    *)
(* ends the process.                                                       *)

Elsewhere ==
  /\ \/ UNCHANGED <<logged, store, applied, pc, todo, table, batch, count, quit, open,
                    current, request, stopping, overlapped>>
     \/ Die
  /\ models' \in SUBSET Tables
  /\ faults' \in Nat
  /\ crashes' \in Nat

LEMMA OutboxElsewhere == OutboxInv /\ Elsewhere => OutboxInv'
<1> SUFFICES ASSUME OutboxInv, Elsewhere PROVE OutboxInv'
  OBVIOUS
<1>1. TypeInv'
  <2>1. TypeInv /\ models' \in SUBSET Tables /\ faults' \in Nat /\ crashes' \in Nat
    BY DEF OutboxInv, SerialInv, Elsewhere
  <2>2. CASE Die
    BY <2>1, <2>2 DEF Die, TypeInv, TypeOK, IdleIsEmpty, PCs, RequestStates, UnderWay, durable
  <2>3. CASE UNCHANGED <<logged, store, applied, pc, todo, table, batch, count, quit, open,
                         current, request, stopping, overlapped>>
    BY <2>1, <2>3 DEF TypeInv, TypeOK, IdleIsEmpty, UnderWay
  <2> QED BY <2>2, <2>3 DEF Elsewhere
<1>2. UNCHANGED <<logged, store, applied>>
  BY DEF Elsewhere, Die, durable
<1>3. StoreIsTail' /\ RemovedWereExecuted' /\ NoGap'
  BY <1>2 DEF OutboxInv, SerialInv, StoreIsTail, Removed, RemovedWereExecuted, Executed, NoGap
<1>4. \A t \in Tables : \E k \in Nat : IsNewest(t, k)'
  BY <1>2 DEF OutboxInv, IsNewest, Executed
<1>5. OneRunning' /\ BatchIsPending' /\ BatchExecuted'
  BY DEF OutboxInv, SerialInv, Elsewhere, Die, OneRunning, Running, BatchIsPending,
     BatchExecuted, Executed, durable
<1> QED BY <1>1, <1>3, <1>4, <1>5 DEF OutboxInv, SerialInv
=============================================================================
