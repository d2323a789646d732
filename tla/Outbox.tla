------------------------------- MODULE Outbox -------------------------------
(***************************************************************************)
(* What the log store and the syncer promise together, one log per table:  *)
(* the records logged for a table are executed on the target in log order, *)
(* each of them at least once, and a record leaves the log store only      *)
(* after it was executed.                                                  *)
(*                                                                         *)
(* Records are numbered 1, 2, 3, ... in the order they are logged, so a    *)
(* table is described by three counters: how many records were logged, up  *)
(* to which one they were executed, and up to which one they were removed. *)
(* Executing a record again is a stuttering step: the promise is at least  *)
(* once, never exactly once.                                               *)
(***************************************************************************)
EXTENDS Naturals

CONSTANT Tables

VARIABLES
  logged,     \* logged[t]: records 1..logged[t] of t have been logged
  executed,   \* executed[t]: records 1..executed[t] have run on the target
  removed     \* removed[t]: records 1..removed[t] have left the log store

vars == <<logged, executed, removed>>

Init ==
  /\ logged = [t \in Tables |-> 0]
  /\ executed = [t \in Tables |-> 0]
  /\ removed = [t \in Tables |-> 0]

Log(t) ==
  /\ logged' = [logged EXCEPT ![t] = @ + 1]
  /\ UNCHANGED <<executed, removed>>

\* The next record of the table runs on the target, never a later one.
Execute(t) ==
  /\ executed[t] < logged[t]
  /\ executed' = [executed EXCEPT ![t] = @ + 1]
  /\ UNCHANGED <<logged, removed>>

\* Any number of executed records leave the log store, oldest first.
Remove(t) ==
  /\ \E n \in removed[t] .. executed[t] :
       removed' = [removed EXCEPT ![t] = n]
  /\ UNCHANGED <<logged, executed>>

Next == \E t \in Tables : Log(t) \/ Execute(t) \/ Remove(t)

Spec == Init /\ [][Next]_vars
=============================================================================
