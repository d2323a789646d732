------------------------------ MODULE MCSyncer ------------------------------
(***************************************************************************)
(* Small instances of Syncer for TLC.                                      *)
(***************************************************************************)
EXTENDS Syncer, TLC

CONSTANTS t1, t2, s1, s2, r1, r2

OneTable == {t1}
TwoTables == {t1, t2}

OneRecord == [t \in Tables |-> 1]
ThreeRecords == [t \in Tables |-> 3]
TwoAndOneRecords == [t \in Tables |-> IF t = t1 THEN 2 ELSE 1]

OneSyncer == {s1}
TwoSyncers == {s1, s2}

OneRequest == {r1}
TwoRequests == {r1, r2}

\* Syncers are interchangeable, and so are tables: no safety property of
\* Syncer names one of them.
Symmetry == Permutations(Instances) \cup Permutations(Tables)
=============================================================================
