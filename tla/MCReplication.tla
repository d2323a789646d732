--------------------------- MODULE MCReplication ---------------------------
(***************************************************************************)
(* A small instance of Replication for TLC.                                *)
(***************************************************************************)
EXTENDS Replication, TLC

CONSTANTS t1, w1, w2, s1, s2, r1

OneTable == {t1}
TwoWrappers == {w1, w2}
OneSyncer == {s1}
TwoSyncers == {s1, s2}
OneRequest == {r1}
NoRequest == {}

\* Tables are interchangeable, and so are wrappers, and syncers.
Symmetry ==
  Permutations(Tables) \cup Permutations(Wrappers) \cup Permutations(Instances)
=============================================================================
