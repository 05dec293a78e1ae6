-------------------------- MODULE MCSnapshotIngest --------------------------
(* Model values for checking SnapshotIngest.                               *)
EXTENDS SnapshotIngest, TLC

Symmetry == Permutations(Snapshot) \cup Permutations(Caller)
=============================================================================
