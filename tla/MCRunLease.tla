----------------------------- MODULE MCRunLease -----------------------------
(* Model values for checking RunLease.                                     *)
EXTENDS RunLease, TLC

WorkerSymmetry == Permutations(Worker)
SlotSymmetry == Permutations(Slot)
Symmetry == WorkerSymmetry \cup SlotSymmetry
=============================================================================
