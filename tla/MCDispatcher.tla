---------------------------- MODULE MCDispatcher ----------------------------
(* Model values for checking Dispatcher.                                   *)
EXTENDS Dispatcher, TLC

Symmetry == Permutations(Dispatcher)
=============================================================================
