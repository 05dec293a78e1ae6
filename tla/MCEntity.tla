------------------------------ MODULE MCEntity ------------------------------
(* Model values for checking EntityMerge: two names, and one given with the *)
(* other as an alias.                                                       *)
EXTENDS EntityMerge

EntityMentions ==
  {[name |-> "n", also |-> {}], [name |-> "o", also |-> {}], [name |-> "n", also |-> {"o"}]}
=============================================================================
