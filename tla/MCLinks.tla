------------------------------ MODULE MCLinks ------------------------------
(* Model values for checking PlanningLinks: records that agree on the       *)
(* reference number, that only quote each other, and that lack a city.      *)
EXTENDS PlanningLinks

LinkSayings ==
  {[ref |-> 1, ext |-> {1}, city |-> "c"],
   [ref |-> NoRef, ext |-> {1}, city |-> "c"],
   [ref |-> 1, ext |-> {}, city |-> NoCity]}
=============================================================================
