------------------------------ MODULE MCBrand ------------------------------
(* Model values for checking BrandReview: a filing that names the brand,   *)
(* one that only has its team, at another property, and one that is not    *)
(* open.                                                                   *)
EXTENDS BrandReview, TLC

BrandFilings ==
  {[names |-> {"b"}, team |-> "t", addr |-> 1, open |-> TRUE],
   [names |-> {}, team |-> "t", addr |-> 2, open |-> TRUE],
   [names |-> {}, team |-> "t", addr |-> 1, open |-> FALSE]}

\* Transactions that do not overlap: no review while a job is in progress.
BrandSerialSpec == BrandInit /\ [][BrandNext /\ (job' = NoJob \/ desk' \cup drawn' = {})]_brandVars

PermitSymmetry == Permutations(Permits)
=============================================================================
