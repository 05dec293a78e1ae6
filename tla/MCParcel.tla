------------------------------ MODULE MCParcel ------------------------------
(* Model values for checking ParcelReview: a reference that a parcel has as *)
(* its own and one that it shares as its group's, and an address to miss.   *)
EXTENDS ParcelReview

ParcelSheets == {[ref |-> 1, addr |-> 1], [ref |-> 2, addr |-> 1]}

ParcelTracts ==
  {[ids |-> {1}, addr |-> 1], [ids |-> {2}, addr |-> 1], [ids |-> {1, 2}, addr |-> NoAddr]}
=============================================================================
