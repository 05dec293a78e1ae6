---------------------------- MODULE FencedSource ----------------------------
(***************************************************************************)
(* What the run lease promises to the rest of the system, with no rows, no *)
(* clock and no workers: a source has at most one holder at a time, every  *)
(* holder has a token larger than all earlier ones, only the holder writes,*)
(* and what was written stays.                                             *)
(***************************************************************************)
EXTENDS Integers

CONSTANTS MaxRuns, Page, Slot

VARIABLES
  token,    \* the last token handed out
  holder,   \* the token that may write, 0 for none
  stored,   \* what has been written to each page
  writer    \* the token that last wrote each page

vars == <<token, holder, stored, writer>>

Init ==
  /\ token = 0
  /\ holder = 0
  /\ stored = [p \in Page |-> {}]
  /\ writer = [p \in Page |-> 0]

\* A free source is given out with a new token.
Acquire ==
  /\ holder = 0
  /\ token < MaxRuns
  /\ token' = token + 1
  /\ holder' = token + 1
  /\ UNCHANGED <<stored, writer>>

\* The holder adds to a page, and may give the source up in the same step.
Write ==
  /\ holder # 0
  /\ \E p \in Page, slots \in SUBSET Slot :
       /\ stored' = [stored EXCEPT ![p] = @ \cup slots]
       /\ writer' = [writer EXCEPT ![p] = holder]
  /\ holder' \in {holder, 0}
  /\ UNCHANGED token

\* The source becomes free: given up, or taken from a silent holder.
Release ==
  /\ holder' = 0
  /\ UNCHANGED <<token, stored, writer>>

Next == Acquire \/ Write \/ Release

Spec == Init /\ [][Next]_vars
=============================================================================
