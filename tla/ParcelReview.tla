---------------------------- MODULE ParcelReview ----------------------------
(***************************************************************************)
(* An analyst's acceptance that the parcel reference of a permit means a   *)
(* parcel record (src/app/services/parcel_reference_review.py,             *)
(* parcel_reference.py), while ingestion changes the permit and the        *)
(* parcels (ingestion/service.py, parcel_ingestion.py).                    *)
(*                                                                         *)
(* Raw records are kept by content, so the raw record a form names stands  *)
(* for what the record says.  A review locks the permit's row and the      *)
(* parcel's, checks, and commits later; it locks no other parcel that it   *)
(* looks at.  Ingestion that writes a locked row waits for its commit.     *)
(***************************************************************************)
EXTENDS FiniteSets, Naturals

CONSTANTS
  Tracts,         \* parcel records of the source
  SheetSayings,   \* what the permit may say: ref, addr
  TractSayings,   \* what a parcel may say: ids (its own and its group's), addr
  NotActive,      \* the record is not ingested, or retired
  NoAddr,         \* state, city or street is missing
  MaxForms,       \* bound: forms opened
  MaxRewrites     \* bound: changes of the records

ASSUME TractAssumption ==
  /\ NotActive \notin SheetSayings \cup TractSayings
  /\ MaxForms \in Nat /\ MaxRewrites \in Nat

VARIABLES
  sheet,     \* what the permit says
  tract,     \* what each parcel says
  forms,     \* forms opened: the parcel, and what the analyst saw of both
  granting,  \* reviews that have passed their checks and not committed
  granted,   \* parcels of the permit's current accepted relationships
  opened, rewrites  \* bounded events so far

tractVars == <<sheet, tract, forms, granting, granted, opened, rewrites>>

TractInit ==
  /\ sheet = NotActive
  /\ tract = [x \in Tracts |-> NotActive]
  /\ forms = {} /\ granting = {} /\ granted = {}
  /\ opened = 0 /\ rewrites = 0

\* Mutant: the permit's row is read without its lock.
SheetLockedNever == FALSE

SheetLocked == granting # {}

TractLocked(x) == \E g \in granting : g.tract = x

\* Ingestion: created, corrected, retired or back.  The accepted relationship
\* is of another source system, so no expiry touches it.
SheetChanges(v) ==
  /\ v # sheet /\ ~SheetLocked /\ rewrites < MaxRewrites
  /\ sheet' = v
  /\ rewrites' = rewrites + 1
  /\ UNCHANGED <<tract, forms, granting, granted, opened>>

TractChanges(x, v) ==
  /\ v # tract[x] /\ ~TractLocked(x) /\ rewrites < MaxRewrites
  /\ tract' = [tract EXCEPT ![x] = v]
  /\ rewrites' = rewrites + 1
  /\ UNCHANGED <<sheet, forms, granting, granted, opened>>

\* permit_parcel_candidates
Referenced ==
  IF sheet = NotActive THEN {}
  ELSE {x \in Tracts : tract[x] # NotActive /\ sheet.ref \in tract[x].ids}

Corroborated(x) == sheet.addr # NoAddr /\ tract[x].addr = sheet.addr

OpenForm(x) ==
  /\ opened < MaxForms
  /\ x \in Referenced
  /\ forms' = forms \cup {[tract |-> x, saw |-> <<sheet, tract[x]>>]}
  /\ opened' = opened + 1
  /\ UNCHANGED <<sheet, tract, granting, granted, rewrites>>

\* accept_parcel_reference: a form may be submitted again and again.
Grant(f) ==
  /\ ~SheetLocked /\ ~TractLocked(f.tract)
  /\ <<sheet, tract[f.tract]>> = f.saw
  /\ Referenced = {f.tract}
  /\ Corroborated(f.tract)
  /\ granted \subseteq {f.tract}
  /\ granting' = granting \cup {f}
  /\ UNCHANGED <<sheet, tract, forms, granted, opened, rewrites>>

CommitGrant(f) ==
  /\ granting' = granting \ {f}
  /\ granted' = granted \cup {f.tract}
  /\ UNCHANGED <<sheet, tract, forms, opened, rewrites>>

TractNext ==
  \/ \E v \in SheetSayings \cup {NotActive} : SheetChanges(v)
  \/ \E x \in Tracts, v \in TractSayings \cup {NotActive} : TractChanges(x, v)
  \/ \E x \in Tracts : OpenForm(x)
  \/ \E f \in forms : Grant(f)
  \/ \E f \in granting : CommitGrant(f)

TractSpec == TractInit /\ [][TractNext]_tractVars

(***************************************************************************)
(* Properties                                                              *)
(***************************************************************************)
FormRows == [tract: Tracts, saw: SheetSayings \X TractSayings]

\* The records, the forms and the acceptances have the shapes the code gives them.
TractTypeOK ==
  /\ sheet \in SheetSayings \cup {NotActive}
  /\ tract \in [Tracts -> TractSayings \cup {NotActive}]
  /\ forms \subseteq FormRows /\ granting \subseteq forms
  /\ granted \subseteq Tracts
  /\ opened \in 0..MaxForms /\ rewrites \in 0..MaxRewrites

\* "Row locks serialize reviews and canonical record updates"
\* (docs/parcel-reference-resolution.md): an acceptance commits on the very
\* evidence the analyst saw, which corroborates it, and leaves the permit with
\* one accepted parcel, whatever is reviewed and ingested meanwhile.
AcceptedOnWhatWasSeen ==
  [][\A f \in granting \ granting' :
       /\ f.saw = <<sheet, tract[f.tract]>>
       /\ f.saw[1].ref \in f.saw[2].ids /\ f.saw[1].addr = f.saw[2].addr
       /\ granted' = {f.tract}]_tractVars
=============================================================================
