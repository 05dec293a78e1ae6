---------------------------- MODULE Acquisition ----------------------------
(***************************************************************************)
(* The acquisition case of one parcel: the candidates that searches find   *)
(* of it, their review, the case's own updates, and the promotion of a     *)
(* candidate to an opportunity (src/app/services/acquisition_service.py,   *)
(* parcel_service.py).  Cases of different parcels share nothing.          *)
(*                                                                         *)
(* A review and a promotion load their candidate, then wait for the lock   *)
(* of the parcel's row and read the case under it; an update of the case   *)
(* takes no lock.  A column set to the value it was read with is not       *)
(* written.  Assignments, follow-ups and notes are left out.               *)
(***************************************************************************)
EXTENDS Naturals, FiniteSets

CONSTANTS
  SearchHits,    \* candidates of the parcel that searches may find
  MaxCaseJobs,   \* bound: reviews, promotions and updates
  MaxCaseDesks,  \* bound: those in progress at once
  MaxDeals       \* bound: opportunities made of the parcel

ASSUME CaseAssumption == MaxCaseJobs \in Nat /\ MaxCaseDesks \in Nat /\ MaxDeals \in Nat

VARIABLES
  hit,        \* nearby_parcel_candidates: review_status
  case,       \* parcel_acquisition_cases: status, promoted_deal_id (0: none)
  deal,       \* the deals promotions made: "none", "live" or soft-deleted
  caseDesk,   \* requests that have loaded their row and hold no lock
  keyHolder,  \* requests that hold the lock of the parcel's row: at most one
  caseJobs    \* bounded events so far

caseVars == <<hit, case, deal, caseDesk, keyHolder, caseJobs>>

ReviewStatus == {"candidate", "shortlisted", "dismissed"}
CaseStatus == ReviewStatus \cup {"contacted", "promoted"}

CaseInit ==
  /\ hit = [c \in SearchHits |-> "none"]
  /\ case = [status |-> "none", deal |-> 0]
  /\ deal = [i \in 1..MaxDeals |-> "none"]
  /\ caseDesk = {} /\ keyHolder = {}
  /\ caseJobs = 0

\* A search finds the parcel; the first one makes its case.
SearchFinds(c) ==
  /\ hit[c] = "none" /\ keyHolder = {}
  /\ hit' = [hit EXCEPT ![c] = "candidate"]
  /\ case' = IF case.status = "none" THEN [case EXCEPT !.status = "candidate"] ELSE case
  /\ UNCHANGED <<deal, caseDesk, keyHolder, caseJobs>>

OpenCase(kind, c, v) ==
  /\ caseJobs < MaxCaseJobs /\ Cardinality(caseDesk \cup keyHolder) < MaxCaseDesks
  /\ case.status # "none"
  /\ caseJobs' = caseJobs + 1
  /\ caseDesk' = caseDesk \cup
       {[kind |-> kind, hits |-> c, to |-> v, loaded |-> case, id |-> caseJobs + 1]}
  /\ UNCHANGED <<hit, case, deal, keyHolder>>

HitsFound == {c \in SearchHits : hit[c] # "none"}

\* review_nearby_parcel_candidate and promote_nearby_parcel_candidate_to_deal
\* load one candidate, update_acquisition_case (and an activity, which says
\* "contacted") all the candidates of the case.  A review writes its candidate only
\* where it says something else than the copy.
AskOf(c) ==
  /\ hit[c] # "none"
  /\ \/ OpenCase("promote", {c}, "promoted")
     \/ \E v \in ReviewStatus : OpenCase("review", {x \in {c} : hit[x] # v}, v)

AskOfCase == \E v \in CaseStatus : OpenCase("update", HitsFound, v)

\* Mutant: the case was loaded with the candidate, before the lock.
CaseReadEarly(d) == d.loaded

\* The case is first read under the lock.
CaseRead(d) == case

TakeKey(d) ==
  /\ d.kind # "update" /\ keyHolder = {}
  /\ caseDesk' = caseDesk \ {d}
  /\ keyHolder' = {[d EXCEPT !.loaded = CaseRead(d)]}
  /\ UNCHANGED <<hit, case, deal, caseJobs>>

CaseWritten(d, s) == IF s = d.loaded.status THEN case.status ELSE s

HitsWritten(d) == [c \in SearchHits |-> IF c \in d.hits THEN d.to ELSE hit[c]]

CommitReview(d) ==
  /\ d.kind = "review"
  /\ hit' = HitsWritten(d)
  /\ case' = [case EXCEPT !.status = CaseWritten(d, d.to)]
  /\ keyHolder' = {}
  /\ UNCHANGED <<deal, caseDesk, caseJobs>>

Existing(d) == d.loaded.deal # 0 /\ deal[d.loaded.deal] = "live"

\* The opportunity there is, a refusal, or a new opportunity.
CommitPromotion(d) ==
  /\ d.kind = "promote"
  /\ keyHolder' = {}
  /\ IF Existing(d) \/ d.loaded.status \notin {"shortlisted", "contacted"}
     THEN UNCHANGED <<case, deal>>
     ELSE \E i \in 1..MaxDeals :
            /\ deal[i] = "none" /\ \A j \in 1..(i - 1) : deal[j] # "none"
            /\ deal' = [deal EXCEPT ![i] = "live"]
            /\ case' = [status |-> "promoted", deal |-> i]
  /\ UNCHANGED <<hit, caseDesk, caseJobs>>

\* The candidates it had loaded follow, but not to "contacted" or "promoted".
CommitUpdate(d) ==
  /\ d.kind = "update"
  /\ case' = [case EXCEPT !.status = CaseWritten(d, d.to)]
  /\ hit' = IF d.to \in ReviewStatus THEN HitsWritten(d) ELSE hit
  /\ caseDesk' = caseDesk \ {d}
  /\ UNCHANGED <<deal, keyHolder, caseJobs>>

DropDeal(i) ==
  /\ deal[i] = "live"
  /\ deal' = [deal EXCEPT ![i] = "deleted"]
  /\ UNCHANGED <<hit, case, caseDesk, keyHolder, caseJobs>>

CaseNext ==
  \/ \E c \in SearchHits : SearchFinds(c) \/ AskOf(c)
  \/ AskOfCase
  \/ \E d \in caseDesk : TakeKey(d) \/ CommitUpdate(d)
  \/ \E d \in keyHolder : CommitReview(d) \/ CommitPromotion(d)
  \/ \E i \in 1..MaxDeals : DropDeal(i)

CaseSpec == CaseInit /\ [][CaseNext]_caseVars

(***************************************************************************)
(* Properties                                                              *)
(***************************************************************************)
CaseRow == [status: CaseStatus \cup {"none"}, deal: 0..MaxDeals]

\* The rows and the requests have the shapes the code gives them.
CaseTypeOK ==
  /\ hit \in [SearchHits -> ReviewStatus \cup {"none"}]
  /\ case \in CaseRow
  /\ deal \in [1..MaxDeals -> {"none", "live", "deleted"}]
  /\ caseDesk \cup keyHolder \subseteq
       [kind: {"review", "promote", "update"}, hits: SUBSET SearchHits, to: CaseStatus,
        loaded: CaseRow, id: 1..MaxCaseJobs]
  /\ caseJobs \in 0..MaxCaseJobs

\* "A repeated click or API retry returns the existing opportunity [...]
\* instead of [...] creating a duplicate" (docs/acquisition-pilot-checklist.md):
\* whichever candidates are promoted, and whatever reviews and updates overlap,
\* the only live opportunity made of a parcel is the one its case points at.
OneOpportunityPerParcel ==
  \A i \in 1..MaxDeals : deal[i] = "live" => case.deal = i
=============================================================================
