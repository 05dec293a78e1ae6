--------------------------- MODULE PlanningLinks ---------------------------
(***************************************************************************)
(* The links between planning records and permits that quote each other's  *)
(* references (_reconcile_planning_permit_links in ingestion/service.py).  *)
(*                                                                         *)
(* Permits and planning records come from different sources, so a permit   *)
(* transaction and a planning transaction may overlap.  Each observation,  *)
(* changed or not, recomputes the links of its record against what the     *)
(* other side has committed, and expires the others; a transaction is two  *)
(* steps, what it reads and what it writes and commits.  A relationship    *)
(* row that is already current is not written again.                       *)
(***************************************************************************)
EXTENDS Naturals

CONSTANTS
  Plans, Papers,   \* planning records and permits
  Sayings,         \* what a record may say: ref, ext, city
  NoRef, NoCity,   \* no reference number; city or state missing
  Unsaid,          \* the record has not been ingested
  NoWork,          \* no transaction in progress on this side
  MaxLinkJobs      \* bound: transactions

ASSUME LinkAssumption ==
  /\ Unsaid \notin Sayings
  /\ Plans \cap Papers = {}
  /\ MaxLinkJobs \in Nat

VARIABLES
  says,        \* the stored record of each plan and permit
  standing,    \* permits that are is_active
  link,        \* roles of the current relationships of each plan and permit
  work,        \* the transaction in progress of each side
  settled,     \* history: pairs whose last transaction ran with none overlapping
  skipped,     \* history: pairs whose last transaction returned early, without a city
  alone,       \* history: sides whose transaction nothing has overlapped
  linkJobs     \* bounded events so far

linkVars == <<says, standing, link, work, settled, skipped, alone, linkJobs>>

Side == {"plan", "permit"}
Couple == Plans \X Papers
Role == {"canonical", "external"}
Other(s) == IF s = "plan" THEN "permit" ELSE "plan"
Records(s) == IF s = "plan" THEN Plans ELSE Papers
OfRecord(x) == {c \in Couple : x \in {c[1], c[2]}}

LinkInit ==
  /\ says = [x \in Plans \cup Papers |-> Unsaid]
  /\ standing = {}
  /\ link = [c \in Couple |-> {}]
  /\ work = [s \in Side |-> NoWork]
  /\ settled = {} /\ skipped = {} /\ alone = {}
  /\ linkJobs = 0

\* _same_planning_scope
SameScope(a, b) == a.city # NoCity /\ a.city = b.city

Canonical(a, b) == a.ref # NoRef /\ a.ref = b.ref

\* The roles a pair of records should be linked by: an external reference
\* counts only where the reference numbers do not agree.
Wanted(a, b) ==
  IF a = Unsaid \/ b = Unsaid THEN {}
  ELSE IF ~SameScope(a, b) THEN {}
  ELSE IF Canonical(a, b) THEN {"canonical"}
  ELSE IF a.ext \cap b.ext # {} THEN {"external"} ELSE {}

\* Mutant: retired permits are matched too.
CandidatesEver(s) == Records(Other(s))

\* The records of the other side that can match: planning records never
\* retire, permits do.
Candidates(s) == IF s = "plan" THEN standing ELSE Plans

\* What record x, saying v, should be linked by, given what is committed.
Keeps(s, x, v) ==
  [c \in Couple |->
     LET y == IF s = "plan" THEN c[2] ELSE c[1]
     IN  IF x \in {c[1], c[2]} /\ y \in Candidates(s) THEN Wanted(v, says[y]) ELSE {}]

\* Mutant: only canonical links are looked at for expiry.
StaleCanonical(s, x, v) ==
  [c \in Couple |-> IF x \in {c[1], c[2]}
                    THEN (link[c] \cap {"canonical"}) \ Keeps(s, x, v)[c] ELSE {}]

\* _expire_stale_planning_permit_links
Stale(s, x, v) ==
  [c \in Couple |-> IF x \in {c[1], c[2]} THEN link[c] \ Keeps(s, x, v)[c] ELSE {}]

None == [c \in Couple |-> {}]

\* A record of side s is observed.  With no city the reconciliation returns
\* before it looks at anything.
Reconcile(s, x, v) ==
  /\ work[s] = NoWork /\ linkJobs < MaxLinkJobs
  /\ x \in Records(s)
  /\ work' = [work EXCEPT ![s] =
       [record |-> x, says |-> v,
        add  |-> IF v.city = NoCity THEN None
                 ELSE [c \in Couple |-> Keeps(s, x, v)[c] \ link[c]],
        drop |-> IF v.city = NoCity THEN None ELSE Stale(s, x, v)]]
  /\ alone' = IF work[Other(s)] = NoWork THEN alone \cup {s} ELSE alone \ Side
  /\ linkJobs' = linkJobs + 1
  /\ UNCHANGED <<says, standing, link, settled, skipped>>

\* The relationships of a pair are settled when its last transaction ran alone,
\* also if it was one that, with no city, left them as they were.
Finish(s) ==
  /\ work[s] # NoWork
  /\ LET w == work[s] IN
       /\ says' = [says EXCEPT ![w.record] = w.says]
       /\ standing' = standing \cup ({w.record} \cap Papers)
       /\ link' = [c \in Couple |-> (link[c] \cup w.add[c]) \ w.drop[c]]
       /\ settled' = IF s \in alone THEN settled \cup OfRecord(w.record)
                     ELSE settled \ OfRecord(w.record)
       /\ skipped' = IF w.says.city = NoCity THEN skipped \cup OfRecord(w.record)
                     ELSE skipped \ OfRecord(w.record)
  /\ work' = [work EXCEPT ![s] = NoWork]
  /\ alone' = alone \ {s}
  /\ UNCHANGED linkJobs

\* A completed snapshot no longer holds the permit.  Its links are left to the
\* next observation of the planning record.
Retire(x) ==
  /\ x \in standing /\ work["permit"] = NoWork /\ linkJobs < MaxLinkJobs
  /\ standing' = standing \ {x}
  /\ settled' = settled \ OfRecord(x)
  /\ alone' = alone \ {"plan"}
  /\ linkJobs' = linkJobs + 1
  /\ UNCHANGED <<says, link, work, skipped>>

LinkNext ==
  \/ \E s \in Side, x \in Plans \cup Papers, v \in Sayings : Reconcile(s, x, v)
  \/ \E s \in Side : Finish(s)
  \/ \E x \in Papers : Retire(x)

LinkSpec == LinkInit /\ [][LinkNext]_linkVars

(***************************************************************************)
(* Properties                                                              *)
(***************************************************************************)
\* Records, roles and transactions have the shapes the code gives them.
LinkTypeOK ==
  /\ says \in [Plans \cup Papers -> Sayings \cup {Unsaid}]
  /\ standing \subseteq Papers
  /\ link \in [Couple -> SUBSET Role]
  /\ \A s \in Side : work[s] # NoWork =>
       work[s] \in [record: Records(s), says: Sayings,
                    add: [Couple -> SUBSET Role], drop: [Couple -> SUBSET Role]]
  /\ settled \subseteq Couple /\ skipped \subseteq Couple /\ alone \subseteq Side
  /\ linkJobs \in 0..MaxLinkJobs

\* "Link exact official references in either ingestion order": whichever side
\* came first, and whatever was linked before, a pair whose last transaction
\* overlapped none of the other side has exactly the link its records call for.
\* Not so if that transaction observed a record without a city or state: it
\* returns before it links or expires anything, and a link of before stays
\* current (_reconcile_planning_permit_links), although the docs say that the
\* former edge is closed (docs/planning_intelligence.md:100-102).
LinkedInEitherOrder ==
  \A c \in settled \ skipped :
    link[c] = IF c[2] \in standing THEN Wanted(says[c[1]], says[c[2]]) ELSE {}
=============================================================================
