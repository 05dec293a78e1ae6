---------------------------- MODULE BrandReview ----------------------------
(***************************************************************************)
(* Brand matches of permits: detection and retirement by ingestion,        *)
(* verdicts by reviewers, the party fingerprints that confirmed matches    *)
(* train, and the edges of the knowledge graph                             *)
(* (src/app/services/brand_intelligence.py, ingestion/service.py).         *)
(*                                                                         *)
(* Sessions are made with autoflush=False (src/app/db.py:28): a query sees *)
(* what was flushed, not what the same transaction has only assigned.      *)
(* A column is written where it differs from the copy that was loaded.     *)
(* Transactions are READ COMMITTED.  An ingestion transaction is two       *)
(* steps, what it loads and, from its first flush on, what it writes and   *)
(* commits.  A review is three: it loads the match, reads the evidence and *)
(* the edges, and commits.  One ingestion or backfill transaction runs at  *)
(* a time.                                                                 *)
(*                                                                         *)
(* The alias rules, contexts and confidences that make an alias fire are   *)
(* abstracted to the brands a filing names; a team stands for two or more  *)
(* parties in distinct roles and one state, what an inference needs.       *)
(***************************************************************************)
EXTENDS Naturals, FiniteSets

CONSTANTS
  Permits, Brands, Teams, Addrs,
  Filings,     \* what a publisher may say of a permit: names, team, addr, open
  NoTeam,      \* no team: parties missing, or no retail context
  NoFiling,    \* the permit has not been ingested
  NoJob,       \* no ingestion transaction in progress
  MaxJobs,     \* bound: ingestion transactions
  MaxReviews,  \* bound: reviews
  MaxDesks     \* bound: reviews in progress at once

ASSUME BrandAssumption ==
  /\ Filings \subseteq [names: SUBSET Brands, team: Teams \cup {NoTeam},
                        addr: Addrs, open: BOOLEAN]
  /\ NoTeam \notin Teams /\ NoFiling \notin Filings
  /\ IsFiniteSet(Permits)
  /\ MaxJobs \in Nat /\ MaxReviews \in Nat /\ MaxDesks \in Nat

VARIABLES
  filing, live,  \* permit_records: the filing last stored, is_active
  match,         \* permit_brand_matches: review_status, how it was matched
  prints, rows,  \* brand_party_fingerprints: the permits each active row counts,
                 \* and the rows there are
  edge,          \* prospective_company relationships: absent, past, or current
                 \* as written by the source's projection or by a review
  job,           \* the ingestion transaction in progress
  desk, drawn,   \* the reviews in progress that have loaded their match, and
                 \* those that have also read
  named, upheld, \* history: brands a permit's filings named; pairs confirmed
  slipped,       \* history: retracted pairs that a review let stand since
  jobs, reviews  \* bounded events so far

brandVars == <<filing, live, match, prints, rows, edge, job, desk, drawn, named, upheld,
  slipped, jobs, reviews>>

Pair == Permits \X Brands
Standing == {"candidate", "confirmed"}
Verdict == {"confirmed", "dismissed", "candidate"}
Status == Verdict \cup {"none", "retracted"}

BrandInit ==
  /\ filing = [p \in Permits |-> NoFiling]
  /\ live = [p \in Permits |-> FALSE]
  /\ match = [m \in Pair |-> [status |-> "none", how |-> "no"]]
  /\ prints = [b \in Brands |-> [t \in Teams |-> {}]]
  /\ rows = {}
  /\ edge = [m \in Pair |-> [a \in Addrs |-> "absent"]]
  /\ job = NoJob
  /\ desk = {} /\ drawn = {}
  /\ named = [p \in Permits |-> {}]
  /\ upheld = {} /\ slipped = {}
  /\ jobs = 0 /\ reviews = 0

(***************************************************************************)
(* Detection                                                               *)
(***************************************************************************)
\* A team infers a brand from two permits, and only when no other brand's
\* fingerprints know it too.
Infers(f) ==
  LET known == {b \in Brands : f.team # NoTeam /\ Cardinality(prints[b][f.team]) >= 2}
  IN  IF Cardinality(known) = 1 THEN known ELSE {}

\* A name in the filing outranks an inference.  A filing that is not open
\* (terminal status, other stage, no address) is not looked at.
Detect(f) ==
  [b \in Brands |-> IF ~f.open THEN "no"
                    ELSE IF b \in f.names THEN "direct"
                    ELSE IF b \in Infers(f) THEN "party" ELSE "no"]

\* Mutant: takes confirmed matches back too.
RetractsAll(j) ==
  {b \in Brands : /\ j.kind = "retire" \/ j.filing.open
                  /\ j.found[b] = "no"
                  /\ j.seen[b] \in Standing}

\* The candidates an observation or a retirement takes back.  The early
\* returns of the detection come before it gets there.
Retracts(j) ==
  {b \in Brands : /\ j.kind = "retire" \/ j.filing.open
                  /\ j.found[b] = "no"
                  /\ j.seen[b] = "candidate"}

Found(j) == {b \in Brands : j.found[b] # "no"}

(***************************************************************************)
(* Fingerprints: the confirmed, direct matches m of brand b whose permits, *)
(* with filings f, are active in A.  A row that loses all support stays,   *)
(* inactive: it counts nothing.                                            *)
(***************************************************************************)
\* Mutant: matches train before they are confirmed, too.
TrainsUnconfirmed(m, f, b, t, A) ==
  {p \in A : /\ m[<<p, b>>] \in [status: {"confirmed", "candidate"}, how: {"direct"}]
             /\ f[p].team = t}

Trains(m, f, b, t, A) ==
  {p \in A : /\ m[<<p, b>>] \in [status: {"confirmed"}, how: {"direct"}]
             /\ f[p].team = t}

Rebuilt(m, f, b, A) == [t \in Teams |-> Trains(m, f, b, t, A)]

Active == {p \in Permits : live[p]}

(***************************************************************************)
(* An ingestion transaction: a changed filing, a permit that comes back    *)
(* with the filing it had, a backfill of an active permit, or a retirement *)
(* from a completed snapshot.  (The same filing of an active permit is not *)
(* looked at again.)                                                       *)
(***************************************************************************)
IngestLoad(p, kind, f) ==
  /\ job = NoJob /\ jobs < MaxJobs
  /\ CASE kind = "changed"  -> f # filing[p]
       [] kind = "back"     -> f = filing[p] /\ ~live[p]
       [] kind = "backfill" -> f = filing[p] /\ live[p] /\ f.open
       [] kind = "retire"   -> f = filing[p] /\ live[p]
  /\ job' = [kind |-> kind, permit |-> p, filing |-> f,
             seen  |-> [b \in Brands |-> match[<<p, b>>].status],
             found |-> IF kind = "retire" THEN [b \in Brands |-> "no"] ELSE Detect(f)]
  /\ jobs' = jobs + 1
  /\ UNCHANGED <<filing, live, match, prints, rows, edge, desk, drawn, named, upheld, slipped,
                 reviews>>

\* The status is written only where this transaction changes its own copy.
Rematched(j) ==
  [m \in Pair |->
    IF m[1] # j.permit THEN match[m]
    ELSE IF m[2] \in Retracts(j) THEN [match[m] EXCEPT !.status = "retracted"]
    ELSE IF m[2] \in Found(j)
      THEN [status |-> IF j.seen[m[2]] \in {"none", "retracted"}
                       THEN "candidate" ELSE match[m].status,
            how |-> j.found[m[2]]]
    ELSE match[m]]

\* Mutant: a backfill that only retracted something does not project.
ProjectsFound(j) ==
  \/ j.kind \in {"changed", "back"}
  \/ j.kind = "backfill" /\ Found(j) # {}

\* A backfill projects only permits it detected or retracted something of.
Projects(j) ==
  \/ j.kind \in {"changed", "back"}
  \/ j.kind = "backfill" /\ Found(j) \cup Retracts(j) # {}

Expires(j) == j.kind = "retire" \/ Projects(j)

\* Every current edge of the permit is expired; those of standing matches are
\* then written again, at the property of the filing.
Reprojected(j) ==
  [m \in Pair |-> [a \in Addrs |->
    IF m[1] # j.permit \/ ~Expires(j) THEN edge[m][a]
    ELSE IF Projects(j) /\ a = j.filing.addr /\ Rematched(j)[m].status \in Standing
      THEN "source"
    ELSE IF edge[m][a] = "absent" THEN "absent" ELSE "past"]]

\* Brands whose fingerprints are rebuilt: those confirmed for the permit when
\* it retires or comes back.  A changed filing rebuilds none.
Rebuilds(j) ==
  CASE j.kind = "retire" -> {b \in Brands : j.seen[b] = "confirmed"}
    [] j.kind = "back"   -> {b \in Brands : match[<<j.permit, b>>].status = "confirmed"}
    [] OTHER             -> {}

\* What the first rebuild's query sees of is_active: a detection that ran has
\* flushed the permit; a retirement has not, and neither has an early return.
FlushedActive(j) ==
  IF j.kind = "back" /\ j.filing.open THEN Active \cup {j.permit} ELSE Active

\* Waits for the reviewers that hold a row it writes.
IngestCommit ==
  /\ job # NoJob
  /\ \A d \in drawn : d.permit = job.permit /\ d.writes =>
       d.brand \notin Found(job) \cup Retracts(job)
  /\ match' = Rematched(job)
  /\ edge' = Reprojected(job)
  /\ filing' = [filing EXCEPT ![job.permit] = job.filing]
  /\ live' = [live EXCEPT ![job.permit] = (job.kind # "retire")]
  /\ \E first \in Rebuilds(job) \cup {CHOOSE b \in Brands : TRUE} :
       /\ Rebuilds(job) # {} => first \in Rebuilds(job)
       /\ prints' = [b \in Brands |->
            IF b \notin Rebuilds(job) THEN prints[b]
            ELSE Rebuilt(Rematched(job), filing, b,
                         IF b = first THEN FlushedActive(job)
                         ELSE {p \in Permits : live'[p]})]
  /\ rows' = rows \cup {k \in Brands \X Teams : prints'[k[1]][k[2]] # {}}
  /\ named' = [named EXCEPT ![job.permit] = @ \cup job.filing.names]
  /\ slipped' = IF Expires(job) THEN {m \in slipped : m[1] # job.permit} ELSE slipped
  /\ job' = NoJob
  /\ UNCHANGED <<desk, drawn, upheld, jobs, reviews>>

(***************************************************************************)
(* A review.  It loads the match with its permit; flushes the verdict,     *)
(* counts the brand's evidence and reads the edges of the match (in one    *)
(* step: nothing written depends on both); then it commits.  A fingerprint *)
(* row that another transaction inserted meanwhile fails it.  A verdict    *)
(* that is what was loaded writes nothing, and locks no match.             *)
(***************************************************************************)
Taken == {d.at : d \in desk \cup drawn}

ReviewLoad(p, b, v, at) ==
  /\ reviews < MaxReviews /\ at \notin Taken /\ 1..(at - 1) \subseteq Taken
  /\ match[<<p, b>>].status # "none"
  /\ desk' = desk \cup
       {[at |-> at, permit |-> p, brand |-> b, verdict |-> v,
         writes |-> v # match[<<p, b>>].status, team |-> filing[p].team]}
  /\ reviews' = reviews + 1
  /\ UNCHANGED <<filing, live, match, prints, rows, edge, job, drawn, named, upheld, slipped, jobs>>

\* What the review's query finds: its own write, if it wrote.
Flushed(d) ==
  IF d.writes THEN [match EXCEPT ![<<d.permit, d.brand>>].status = d.verdict] ELSE match

\* The permit it has loaded is not read again.
ReviewRead(d) ==
  /\ d.writes => \A e \in drawn : e.writes => <<e.permit, e.brand>> # <<d.permit, d.brand>>
  /\ desk' = desk \ {d}
  /\ LET row == edge[<<d.permit, d.brand>>] IN
     drawn' = drawn \cup
       {[at |-> d.at, permit |-> d.permit, brand |-> d.brand, verdict |-> d.verdict,
         writes |-> d.writes,
         count |-> Rebuilt(Flushed(d), [filing EXCEPT ![d.permit].team = d.team], d.brand, Active),
         known |-> {t \in Teams : <<d.brand, t>> \in rows},
         held |-> prints[d.brand],
         flips |-> {a \in Addrs : IF d.verdict \in Standing THEN row[a] = "past"
                                  ELSE row[a] \in {"source", "review"}}]}
  /\ UNCHANGED <<filing, live, match, prints, rows, edge, job, named, upheld, slipped, jobs, reviews>>

Inserted(d) == {t \in Teams \ d.known : d.count[t] # {}}

\* A row whose support is what was loaded is left as it now is, and one that
\* was active then and is not any more stays so.
Recounted(d, t, now) ==
  CASE t \in Inserted(d)  -> d.count[t]
    [] t \notin d.known \/ d.count[t] = d.held[t] \/ (d.held[t] # {} /\ now = {}) -> now
    [] OTHER -> d.count[t]

\* The edges there were are made current, or past, where they were not so loaded.
Judged(d, a) ==
  IF a \notin d.flips THEN edge[<<d.permit, d.brand>>][a]
  ELSE IF d.verdict \in Standing THEN "review" ELSE "past"

\* A retraction that came between escapes a review that states again what it
\* loaded: the match stays retracted, and its edges stand.
Slips(d) ==
  /\ ~d.writes /\ d.verdict \in Standing
  /\ match[<<d.permit, d.brand>>].status = "retracted"

ReviewCommit(d) ==
  /\ drawn' = drawn \ {d}
  /\ IF \E t \in Inserted(d) : <<d.brand, t>> \in rows
     THEN UNCHANGED <<match, prints, rows, edge, upheld, slipped>>
     ELSE /\ match' = Flushed(d)
          /\ prints' = [prints EXCEPT ![d.brand] = [t \in Teams |-> Recounted(d, t, @[t])]]
          /\ rows' = rows \cup {<<d.brand, t>> : t \in Inserted(d)}
          /\ edge' = [edge EXCEPT ![<<d.permit, d.brand>>] = [a \in Addrs |-> Judged(d, a)]]
          /\ upheld' = IF d.verdict = "confirmed"
                       THEN upheld \cup {<<d.permit, d.brand>>} ELSE upheld
          /\ slipped' = IF Slips(d) THEN slipped \cup {<<d.permit, d.brand>>} ELSE slipped
  /\ UNCHANGED <<filing, live, job, desk, named, jobs, reviews>>

BrandNext ==
  \/ \E p \in Permits, k \in {"changed", "back", "backfill", "retire"}, f \in Filings :
       IngestLoad(p, k, f)
  \/ IngestCommit
  \/ \E p \in Permits, b \in Brands, v \in Verdict, at \in 1..MaxDesks :
       ReviewLoad(p, b, v, at)
  \/ \E d \in desk : ReviewRead(d)
  \/ \E d \in drawn : ReviewCommit(d)

BrandSpec == BrandInit /\ [][BrandNext]_brandVars

(***************************************************************************)
(* Properties                                                              *)
(***************************************************************************)
\* Rows, drafts and histories have the shapes the code gives them.
BrandTypeOK ==
  /\ filing \in [Permits -> Filings \cup {NoFiling}]
  /\ live \in [Permits -> BOOLEAN]
  /\ \A p \in Permits : live[p] => filing[p] # NoFiling
  /\ match \in [Pair -> [status: Status, how: {"no", "direct", "party"}]]
  /\ \A m \in Pair : match[m].status = "none" <=> match[m].how = "no"
  /\ prints \in [Brands -> [Teams -> SUBSET Permits]]
  /\ rows \subseteq Brands \X Teams
  /\ edge \in [Pair -> [Addrs -> {"absent", "past", "source", "review"}]]
  /\ job # NoJob => job \in [kind: {"changed", "back", "backfill", "retire"},
       permit: Permits, filing: Filings, seen: [Brands -> Status],
       found: [Brands -> {"no", "direct", "party"}]]
  /\ desk \subseteq [at: Nat, permit: Permits, brand: Brands, verdict: Verdict, writes: BOOLEAN,
                   team: Teams \cup {NoTeam}]
  /\ drawn \subseteq [at: Nat, permit: Permits, brand: Brands, verdict: Verdict, writes: BOOLEAN,
                    count: [Teams -> SUBSET Permits], held: [Teams -> SUBSET Permits],
                    known: SUBSET Teams, flips: SUBSET Addrs]
  /\ named \in [Permits -> SUBSET Brands]
  /\ upheld \subseteq Pair /\ slipped \subseteq Pair
  /\ jobs \in 0..MaxJobs /\ reviews \in 0..MaxReviews

\* Inference does not feed itself: whatever overlaps, a permit counts as a
\* brand's evidence only if one of its filings named the brand and a reviewer
\* confirmed that match (rebuild_brand_party_fingerprints).
FingerprintsRestOnNames ==
  \A b \in Brands, t \in Teams : \A p \in prints[b][t] :
    b \in named[p] /\ <<p, b>> \in upheld

\* A current edge that the source's projection wrote is at the property of an
\* active permit's present filing, and a retracted match has no current edge
\* of any kind: neither a correction nor a retirement, a backfill or a review
\* in progress leaves one behind (_expire_permit_relationships).  One kind of
\* review does, and its matches are left out until the permit's edges are next
\* expired: it states again the verdict it loaded, so it writes and locks no
\* match, and opens the edges of one that was retracted meanwhile
\* (review_brand_match).
EdgesFollowTheFiling ==
  \A m \in Pair, a \in Addrs :
    /\ edge[m][a] = "source" => live[m[1]] /\ filing[m[1]].addr = a
    /\ match[m].status = "retracted" /\ m \notin slipped => edge[m][a] \in {"absent", "past"}

\* A transaction of the source takes a reviewer's verdict back only blindly,
\* when the verdict was committed after it had loaded the match
\* (detect_permit_brands, _retire_missing_snapshot_records).
VerdictFallsOnlyBlindly ==
  [][job # NoJob /\ job' = NoJob =>
       \A b \in Brands :
         /\ match[<<job.permit, b>>].status \in {"confirmed", "dismissed"}
         /\ match'[<<job.permit, b>>].status # match[<<job.permit, b>>].status
         => job.seen[b] # match[<<job.permit, b>>].status]_brandVars

\* Retired permits are excluded from fingerprint training until they reappear
\* (docs/stealth_retailer_detection.md): no row counts a permit that is not
\* active.
RetiredNotTraining ==
  \A b \in Brands, t \in Teams : prints[b][t] \subseteq Active
=============================================================================
