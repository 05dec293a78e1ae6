---------------------------- MODULE Publication ----------------------------
(***************************************************************************)
(* The reviews and releases of one assessment revision                     *)
(* (src/app/services/assessment_publication.py,                            *)
(* buildsignal_assessment.py).                                             *)
(*                                                                         *)
(* A review and a release each lock the revision's row, read, and append   *)
(* one row: two steps here.  Users are deleted meanwhile, which empties    *)
(* the columns that name them; the revision's own waits for its row lock.  *)
(* Times of creation order the reviews (the hosts' clocks agree); the      *)
(* decision "changes_requested" acts as "rejected" does.                   *)
(***************************************************************************)
EXTENDS Naturals, Sequences, FiniteSets

CONSTANTS
  Analysts,        \* users of the organization
  NoAnalyst,       \* a deleted user
  MaxReleaseJobs   \* bound: reviews and releases

ASSUME ReleaseAssumption == NoAnalyst \notin Analysts /\ MaxReleaseJobs \in Nat

VARIABLES
  author,       \* the revision's author_id
  verdicts,     \* buildsignal_reviews: decision, reviewer_id
  releases,     \* buildsignal_publications, by version: action, review
  releasing,    \* requests between their reads and their commit
  staff,        \* users that still have a row
  releaseJobs   \* bounded events so far

releaseVars == <<author, verdicts, releases, releasing, staff, releaseJobs>>

ReleaseInit ==
  /\ author \in Analysts
  /\ verdicts = <<>> /\ releases = <<>>
  /\ releasing = {}
  /\ staff = Analysts
  /\ releaseJobs = 0

Published == releases # <<>> /\ releases[Len(releases)].action = "published"

\* Mutant: the revision is read without its lock.
RowFreeAlways == TRUE

\* get_revision(lock=True)
RowFree == releasing = {}

Ask(d) ==
  /\ RowFree /\ releaseJobs < MaxReleaseJobs
  /\ releasing' = releasing \cup {d}
  /\ releaseJobs' = releaseJobs + 1
  /\ UNCHANGED <<author, verdicts, releases, staff>>

\* review_revision: never by the author, never of what is published.
AskReview(u, v) ==
  /\ u # author /\ ~Published
  /\ Ask([kind |-> "review", by |-> u, decision |-> v])

Independent(r) == r.decision = "approved" /\ author # NoAnalyst /\ r.by \notin {NoAnalyst, author}

\* change_publication with the version the client was shown, which must still
\* be the latest.
AskPublish(u) ==
  /\ ~Published
  /\ verdicts # <<>> /\ Independent(verdicts[Len(verdicts)])
  /\ Ask([kind |-> "published", by |-> u, version |-> Len(releases), review |-> Len(verdicts)])

AskWithdraw(u) ==
  /\ Published
  /\ Ask([kind |-> "withdrawn", by |-> u, version |-> Len(releases), review |-> 0])

\* A reviewer deleted meanwhile fails the insertion.
CommitVerdict(d) ==
  /\ d.kind = "review"
  /\ verdicts' = IF d.by \in staff THEN Append(verdicts, [decision |-> d.decision, by |-> d.by])
                 ELSE verdicts
  /\ releasing' = releasing \ {d}
  /\ UNCHANGED <<author, releases, staff, releaseJobs>>

\* The unique version refuses a second row of the same number, and the foreign key
\* an actor deleted meanwhile.
CommitRelease(d) ==
  /\ d.kind # "review"
  /\ releases' = IF d.version # Len(releases) \/ d.by \notin staff THEN releases
                 ELSE Append(releases, [action |-> d.kind, review |-> d.review])
  /\ releasing' = releasing \ {d}
  /\ UNCHANGED <<author, verdicts, staff, releaseJobs>>

DeleteAnalyst(u) ==
  /\ u \in staff
  /\ u = author => releasing = {}
  /\ staff' = staff \ {u}
  /\ author' = IF author = u THEN NoAnalyst ELSE author
  /\ verdicts' = [i \in DOMAIN verdicts |->
                   IF verdicts[i].by = u THEN [verdicts[i] EXCEPT !.by = NoAnalyst]
                   ELSE verdicts[i]]
  /\ UNCHANGED <<releases, releasing, releaseJobs>>

ReleaseNext ==
  \/ \E u \in staff, v \in {"approved", "rejected"} : AskReview(u, v)
  \/ \E u \in staff : AskPublish(u) \/ AskWithdraw(u)
  \/ \E d \in releasing : CommitVerdict(d) \/ CommitRelease(d)
  \/ \E u \in Analysts : DeleteAnalyst(u)

ReleaseSpec == ReleaseInit /\ [][ReleaseNext]_releaseVars

(***************************************************************************)
(* Properties                                                              *)
(***************************************************************************)
\* The rows and the requests have the shapes the code gives them.
ReleaseTypeOK ==
  /\ author \in Analysts \cup {NoAnalyst}
  /\ verdicts \in Seq([decision: {"approved", "rejected"}, by: Analysts \cup {NoAnalyst}])
  /\ releases \in Seq([action: {"published", "withdrawn"}, review: 0..Len(verdicts)])
  /\ \A d \in releasing :
       \/ d \in [kind: {"review"}, by: Analysts, decision: {"approved", "rejected"}]
       \/ d \in [kind: {"published", "withdrawn"}, by: Analysts, version: 0..Len(releases),
                 review: 0..Len(verdicts)]
  /\ staff \subseteq Analysts
  /\ releaseJobs \in 0..MaxReleaseJobs

\* "A published revision must be withdrawn before recording another review" and
\* "publication requires the latest review to be approved by an identifiable
\* user other than the identifiable author" (docs/buildsignal-intelligence.md):
\* what is published rests on the latest review there is, which approved it and
\* is not the author's, and releases and withdrawals alternate.
ReleasedOnLatestApproval ==
  /\ Published =>
       /\ releases[Len(releases)].review = Len(verdicts)
       /\ verdicts[Len(verdicts)].decision = "approved"
       /\ author # NoAnalyst => verdicts[Len(verdicts)].by # author
  /\ \A i \in DOMAIN releases : (releases[i].action = "published") = (i % 2 = 1)
=============================================================================
