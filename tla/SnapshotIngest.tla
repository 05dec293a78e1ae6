--------------------------- MODULE SnapshotIngest ---------------------------
(***************************************************************************)
(* Full-snapshot reconciliation of one source                              *)
(* (src/app/services/ingestion/service.py).                                *)
(*                                                                         *)
(* A source whose reconciliation mode is a full one collects its publisher *)
(* in generations: a generation has an id, spans as many bounded runs as it*)
(* needs by carrying the id in the checkpoint, tags every record it        *)
(* collects, and when its last page is clean retires the source's records  *)
(* that do not bear its tag.  The publisher changes meanwhile, runs fail,  *)
(* operators start runs from the first page, and a caller may resolve a    *)
(* checkpoint long before its run gets the lease.                          *)
(*                                                                         *)
(* At most one run is active: RunLease shows it.  Publishers are read with *)
(* a keyset cursor: a page is the next records in the order of their ids.  *)
(***************************************************************************)
EXTENDS Integers, FiniteSets

CONSTANTS
  RecordCount,   \* records the publisher may have
  PageSize,      \* records of one page
  MaxPages,      \* max_pages of one run
  Caller,        \* schedulers and operators that start runs of the source
  Snapshot,      \* snapshot ids (UUIDs; one that nothing mentions is fresh)
  NoSnapshot,    \* the null snapshot id
  NotAsked,      \* a caller with no checkpoint in hand
  Nobody,        \* the owner of no run
  RetireNum, RetireDen,  \* max_snapshot_retirement_fraction
  AllowEmpty,    \* allow_empty_snapshot
  MaxEdits,      \* bound: changes of the publisher
  MaxFaults,     \* bound: runs that fail or end with record errors
  MaxFresh       \* bound: runs asked for from the first page

ASSUME SnapshotAssumption ==
  /\ RecordCount \in Nat \ {0}
  /\ PageSize \in Nat \ {0}
  /\ MaxPages \in Nat \ {0}
  /\ NoSnapshot \notin Snapshot
  /\ RetireDen \in Nat \ {0} /\ RetireNum \in 0..RetireDen
  /\ AllowEmpty \in BOOLEAN
  /\ MaxEdits \in Nat /\ MaxFaults \in Nat /\ MaxFresh \in Nat

Record == 1..RecordCount
Cursor == 0..RecordCount   \* the last record id read, 0 before the first

\* A stored checkpoint: the connector's cursor with the generation it belongs
\* to.  One without a generation was stored before the source's mode was full.
Checkpoint == [snap : Snapshot \cup {NoSnapshot}, cursor : Cursor]
Null == [snap |-> NoSnapshot, cursor |-> 0]

ASSUME NullsAssumption == NotAsked \notin Checkpoint /\ Nobody \notin Caller

VARIABLES
  published,   \* records the publisher serves now
  active,      \* is_active records of the source
  tag,         \* last_seen_snapshot_id
  resume,      \* what resolve_resume_checkpoint returns
  asked,       \* the checkpoint each caller has resolved
  owner, snap, cursor, left,  \* the active run and the caller waiting for it
  owed,        \* history: records published since a generation began, uncollected
  got,         \* history: records a generation has collected
  edits, faults, fresh          \* bounded disturbances so far

Running == owner # Nobody

db   == <<active, tag, resume>>
run  == <<owner, snap, cursor, left>>
hist == <<owed, got>>
vars == <<published, db, asked, run, hist, edits, faults, fresh>>

Init ==
  /\ published \in SUBSET Record
  /\ active = published     \* collected before snapshots were tracked
  /\ tag = [r \in Record |-> NoSnapshot]
  /\ resume \in {Null} \cup [snap : {NoSnapshot}, cursor : Record]
  /\ asked = [c \in Caller |-> NotAsked]
  /\ owner = Nobody /\ snap = NoSnapshot /\ cursor = 0 /\ left = 0
  /\ owed = [s \in Snapshot |-> {}]
  /\ got = [s \in Snapshot |-> {}]
  /\ edits = 0 /\ faults = 0 /\ fresh = 0

-----------------------------------------------------------------------------
(* The publisher.                                                          *)

Publish(r) ==
  /\ r \notin published
  /\ edits < MaxEdits
  /\ published' = published \cup {r}
  /\ edits' = edits + 1
  /\ UNCHANGED <<db, asked, run, hist, faults, fresh>>

Withdraw(r) ==
  /\ r \in published
  /\ edits < MaxEdits
  /\ published' = published \ {r}
  /\ owed' = [s \in Snapshot |-> owed[s] \ {r}]
  /\ edits' = edits + 1
  /\ UNCHANGED <<db, asked, run, got, faults, fresh>>

\* The records with the next ids after k, at most PageSize of them.
After(k) == {r \in published : r > k}
PageAfter(k) == {r \in After(k) : Cardinality({q \in After(k) : q < r}) < PageSize}

\* Mutant: every page is taken for the last one.
NeverMore(page) == FALSE

\* A full page is taken to have a successor.
HasMore(page) == Cardinality(page) = PageSize

\* The cursor the connector returns with a page that has a successor.
LastOf(page) == CHOOSE r \in page : \A q \in page : q <= r

-----------------------------------------------------------------------------
(* Starting a run.                                                         *)

\* A scheduler resolves the checkpoint of the newest clean run.
AskToResume(c) ==
  /\ asked[c] = NotAsked /\ owner # c
  /\ asked' = [asked EXCEPT ![c] = resume]
  /\ UNCHANGED <<published, db, run, hist, edits, faults, fresh>>

\* An operator or a script asks for a run with no checkpoint.
AskFresh(c) ==
  /\ asked[c] = NotAsked /\ owner # c
  /\ fresh < MaxFresh
  /\ asked' = [asked EXCEPT ![c] = Null]
  /\ fresh' = fresh + 1
  /\ UNCHANGED <<published, db, run, hist, edits, faults>>

\* Generations that the active run or a checkpoint may continue.
Open ==
  {resume.snap, snap} \cup {asked[c].snap : c \in {b \in Caller : asked[b] # NotAsked}}

\* A fresh id is one that nothing mentions.
FreshIds == Snapshot \ (Open \cup {tag[r] : r \in Record})

\* Mutant: the pages of a run are counted from 0 to max_pages.
ClaimOneMore(c, s) ==
  /\ owner' = c
  /\ snap' = s
  /\ cursor' = asked[c].cursor
  /\ left' = MaxPages + 1
  /\ asked' = [asked EXCEPT ![c] = NotAsked]
  /\ UNCHANGED <<published, db, edits, faults, fresh>>

Claim(c, s) ==
  /\ owner' = c
  /\ snap' = s
  /\ cursor' = asked[c].cursor
  /\ left' = MaxPages
  /\ asked' = [asked EXCEPT ![c] = NotAsked]
  /\ UNCHANGED <<published, db, edits, faults, fresh>>

\* A run with no checkpoint begins a new generation.
StartGeneration(c) ==
  /\ asked[c] = Null
  /\ ~Running
  /\ \E s \in FreshIds :
       /\ Claim(c, s)
       /\ owed' = [t \in Snapshot |-> IF t = s THEN published
                                     ELSE IF t \in Open THEN owed[t] ELSE {}]
       /\ got' = [t \in Snapshot |-> IF t \in Open THEN got[t] ELSE {}]

\* A run with a checkpoint continues the checkpoint's generation, or none when
\* the checkpoint is a legacy one.
Continue(c) ==
  /\ asked[c] \notin {Null, NotAsked}
  /\ ~Running
  /\ Claim(c, asked[c].snap)
  /\ UNCHANGED hist

\* The lease is held: the caller gets a conflict.
Conflict(c) ==
  /\ asked[c] # NotAsked
  /\ Running
  /\ asked' = [asked EXCEPT ![c] = NotAsked]
  /\ UNCHANGED <<published, db, run, hist, edits, faults, fresh>>

-----------------------------------------------------------------------------
(* Collecting.  The fetch of a page and its commit are one step: nothing   *)
(* that happens between them reads or writes what the other touches.       *)

\* The run's generation, if it has one, collects the page.
Collect(page) ==
  /\ tag' = [r \in Record |-> IF r \in page THEN snap ELSE tag[r]]
  /\ owed' = [s \in Snapshot |-> IF s = snap THEN owed[s] \ page ELSE owed[s]]
  /\ got' = [s \in Snapshot |-> IF s = snap THEN got[s] \cup page ELSE got[s]]

\* Mutant: an unchanged record is not tagged.
PersistChanged(page) ==
  /\ active' = active \cup page
  /\ Collect(page \ active)

\* Persisting a record makes it active and tags it, whatever it was before.
Persist(page) ==
  /\ active' = active \cup page
  /\ Collect(page)

EndRun ==
  /\ owner' = Nobody
  /\ snap' = NoSnapshot
  /\ cursor' = 0
  /\ left' = 0

\* A clean page with a successor: commit it with the advanced checkpoint.
CommitPage ==
  /\ Running /\ left > 0
  /\ LET page == PageAfter(cursor) IN
       /\ HasMore(page)
       /\ Persist(page)
       /\ cursor' = LastOf(page)
  /\ left' = left - 1
  /\ UNCHANGED <<published, resume, asked, owner, snap, edits, faults, fresh>>

\* The page budget is spent.  The run's checkpoint is the one to resume.
FinishPartial ==
  /\ Running /\ left = 0
  /\ resume' = [snap |-> snap, cursor |-> cursor]
  /\ EndRun
  /\ UNCHANGED <<published, active, tag, asked, hist, edits, faults, fresh>>

\* Mutant: SQL's <> drops the records whose tag is null.
MissingButNull(page) == {r \in active \ page : tag[r] \notin {snap, NoSnapshot}}

\* Active records the generation has not collected, once it has collected page.
Missing(page) == {r \in active \ page : tag[r] # snap}

\* The reconciliation refuses an empty snapshot, and one that would retire too
\* large a part of the active records.
GuardPasses(page) ==
  LET found == active \cup page IN
  /\ \/ found = {}
     \/ page \cup {r \in Record : tag[r] = snap} # {}
     \/ AllowEmpty
  /\ Cardinality(Missing(page)) * RetireDen <= RetireNum * Cardinality(found)

\* The last page is clean: persist it, retire what the generation has not
\* collected and end the run, in one transaction.  A run outside any
\* generation retires nothing.
Complete ==
  /\ Running /\ left > 0
  /\ LET page == PageAfter(cursor) IN
       /\ ~HasMore(page)
       /\ snap # NoSnapshot => GuardPasses(page)
       /\ Collect(page)
       /\ active' = (active \cup page) \ (IF snap = NoSnapshot THEN {} ELSE Missing(page))
  /\ resume' = Null
  /\ EndRun
  /\ UNCHANGED <<published, asked, edits, faults, fresh>>

\* The guard raises: the page and the retirement roll back, the run fails.
TripGuard ==
  /\ Running /\ left > 0
  /\ LET page == PageAfter(cursor) IN
       /\ ~HasMore(page)
       /\ snap # NoSnapshot
       /\ ~GuardPasses(page)
  /\ EndRun
  /\ UNCHANGED <<published, db, asked, hist, edits, faults, fresh>>

\* Some records of a page fail: the others are committed and the run ends with
\* record errors, its checkpoint not one to resume.
FinishWithErrors ==
  /\ Running /\ left > 0
  /\ faults < MaxFaults
  /\ \E kept \in (SUBSET PageAfter(cursor)) \ {PageAfter(cursor)} : Persist(kept)
  /\ faults' = faults + 1
  /\ EndRun
  /\ UNCHANGED <<published, resume, asked, edits, fresh>>

\* The run fails or its worker dies; a heartbeat may have committed a part of
\* the page in hand.
FailRun ==
  /\ Running
  /\ faults < MaxFaults
  /\ \E kept \in SUBSET (IF left > 0 THEN PageAfter(cursor) ELSE {}) : Persist(kept)
  /\ faults' = faults + 1
  /\ EndRun
  /\ UNCHANGED <<published, resume, asked, edits, fresh>>

RunStep == CommitPage \/ FinishPartial \/ Complete \/ TripGuard

Next ==
  \/ \E r \in Record : Publish(r) \/ Withdraw(r)
  \/ \E c \in Caller : \/ AskToResume(c) \/ AskFresh(c)
                       \/ StartGeneration(c) \/ Continue(c) \/ Conflict(c)
  \/ RunStep \/ FinishWithErrors \/ FailRun

Spec == Init /\ [][Next]_vars

\* A scheduler keeps starting runs, and a run that is neither failed nor dead
\* goes on to its end.
Fairness ==
  /\ WF_vars(RunStep)
  /\ \A c \in Caller : /\ WF_vars(AskToResume(c))
                       /\ WF_vars(StartGeneration(c) \/ Continue(c) \/ Conflict(c))

FairSpec == Spec /\ Fairness

-----------------------------------------------------------------------------
\* The columns and the run's variables stay in their domains; nothing of a run
\* outlives it, and a resumable generation has collected something.
TypeOK ==
  /\ published \subseteq Record /\ active \subseteq Record
  /\ tag \in [Record -> Snapshot \cup {NoSnapshot}]
  /\ resume \in Checkpoint
  /\ asked \in [Caller -> Checkpoint \cup {NotAsked}]
  /\ owner \in Caller \cup {Nobody} /\ snap \in Snapshot \cup {NoSnapshot}
  /\ cursor \in Cursor /\ left \in 0..MaxPages
  /\ ~Running => snap = NoSnapshot /\ cursor = 0 /\ left = 0
  /\ resume.snap \in Snapshot => resume.cursor > 0
  /\ owed \in [Snapshot -> SUBSET Record] /\ got \in [Snapshot -> SUBSET Record]
  /\ edits \in 0..MaxEdits /\ faults \in 0..MaxFaults /\ fresh \in 0..MaxFresh

\* Everything a generation still owes lies ahead of the cursor k.
OwesOnlyAfter(s, k) == s \in Snapshot => \A r \in owed[s] : r > k

\* Wherever a generation can be continued from - the run, the stored
\* checkpoint, a checkpoint some caller resolved long ago - it has collected
\* every record before that point that the publisher has served all along.
\* Neither failed pages nor runs of other generations leave a hole.
NothingSkipped ==
  /\ OwesOnlyAfter(snap, cursor)
  /\ OwesOnlyAfter(resume.snap, resume.cursor)
  /\ \A c \in Caller :
       asked[c] # NotAsked => OwesOnlyAfter(asked[c].snap, asked[c].cursor)

\* A record is retired only by a generation that collected it (and lost its tag
\* to another run) or during which the publisher has not served it at some
\* time: never because a page failed, was skipped or was not reached
\* (docs/permit_ingestion.md:976-979).
RetiredWasNotOwed ==
  [][\A r \in active \ active' : snap \in Snapshot /\ r \notin owed[snap]]_vars

\* What retirement is for (the "missing" of _retire_missing_snapshot_records and
\* of tests/test_permit_ingestion.py:637): a generation does not retire a
\* record that it has itself collected.
CollectedIsNotRetired ==
  [][\A r \in active \ active' : snap \in Snapshot => r \notin got[snap]]_vars

\* Once the publisher stops changing and runs stop failing, the active records
\* are in the end those that the publisher serves.
Converges == <>[](active = published)
=============================================================================
