------------------------------ MODULE RunLease ------------------------------
(***************************************************************************)
(* The ingestion run lease (src/app/services/ingestion/service.py).        *)
(*                                                                         *)
(* Several workers (recurring jobs, the customer dispatcher, the admin     *)
(* route) may start a run of the same source.  A run is a row of           *)
(* ingestion_runs; the row in status "running" is the lease on the source. *)
(* A worker claims it, commits pages of records under it, keeps it alive   *)
(* with heartbeats and ends it; any worker may take over a lease whose     *)
(* heartbeat is too old.  Workers crash, stall for any time between two    *)
(* database round trips, and wake up after their lease was taken.          *)
(*                                                                         *)
(* One source is modelled: every row, guard and update below is selected   *)
(* by source_id or by a run id.  One action is one committed transaction   *)
(* (or one rolled back), with the reads that decide it.                    *)
(***************************************************************************)
EXTENDS Integers, FiniteSets

CONSTANTS
  Worker,      \* processes and threads that run sources
  MaxRuns,     \* bound: rows of ingestion_runs
  PageCount,   \* pages the publisher serves from first to last
  Slot,        \* positions of the records of one page
  MaxPages,    \* max_pages of one run
  StaleAfter,  \* stale_run_after_seconds
  Horizon,     \* bound: last value of the clock
  OperatorResumes \* whether an operator may name an earlier run's checkpoint

ASSUME RunLeaseAssumption ==
  /\ MaxRuns \in Nat \ {0}
  /\ PageCount \in Nat \ {0}
  /\ MaxPages \in Nat \ {0}
  /\ StaleAfter \in Nat \ {0}
  /\ Horizon \in Nat
  /\ OperatorResumes \in BOOLEAN

Run  == 1..MaxRuns
Page == 1..PageCount

\* A connector checkpoint: the pages already read.  0 is the null checkpoint,
\* which a connector also returns with its last page.
Cursor == 0..(PageCount - 1)

Terminal == {"completed", "partial", "partial_with_errors", "failed"}

VARIABLES
  clock,       \* utcnow()
  rows,        \* rows of ingestion_runs inserted so far; row r is the r-th
  status, heartbeat, checkpoint, cause,   \* columns of the rows
  stored,      \* record slots of each page that are durable
  writer,      \* the run that last wrote each page, 0 for none
  pc,          \* where each worker is in execute_source_run
  now,         \* the claim's "now"
  seen, seenAt,\* the running row the claim read, and its heartbeat
  mine,        \* run_id
  cursor,      \* current_checkpoint
  left         \* iterations of the page loop left

table  == <<rows, status, heartbeat, checkpoint, cause>>
data   == <<stored, writer>>
claim  == <<now, seen, seenAt>>
loop   == <<mine, cursor, left>>
vars   == <<clock, table, data, pc, claim, loop>>

Running(r) == status[r] = "running"

Init ==
  /\ clock = 0
  /\ rows = 0
  /\ status = [r \in Run |-> "absent"]
  /\ heartbeat = [r \in Run |-> 0]
  /\ checkpoint = [r \in Run |-> 0]
  /\ cause = [r \in Run |-> "none"]
  /\ stored = [p \in Page |-> {}]
  /\ writer = [p \in Page |-> 0]
  /\ pc = [w \in Worker |-> "idle"]
  /\ now = [w \in Worker |-> 0]
  /\ seen = [w \in Worker |-> 0]
  /\ seenAt = [w \in Worker |-> 0]
  /\ mine = [w \in Worker |-> 0]
  /\ cursor = [w \in Worker |-> 0]
  /\ left = [w \in Worker |-> 0]

Goto(w, label) == pc' = [pc EXCEPT ![w] = label]

\* The claim's local variables go out of scope.
DropClaim(w) ==
  /\ now' = [now EXCEPT ![w] = 0]
  /\ seen' = [seen EXCEPT ![w] = 0]
  /\ seenAt' = [seenAt EXCEPT ![w] = 0]

\* The worker returns (or dies), and with it all its local variables.
Leave(w) ==
  /\ Goto(w, "idle")
  /\ DropClaim(w)
  /\ mine' = [mine EXCEPT ![w] = 0]
  /\ cursor' = [cursor EXCEPT ![w] = 0]
  /\ left' = [left EXCEPT ![w] = 0]

-----------------------------------------------------------------------------
(* Claiming the source.                                                    *)

\* Runs whose checkpoint a later run may resume.
CleanRuns == {r \in 1..rows : status[r] \in {"completed", "partial"}}

\* c is the checkpoint resolve_resume_checkpoint returns now.
ResumesAt(c) ==
  \/ CleanRuns = {} /\ c = 0
  \/ \E r \in CleanRuns : (\A q \in CleanRuns : q <= r) /\ c = checkpoint[r]

\* A caller resolves the checkpoint to resume before it asks for the lease, or
\* asks for a run from the first page; an operator may pass the checkpoint that
\* an earlier run reported.
AskRun(w) ==
  /\ pc[w] = "idle"
  /\ \E c \in Cursor :
       /\ \/ ResumesAt(c)
          \/ c = 0
          \/ OperatorResumes /\ \E r \in 1..rows : c = checkpoint[r]
       /\ cursor' = [cursor EXCEPT ![w] = c]
  /\ Goto(w, "look")
  /\ UNCHANGED <<clock, table, data, claim, mine, left>>

\* Read the clock, then the source's running row; a fresh one is a conflict.
LookForRunning(w) ==
  /\ pc[w] = "look"
  /\ \/ /\ \A r \in Run : ~Running(r)
        /\ now' = [now EXCEPT ![w] = clock]
        /\ Goto(w, "insert")
        /\ UNCHANGED <<seen, seenAt, loop>>
     \/ \E r \in Run :
          /\ Running(r)
          /\ clock - heartbeat[r] > StaleAfter
          /\ now' = [now EXCEPT ![w] = clock]
          /\ seen' = [seen EXCEPT ![w] = r]
          /\ seenAt' = [seenAt EXCEPT ![w] = heartbeat[r]]
          /\ Goto(w, "reclaim")
          /\ UNCHANGED loop
     \/ \E r \in Run :
          /\ Running(r)
          /\ clock - heartbeat[r] <= StaleAfter
          /\ Leave(w)
  /\ UNCHANGED <<clock, table, data>>

\* Mutant: the compare-and-set compares the status only.
LeaseStillRunning(w) == Running(seen[w])

\* The row the claim read is still running with the heartbeat it read.
LeaseUnchanged(w) == Running(seen[w]) /\ heartbeat[seen[w]] = seenAt[w]

\* Compare-and-set of the stale row to failed; losing it is a conflict.
Reclaim(w) ==
  /\ pc[w] = "reclaim"
  /\ IF LeaseUnchanged(w)
     THEN /\ status' = [status EXCEPT ![seen[w]] = "failed"]
          /\ heartbeat' = [heartbeat EXCEPT ![seen[w]] = now[w]]
          /\ cause' = [cause EXCEPT ![seen[w]] = "reclaimed"]
          /\ Goto(w, "insert")
          /\ UNCHANGED <<claim, loop>>
     ELSE /\ Leave(w)
          /\ UNCHANGED <<status, heartbeat, cause>>
  /\ UNCHANGED <<clock, rows, checkpoint, data>>

\* Mutant: the index does not exist.
IndexMissing == TRUE

\* The partial unique index on source_id WHERE status = 'running'.
IndexAdmits == \A r \in Run : ~Running(r)

\* Insert the new running row, stamped with the claim's now.
Insert(w) ==
  /\ pc[w] = "insert"
  /\ \/ /\ IndexAdmits
        /\ rows < MaxRuns
        /\ rows' = rows + 1
        /\ status' = [status EXCEPT ![rows + 1] = "running"]
        /\ heartbeat' = [heartbeat EXCEPT ![rows + 1] = now[w]]
        /\ checkpoint' = [checkpoint EXCEPT ![rows + 1] = cursor[w]]
        /\ mine' = [mine EXCEPT ![w] = rows + 1]
        /\ left' = [left EXCEPT ![w] = MaxPages]
        /\ DropClaim(w)
        /\ Goto(w, "fetch")
        /\ UNCHANGED cursor
     \/ /\ ~IndexAdmits
        /\ Leave(w)
        /\ UNCHANGED <<rows, status, heartbeat, checkpoint>>
  /\ UNCHANGED <<clock, cause, data>>

-----------------------------------------------------------------------------
(* Working under the lease.  Every commit is conditional on the run's row  *)
(* being "running"; if it is not, the transaction rolls back and           *)
(* RunLeaseLost takes the worker to the exception handler.                 *)

\* Mutants: a commit, or only the failure handler, does not look at the status.
CommitsUnchecked(w) == TRUE
FailsUnchecked(w) == pc[w] = "failing" \/ Running(mine[w])

HoldsLease(w) == Running(mine[w])

LoseLease(w) ==
  /\ ~HoldsLease(w)
  /\ Goto(w, "failing")
  /\ UNCHANGED <<clock, table, data, claim, loop>>

\* A heartbeat while a page is being fetched.
RenewRunLease(w) ==
  /\ pc[w] = "fetch"
  /\ \/ LoseLease(w)
     \/ /\ HoldsLease(w)
        /\ heartbeat' = [heartbeat EXCEPT ![mine[w]] = clock]
        /\ UNCHANGED <<clock, rows, status, checkpoint, cause, data, pc, claim, loop>>

\* Mutant: one page more than max_pages is fetched.
FetchOverBudget(w) ==
  /\ pc[w] \in {"fetch", "finish"}
  /\ Goto(w, "page")
  /\ UNCHANGED <<clock, table, data, claim, loop>>

\* The page arrives in memory.
FetchPage(w) ==
  /\ pc[w] = "fetch"
  /\ Goto(w, "page")
  /\ UNCHANGED <<clock, table, data, claim, loop>>

\* The records a transaction has persisted for the page in hand.
Persist(w, slots) ==
  /\ stored' = [stored EXCEPT ![cursor[w] + 1] = @ \cup slots]
  /\ writer' = [writer EXCEPT ![cursor[w] + 1] = mine[w]]

\* The conditional update of the run's row that ends a transaction.
UpdateRun(w, newStatus, newCheckpoint) ==
  /\ HoldsLease(w)
  /\ status' = [status EXCEPT ![mine[w]] = newStatus]
  /\ heartbeat' = [heartbeat EXCEPT ![mine[w]] = clock]
  /\ checkpoint' = [checkpoint EXCEPT ![mine[w]] = newCheckpoint]
  /\ UNCHANGED <<clock, rows, cause>>

\* Mutant: the heartbeat in the middle of a page commits the next checkpoint.
CommitMidPageAhead(w) ==
  /\ pc[w] = "page"
  /\ cursor[w] + 1 < PageCount
  /\ \E slots \in SUBSET Slot :
       /\ UpdateRun(w, "running", cursor[w] + 1)
       /\ Persist(w, slots)
       /\ UNCHANGED <<pc, claim, loop>>

\* A heartbeat in the middle of a page commits the records processed so far
\* and leaves the checkpoint at the start of the page.
CommitMidPage(w) ==
  /\ pc[w] = "page"
  /\ \/ LoseLease(w)
     \/ \E slots \in SUBSET Slot :
          /\ UpdateRun(w, "running", cursor[w])
          /\ Persist(w, slots)
          /\ UNCHANGED <<pc, claim, loop>>

\* A clean page that is not the last: commit it with the advanced checkpoint.
CommitPage(w) ==
  /\ pc[w] = "page"
  /\ cursor[w] + 1 < PageCount
  /\ \/ LoseLease(w)
     \/ /\ UpdateRun(w, "running", cursor[w] + 1)
        /\ Persist(w, Slot)
        /\ cursor' = [cursor EXCEPT ![w] = @ + 1]
        /\ left' = [left EXCEPT ![w] = @ - 1]
        /\ Goto(w, IF left[w] = 1 THEN "finish" ELSE "fetch")
        /\ UNCHANGED <<claim, mine>>

\* Mutant: a spent budget is reported as completed.
FinishBudgetCompleted(w) ==
  /\ pc[w] = "finish"
  /\ UpdateRun(w, "completed", cursor[w])
  /\ Leave(w)
  /\ UNCHANGED data

\* The page budget is spent: end the run as partial.
FinishPartial(w) ==
  /\ pc[w] = "finish"
  /\ \/ LoseLease(w)
     \/ /\ UpdateRun(w, "partial", cursor[w])
        /\ Leave(w)
        /\ UNCHANGED data

\* The last page is clean: commit it and end the run in one transaction.
Complete(w) ==
  /\ pc[w] = "page"
  /\ cursor[w] + 1 = PageCount
  /\ \/ LoseLease(w)
     \/ /\ UpdateRun(w, "completed", 0)
        /\ Persist(w, Slot)
        /\ Leave(w)

\* Some records of the page failed in their savepoints: commit the others and
\* end the run with the checkpoint at the start of the page.
FinishWithErrors(w) ==
  /\ pc[w] = "page"
  /\ \/ LoseLease(w)
     \/ \E slots \in (SUBSET Slot) \ {Slot} :
          /\ UpdateRun(w, "partial_with_errors", cursor[w])
          /\ Persist(w, slots)
          /\ Leave(w)

\* A fetch error, a fail-fast record, a reconciliation guard or an operator's
\* interrupt: roll back and go to the handler.
Raise(w) ==
  /\ pc[w] \in {"fetch", "page", "finish"}
  /\ Goto(w, "failing")
  /\ UNCHANGED <<clock, table, data, claim, loop>>

\* The handler's conditional update: nothing happens when the lease is gone.
FailRun(w) ==
  /\ pc[w] = "failing"
  /\ IF HoldsLease(w)
     THEN /\ status' = [status EXCEPT ![mine[w]] = "failed"]
          /\ heartbeat' = [heartbeat EXCEPT ![mine[w]] = clock]
          /\ cause' = [cause EXCEPT ![mine[w]] = "error"]
     ELSE UNCHANGED <<status, heartbeat, cause>>
  /\ Leave(w)
  /\ UNCHANGED <<clock, rows, checkpoint, data>>

\* The process dies: whatever it had not committed is gone.
Crash(w) ==
  /\ pc[w] # "idle"
  /\ Leave(w)
  /\ UNCHANGED <<clock, table, data>>

Tick ==
  /\ clock < Horizon
  /\ clock' = clock + 1
  /\ UNCHANGED <<table, data, pc, claim, loop>>

WorkerStep(w) ==
  \/ AskRun(w) \/ LookForRunning(w) \/ Reclaim(w) \/ Insert(w)
  \/ RenewRunLease(w) \/ FetchPage(w) \/ CommitMidPage(w) \/ CommitPage(w)
  \/ FinishPartial(w) \/ Complete(w) \/ FinishWithErrors(w)
  \/ Raise(w) \/ FailRun(w) \/ Crash(w)

Next == Tick \/ \E w \in Worker : WorkerStep(w)

Spec == Init /\ [][Next]_vars

-----------------------------------------------------------------------------
Labels == {"idle", "look", "reclaim", "insert", "fetch", "page", "finish", "failing"}
Statuses == Terminal \cup {"absent", "running"}
Working == {"fetch", "page", "finish", "failing"}

TableOK ==
  /\ rows \in 0..MaxRuns
  /\ status \in [Run -> Statuses]
  /\ heartbeat \in [Run -> Nat]
  /\ checkpoint \in [Run -> Cursor]
  /\ cause \in [Run -> {"none", "reclaimed", "error"}]

DataOK ==
  /\ stored \in [Page -> SUBSET Slot]
  /\ writer \in [Page -> 0..MaxRuns]

ClaimOK ==
  /\ now \in [Worker -> Nat]
  /\ seen \in [Worker -> 0..MaxRuns]
  /\ seenAt \in [Worker -> Nat]
  /\ \A w \in Worker : pc[w] = "reclaim" => seen[w] \in Run

LoopOK ==
  /\ pc \in [Worker -> Labels]
  /\ mine \in [Worker -> 0..MaxRuns]
  /\ cursor \in [Worker -> Cursor]
  /\ left \in [Worker -> 0..MaxPages]
  /\ \A w \in Worker : pc[w] \in Working => mine[w] \in Run
  /\ \A w \in Worker : pc[w] \in {"fetch", "page"} => left[w] > 0

\* Every column and local variable stays in its domain, and a worker only
\* commits under a row that exists.
TypeOK == clock \in Nat /\ TableOK /\ DataOK /\ ClaimOK /\ LoopOK

\* Two workers are never both live on the source: only the newest row can be
\* running, and at most one worker that can still commit holds it
\* ("two workers cannot race the same canonical records").
LeaseExclusive ==
  /\ \A r \in Run : Running(r) => r = rows
  /\ \A v, w \in Worker :
       (v # w /\ pc[v] \in Working /\ pc[w] \in Working) => mine[v] # mine[w]

\* A committed checkpoint never runs ahead of the data: whatever run recorded
\* it, and however that run ended, every page before it is wholly durable, and
\* so is every page before the cursor a worker has in hand.
CheckpointCovered ==
  /\ \A r \in Run, p \in Page : p <= checkpoint[r] => stored[p] = Slot
  /\ \A w \in Worker, p \in Page : p <= cursor[w] => stored[p] = Slot

\* A run that reports "completed" leaves no page with a record missing.
CompletedIsWhole ==
  (\E r \in Run : status[r] = "completed") => \A p \in Page : stored[p] = Slot

\* The token of the source's current holder, 0 when it is free.
Holder == IF \E r \in Run : Running(r) THEN rows ELSE 0

\* The lease implements the fenced source.
Fencing == INSTANCE FencedSource WITH token <- rows, holder <- Holder
ImplementsFencedSource == Fencing!Spec

\* The old worker is fenced: once a newer run has written a page, no older
\* run writes it again.
Fenced == [][\A p \in Page : writer[p] <= writer'[p]]_vars

\* A run that ended keeps its status, cause and checkpoint for ever; no late
\* heartbeat, commit or failure handler touches the row.
TerminalIsFinal ==
  [][\A r \in Run : status[r] \in Terminal =>
       /\ status'[r] = status[r]
       /\ heartbeat'[r] = heartbeat[r]
       /\ checkpoint'[r] = checkpoint[r]
       /\ cause'[r] = cause[r]]_vars

\* A lease is taken over only when its holder has really been silent for
\* longer than StaleAfter, whatever happened between the claim's read of the
\* row and its update.
OnlySilentReclaimed ==
  [][\A r \in Run : (Running(r) /\ cause'[r] = "reclaimed") =>
       clock - heartbeat[r] > StaleAfter]_vars

-----------------------------------------------------------------------------
(* The strengthening that makes the properties inductive.                  *)

\* Only the newest row runs, rows not yet inserted are blank, and a running
\* row has no cause of failure.
NewestRuns ==
  \A r \in Run :
    /\ Running(r) => r = rows /\ cause[r] = "none"
    /\ r > rows => status[r] = "absent" /\ cause[r] = "none"

\* Nobody works under, or has written for, a row that does not exist.
KnownTokens ==
  /\ \A w \in Worker : mine[w] <= rows
  /\ \A p \in Page : writer[p] <= rows

\* What a claim read was stale when it read it, and it read it in the past.
ClaimsWereStale ==
  \A w \in Worker :
    /\ now[w] <= clock
    /\ pc[w] = "reclaim" => now[w] - seenAt[w] > StaleAfter

LeaseInvariant ==
  /\ TypeOK
  /\ NewestRuns
  /\ KnownTokens
  /\ ClaimsWereStale
  /\ LeaseExclusive
  /\ CheckpointCovered
  /\ CompletedIsWhole
=============================================================================
