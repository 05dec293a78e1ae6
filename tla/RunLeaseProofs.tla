--------------------------- MODULE RunLeaseProofs ---------------------------
(***************************************************************************)
(* Proofs about RunLease, for every number of workers, runs and pages and  *)
(* every lease length.                                                     *)
(***************************************************************************)
EXTENDS RunLease, TLAPS

USE RunLeaseAssumption DEF Run, Page, Cursor, Terminal, Statuses, Labels, Working

(* Type correctness, one step per action.                                  *)

LEMMA InitTyped == Init => TypeOK
  BY DEF Init, TypeOK, TableOK, DataOK, ClaimOK, LoopOK

\* A worker that leaves, or only moves to the exception handler, keeps its
\* local variables in their domains.
LEMMA LeaveTyped ==
  ASSUME ClaimOK, LoopOK, NEW w \in Worker, Leave(w)
  PROVE  ClaimOK' /\ LoopOK'
<1>1. ClaimOK'
  BY DEF Leave, Goto, DropClaim, ClaimOK, LoopOK
<1>2. LoopOK'
  BY DEF Leave, Goto, LoopOK
<1>3. QED  BY <1>1, <1>2

LEMMA LoseLeaseTyped ==
  ASSUME TypeOK, NEW w \in Worker, pc[w] \in Working, LoseLease(w)
  PROVE  TypeOK'
<1>1. clock' \in Nat /\ TableOK' /\ DataOK'
  BY DEF LoseLease, TypeOK, TableOK, DataOK, table, data
<1>2. ClaimOK'
  BY DEF LoseLease, Goto, TypeOK, ClaimOK, LoopOK, claim
<1>3. LoopOK'
  BY DEF LoseLease, Goto, TypeOK, LoopOK, loop
<1>4. QED  BY <1>1, <1>2, <1>3 DEF TypeOK

LEMMA AskRunTyped ==
  ASSUME TypeOK, NEW w \in Worker, AskRun(w)
  PROVE  TypeOK'
<1>1. clock' \in Nat /\ TableOK' /\ DataOK'
  BY DEF AskRun, TypeOK, TableOK, DataOK, table, data
<1>2. ClaimOK'
  BY DEF AskRun, Goto, TypeOK, ClaimOK, LoopOK, claim
<1>3. LoopOK'
  BY DEF AskRun, Goto, TypeOK, LoopOK
<1>4. QED  BY <1>1, <1>2, <1>3 DEF TypeOK

LEMMA LookForRunningTyped ==
  ASSUME TypeOK, NEW w \in Worker, LookForRunning(w)
  PROVE  TypeOK'
<1>1. clock' \in Nat /\ TableOK' /\ DataOK'
  BY DEF LookForRunning, TypeOK, TableOK, DataOK, table, data
<1>2. CASE Leave(w)
  BY <1>1, <1>2, LeaveTyped DEF TypeOK
<1>3. CASE ~Leave(w)
  <2>1. /\ now' \in [Worker -> Nat]
        /\ seen' \in [Worker -> 0..MaxRuns]
        /\ seenAt' \in [Worker -> Nat]
    <3>1. CASE \A r \in Run : ~Running(r)
      BY <1>3, <3>1 DEF LookForRunning, TypeOK, ClaimOK
    <3>2. CASE \E r \in Run : Running(r)
      <4>1. PICK r \in Run :
              /\ now' = [now EXCEPT ![w] = clock]
              /\ seen' = [seen EXCEPT ![w] = r]
              /\ seenAt' = [seenAt EXCEPT ![w] = heartbeat[r]]
        BY <1>3, <3>2 DEF LookForRunning
      <4>2. heartbeat[r] \in Nat
        BY DEF TypeOK, TableOK
      <4>3. QED  BY <4>1, <4>2 DEF TypeOK, ClaimOK
    <3>3. QED  BY <3>1, <3>2
  <2>2. \A v \in Worker : pc'[v] = "reclaim" => seen'[v] \in Run
    BY <1>3 DEF LookForRunning, Goto, TypeOK, ClaimOK, LoopOK
  <2>3. ClaimOK'
    BY <2>1, <2>2 DEF ClaimOK
  <2>4. LoopOK'
    BY <1>3 DEF LookForRunning, Goto, TypeOK, LoopOK, loop
  <2>5. QED  BY <1>1, <2>3, <2>4 DEF TypeOK
<1>4. QED  BY <1>2, <1>3

LEMMA ReclaimTyped ==
  ASSUME TypeOK, NEW w \in Worker, Reclaim(w)
  PROVE  TypeOK'
<1>1. clock' \in Nat /\ DataOK'
  BY DEF Reclaim, TypeOK, DataOK, data
<1>2. TableOK'
  BY DEF Reclaim, TypeOK, TableOK, ClaimOK
<1>3. CASE LeaseUnchanged(w)
  <2>1. ClaimOK'
    BY <1>3 DEF Reclaim, Goto, TypeOK, ClaimOK, LoopOK, claim
  <2>2. LoopOK'
    BY <1>3 DEF Reclaim, Goto, TypeOK, LoopOK, loop
  <2>3. QED  BY <1>1, <1>2, <2>1, <2>2 DEF TypeOK
<1>4. CASE ~LeaseUnchanged(w)
  BY <1>1, <1>2, <1>4, LeaveTyped DEF Reclaim, TypeOK
<1>5. QED  BY <1>3, <1>4

LEMMA InsertTyped ==
  ASSUME TypeOK, NEW w \in Worker, Insert(w)
  PROVE  TypeOK'
<1>1. clock' \in Nat /\ DataOK'
  BY DEF Insert, TypeOK, DataOK, data
<1>2. CASE IndexAdmits
  <2>1. rows + 1 \in Run
    BY <1>2 DEF Insert, TypeOK, TableOK
  <2>2. rows' \in 0..MaxRuns /\ cause' = cause
    BY <1>2, <2>1 DEF Insert
  <2>3. status' \in [Run -> Statuses]
    BY <1>2, <2>1 DEF Insert, TypeOK, TableOK
  <2>4. heartbeat' \in [Run -> Nat]
    <3>1. now[w] \in Nat
      BY DEF TypeOK, ClaimOK
    <3>2. heartbeat' = [heartbeat EXCEPT ![rows + 1] = now[w]]
      BY <1>2 DEF Insert
    <3>3. QED  BY <2>1, <3>1, <3>2 DEF TypeOK, TableOK
  <2>5. checkpoint' \in [Run -> Cursor]
    BY <1>2, <2>1 DEF Insert, TypeOK, TableOK, LoopOK
  <2>6. TableOK'
    BY <2>2, <2>3, <2>4, <2>5 DEF TypeOK, TableOK
  <2>7. ClaimOK'
    BY <1>2 DEF Insert, DropClaim, Goto, TypeOK, ClaimOK, LoopOK
  <2>8. LoopOK'
    BY <1>2, <2>1 DEF Insert, Goto, TypeOK, LoopOK
  <2>9. QED  BY <1>1, <2>6, <2>7, <2>8 DEF TypeOK
<1>3. CASE ~IndexAdmits
  <2>1. TableOK'
    BY <1>3 DEF Insert, TypeOK, TableOK
  <2>2. QED  BY <1>1, <1>3, <2>1, LeaveTyped DEF Insert, TypeOK
<1>4. QED  BY <1>2, <1>3

\* The conditional update keeps the table typed, and so does a write of a
\* page that exists.
LEMMA UpdateRunTyped ==
  ASSUME TypeOK, NEW w \in Worker, mine[w] \in Run, NEW s \in Statuses, NEW c \in Cursor,
         UpdateRun(w, s, c)
  PROVE  clock' \in Nat /\ TableOK'
  BY DEF UpdateRun, TypeOK, TableOK

LEMMA PersistTyped ==
  ASSUME TypeOK, NEW w \in Worker, NEW slots \in SUBSET Slot, Persist(w, slots)
  PROVE  DataOK'
  BY DEF Persist, TypeOK, DataOK, LoopOK

LEMMA WorkTyped ==
  ASSUME TypeOK, NEW w \in Worker,
         \/ RenewRunLease(w) \/ FetchPage(w) \/ CommitMidPage(w) \/ CommitPage(w)
         \/ FinishPartial(w) \/ Complete(w) \/ FinishWithErrors(w)
  PROVE  TypeOK'
<1>0. pc[w] \in Working /\ mine[w] \in Run /\ cursor[w] \in Cursor
  BY DEF RenewRunLease, FetchPage, CommitMidPage, CommitPage, FinishPartial,
         Complete, FinishWithErrors, TypeOK, LoopOK
<1>1. CASE LoseLease(w)
  BY <1>0, <1>1, LoseLeaseTyped
<1>2. CASE RenewRunLease(w) /\ ~LoseLease(w)
  <2>1. heartbeat' = [heartbeat EXCEPT ![mine[w]] = clock]
    BY <1>2 DEF RenewRunLease
  <2>2. UNCHANGED <<clock, rows, status, checkpoint, cause, data, pc, claim, loop>>
    BY <1>2 DEF RenewRunLease
  <2>3. TableOK'
    BY <1>0, <2>1, <2>2 DEF TypeOK, TableOK
  <2>4. QED  BY <2>2, <2>3 DEF TypeOK, DataOK, ClaimOK, LoopOK, data, claim, loop
<1>3. CASE FetchPage(w)
  <2>1. clock' \in Nat /\ TableOK' /\ DataOK'
    BY <1>3 DEF FetchPage, TypeOK, TableOK, DataOK, table, data
  <2>2. ClaimOK'
    BY <1>3 DEF FetchPage, Goto, TypeOK, ClaimOK, LoopOK, claim
  <2>3. LoopOK'
    BY <1>3 DEF FetchPage, Goto, TypeOK, LoopOK, loop
  <2>4. QED  BY <2>1, <2>2, <2>3 DEF TypeOK
<1>4. CASE CommitMidPage(w) /\ ~LoseLease(w)
  <2>1. PICK slots \in SUBSET Slot :
          UpdateRun(w, "running", cursor[w]) /\ Persist(w, slots) /\ UNCHANGED <<pc, claim, loop>>
    BY <1>4 DEF CommitMidPage
  <2>2. clock' \in Nat /\ TableOK' /\ DataOK'
    BY <1>0, <2>1, UpdateRunTyped, PersistTyped
  <2>3. QED  BY <2>1, <2>2 DEF TypeOK, ClaimOK, LoopOK, claim, loop
<1>5. CASE CommitPage(w) /\ ~LoseLease(w)
  <2>1. cursor[w] + 1 \in Cursor /\ left[w] \in 1..MaxPages
    BY <1>0, <1>5 DEF CommitPage, TypeOK, LoopOK
  <2>2. clock' \in Nat /\ TableOK' /\ DataOK'
    BY <1>0, <1>5, <2>1, UpdateRunTyped, PersistTyped DEF CommitPage
  <2>3. ClaimOK'
    BY <1>5 DEF CommitPage, Goto, TypeOK, ClaimOK, LoopOK, claim
  <2>4. LoopOK'
    BY <1>0, <1>5, <2>1 DEF CommitPage, Goto, TypeOK, LoopOK
  <2>5. QED  BY <2>2, <2>3, <2>4 DEF TypeOK
<1>6. CASE FinishPartial(w) /\ ~LoseLease(w)
  <2>1. clock' \in Nat /\ TableOK' /\ DataOK'
    BY <1>0, <1>6, UpdateRunTyped DEF FinishPartial, TypeOK, DataOK, data
  <2>2. QED  BY <1>6, <2>1, LeaveTyped DEF FinishPartial, TypeOK
<1>7. CASE Complete(w) /\ ~LoseLease(w)
  <2>1. clock' \in Nat /\ TableOK' /\ DataOK'
    BY <1>0, <1>7, UpdateRunTyped, PersistTyped DEF Complete
  <2>2. QED  BY <1>7, <2>1, LeaveTyped DEF Complete, TypeOK
<1>8. CASE FinishWithErrors(w) /\ ~LoseLease(w)
  <2>1. PICK slots \in SUBSET Slot :
          UpdateRun(w, "partial_with_errors", cursor[w]) /\ Persist(w, slots) /\ Leave(w)
    BY <1>8 DEF FinishWithErrors
  <2>2. clock' \in Nat /\ TableOK' /\ DataOK'
    BY <1>0, <2>1, UpdateRunTyped, PersistTyped
  <2>3. QED  BY <2>1, <2>2, LeaveTyped DEF TypeOK
<1>9. QED  BY <1>1, <1>2, <1>3, <1>4, <1>5, <1>6, <1>7, <1>8

LEMMA EndTyped ==
  ASSUME TypeOK, NEW w \in Worker, Raise(w) \/ FailRun(w) \/ Crash(w)
  PROVE  TypeOK'
<1>1. CASE Raise(w)
  <2>1. clock' \in Nat /\ TableOK' /\ DataOK'
    BY <1>1 DEF Raise, TypeOK, TableOK, DataOK, table, data
  <2>2. ClaimOK'
    BY <1>1 DEF Raise, Goto, TypeOK, ClaimOK, LoopOK, claim
  <2>3. LoopOK'
    BY <1>1 DEF Raise, Goto, TypeOK, LoopOK, loop
  <2>4. QED  BY <2>1, <2>2, <2>3 DEF TypeOK
<1>2. CASE FailRun(w)
  <2>1. clock' \in Nat /\ DataOK'
    BY <1>2 DEF FailRun, TypeOK, DataOK, data
  <2>2. rows' = rows /\ checkpoint' = checkpoint
    BY <1>2 DEF FailRun
  <2>3. status' \in [Run -> Statuses]
    BY <1>2 DEF FailRun, TypeOK, TableOK
  <2>4. heartbeat' \in [Run -> Nat]
    BY <1>2 DEF FailRun, TypeOK, TableOK
  <2>5. cause' \in [Run -> {"none", "reclaimed", "error"}]
    BY <1>2 DEF FailRun, TypeOK, TableOK
  <2>6. TableOK'
    BY <2>2, <2>3, <2>4, <2>5 DEF TypeOK, TableOK
  <2>7. QED  BY <1>2, <2>1, <2>6, LeaveTyped DEF FailRun, TypeOK
<1>3. CASE Crash(w)
  BY <1>3, LeaveTyped DEF Crash, TypeOK, TableOK, DataOK, table, data
<1>4. QED  BY <1>1, <1>2, <1>3

LEMMA TypeStep == TypeOK /\ [Next]_vars => TypeOK'
<1> SUFFICES ASSUME TypeOK, [Next]_vars PROVE TypeOK'
  OBVIOUS
<1>1. CASE Tick
  <2>1. clock' \in Nat /\ TableOK' /\ DataOK'
    BY <1>1 DEF Tick, TypeOK, TableOK, DataOK, table, data
  <2>2. ClaimOK' /\ LoopOK'
    BY <1>1 DEF Tick, TypeOK, ClaimOK, LoopOK, claim, loop
  <2>3. QED  BY <2>1, <2>2 DEF TypeOK
<1>2. ASSUME NEW w \in Worker, WorkerStep(w) PROVE TypeOK'
  BY <1>2, AskRunTyped, LookForRunningTyped, ReclaimTyped, InsertTyped,
     WorkTyped, EndTyped DEF WorkerStep
<1>3. CASE UNCHANGED vars
  BY <1>3 DEF TypeOK, TableOK, DataOK, ClaimOK, LoopOK, vars, table, data, claim, loop
<1>4. QED  BY <1>1, <1>2, <1>3 DEF Next

\* Every column and local variable stays in its domain.
THEOREM TypeCorrect == Spec => []TypeOK
  BY InitTyped, TypeStep, PTL DEF Spec

-----------------------------------------------------------------------------
(* What any step may do to the run table and to the data.                  *)

\* Row r is the only one a step changes, and it was running.
EndsOrRenews(r) ==
  /\ Running(r)
  /\ rows' = rows
  /\ status'[r] \in Terminal \cup {"running"}
  /\ Running(r)' => cause'[r] = cause[r]
  /\ \A q \in Run \ {r} :
       /\ status'[q] = status[q]
       /\ heartbeat'[q] = heartbeat[q]
       /\ checkpoint'[q] = checkpoint[q]
       /\ cause'[q] = cause[q]

\* A new running row is appended to a table with no running row.
Appends ==
  /\ IndexAdmits
  /\ rows < MaxRuns
  /\ rows' = rows + 1
  /\ status' = [status EXCEPT ![rows + 1] = "running"]
  /\ cause' = cause
  /\ \A q \in Run \ {rows + 1} :
       heartbeat'[q] = heartbeat[q] /\ checkpoint'[q] = checkpoint[q]

\* A conditional update changes the worker's own running row only.
LEMMA UpdateRunEnds ==
  ASSUME TypeOK, NEW w \in Worker, mine[w] \in Run, NEW s \in Terminal \cup {"running"},
         NEW c, UpdateRun(w, s, c)
  PROVE  EndsOrRenews(mine[w])
<1>1. Running(mine[w]) /\ rows' = rows /\ cause' = cause
  BY DEF UpdateRun, HoldsLease
<1>2. status'[mine[w]] = s
  BY DEF UpdateRun, TypeOK, TableOK
<1>3. \A q \in Run \ {mine[w]} : /\ status'[q] = status[q]
                                /\ heartbeat'[q] = heartbeat[q]
                                /\ checkpoint'[q] = checkpoint[q]
  BY DEF UpdateRun, TypeOK, TableOK
<1>4. QED  BY <1>1, <1>2, <1>3 DEF EndsOrRenews

\* So does the update that ends a run as failed.
LEMMA FailureEnds ==
  ASSUME TypeOK, NEW r \in Run, Running(r), NEW h, NEW c,
         rows' = rows, checkpoint' = checkpoint,
         status' = [status EXCEPT ![r] = "failed"],
         heartbeat' = [heartbeat EXCEPT ![r] = h],
         cause' = [cause EXCEPT ![r] = c]
  PROVE  EndsOrRenews(r)
<1>1. status'[r] = "failed" /\ ~Running(r)'
  BY DEF Running, TypeOK, TableOK
<1>2. \A q \in Run \ {r} : status'[q] = status[q] /\ cause'[q] = cause[q]
  BY DEF TypeOK, TableOK
<1>3. \A q \in Run \ {r} : heartbeat'[q] = heartbeat[q] /\ checkpoint'[q] = checkpoint[q]
  BY DEF TypeOK, TableOK
<1>4. QED  BY <1>1, <1>2, <1>3 DEF EndsOrRenews

LEMMA WorkerTableStep ==
  ASSUME TypeOK, NEW w \in Worker, WorkerStep(w)
  PROVE  UNCHANGED table \/ (\E r \in Run : EndsOrRenews(r)) \/ Appends
<1>0. pc[w] \in Working => mine[w] \in Run
  BY DEF TypeOK, LoopOK
<1>1. CASE AskRun(w) \/ LookForRunning(w) \/ FetchPage(w) \/ Raise(w) \/ Crash(w)
  BY <1>1 DEF AskRun, LookForRunning, FetchPage, Raise, Crash
<1>2. CASE Reclaim(w)
  <2>1. CASE LeaseUnchanged(w)
    <3>1. seen[w] \in Run /\ Running(seen[w])
      BY <1>2, <2>1 DEF Reclaim, LeaseUnchanged, TypeOK, ClaimOK
    <3>2. /\ rows' = rows
          /\ checkpoint' = checkpoint
          /\ status' = [status EXCEPT ![seen[w]] = "failed"]
          /\ heartbeat' = [heartbeat EXCEPT ![seen[w]] = now[w]]
          /\ cause' = [cause EXCEPT ![seen[w]] = "reclaimed"]
      BY <1>2, <2>1 DEF Reclaim
    <3>3. EndsOrRenews(seen[w])
      BY <3>1, <3>2, FailureEnds
    <3>4. QED  BY <3>1, <3>3
  <2>2. CASE ~LeaseUnchanged(w)
    BY <1>2, <2>2 DEF Reclaim, table
  <2>3. QED  BY <2>1, <2>2
<1>3. CASE Insert(w)
  <2>1. CASE IndexAdmits
    <3>1. rows + 1 \in Run
      BY <1>3, <2>1 DEF Insert, TypeOK, TableOK
    <3>2. QED  BY <1>3, <2>1, <3>1 DEF Insert, Appends, TypeOK, TableOK
  <2>2. CASE ~IndexAdmits
    BY <1>3, <2>2 DEF Insert, table
  <2>3. QED  BY <2>1, <2>2
<1>4. CASE FailRun(w)
  <2>1. CASE HoldsLease(w)
    <3>1. mine[w] \in Run /\ Running(mine[w])
      BY <1>0, <1>4, <2>1 DEF FailRun, HoldsLease
    <3>2. /\ rows' = rows
          /\ checkpoint' = checkpoint
          /\ status' = [status EXCEPT ![mine[w]] = "failed"]
          /\ heartbeat' = [heartbeat EXCEPT ![mine[w]] = clock]
          /\ cause' = [cause EXCEPT ![mine[w]] = "error"]
      BY <1>4, <2>1 DEF FailRun
    <3>3. EndsOrRenews(mine[w])
      BY <3>1, <3>2, FailureEnds
    <3>4. QED  BY <3>1, <3>3
  <2>2. CASE ~HoldsLease(w)
    BY <1>4, <2>2 DEF FailRun, table
  <2>3. QED  BY <2>1, <2>2
<1>5. CASE RenewRunLease(w)
  <2>1. CASE LoseLease(w)
    BY <2>1 DEF LoseLease
  <2>2. CASE ~LoseLease(w)
    <3>1. mine[w] \in Run /\ Running(mine[w])
      BY <1>0, <1>5, <2>2 DEF RenewRunLease, HoldsLease
    <3>2. /\ UNCHANGED <<rows, status, checkpoint, cause>>
          /\ heartbeat' = [heartbeat EXCEPT ![mine[w]] = clock]
      BY <1>5, <2>2 DEF RenewRunLease
    <3>3. EndsOrRenews(mine[w])
      BY <3>1, <3>2 DEF EndsOrRenews, Running, TypeOK, TableOK
    <3>4. QED  BY <3>1, <3>3
  <2>3. QED  BY <2>1, <2>2
<1>6. CASE CommitMidPage(w) \/ CommitPage(w) \/ FinishPartial(w) \/ Complete(w) \/ FinishWithErrors(w)
  <2>1. CASE LoseLease(w)
    BY <2>1 DEF LoseLease
  <2>2. CASE ~LoseLease(w)
    <3>1. mine[w] \in Run
      BY <1>0, <1>6 DEF CommitMidPage, CommitPage, FinishPartial, Complete, FinishWithErrors
    <3>2. \/ UpdateRun(w, "running", cursor[w])
          \/ UpdateRun(w, "running", cursor[w] + 1)
          \/ UpdateRun(w, "partial", cursor[w])
          \/ UpdateRun(w, "completed", 0)
          \/ UpdateRun(w, "partial_with_errors", cursor[w])
      BY <1>6, <2>2 DEF CommitMidPage, CommitPage, FinishPartial, Complete, FinishWithErrors
    <3>3. EndsOrRenews(mine[w])
      BY <3>1, <3>2, UpdateRunEnds
    <3>4. QED  BY <3>1, <3>3
  <2>3. QED  BY <2>1, <2>2
<1>7. QED  BY <1>1, <1>2, <1>3, <1>4, <1>5, <1>6 DEF WorkerStep

LEMMA TableStep ==
  ASSUME TypeOK, [Next]_vars
  PROVE  UNCHANGED table \/ (\E r \in Run : EndsOrRenews(r)) \/ Appends
  BY WorkerTableStep DEF Next, Tick, vars

\* Data is written only by a worker with a page in hand whose run is running.
LEMMA DataStep ==
  ASSUME TypeOK, [Next]_vars
  PROVE  \/ UNCHANGED data
         \/ \E w \in Worker, slots \in SUBSET Slot :
              pc[w] = "page" /\ HoldsLease(w) /\ Persist(w, slots)
<1>1. ASSUME NEW w \in Worker, WorkerStep(w)
      PROVE  \/ UNCHANGED data
             \/ \E slots \in SUBSET Slot :
                  pc[w] = "page" /\ HoldsLease(w) /\ Persist(w, slots)
  BY <1>1 DEF WorkerStep, AskRun, LookForRunning, Reclaim, Insert, RenewRunLease,
     LoseLease, FetchPage, CommitMidPage, CommitPage, FinishPartial, Complete,
     FinishWithErrors, UpdateRun, Raise, FailRun, Crash
<1>2. QED  BY <1>1 DEF Next, Tick, vars

-----------------------------------------------------------------------------
(* The invariant, conjunct by conjunct.                                    *)

LEMMA InitInvariant == Init => LeaseInvariant
<1> SUFFICES ASSUME Init PROVE LeaseInvariant
  OBVIOUS
<1>1. TypeOK
  BY InitTyped
<1>2. NewestRuns /\ KnownTokens /\ ClaimsWereStale
  BY DEF Init, NewestRuns, KnownTokens, ClaimsWereStale, Running
<1>3. LeaseExclusive /\ CheckpointCovered /\ CompletedIsWhole
  BY DEF Init, LeaseExclusive, CheckpointCovered, CompletedIsWhole, Running
<1>4. QED  BY <1>1, <1>2, <1>3 DEF LeaseInvariant

LEMMA NewestRunsStep ==
  ASSUME TypeOK, NewestRuns, [Next]_vars
  PROVE  NewestRuns'
<1>1. CASE UNCHANGED table
  BY <1>1 DEF table, NewestRuns, Running
<1>2. ASSUME NEW r \in Run, EndsOrRenews(r) PROVE NewestRuns'
  <2> SUFFICES ASSUME NEW q \in Run
               PROVE  /\ Running(q)' => q = rows' /\ cause'[q] = "none"
                      /\ q > rows' => status'[q] = "absent" /\ cause'[q] = "none"
    BY DEF NewestRuns
  <2>1. CASE q = r
    BY <1>2, <2>1 DEF EndsOrRenews, NewestRuns, Running
  <2>2. CASE q # r
    BY <1>2, <2>2 DEF EndsOrRenews, NewestRuns, Running
  <2>3. QED  BY <2>1, <2>2
<1>3. CASE Appends
  <2> SUFFICES ASSUME NEW q \in Run
               PROVE  /\ Running(q)' => q = rows' /\ cause'[q] = "none"
                      /\ q > rows' => status'[q] = "absent" /\ cause'[q] = "none"
    BY DEF NewestRuns
  <2>1. rows \in Nat /\ rows + 1 \in Run
    BY <1>3 DEF Appends, TypeOK, TableOK
  <2>2. CASE q = rows + 1
    BY <1>3, <2>1, <2>2 DEF Appends, NewestRuns, Running, TypeOK, TableOK
  <2>3. CASE q # rows + 1
    BY <1>3, <2>1, <2>3 DEF Appends, IndexAdmits, NewestRuns, Running, TypeOK, TableOK
  <2>4. QED  BY <2>2, <2>3
<1>4. QED  BY <1>1, <1>2, <1>3, TableStep

LEMMA RowsGrow ==
  ASSUME TypeOK, [Next]_vars
  PROVE  rows' \in {rows, rows + 1}
  BY TableStep DEF table, EndsOrRenews, Appends

LEMMA KnownTokensStep ==
  ASSUME TypeOK, KnownTokens, [Next]_vars
  PROVE  KnownTokens'
<1>0. rows \in Nat /\ rows' \in {rows, rows + 1}
  BY RowsGrow DEF TypeOK, TableOK
<1>1. \A v \in Worker : mine'[v] <= rows'
  <2>1. ASSUME NEW w \in Worker, WorkerStep(w) PROVE \A v \in Worker : mine'[v] <= rows'
    <3>1. \A v \in Worker \ {w} : mine'[v] = mine[v]
      BY <2>1 DEF WorkerStep, AskRun, LookForRunning, Reclaim, Insert, RenewRunLease,
         LoseLease, FetchPage, CommitMidPage, CommitPage, FinishPartial, Complete,
         FinishWithErrors, Raise, FailRun, Crash, Leave, loop, TypeOK, LoopOK
    <3>2. mine'[w] \in {mine[w], 0} \/ mine'[w] = rows'
      BY <2>1 DEF WorkerStep, AskRun, LookForRunning, Reclaim, Insert, RenewRunLease,
         LoseLease, FetchPage, CommitMidPage, CommitPage, FinishPartial, Complete,
         FinishWithErrors, Raise, FailRun, Crash, Leave, loop, TypeOK, LoopOK
    <3>3. QED  BY <1>0, <3>1, <3>2 DEF KnownTokens, TypeOK, LoopOK
  <2>2. CASE Tick \/ UNCHANGED vars
    BY <1>0, <2>2 DEF Tick, vars, loop, table, KnownTokens, TypeOK, LoopOK
  <2>3. QED  BY <2>1, <2>2 DEF Next
<1>2. \A p \in Page : writer'[p] <= rows'
  <2>1. CASE UNCHANGED data
    BY <1>0, <2>1 DEF data, KnownTokens, TypeOK, DataOK
  <2>2. ASSUME NEW w \in Worker, NEW slots \in SUBSET Slot, Persist(w, slots)
        PROVE  \A p \in Page : writer'[p] <= rows'
    <3>1. \A p \in Page : writer'[p] \in {writer[p], mine[w]}
      BY <2>2 DEF Persist, TypeOK, DataOK
    <3>2. mine[w] <= rows /\ mine[w] \in Nat
      BY DEF KnownTokens, TypeOK, LoopOK
    <3>3. rows' >= rows /\ rows' \in Nat
      BY <1>0
    <3>4. \A p \in Page : writer[p] <= rows /\ writer[p] \in Nat
      BY DEF KnownTokens, TypeOK, DataOK
    <3>5. QED  BY <1>0, <3>1, <3>2, <3>3, <3>4
  <2>3. QED  BY <2>1, <2>2, DataStep
<1>3. QED  BY <1>1, <1>2 DEF KnownTokens

LEMMA ClaimsWereStaleStep ==
  ASSUME TypeOK, ClaimsWereStale, [Next]_vars
  PROVE  ClaimsWereStale'
<1>1. ASSUME NEW w \in Worker, LookForRunning(w) PROVE ClaimsWereStale'
  <2>1. \A v \in Worker \ {w} : now'[v] = now[v] /\ seenAt'[v] = seenAt[v] /\ pc'[v] = pc[v]
    BY <1>1 DEF LookForRunning, Leave, DropClaim, Goto, TypeOK, ClaimOK, LoopOK
  <2>2. clock' = clock
    BY <1>1 DEF LookForRunning
  <2>3. CASE Leave(w)
    BY <2>1, <2>2, <2>3 DEF Leave, DropClaim, Goto, ClaimsWereStale, TypeOK, ClaimOK, LoopOK
  <2>4. CASE pc' = [pc EXCEPT ![w] = "insert"] /\ now' = [now EXCEPT ![w] = clock]
    BY <2>1, <2>2, <2>4 DEF ClaimsWereStale, TypeOK, ClaimOK, LoopOK
  <2>5. ASSUME NEW r \in Run,
               clock - heartbeat[r] > StaleAfter,
               pc' = [pc EXCEPT ![w] = "reclaim"],
               now' = [now EXCEPT ![w] = clock],
               seenAt' = [seenAt EXCEPT ![w] = heartbeat[r]]
        PROVE  ClaimsWereStale'
    BY <2>1, <2>2, <2>5 DEF ClaimsWereStale, TypeOK, ClaimOK, LoopOK, TableOK
  <2>6. QED  BY <1>1, <2>3, <2>4, <2>5 DEF LookForRunning, Goto
<1>2. ASSUME NEW w \in Worker, WorkerStep(w), ~LookForRunning(w) PROVE ClaimsWereStale'
  <2>1. clock' = clock
    BY <1>2 DEF WorkerStep, AskRun, Reclaim, Insert, RenewRunLease, LoseLease, FetchPage,
       CommitMidPage, CommitPage, FinishPartial, Complete, FinishWithErrors, UpdateRun,
       Raise, FailRun, Crash
  <2>2. pc'[w] # "reclaim" /\ \A v \in Worker \ {w} : pc'[v] = pc[v]
    BY <1>2 DEF WorkerStep, AskRun, Reclaim, Insert, RenewRunLease, LoseLease, FetchPage,
       CommitMidPage, CommitPage, FinishPartial, Complete, FinishWithErrors,
       Raise, FailRun, Crash, Leave, Goto, TypeOK, LoopOK
  <2>3. UNCHANGED claim \/ DropClaim(w)
    BY <1>2 DEF WorkerStep, AskRun, Reclaim, Insert, RenewRunLease, LoseLease, FetchPage,
       CommitMidPage, CommitPage, FinishPartial, Complete, FinishWithErrors,
       Raise, FailRun, Crash, Leave
  <2>4. CASE UNCHANGED claim
    BY <2>1, <2>2, <2>4 DEF claim, ClaimsWereStale
  <2>5. CASE DropClaim(w)
    BY <2>1, <2>2, <2>5 DEF DropClaim, ClaimsWereStale, TypeOK, ClaimOK
  <2>6. QED  BY <2>3, <2>4, <2>5
<1>3. CASE Tick
  BY <1>3 DEF Tick, claim, ClaimsWereStale, TypeOK, ClaimOK
<1>4. CASE UNCHANGED vars
  BY <1>4 DEF vars, claim, ClaimsWereStale
<1>5. QED  BY <1>1, <1>2, <1>3, <1>4 DEF Next

\* A worker's step leaves the others where they are, and the worker reaches
\* the page loop only under its own row or under the row it has just inserted.
LEMMA LeaseExclusiveStep ==
  ASSUME TypeOK, KnownTokens, NewestRuns', LeaseExclusive, [Next]_vars
  PROVE  LeaseExclusive'
<1>1. \A r \in Run : Running(r)' => r = rows'
  BY DEF NewestRuns
<1>2. ASSUME NEW w \in Worker, WorkerStep(w)
      PROVE  \A u, v \in Worker :
               (u # v /\ pc'[u] \in Working /\ pc'[v] \in Working) => mine'[u] # mine'[v]
  <2>1. \A v \in Worker \ {w} : pc'[v] = pc[v]
    BY <1>2 DEF WorkerStep, AskRun, LookForRunning, Reclaim, Insert, RenewRunLease,
       LoseLease, FetchPage, CommitMidPage, CommitPage, FinishPartial, Complete,
       FinishWithErrors, Raise, FailRun, Crash, Leave, Goto, TypeOK, LoopOK
  <2>2. \A v \in Worker \ {w} : mine'[v] = mine[v]
    BY <1>2 DEF WorkerStep, AskRun, LookForRunning, Reclaim, Insert, RenewRunLease,
       LoseLease, FetchPage, CommitMidPage, CommitPage, FinishPartial, Complete,
       FinishWithErrors, Raise, FailRun, Crash, Leave, loop, TypeOK, LoopOK
  <2>3. pc'[w] \in Working => \/ pc[w] \in Working /\ mine'[w] = mine[w]
                              \/ mine'[w] = rows + 1
    BY <1>2 DEF WorkerStep, AskRun, LookForRunning, Reclaim, Insert, RenewRunLease,
       LoseLease, FetchPage, CommitMidPage, CommitPage, FinishPartial, Complete,
       FinishWithErrors, Raise, FailRun, Crash, Leave, Goto, loop, TypeOK, LoopOK
  <2>4. \A v \in Worker : mine[v] # rows + 1
    BY DEF KnownTokens, TypeOK, TableOK, LoopOK
  <2>5. QED  BY <2>1, <2>2, <2>3, <2>4 DEF LeaseExclusive
<1>3. CASE Tick \/ UNCHANGED vars
  BY <1>1, <1>3 DEF Tick, vars, loop, LeaseExclusive
<1>4. QED  BY <1>1, <1>2, <1>3 DEF Next, LeaseExclusive

\* A wholly durable page stays so: nothing stored is ever removed.
LEMMA FullStays ==
  ASSUME TypeOK, [Next]_vars
  PROVE  \A p \in Page : stored[p] = Slot => stored'[p] = Slot
<1>1. CASE UNCHANGED data
  BY <1>1 DEF data
<1>2. ASSUME NEW w \in Worker, NEW slots \in SUBSET Slot, Persist(w, slots)
      PROVE  \A p \in Page : stored[p] = Slot => stored'[p] = Slot
  <2>1. \A p \in Page : stored'[p] \in {stored[p], stored[p] \cup slots}
    BY <1>2 DEF Persist, TypeOK, DataOK
  <2>2. QED  BY <2>1
<1>3. QED  BY <1>1, <1>2, DataStep

\* Where a committed checkpoint can come from.
LEMMA CheckpointSource ==
  ASSUME TypeOK, NEW w \in Worker, WorkerStep(w), NEW r \in Run
  PROVE  \/ checkpoint'[r] \in {checkpoint[r], cursor[w], 0}
         \/ checkpoint'[r] = cursor[w] + 1 /\ Persist(w, Slot)
<1>1. CASE AskRun(w) \/ LookForRunning(w) \/ Reclaim(w) \/ RenewRunLease(w)
           \/ FetchPage(w) \/ Raise(w) \/ FailRun(w) \/ Crash(w)
  BY <1>1 DEF AskRun, LookForRunning, Reclaim, RenewRunLease, LoseLease,
     FetchPage, Raise, FailRun, Crash, table
<1>2. CASE Insert(w)
  BY <1>2 DEF Insert, TypeOK, TableOK
<1>3. CASE LoseLease(w)
  BY <1>3 DEF LoseLease, table
<1>4. CASE ~LoseLease(w) /\ (CommitMidPage(w) \/ FinishPartial(w) \/ Complete(w)
                             \/ FinishWithErrors(w))
  BY <1>4 DEF CommitMidPage, FinishPartial, Complete, FinishWithErrors, UpdateRun,
     TypeOK, TableOK
<1>5. CASE ~LoseLease(w) /\ CommitPage(w)
  BY <1>5 DEF CommitPage, UpdateRun, TypeOK, TableOK
<1>6. QED  BY <1>1, <1>2, <1>3, <1>4, <1>5 DEF WorkerStep

\* Where the cursor a worker has in hand can come from.
LEMMA CursorSource ==
  ASSUME TypeOK, NEW w \in Worker, WorkerStep(w)
  PROVE  /\ \A v \in Worker \ {w} : cursor'[v] = cursor[v]
         /\ \/ cursor'[w] \in {cursor[w], 0}
            \/ \E r \in Run : cursor'[w] = checkpoint[r]
            \/ cursor'[w] = cursor[w] + 1 /\ Persist(w, Slot)
<1>1. CASE AskRun(w)
  <2>1. PICK c \in Cursor :
          /\ ResumesAt(c) \/ c = 0 \/ \E r \in 1..rows : c = checkpoint[r]
          /\ cursor' = [cursor EXCEPT ![w] = c]
    BY <1>1 DEF AskRun
  <2>2. c = 0 \/ \E r \in 1..rows : c = checkpoint[r]
    BY <2>1 DEF ResumesAt, CleanRuns
  <2>3. 1..rows \subseteq Run
    BY DEF TypeOK, TableOK
  <2>4. QED  BY <2>1, <2>2, <2>3 DEF TypeOK, LoopOK
<1>2. CASE LookForRunning(w) \/ Reclaim(w) \/ Insert(w) \/ FailRun(w) \/ Crash(w)
  BY <1>2 DEF LookForRunning, Reclaim, Insert, FailRun, Crash, Leave, loop, TypeOK, LoopOK
<1>3. CASE RenewRunLease(w) \/ FetchPage(w) \/ Raise(w) \/ LoseLease(w)
  BY <1>3 DEF RenewRunLease, LoseLease, FetchPage, Raise, loop
<1>4. CASE ~LoseLease(w) /\ (CommitMidPage(w) \/ FinishPartial(w) \/ Complete(w)
                             \/ FinishWithErrors(w))
  BY <1>4 DEF CommitMidPage, FinishPartial, Complete, FinishWithErrors, Leave, loop,
     TypeOK, LoopOK
<1>5. CASE ~LoseLease(w) /\ CommitPage(w)
  BY <1>5 DEF CommitPage, TypeOK, LoopOK
<1>6. QED  BY <1>1, <1>2, <1>3, <1>4, <1>5 DEF WorkerStep

LEMMA CheckpointCoveredStep ==
  ASSUME TypeOK, CheckpointCovered, [Next]_vars
  PROVE  CheckpointCovered'
<1>0. \A p \in Page : stored[p] = Slot => stored'[p] = Slot
  BY FullStays
<1>1. ASSUME NEW w \in Worker, WorkerStep(w) PROVE CheckpointCovered'
  <2>1. ASSUME Persist(w, Slot)
        PROVE  \A p \in Page : p <= cursor[w] + 1 => stored'[p] = Slot
    <3>1. cursor[w] + 1 \in Page
      BY DEF TypeOK, LoopOK
    <3>2. stored'[cursor[w] + 1] = Slot
      BY <2>1, <3>1 DEF Persist, TypeOK, DataOK
    <3>3. QED  BY <1>0, <3>1, <3>2 DEF CheckpointCovered, TypeOK, LoopOK
  <2>2. ASSUME NEW r \in Run, NEW p \in Page, p <= checkpoint'[r] PROVE stored'[p] = Slot
    BY <1>0, <1>1, <2>1, <2>2, CheckpointSource DEF CheckpointCovered
  <2>3. ASSUME NEW v \in Worker, NEW p \in Page, p <= cursor'[v] PROVE stored'[p] = Slot
    BY <1>0, <1>1, <2>1, <2>3, CursorSource DEF CheckpointCovered
  <2>4. QED  BY <2>2, <2>3 DEF CheckpointCovered
<1>2. CASE Tick \/ UNCHANGED vars
  BY <1>2 DEF Tick, vars, table, data, loop, CheckpointCovered
<1>3. QED  BY <1>1, <1>2 DEF Next

\* Only the commit of the last page writes "completed", and every page before
\* it is covered by the cursor.
LEMMA CompletedIsWholeStep ==
  ASSUME TypeOK, CheckpointCovered, CompletedIsWhole, [Next]_vars
  PROVE  CompletedIsWhole'
<1>0. \A p \in Page : stored[p] = Slot => stored'[p] = Slot
  BY FullStays
<1>1. ASSUME NEW w \in Worker, Complete(w), ~LoseLease(w) PROVE CompletedIsWhole'
  <2>1. cursor[w] + 1 = PageCount /\ Persist(w, Slot)
    BY <1>1 DEF Complete
  <2>2. stored'[PageCount] = Slot
    BY <2>1 DEF Persist, TypeOK, DataOK
  <2>3. \A p \in Page : p # PageCount => p <= cursor[w]
    BY <2>1 DEF TypeOK, LoopOK
  <2>4. QED  BY <1>0, <2>2, <2>3 DEF CheckpointCovered, CompletedIsWhole
<1>2. ASSUME NEW w \in Worker, WorkerStep(w), ~Complete(w) \/ LoseLease(w)
      PROVE  \A r \in Run : status'[r] = "completed" => status[r] = "completed"
  <2>1. CASE LoseLease(w)
    BY <2>1 DEF LoseLease, table
  <2>2. CASE AskRun(w) \/ LookForRunning(w) \/ RenewRunLease(w) \/ FetchPage(w)
             \/ Raise(w) \/ Crash(w)
    BY <2>2 DEF AskRun, LookForRunning, RenewRunLease, LoseLease, FetchPage, Raise,
       Crash, table
  <2>3. CASE Reclaim(w) \/ Insert(w) \/ FailRun(w)
    BY <2>3 DEF Reclaim, Insert, FailRun, TypeOK, TableOK
  <2>4. CASE ~LoseLease(w) /\ (CommitMidPage(w) \/ CommitPage(w) \/ FinishPartial(w)
                               \/ FinishWithErrors(w))
    BY <2>4 DEF CommitMidPage, CommitPage, FinishPartial, FinishWithErrors, UpdateRun,
       TypeOK, TableOK
  <2>5. QED  BY <1>2, <2>1, <2>2, <2>3, <2>4 DEF WorkerStep
<1>3. CASE Tick \/ UNCHANGED vars
  BY <1>3 DEF Tick, vars, table, data, CompletedIsWhole
<1>4. QED  BY <1>0, <1>1, <1>2, <1>3 DEF Next, CompletedIsWhole

-----------------------------------------------------------------------------
(* The theorems.                                                           *)

\* The conjunction of the properties and their strengthening is inductive.
THEOREM InvariantHolds == Spec => []LeaseInvariant
<1>1. LeaseInvariant /\ [Next]_vars => LeaseInvariant'
  <2> SUFFICES ASSUME LeaseInvariant, [Next]_vars, TypeOK' PROVE LeaseInvariant'
    BY TypeStep DEF LeaseInvariant
  <2>1. NewestRuns' /\ KnownTokens' /\ ClaimsWereStale'
    BY NewestRunsStep, KnownTokensStep, ClaimsWereStaleStep DEF LeaseInvariant
  <2>2. LeaseExclusive'
    BY <2>1, LeaseExclusiveStep DEF LeaseInvariant
  <2>3. CheckpointCovered' /\ CompletedIsWhole'
    BY CheckpointCoveredStep, CompletedIsWholeStep DEF LeaseInvariant
  <2>4. QED  BY <2>1, <2>2, <2>3 DEF LeaseInvariant
<1>2. QED  BY <1>1, InitInvariant, PTL DEF Spec

\* Two workers are never both live on a source: the partial unique index and
\* the conditional updates suffice, however the workers interleave.
THEOREM Exclusive == Spec => []LeaseExclusive
<1>1. LeaseInvariant => LeaseExclusive
  BY DEF LeaseInvariant
<1>2. QED  BY <1>1, InvariantHolds, PTL

\* No committed checkpoint runs ahead of the durable records.
THEOREM Covered == Spec => []CheckpointCovered
<1>1. LeaseInvariant => CheckpointCovered
  BY DEF LeaseInvariant
<1>2. QED  BY <1>1, InvariantHolds, PTL

\* A completed run leaves the publisher's pages wholly durable.
THEOREM Whole == Spec => []CompletedIsWhole
<1>1. LeaseInvariant => CompletedIsWhole
  BY DEF LeaseInvariant
<1>2. QED  BY <1>1, InvariantHolds, PTL

\* A page is written by the holder of the newest row, so a fenced worker never
\* writes over a newer run.
THEOREM FencedHolds == Spec => Fenced
<1>1. LeaseInvariant /\ [Next]_vars => [\A p \in Page : writer[p] <= writer'[p]]_vars
  <2> SUFFICES ASSUME LeaseInvariant, [Next]_vars, NEW p \in Page
               PROVE  writer[p] <= writer'[p]
    OBVIOUS
  <2>1. CASE UNCHANGED data
    BY <2>1 DEF data, LeaseInvariant, TypeOK, DataOK
  <2>2. ASSUME NEW w \in Worker, NEW slots \in SUBSET Slot,
               pc[w] = "page", HoldsLease(w), Persist(w, slots)
        PROVE  writer[p] <= writer'[p]
    <3>1. mine[w] = rows
      BY <2>2 DEF HoldsLease, LeaseInvariant, NewestRuns, TypeOK, LoopOK
    <3>2. writer[p] <= rows /\ writer[p] \in Nat
      BY DEF LeaseInvariant, KnownTokens, TypeOK, DataOK
    <3>3. writer'[p] \in {writer[p], rows}
      BY <2>2, <3>1 DEF Persist, LeaseInvariant, TypeOK, DataOK
    <3>4. QED  BY <3>2, <3>3 DEF LeaseInvariant, TypeOK, TableOK
  <2>3. QED  BY <2>1, <2>2, DataStep DEF LeaseInvariant
<1>2. QED  BY <1>1, InvariantHolds, PTL DEF Spec, Fenced

\* A row that has ended is never touched again.
THEOREM TerminalHolds == Spec => TerminalIsFinal
<1>1. LeaseInvariant /\ [Next]_vars =>
        [\A r \in Run : status[r] \in Terminal =>
           /\ status'[r] = status[r]
           /\ heartbeat'[r] = heartbeat[r]
           /\ checkpoint'[r] = checkpoint[r]
           /\ cause'[r] = cause[r]]_vars
  <2> SUFFICES ASSUME LeaseInvariant, [Next]_vars, NEW r \in Run, status[r] \in Terminal
               PROVE  /\ status'[r] = status[r]
                      /\ heartbeat'[r] = heartbeat[r]
                      /\ checkpoint'[r] = checkpoint[r]
                      /\ cause'[r] = cause[r]
    OBVIOUS
  <2>1. CASE UNCHANGED table
    BY <2>1 DEF table
  <2>2. ASSUME NEW q \in Run, EndsOrRenews(q)
        PROVE  /\ status'[r] = status[r]
               /\ heartbeat'[r] = heartbeat[r]
               /\ checkpoint'[r] = checkpoint[r]
               /\ cause'[r] = cause[r]
    BY <2>2 DEF EndsOrRenews, Running
  <2>3. CASE Appends
    <3>1. r # rows + 1
      BY DEF LeaseInvariant, NewestRuns, TypeOK, TableOK
    <3>2. QED  BY <2>3, <3>1 DEF Appends, LeaseInvariant, TypeOK, TableOK
  <2>4. QED  BY <2>1, <2>2, <2>3, TableStep DEF LeaseInvariant
<1>2. QED  BY <1>1, InvariantHolds, PTL DEF Spec, TerminalIsFinal

\* Only a holder silent for longer than StaleAfter loses its lease: the
\* heartbeat comparison covers the time between the claim's read and update.
THEOREM SilentHolds == Spec => OnlySilentReclaimed
<1>1. LeaseInvariant /\ [Next]_vars =>
        [\A r \in Run : (Running(r) /\ cause'[r] = "reclaimed") =>
           clock - heartbeat[r] > StaleAfter]_vars
  <2> SUFFICES ASSUME LeaseInvariant, [Next]_vars, NEW r \in Run,
                      Running(r), cause'[r] = "reclaimed"
               PROVE  clock - heartbeat[r] > StaleAfter
    OBVIOUS
  <2>0. cause[r] = "none"
    BY DEF LeaseInvariant, NewestRuns
  <2>1. cause' # cause
    BY <2>0
  <2>2. \E w \in Worker : Reclaim(w) \/ FailRun(w)
    BY <2>1 DEF Next, Tick, WorkerStep, AskRun, LookForRunning, Insert, RenewRunLease,
       LoseLease, FetchPage, CommitMidPage, CommitPage, FinishPartial, Complete,
       FinishWithErrors, UpdateRun, Raise, Crash, vars, table
  <2>3. PICK w \in Worker : Reclaim(w) \/ FailRun(w)
    BY <2>2
  <2>4. CASE FailRun(w)
    BY <2>0, <2>4 DEF FailRun, LeaseInvariant, TypeOK, TableOK
  <2>5. CASE Reclaim(w)
    <3>1. LeaseUnchanged(w) /\ cause' = [cause EXCEPT ![seen[w]] = "reclaimed"]
      BY <2>1, <2>5 DEF Reclaim
    <3>2. seen[w] = r
      BY <2>0, <3>1 DEF LeaseInvariant, TypeOK, TableOK
    <3>3. now[w] - heartbeat[r] > StaleAfter /\ now[w] <= clock
      BY <2>5, <3>1, <3>2 DEF Reclaim, LeaseUnchanged, LeaseInvariant, ClaimsWereStale
    <3>4. now[w] \in Nat /\ heartbeat[r] \in Nat /\ clock \in Nat
      BY DEF LeaseInvariant, TypeOK, TableOK, ClaimOK
    <3>5. QED  BY <3>3, <3>4
  <2>6. QED  BY <2>3, <2>4, <2>5
<1>2. QED  BY <1>1, InvariantHolds, PTL DEF Spec, OnlySilentReclaimed

-----------------------------------------------------------------------------
(* The run lease implements the fenced source.                             *)

\* A step of the table gives the source to a new token, keeps its holder, or
\* frees it.
LEMMA HolderStep ==
  ASSUME LeaseInvariant, [Next]_vars
  PROVE  \/ rows' = rows /\ Holder' \in {Holder, 0}
         \/ /\ Appends
            /\ Holder = 0 /\ Holder' = rows + 1
<1>1. CASE UNCHANGED table
  BY <1>1 DEF table, Holder, Running
<1>2. ASSUME NEW r \in Run, EndsOrRenews(r) PROVE rows' = rows /\ Holder' \in {Holder, 0}
  <2>1. rows' = rows /\ Running(r)
    BY <1>2 DEF EndsOrRenews
  <2>2. QED  BY <2>1 DEF Holder
<1>3. CASE Appends
  <2>1. rows + 1 \in Run
    BY <1>3 DEF Appends, LeaseInvariant, TypeOK, TableOK
  <2>2. status'[rows + 1] = "running"
    BY <1>3, <2>1 DEF Appends, LeaseInvariant, TypeOK, TableOK
  <2>3. Holder = 0 /\ Holder' = rows + 1
    BY <1>3, <2>1, <2>2 DEF Appends, IndexAdmits, Holder, Running
  <2>4. QED  BY <1>3, <2>3
<1>4. QED  BY <1>1, <1>2, <1>3, TableStep DEF LeaseInvariant

\* The worker that persists a page is the holder.
LEMMA WriterHolds ==
  ASSUME LeaseInvariant, NEW w \in Worker, pc[w] = "page", HoldsLease(w)
  PROVE  mine[w] \in Run /\ Running(mine[w]) /\ mine[w] = Holder /\ Holder # 0
<1>1. mine[w] \in Run /\ Running(mine[w])
  BY DEF HoldsLease, LeaseInvariant, TypeOK, LoopOK
<1>2. QED  BY <1>1 DEF Holder, LeaseInvariant, NewestRuns

LEMMA FencedStep ==
  ASSUME LeaseInvariant, [Next]_vars
  PROVE  [Fencing!Next]_(Fencing!vars)
<1>1. CASE Appends /\ Holder = 0 /\ Holder' = rows + 1
  <2>1. UNCHANGED data
    BY <1>1, DataStep, WriterHolds DEF Appends, IndexAdmits, LeaseInvariant
  <2>2. Fencing!Acquire
    BY <1>1, <2>1 DEF Appends, data, Fencing!Acquire
  <2>3. QED  BY <2>2 DEF Fencing!Next
<1>2. CASE rows' = rows /\ Holder' \in {Holder, 0}
  <2>1. CASE UNCHANGED data
    BY <1>2, <2>1 DEF data, Fencing!vars, Fencing!Next, Fencing!Release
  <2>2. ASSUME NEW w \in Worker, NEW slots \in SUBSET Slot,
               pc[w] = "page", HoldsLease(w), Persist(w, slots)
        PROVE  Fencing!Write
    <3>1. Holder # 0 /\ mine[w] = Holder
      BY <2>2, WriterHolds
    <3>2. cursor[w] + 1 \in Page
      BY DEF LeaseInvariant, TypeOK, LoopOK
    <3>3. /\ stored' = [stored EXCEPT ![cursor[w] + 1] = @ \cup slots]
          /\ writer' = [writer EXCEPT ![cursor[w] + 1] = Holder]
      BY <2>2, <3>1 DEF Persist
    <3>4. QED  BY <1>2, <3>1, <3>2, <3>3 DEF Fencing!Write
  <2>3. QED  BY <2>1, <2>2, DataStep DEF LeaseInvariant, Fencing!Next
<1>3. QED  BY <1>1, <1>2, HolderStep

\* The lease gives the source to one holder at a time, with growing tokens,
\* and only the holder writes.
THEOREM Implements == Spec => ImplementsFencedSource
<1>1. Init => Fencing!Init
  BY DEF Init, Fencing!Init, Holder, Running
<1>2. LeaseInvariant /\ [Next]_vars => [Fencing!Next]_(Fencing!vars)
  BY FencedStep
<1>3. QED  BY <1>1, <1>2, InvariantHolds, PTL DEF Spec, ImplementsFencedSource, Fencing!Spec
=============================================================================
