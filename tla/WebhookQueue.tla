---------------------------- MODULE WebhookQueue ----------------------------
(***************************************************************************)
(* The webhook delivery queue of one organization                          *)
(* (src/app/services/webhook_service.py).                                  *)
(*                                                                         *)
(* Deliveries are rows of webhook_deliveries.  Workers claim batches of due*)
(* rows under a lease, post them and write the outcome; admins attempt and *)
(* replay rows by hand without looking at leases.  Nothing holds a row     *)
(* locked while it posts: everyone works on the copy it loaded, and the ORM*)
(* writes back the columns that differ from that copy.                     *)
(*                                                                         *)
(* Time is abstract: a retry time is null, later or past; a lease is none, *)
(* live or expired.  The receiver may answer anything, or nothing.         *)
(***************************************************************************)
EXTENDS Integers, FiniteSets

CONSTANTS
  MaxDeliveries,  \* bound: rows enqueued
  Worker,         \* runs of process_due_webhook_deliveries, one after another
  Admin,          \* admin requests, one after another
  MaxAttempts,    \* max_attempts
  Limit,          \* limit: rows of one batch
  MaxManual,      \* bound: attempts and replays by admins
  MaxToggles,     \* bound: the subscription is disabled or enabled
  MaxCrashes,     \* bound: processes that die at work
  MaxOverruns     \* bound: leases that expire under a live worker

ASSUME WebhookAssumption ==
  /\ MaxDeliveries \in Nat \ {0}
  /\ MaxAttempts \in Nat \ {0}
  /\ Limit \in Nat \ {0}
  /\ MaxManual \in Nat /\ MaxToggles \in Nat
  /\ MaxCrashes \in Nat /\ MaxOverruns \in Nat
  /\ Worker \cap Admin = {}

Delivery == 1..MaxDeliveries   \* in the order of created_at
Process == Worker \cup Admin

\* The columns that decide anything.
Row == [status : {"absent", "pending", "delivered", "failed"}, attempts : Nat,
        next : {"null", "later", "past"}, lease : {"none", "live", "expired"}]

Blank == [status |-> "absent", attempts |-> 0, next |-> "null", lease |-> "none"]

VARIABLES
  row,       \* the table
  active,    \* the subscription's status is "active"
  pc, job,   \* what each process does, and with which delivery
  mem,       \* the copy of the row it has loaded
  batch,     \* claimed deliveries each worker has still to attempt
  posts,     \* history: requests sent for each delivery, counted to MaxAttempts
  refused,   \* history: deliveries tried while the subscription was inactive
  disturbed, \* history: deliveries whose lease expired under a live worker, or
             \* that an admin attempted
  manual, toggles, crashes, overruns   \* bounded events so far

local == <<pc, job, mem>>
hist  == <<posts, refused, disturbed>>
bounds == <<manual, toggles, crashes, overruns>>
vars == <<row, active, local, batch, hist, bounds>>

Init ==
  /\ row = [d \in Delivery |-> Blank]
  /\ active = TRUE
  /\ pc = [p \in Process |-> "idle"]
  /\ job = [p \in Process |-> 0]
  /\ mem = [p \in Process |-> Blank]
  /\ batch = [w \in Worker |-> {}]
  /\ posts = [d \in Delivery |-> 0]
  /\ refused = {} /\ disturbed = {}
  /\ manual = 0 /\ toggles = 0 /\ crashes = 0 /\ overruns = 0

-----------------------------------------------------------------------------
(* Events, the subscription and time.                                      *)

\* An event is queued for an active subscription, once: the idempotency index
\* admits no second row.
Enqueue(d) ==
  /\ active
  /\ row[d].status = "absent" /\ \A c \in Delivery : c < d => row[c].status # "absent"
  /\ row' = [row EXCEPT ![d].status = "pending"]
  /\ UNCHANGED <<active, local, batch, hist, bounds>>

Toggle ==
  /\ toggles < MaxToggles
  /\ toggles' = toggles + 1
  /\ active' = ~active
  /\ UNCHANGED <<row, local, batch, hist, manual, crashes, overruns>>

BackoffElapses(d) ==
  /\ row[d].next = "later"
  /\ row' = [row EXCEPT ![d].next = "past"]
  /\ UNCHANGED <<active, local, batch, hist, bounds>>

\* A live worker has the delivery in hand or in its batch.
Held(d) == \E w \in Worker : job[w] = d \/ d \in batch[w]

LeaseExpires(d) ==
  /\ row[d].lease = "live"
  /\ ~Held(d)
  /\ row' = [row EXCEPT ![d].lease = "expired"]
  /\ UNCHANGED <<active, local, batch, hist, bounds>>

\* A batch of slow receivers outlasts its lease.
LeaseOverruns(d) ==
  /\ row[d].lease = "live"
  /\ Held(d)
  /\ overruns < MaxOverruns
  /\ overruns' = overruns + 1
  /\ row' = [row EXCEPT ![d].lease = "expired"]
  /\ disturbed' = disturbed \cup {d}
  /\ UNCHANGED <<active, local, batch, posts, refused, manual, toggles, crashes>>

-----------------------------------------------------------------------------
(* Claiming a batch.                                                       *)

\* Mutants: the attempts, or the lease, are not looked at; an expired lease is
\* not taken over.
EligibleExhausted(d) ==
  row[d].status = "pending" /\ row[d].next # "later" /\ row[d].lease # "live"
EligibleLeased(d) ==
  row[d].status = "pending" /\ row[d].attempts < MaxAttempts /\ row[d].next # "later"
EligibleUnleased(d) ==
  /\ row[d].status = "pending" /\ row[d].attempts < MaxAttempts
  /\ row[d].next # "later" /\ row[d].lease = "none"

Eligible(d) ==
  /\ row[d].status = "pending"
  /\ row[d].attempts < MaxAttempts
  /\ row[d].next # "later"
  /\ row[d].lease # "live"

\* The oldest eligible rows, at most Limit; SKIP LOCKED makes concurrent claims
\* disjoint, as if one came after the other.
Due ==
  {d \in Delivery : /\ Eligible(d)
                    /\ Cardinality({c \in Delivery : c < d /\ Eligible(c)}) < Limit}

Claim(w) ==
  /\ pc[w] = "idle" /\ batch[w] = {}
  /\ Due # {}
  /\ batch' = [batch EXCEPT ![w] = Due]
  /\ row' = [d \in Delivery |-> IF d \in Due THEN [row[d] EXCEPT !.lease = "live"]
                                ELSE row[d]]
  /\ UNCHANGED <<active, local, hist, bounds>>

-----------------------------------------------------------------------------
(* An attempt, by a worker or an admin.                                    *)

\* The process loads row d and goes on at label.
Load(p, d, label) ==
  /\ pc' = [pc EXCEPT ![p] = label]
  /\ job' = [job EXCEPT ![p] = d]
  /\ mem' = [mem EXCEPT ![p] = row[d]]

\* The process is done with its delivery.
Drop(p) ==
  /\ pc' = [pc EXCEPT ![p] = "idle"]
  /\ job' = [job EXCEPT ![p] = 0]
  /\ mem' = [mem EXCEPT ![p] = Blank]

\* Load the row and the subscription; unless the row is delivered, post it or,
\* when the subscription is inactive, give it up.
Begin(p, d) ==
  IF row[d].status = "delivered"
  THEN UNCHANGED <<local, posts, refused>>
  ELSE IF active
  THEN /\ Load(p, d, "posting")
       /\ posts' = [posts EXCEPT ![d] = IF @ < MaxAttempts THEN @ + 1 ELSE @]
       /\ UNCHANGED refused
  ELSE /\ Load(p, d, "refusing")
       /\ refused' = refused \cup {d}
       /\ UNCHANGED posts

\* A worker takes the oldest delivery of its batch.
WorkerBegins(w, d) ==
  /\ pc[w] = "idle"
  /\ d \in batch[w] /\ \A c \in batch[w] : d <= c
  /\ batch' = [batch EXCEPT ![w] = @ \ {d}]
  /\ Begin(w, d)
  /\ UNCHANGED <<row, active, disturbed, bounds>>

\* An admin attempts any row, whatever its lease and its number of attempts.
AdminBegins(a, d) ==
  /\ pc[a] = "idle"
  /\ manual < MaxManual
  /\ row[d].status # "absent"
  /\ manual' = manual + 1
  /\ disturbed' = disturbed \cup {d}
  /\ Begin(a, d)
  /\ UNCHANGED <<row, active, batch, toggles, crashes, overruns>>

\* The ORM writes the columns whose value differs from the copy the process
\* loaded.  A new retry time differs from any older one.
Flush(p, status, attempts, next, lease) ==
  LET old == mem[p] IN
  row' = [row EXCEPT ![job[p]] =
    [status   |-> IF status # old.status THEN status ELSE @.status,
     attempts |-> IF attempts # old.attempts THEN attempts ELSE @.attempts,
     next     |-> IF next = "later" \/ next # old.next THEN next ELSE @.next,
     lease    |-> IF lease # old.lease THEN lease ELSE @.lease]]

\* mark_delivery_attempt, and the commit.
MarkAttempt(p, status) ==
  Flush(p, status, mem[p].attempts + 1, IF status = "pending" THEN "later" ELSE "null",
        "none")

\* A worker reads the row again after the commit; an admin's request is over.
AfterAttempt(p) ==
  IF p \in Worker THEN pc' = [pc EXCEPT ![p] = "readback"] /\ UNCHANGED <<job, mem>>
  ELSE Drop(p)

\* A 2xx answer, or any other answer or failure; an inactive subscription.
Finish(p) ==
  /\ \/ pc[p] = "posting" /\ \E status \in {"delivered", "pending"} : MarkAttempt(p, status)
     \/ pc[p] = "refusing" /\ MarkAttempt(p, "failed")
  /\ AfterAttempt(p)
  /\ UNCHANGED <<active, batch, hist, bounds>>

-----------------------------------------------------------------------------
(* Dead letters.                                                           *)

\* Mutant: one attempt too early.
ExhaustedEarly(r) == r.status = "pending" /\ r.attempts + 1 >= MaxAttempts

Exhausted(r) == r.status = "pending" /\ r.attempts >= MaxAttempts

ReadBack(w) ==
  /\ pc[w] = "readback"
  /\ IF Exhausted(row[job[w]]) THEN Load(w, job[w], "exhausting") ELSE Drop(w)
  /\ UNCHANGED <<row, active, batch, hist, bounds>>

FailExhausted(w) ==
  /\ pc[w] = "exhausting"
  /\ Flush(w, "failed", mem[w].attempts, "null", mem[w].lease)
  /\ Drop(w)
  /\ UNCHANGED <<active, batch, hist, bounds>>

BeginReplay(a, d) ==
  /\ pc[a] = "idle"
  /\ manual < MaxManual
  /\ row[d].status \in {"pending", "failed"}
  /\ Load(a, d, "replaying")
  /\ manual' = manual + 1
  /\ UNCHANGED <<row, active, batch, hist, toggles, crashes, overruns>>

FinishReplay(a) ==
  /\ pc[a] = "replaying"
  /\ Flush(a, "pending", mem[a].attempts, "null", mem[a].lease)
  /\ Drop(a)
  /\ UNCHANGED <<active, batch, hist, bounds>>

\* A process dies; its copy and its batch are gone, its leases stay.
Crash(p) ==
  /\ crashes < MaxCrashes
  /\ pc[p] # "idle" \/ (p \in Worker /\ batch[p] # {})
  /\ crashes' = crashes + 1
  /\ Drop(p)
  /\ batch' = IF p \in Worker THEN [batch EXCEPT ![p] = {}] ELSE batch
  /\ UNCHANGED <<row, active, hist, manual, toggles, overruns>>

WorkerStep(w) ==
  \/ Claim(w) \/ \E d \in Delivery : WorkerBegins(w, d)
  \/ Finish(w) \/ ReadBack(w) \/ FailExhausted(w)

AdminStep(a) ==
  \/ \E d \in Delivery : AdminBegins(a, d) \/ BeginReplay(a, d)
  \/ Finish(a) \/ FinishReplay(a)

Elapse(d) == BackoffElapses(d) \/ LeaseExpires(d)

Next ==
  \/ \E d \in Delivery : Enqueue(d) \/ Elapse(d) \/ LeaseOverruns(d)
  \/ Toggle
  \/ \E w \in Worker : WorkerStep(w)
  \/ \E a \in Admin : AdminStep(a)
  \/ \E p \in Process : Crash(p)

Spec == Init /\ [][Next]_vars

\* Time passes, a worker is started again and again, and a post ends with an
\* answer or its timeout.
FairSpec ==
  /\ Spec
  /\ \A d \in Delivery : WF_vars(BackoffElapses(d)) /\ WF_vars(LeaseExpires(d))
  /\ \A w \in Worker : WF_vars(WorkerStep(w))

-----------------------------------------------------------------------------
Labels == {"idle", "posting", "refusing", "readback", "exhausting", "replaying"}

\* Columns and copies stay in their domains, and the number of attempts goes
\* past MaxAttempts only by admins or after a lease was outlasted.
TypeOK ==
  /\ row \in [Delivery -> Row] /\ mem \in [Process -> Row]
  /\ active \in BOOLEAN
  /\ pc \in [Process -> Labels] /\ job \in [Process -> 0..MaxDeliveries]
  /\ batch \in [Worker -> SUBSET Delivery]
  /\ posts \in [Delivery -> 0..MaxAttempts]
  /\ refused \subseteq Delivery /\ disturbed \subseteq Delivery
  /\ manual \in 0..MaxManual /\ toggles \in 0..MaxToggles
  /\ crashes \in 0..MaxCrashes /\ overruns \in 0..MaxOverruns
  /\ \A p \in Process : pc[p] # "idle" => job[p] \in Delivery
  /\ \A d \in Delivery : row[d].attempts <= MaxAttempts + manual + overruns

\* The lease keeps two workers from posting the same delivery at once, unless
\* it ran out under the first or an admin's attempt cleared it.
OneWorkerPosts ==
  \A v, w \in Worker :
    (v # w /\ pc[v] = "posting" /\ pc[w] = "posting" /\ job[v] = job[w])
      => job[v] \in disturbed

\* A delivery is in the dead letters only if it has really been posted
\* MaxAttempts times or met an inactive subscription; concurrent writers lose
\* attempts from the count but never invent one.
NeverGivenUpEarly ==
  \A d \in Delivery :
    row[d].status = "failed" => posts[d] = MaxAttempts \/ d \in refused

\* Workers write what they loaded, not what is there: still, as long as no
\* admin intervenes and no lease is outlasted, a delivered row is final.
DeliveredUndisturbed ==
  [][\A d \in Delivery : (row[d].status = "delivered" /\ d \notin disturbed)
       => row'[d] = row[d] \/ \E a \in Admin : pc[a] = "replaying" /\ job[a] = d]_vars

\* A pending delivery with attempts left is in the end delivered, given up, or
\* out of attempts, whatever dies meanwhile.
NothingStarves ==
  \A d \in Delivery :
    (row[d].status = "pending" /\ row[d].attempts < MaxAttempts)
      ~> (row[d].status \in {"delivered", "failed"} \/ row[d].attempts >= MaxAttempts)

\* An admin's replay of delivery d is committed.
Replayed(d) == \E a \in Admin : job[a] = d /\ FinishReplay(a)

\* Stated by docs/webhooks.md:114-116: replaying a dead letter makes the row
\* eligible for the worker again.
ReplayedIsClaimable ==
  [][\A d \in Delivery : (row[d].status = "failed" /\ Replayed(d))
       => row'[d].attempts < MaxAttempts]_vars

\* Stated by docs/webhooks.md:116: delivered webhooks cannot be replayed.
DeliveredIsNotReplayed ==
  [][\A d \in Delivery : (row[d].status = "delivered" /\ Replayed(d))
       => row'[d].status = "delivered"]_vars
=============================================================================
