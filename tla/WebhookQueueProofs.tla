------------------------- MODULE WebhookQueueProofs -------------------------
(***************************************************************************)
(* Proofs about WebhookQueue, for every number of deliveries, workers,     *)
(* admins and attempts, every batch size and every bound on disturbances.  *)
(***************************************************************************)
EXTENDS WebhookQueue, FiniteSetTheorems, TLAPS

USE WebhookAssumption DEF Delivery, Process, Labels

\* TypeOK without its bound on the attempts, which is proved last.
Typed ==
  /\ row \in [Delivery -> Row] /\ mem \in [Process -> Row]
  /\ active \in BOOLEAN
  /\ pc \in [Process -> Labels] /\ job \in [Process -> 0..MaxDeliveries]
  /\ batch \in [Worker -> SUBSET Delivery]
  /\ posts \in [Delivery -> 0..MaxAttempts]
  /\ refused \subseteq Delivery /\ disturbed \subseteq Delivery
  /\ manual \in 0..MaxManual /\ toggles \in 0..MaxToggles
  /\ crashes \in 0..MaxCrashes /\ overruns \in 0..MaxOverruns
  /\ \A p \in Process : pc[p] # "idle" => job[p] \in Delivery

\* A worker never replays, an admin never looks for exhausted rows, and a
\* worker's delivery has left its batch.
Roles ==
  /\ \A a \in Admin : pc[a] \notin {"readback", "exhausting"}
  /\ \A w \in Worker : pc[w] # "replaying"
  /\ \A w \in Worker : pc[w] # "idle" => job[w] \notin batch[w]

-----------------------------------------------------------------------------
(* What the parts of an action do to the table.                            *)

\* The columns of a row.
LEMMA RowColumns ==
  ASSUME NEW r \in Row
  PROVE  /\ r.status \in {"absent", "pending", "delivered", "failed"}
         /\ r.attempts \in Nat
         /\ r.next \in {"null", "later", "past"}
         /\ r.lease \in {"none", "live", "expired"}
  BY DEF Row

\* A row with one column changed.
LEMMA ColumnChanged ==
  ASSUME NEW r \in Row, NEW s \in {"pending"}, NEW t \in {"past"},
         NEW l \in {"live", "expired"}
  PROVE  /\ [r EXCEPT !.status = s] \in Row
         /\ [r EXCEPT !.next = t] \in Row
         /\ [r EXCEPT !.lease = l] \in Row
  BY DEF Row

LEMMA BlankIsRow == Blank \in Row
  BY DEF Blank, Row

\* Flush writes row job[p] alone, each column with the value given or not at all.
LEMMA FlushWrites ==
  ASSUME Typed, NEW p \in Process, job[p] \in Delivery,
         NEW s \in {"pending", "delivered", "failed"}, NEW n \in Nat,
         NEW t \in {"null", "later"}, NEW l \in {"none", "live", "expired"},
         Flush(p, s, n, t, l)
  PROVE  /\ row' \in [Delivery -> Row]
         /\ \A d \in Delivery : d # job[p] => row'[d] = row[d]
         /\ row'[job[p]].status = IF s # mem[p].status THEN s ELSE row[job[p]].status
         /\ row'[job[p]].attempts = IF n # mem[p].attempts THEN n ELSE row[job[p]].attempts
         /\ row'[job[p]].next = IF t = "later" \/ t # mem[p].next THEN t ELSE row[job[p]].next
         /\ row'[job[p]].lease = IF l # mem[p].lease THEN l ELSE row[job[p]].lease
<1> DEFINE new == [status |-> IF s # mem[p].status THEN s ELSE row[job[p]].status,
                   attempts |-> IF n # mem[p].attempts THEN n ELSE row[job[p]].attempts,
                   next |-> IF t = "later" \/ t # mem[p].next THEN t
                            ELSE row[job[p]].next,
                   lease |-> IF l # mem[p].lease THEN l ELSE row[job[p]].lease]
<1>1. row[job[p]] \in Row /\ row \in [Delivery -> Row]
  BY DEF Typed
<1>2. row' = [row EXCEPT ![job[p]] = new]
  BY DEF Flush
<1>3. new \in Row
  <2>1. /\ row[job[p]].status \in {"absent", "pending", "delivered", "failed"}
        /\ row[job[p]].attempts \in Nat
        /\ row[job[p]].next \in {"null", "later", "past"}
        /\ row[job[p]].lease \in {"none", "live", "expired"}
    BY <1>1, RowColumns
  <2>2. QED  BY <2>1 DEF Row
<1>4. row' \in [Delivery -> Row] /\ row'[job[p]] = new
      /\ \A d \in Delivery : d # job[p] => row'[d] = row[d]
  <2> HIDE DEF new
  <2> QED  BY <1>1, <1>2, <1>3
<1>5. QED  BY <1>4

\* An attempt always adds one to the copy's count and clears the lease that the
\* copy shows.
LEMMA FinishWrites ==
  ASSUME Typed, NEW p \in Process, Finish(p)
  PROVE  /\ job[p] \in Delivery
         /\ pc[p] \in {"posting", "refusing"}
         /\ row' \in [Delivery -> Row]
         /\ \A d \in Delivery : d # job[p] => row'[d] = row[d]
         /\ row'[job[p]].attempts = mem[p].attempts + 1
         /\ row'[job[p]].lease = IF mem[p].lease # "none" THEN "none"
                                 ELSE row[job[p]].lease
         /\ row'[job[p]].status \in {"pending", "delivered", "failed", row[job[p]].status}
         /\ row'[job[p]].status \in {"delivered", "failed"} =>
              row'[job[p]].next \in {"null", row[job[p]].next}
                \/ row'[job[p]].status = row[job[p]].status
         /\ pc[p] = "posting" => row'[job[p]].status \in
                                   {"pending", "delivered", row[job[p]].status}
<1>1. job[p] \in Delivery /\ pc[p] \in {"posting", "refusing"}
  BY DEF Finish, Typed
<1>2. PICK s \in {"pending", "delivered", "failed"} :
        /\ MarkAttempt(p, s)
        /\ pc[p] = "posting" => s # "failed"
  BY DEF Finish
<1>3. mem[p] \in Row
  BY DEF Typed
<1>4. mem[p].attempts + 1 \in Nat /\ mem[p].attempts + 1 # mem[p].attempts
  <2>1. mem[p].attempts \in Nat
    BY <1>3, RowColumns
  <2>2. QED  BY <2>1
<1> DEFINE t == IF s = "pending" THEN "later" ELSE "null"
<1>5. Flush(p, s, mem[p].attempts + 1, t, "none") /\ t \in {"null", "later"}
  BY <1>2 DEF MarkAttempt
<1> HIDE DEF t
<1>6. /\ row' \in [Delivery -> Row]
      /\ \A d \in Delivery : d # job[p] => row'[d] = row[d]
      /\ row'[job[p]].status = IF s # mem[p].status THEN s ELSE row[job[p]].status
      /\ row'[job[p]].attempts = mem[p].attempts + 1
      /\ row'[job[p]].next = IF t = "later" \/ t # mem[p].next THEN t ELSE row[job[p]].next
      /\ row'[job[p]].lease = IF "none" # mem[p].lease THEN "none" ELSE row[job[p]].lease
  <2> DEFINE n == mem[p].attempts + 1
  <2>1. n \in Nat /\ n # mem[p].attempts /\ Flush(p, s, n, t, "none")
    BY <1>4, <1>5
  <2> HIDE DEF n
  <2>2. "none" \in {"none", "live", "expired"}
    OBVIOUS
  <2>3. /\ row' \in [Delivery -> Row]
        /\ \A d \in Delivery : d # job[p] => row'[d] = row[d]
        /\ row'[job[p]].status = IF s # mem[p].status THEN s ELSE row[job[p]].status
        /\ row'[job[p]].attempts = IF n # mem[p].attempts THEN n ELSE row[job[p]].attempts
        /\ row'[job[p]].next = IF t = "later" \/ t # mem[p].next THEN t ELSE row[job[p]].next
        /\ row'[job[p]].lease = IF "none" # mem[p].lease THEN "none" ELSE row[job[p]].lease
    BY <1>1, <1>2, <1>5, <2>1, <2>2, FlushWrites, SMTT(60)
  <2>4. row'[job[p]].attempts = n
    BY <2>1, <2>3
  <2> QED BY <2>3, <2>4 DEF n
<1>7. QED  BY <1>1, <1>2, <1>6 DEF t

\* A replay and a worker that gives up write neither the attempts nor the lease.
LEMMA KeepsCounts ==
  ASSUME Typed, NEW p \in Process, job[p] \in Delivery,
         NEW s \in {"pending", "delivered", "failed"},
         Flush(p, s, mem[p].attempts, "null", mem[p].lease)
  PROVE  /\ row' \in [Delivery -> Row]
         /\ \A d \in Delivery : /\ row'[d].attempts = row[d].attempts
                                /\ row'[d].lease = row[d].lease
                                /\ row'[d].next \in {"null", row[d].next}
                                /\ d # job[p] => row'[d] = row[d]
         /\ row'[job[p]].status \in {s, row[job[p]].status}
<1>1. mem[p] \in Row
  BY DEF Typed
<1>2. mem[p].attempts \in Nat /\ mem[p].lease \in {"none", "live", "expired"}
  BY <1>1, RowColumns
<1>3. /\ row' \in [Delivery -> Row]
      /\ \A d \in Delivery : d # job[p] => row'[d] = row[d]
      /\ row'[job[p]].status = IF s # mem[p].status THEN s ELSE row[job[p]].status
      /\ row'[job[p]].attempts = row[job[p]].attempts
      /\ row'[job[p]].next = IF "null" # mem[p].next THEN "null" ELSE row[job[p]].next
      /\ row'[job[p]].lease = row[job[p]].lease
  BY <1>2, FlushWrites, SMTT(60)
<1>4. QED  BY <1>3

-----------------------------------------------------------------------------
(* Types and roles, one step per action.                                   *)

LEMMA InitTyped == Init => Typed /\ Roles
  BY BlankIsRow DEF Init, Typed, Roles

LEMMA TableStepTyped ==
  ASSUME Typed, Roles, NEW d \in Delivery,
         Enqueue(d) \/ Elapse(d) \/ LeaseOverruns(d) \/ Toggle
  PROVE  Typed' /\ Roles'
<1>1. row[d] \in Row /\ row \in [Delivery -> Row]
  BY DEF Typed
<1>2. /\ [row[d] EXCEPT !.status = "pending"] \in Row
      /\ [row[d] EXCEPT !.next = "past"] \in Row
      /\ [row[d] EXCEPT !.lease = "expired"] \in Row
  BY <1>1, ColumnChanged
<1>3. row' \in [Delivery -> Row]
  BY <1>1, <1>2 DEF Enqueue, Elapse, BackoffElapses, LeaseExpires, LeaseOverruns, Toggle
<1>4. UNCHANGED <<local, batch, posts, refused, manual, crashes>>
  BY DEF Enqueue, Elapse, BackoffElapses, LeaseExpires, LeaseOverruns, Toggle, hist, bounds
<1>5. active' \in BOOLEAN
  BY DEF Enqueue, Elapse, BackoffElapses, LeaseExpires, LeaseOverruns, Toggle, Typed
<1>6. disturbed' \subseteq Delivery
  BY DEF Enqueue, Elapse, BackoffElapses, LeaseExpires, LeaseOverruns, Toggle, hist, Typed
<1>7. toggles' \in 0..MaxToggles /\ overruns' \in 0..MaxOverruns
  BY DEF Enqueue, Elapse, BackoffElapses, LeaseExpires, LeaseOverruns, Toggle, bounds, Typed
<1>8. QED  BY <1>3, <1>4, <1>5, <1>6, <1>7, SMTT(30) DEF Typed, Roles, local

LEMMA ClaimTyped ==
  ASSUME Typed, Roles, NEW w \in Worker, Claim(w)
  PROVE  Typed' /\ Roles'
<1>1. row' \in [Delivery -> Row]
  <2>1. \A d \in Delivery : row[d] \in Row /\ [row[d] EXCEPT !.lease = "live"] \in Row
    <3>1. \A d \in Delivery : row[d] \in Row
      BY DEF Typed
    <3>2. QED  BY <3>1, ColumnChanged
  <2>2. QED  BY <2>1 DEF Claim
<1>2. Due \subseteq Delivery
  BY DEF Due
<1>3. batch' \in [Worker -> SUBSET Delivery]
  BY <1>2 DEF Claim, Typed
<1>4. QED  BY <1>1, <1>3 DEF Claim, Typed, Roles, local, hist, bounds

\* Beginning an attempt keeps everything typed but the batch, which it leaves to
\* the caller.
LEMMA BeginTyped ==
  ASSUME Typed, NEW p \in Process, NEW d \in Delivery, Begin(p, d)
  PROVE  /\ mem' \in [Process -> Row]
         /\ pc' \in [Process -> Labels] /\ job' \in [Process -> 0..MaxDeliveries]
         /\ posts' \in [Delivery -> 0..MaxAttempts]
         /\ refused' \subseteq Delivery
         /\ \A q \in Process : pc'[q] # "idle" => job'[q] \in Delivery
         /\ \A q \in Process : q # p => pc'[q] = pc[q] /\ job'[q] = job[q] /\ mem'[q] = mem[q]
<1>1. CASE row[d].status = "delivered"
  BY <1>1 DEF Begin, Typed, local
<1>2. CASE row[d].status # "delivered"
  <2>1. PICK l \in {"posting", "refusing"} : Load(p, d, l)
    BY <1>2 DEF Begin
  <2>2. row[d] \in Row
    BY DEF Typed
  <2>3. /\ mem' \in [Process -> Row]
        /\ pc' \in [Process -> Labels] /\ job' \in [Process -> 0..MaxDeliveries]
        /\ \A q \in Process : pc'[q] # "idle" => job'[q] \in Delivery
        /\ \A q \in Process : q # p => /\ pc'[q] = pc[q] /\ job'[q] = job[q]
                                       /\ mem'[q] = mem[q]
    BY <2>1, <2>2 DEF Load, Typed
  <2>4. posts' \in [Delivery -> 0..MaxAttempts]
    <3>1. posts[d] \in 0..MaxAttempts
      BY DEF Typed
    <3>2. (IF posts[d] < MaxAttempts THEN posts[d] + 1 ELSE posts[d]) \in 0..MaxAttempts
      BY <3>1
    <3>3. \/ posts' = posts
          \/ posts' = [posts EXCEPT ![d] = IF posts[d] < MaxAttempts THEN posts[d] + 1
                                           ELSE posts[d]]
      BY <1>2 DEF Begin
    <3>4. QED  BY <3>2, <3>3 DEF Typed
  <2>5. refused' \subseteq Delivery
    BY <1>2 DEF Begin, Typed
  <2>6. QED  BY <2>3, <2>4, <2>5
<1>3. QED  BY <1>1, <1>2

LEMMA WorkerBeginsTyped ==
  ASSUME Typed, Roles, NEW w \in Worker, NEW d \in Delivery, WorkerBegins(w, d)
  PROVE  Typed' /\ Roles'
<1>1. Begin(w, d) /\ w \in Process
  BY DEF WorkerBegins
<1>2. batch' \in [Worker -> SUBSET Delivery] /\ batch' = [batch EXCEPT ![w] = @ \ {d}]
  BY DEF WorkerBegins, Typed
<1>3. Typed'
  BY <1>1, <1>2, BeginTyped DEF WorkerBegins, Typed, bounds
<1>4. /\ pc[w] = "idle"
      /\ \/ UNCHANGED <<pc, job>>
         \/ \E l \in {"posting", "refusing"} : pc' = [pc EXCEPT ![w] = l]
                                               /\ job' = [job EXCEPT ![w] = d]
  BY DEF WorkerBegins, Begin, Load, local
<1>5. Roles'
  BY <1>2, <1>4 DEF Roles, Typed
<1>6. QED  BY <1>3, <1>5

LEMMA AdminBeginsTyped ==
  ASSUME Typed, Roles, NEW a \in Admin, NEW d \in Delivery, AdminBegins(a, d)
  PROVE  Typed' /\ Roles'
<1>1. Begin(a, d) /\ a \in Process /\ a \notin Worker
  BY DEF AdminBegins
<1>2. Typed'
  <2>1. /\ mem' \in [Process -> Row]
        /\ pc' \in [Process -> Labels] /\ job' \in [Process -> 0..MaxDeliveries]
        /\ posts' \in [Delivery -> 0..MaxAttempts]
        /\ refused' \subseteq Delivery
        /\ \A q \in Process : pc'[q] # "idle" => job'[q] \in Delivery
    BY <1>1, BeginTyped
  <2>2. manual' \in 0..MaxManual /\ disturbed' \subseteq Delivery
        /\ UNCHANGED <<row, active, batch, toggles, crashes, overruns>>
    BY DEF AdminBegins, Typed
  <2>3. QED  BY <2>1, <2>2 DEF Typed
<1>3. \/ UNCHANGED <<pc, job>>
      \/ \E l \in {"posting", "refusing"} : pc' = [pc EXCEPT ![a] = l]
                                            /\ job' = [job EXCEPT ![a] = d]
  BY <1>1 DEF Begin, Load, local
<1>4. Roles'
  BY <1>1, <1>3 DEF AdminBegins, Roles, Typed
<1>5. QED  BY <1>2, <1>4

LEMMA FinishTyped ==
  ASSUME Typed, Roles, NEW p \in Process, Finish(p)
  PROVE  Typed' /\ Roles'
<1>1. row' \in [Delivery -> Row]
  BY FinishWrites
<1>2. CASE p \in Worker
  BY <1>1, <1>2 DEF Finish, AfterAttempt, Typed, Roles, hist, bounds
<1>3. CASE p \notin Worker
  <2>1. Drop(p)
    BY <1>3 DEF Finish, AfterAttempt
  <2>2. Typed'
    BY <1>1, <2>1, BlankIsRow DEF Finish, Drop, Typed, hist, bounds
  <2>3. Roles'
    BY <1>3, <2>1 DEF Finish, Drop, Roles, Typed
  <2>4. QED  BY <2>2, <2>3
<1>4. QED  BY <1>2, <1>3

LEMMA ReadBackTyped ==
  ASSUME Typed, Roles, NEW w \in Worker, ReadBack(w)
  PROVE  Typed' /\ Roles'
<1>1. job[w] \in Delivery /\ w \in Process
  BY DEF ReadBack, Typed
<1>2. CASE Exhausted(row[job[w]])
  <2>1. Load(w, job[w], "exhausting") /\ row[job[w]] \in Row
    BY <1>1, <1>2 DEF ReadBack, Typed
  <2>2. Typed'
    BY <1>1, <2>1 DEF ReadBack, Load, Typed, hist, bounds
  <2>3. pc[w] = "readback"
    BY DEF ReadBack
  <2>4. Roles'
    BY <1>1, <2>1, <2>3 DEF ReadBack, Load, Typed, Roles
  <2>5. QED  BY <2>2, <2>4
<1>3. CASE ~Exhausted(row[job[w]])
  <2>1. Drop(w)
    BY <1>3 DEF ReadBack
  <2>2. Typed'
    BY <1>1, <2>1, BlankIsRow DEF ReadBack, Drop, Typed, hist, bounds
  <2>3. Roles'
    BY <1>1, <2>1 DEF ReadBack, Drop, Typed, Roles
  <2>4. QED  BY <2>2, <2>3
<1>4. QED  BY <1>2, <1>3

LEMMA FlushAndDropTyped ==
  ASSUME Typed, Roles, NEW p \in Process,
         (p \in Worker /\ FailExhausted(p)) \/ (p \in Admin /\ FinishReplay(p))
  PROVE  Typed' /\ Roles'
<1>1. job[p] \in Delivery
  BY DEF FailExhausted, FinishReplay, Typed
<1>2. row' \in [Delivery -> Row]
  BY <1>1, KeepsCounts DEF FailExhausted, FinishReplay
<1>3. Drop(p) /\ UNCHANGED <<active, batch, hist, bounds>>
  BY DEF FailExhausted, FinishReplay
<1>4. Typed'
  BY <1>2, <1>3, BlankIsRow DEF Drop, Typed, hist, bounds
<1>5. Roles'
  BY <1>3 DEF Drop, Roles, Typed
<1>6. QED  BY <1>4, <1>5

LEMMA BeginReplayTyped ==
  ASSUME Typed, Roles, NEW a \in Admin, NEW d \in Delivery, BeginReplay(a, d)
  PROVE  Typed' /\ Roles'
  BY SMTT(30) DEF BeginReplay, Load, Typed, Roles, hist

LEMMA CrashTyped ==
  ASSUME Typed, Roles, NEW p \in Process, Crash(p)
  PROVE  Typed' /\ Roles'
<1>1. batch' \in [Worker -> SUBSET Delivery]
      /\ \A w \in Worker : batch'[w] \subseteq batch[w]
  BY DEF Crash, Typed
<1>2. Typed'
  BY <1>1, BlankIsRow DEF Crash, Drop, Typed, hist
<1>3. Roles'
  BY <1>1 DEF Crash, Drop, Roles, Typed
<1>4. QED  BY <1>2, <1>3

\* Every step of the system, by who takes it.
LEMMA Steps ==
  ASSUME [Next]_vars
  PROVE  \/ \E d \in Delivery : Enqueue(d) \/ Elapse(d) \/ LeaseOverruns(d) \/ Toggle
         \/ \E w \in Worker : Claim(w) \/ ReadBack(w) \/ FailExhausted(w)
         \/ \E w \in Worker, d \in Delivery : WorkerBegins(w, d)
         \/ \E a \in Admin, d \in Delivery : AdminBegins(a, d) \/ BeginReplay(a, d)
         \/ \E p \in Process : Finish(p) \/ Crash(p)
         \/ \E a \in Admin : FinishReplay(a)
         \/ UNCHANGED vars
<1>1. 1 \in Delivery
  OBVIOUS
<1>2. QED  BY <1>1 DEF Next, WorkerStep, AdminStep

LEMMA TypedStep == Typed /\ Roles /\ [Next]_vars => Typed' /\ Roles'
<1> SUFFICES ASSUME Typed, Roles, [Next]_vars PROVE Typed' /\ Roles'
  OBVIOUS
<1>1. CASE UNCHANGED vars
  BY <1>1 DEF vars, local, hist, bounds, Typed, Roles
<1>2. QED
  BY <1>1, Steps, TableStepTyped, ClaimTyped, WorkerBeginsTyped, AdminBeginsTyped,
     FinishTyped, ReadBackTyped, FlushAndDropTyped, BeginReplayTyped, CrashTyped

-----------------------------------------------------------------------------
(* The count of attempts never runs ahead of the requests sent.            *)

GivenUp(d) == d \in refused \/ posts[d] = MaxAttempts

\* The dead letters, the count of a row and the copies of it in flight all stay
\* behind the requests really sent, unless the delivery may be given up.
Counted ==
  /\ \A d \in Delivery :
       GivenUp(d) \/ (row[d].attempts <= posts[d] /\ row[d].status # "failed")
  /\ \A p \in Process :
       pc[p] = "posting" => GivenUp(job[p]) \/ mem[p].attempts < posts[job[p]]
  /\ \A p \in Process : pc[p] \in {"refusing", "exhausting"} => GivenUp(job[p])

LEMMA InitCounted == Init => Counted
  BY DEF Init, Counted, GivenUp, Blank

\* The rows may only come closer to pending, and no process may take up a
\* delivery.
LEMMA CountedFrame ==
  ASSUME Typed, Counted, UNCHANGED <<posts, refused>>,
         \A d \in Delivery : /\ row'[d].attempts = row[d].attempts
                             /\ row'[d].status = "failed" =>
                                  row[d].status = "failed" \/ GivenUp(d),
         \A p \in Process : pc'[p] \in {"posting", "refusing", "exhausting"} =>
                              /\ pc'[p] = pc[p] /\ job'[p] = job[p]
                              /\ mem'[p].attempts = mem[p].attempts
  PROVE  Counted'
  BY DEF Counted, GivenUp

\* Enqueueing, time and toggles change no count and give nothing up.
LEMMA TableStepKeeps ==
  ASSUME Typed, NEW d \in Delivery,
         Enqueue(d) \/ Elapse(d) \/ LeaseOverruns(d) \/ Toggle
  PROVE  \A e \in Delivery : /\ row'[e].attempts = row[e].attempts
                             /\ row'[e].status = "failed" => row[e].status = "failed"
<1>1. row \in [Delivery -> Row] /\ row[d] \in Row
  BY DEF Typed
<1>2. QED
  BY <1>1, RowColumns, SMTT(30) DEF Enqueue, Elapse, BackoffElapses, LeaseExpires, LeaseOverruns,
     Toggle, Row

LEMMA TableStepCounted ==
  ASSUME Typed, Counted, NEW d \in Delivery,
         Enqueue(d) \/ Elapse(d) \/ LeaseOverruns(d) \/ Toggle
  PROVE  Counted'
<1>1. \A e \in Delivery : /\ row'[e].attempts = row[e].attempts
                          /\ row'[e].status = "failed" => row[e].status = "failed"
  BY TableStepKeeps
<1>2. UNCHANGED <<local, posts, refused>>
  BY DEF Enqueue, Elapse, BackoffElapses, LeaseExpires, LeaseOverruns, Toggle, hist
<1>3. QED  BY <1>1, <1>2, CountedFrame DEF local

LEMMA ClaimCounted ==
  ASSUME Typed, Counted, NEW w \in Worker, Claim(w)
  PROVE  Counted'
<1>1. \A e \in Delivery : row[e] \in Row
  BY DEF Typed
<1>2. \A e \in Delivery : /\ row'[e].attempts = row[e].attempts
                          /\ row'[e].status = row[e].status
  BY <1>1 DEF Claim, Row
<1>3. UNCHANGED <<local, posts, refused>>
  BY DEF Claim, hist
<1>4. QED  BY <1>2, <1>3, CountedFrame DEF local

\* A post is counted, up to MaxAttempts, before its copy may raise the row.
LEMMA BeginCounted ==
  ASSUME Typed, Counted, NEW p \in Process, NEW d \in Delivery, Begin(p, d),
         UNCHANGED row
  PROVE  Counted'
<1>1. CASE row[d].status = "delivered"
  BY <1>1, CountedFrame DEF Begin, local, Counted
<1>2. CASE row[d].status # "delivered" /\ active
  <2>1. Load(p, d, "posting") /\ UNCHANGED refused
    BY <1>2 DEF Begin
  <2>2. posts' = [posts EXCEPT ![d] = IF posts[d] < MaxAttempts THEN posts[d] + 1
                                      ELSE posts[d]]
    BY <1>2 DEF Begin
  <2>3. posts[d] \in 0..MaxAttempts
    BY DEF Typed
  <2>4. /\ posts'[d] = MaxAttempts \/ posts'[d] = posts[d] + 1
        /\ posts'[d] >= posts[d]
        /\ posts[d] = MaxAttempts => posts'[d] = MaxAttempts
        /\ \A e \in Delivery : e # d => posts'[e] = posts[e]
    BY <2>2, <2>3 DEF Typed
  <2>5. \A e \in Delivery : GivenUp(e) => GivenUp(e)'
    BY <2>1, <2>4 DEF GivenUp
  <2>6. \A e \in Delivery : row[e].attempts \in Nat /\ posts[e] \in Nat
    BY RowColumns DEF Typed
  <2>7. \A e \in Delivery :
          GivenUp(e)' \/ (row[e].attempts <= posts'[e] /\ row[e].status # "failed")
    BY <2>4, <2>5, <2>6 DEF Counted
  <2>8. \A q \in Process : /\ pc'[q] = IF q = p THEN "posting" ELSE pc[q]
                           /\ job'[q] = IF q = p THEN d ELSE job[q]
                           /\ mem'[q] = IF q = p THEN row[d] ELSE mem[q]
    BY <2>1 DEF Load, Typed
  <2>9. GivenUp(d)' \/ row[d].attempts < posts'[d]
    BY <2>4, <2>5, <2>6 DEF Counted, GivenUp
  <2>10. \A q \in Process : mem[q].attempts \in Nat
    BY RowColumns DEF Typed
  <2>11. \A q \in Process : (q # p /\ pc[q] = "posting") =>
           GivenUp(job[q])' \/ mem[q].attempts < posts'[job[q]]
    <3> SUFFICES ASSUME NEW q \in Process, q # p, pc[q] = "posting"
                 PROVE  GivenUp(job[q])' \/ mem[q].attempts < posts'[job[q]]
      OBVIOUS
    <3>1. job[q] \in Delivery
      BY DEF Typed
    <3>2. job'[q] = job[q]
      BY <2>8
    <3>3. CASE GivenUp(job[q])
      BY <3>1, <3>2, <3>3, <2>5 DEF GivenUp
    <3>4. CASE mem[q].attempts < posts[job[q]]
      BY <3>1, <3>4, <2>4, <2>6, <2>10
    <3>5. QED  BY <3>3, <3>4 DEF Counted
  <2>12. \A q \in Process : (q # p /\ pc[q] \in {"refusing", "exhausting"}) =>
           GivenUp(job[q])'
    BY <2>5, <2>8 DEF Counted, Typed, GivenUp
  <2>13. QED  BY <2>7, <2>8, <2>9, <2>11, <2>12 DEF Counted, GivenUp
<1>3. CASE row[d].status # "delivered" /\ ~active
  <2>1. Load(p, d, "refusing") /\ UNCHANGED posts /\ refused' = refused \cup {d}
    BY <1>3 DEF Begin
  <2>2. \A q \in Process : /\ pc'[q] = IF q = p THEN "refusing" ELSE pc[q]
                           /\ job'[q] = IF q = p THEN d ELSE job[q]
                           /\ mem'[q] = IF q = p THEN row[d] ELSE mem[q]
    BY <2>1 DEF Load, Typed
  <2>3. QED  BY <2>1, <2>2 DEF Counted, GivenUp, Typed
<1>4. QED  BY <1>1, <1>2, <1>3

\* A process that is done, or reads its row back, is in flight no more.
LEMMA FinishCounted ==
  ASSUME Typed, Counted, NEW p \in Process, Finish(p)
  PROVE  Counted'
<1>1. /\ job[p] \in Delivery
      /\ pc[p] \in {"posting", "refusing"}
      /\ \A d \in Delivery : d # job[p] => row'[d] = row[d]
      /\ row'[job[p]].attempts = mem[p].attempts + 1
      /\ row'[job[p]].status \in {"pending", "delivered", "failed", row[job[p]].status}
      /\ pc[p] = "posting" => row'[job[p]].status \in
                                {"pending", "delivered", row[job[p]].status}
  BY FinishWrites
<1>2. UNCHANGED <<posts, refused>>
  BY DEF Finish, hist
<1>3. \A q \in Process : q # p => pc'[q] = pc[q] /\ job'[q] = job[q] /\ mem'[q] = mem[q]
  BY DEF Finish, AfterAttempt, Drop, Typed
<1>4. pc'[p] \in {"readback", "idle"}
  BY DEF Finish, AfterAttempt, Drop, Typed
<1>5. mem[p].attempts \in Nat /\ posts[job[p]] \in Nat
  BY <1>1, RowColumns DEF Typed
<1>6. GivenUp(job[p]) \/ (row'[job[p]].attempts <= posts[job[p]]
                          /\ row'[job[p]].status # "failed")
  <2>1. CASE pc[p] = "refusing"
    BY <2>1 DEF Counted
  <2>2. CASE pc[p] = "posting"
    BY <1>1, <1>5, <2>2 DEF Counted
  <2>3. QED  BY <1>1, <2>1, <2>2
<1>7. \A d \in Delivery :
        GivenUp(d) \/ (row'[d].attempts <= posts[d] /\ row'[d].status # "failed")
  BY <1>1, <1>6 DEF Counted
<1>8. QED  BY <1>2, <1>3, <1>4, <1>7 DEF Counted, GivenUp

\* A worker gives a delivery up for its count, which is a count of posts.
LEMMA ReadBackCounted ==
  ASSUME Typed, Counted, NEW w \in Worker, ReadBack(w)
  PROVE  Counted'
<1>1. job[w] \in Delivery /\ w \in Process
  BY DEF ReadBack, Typed
<1>2. UNCHANGED <<row, posts, refused>>
  BY DEF ReadBack, hist
<1>3. CASE Exhausted(row[job[w]])
  <2>1. Load(w, job[w], "exhausting")
    BY <1>3 DEF ReadBack
  <2>2. row[job[w]].attempts \in Nat /\ posts[job[w]] \in 0..MaxAttempts
    BY <1>1, RowColumns DEF Typed
  <2>3. GivenUp(job[w])
    BY <1>1, <1>3, <2>2 DEF Counted, GivenUp, Exhausted
  <2>4. \A q \in Process : /\ pc'[q] = IF q = w THEN "exhausting" ELSE pc[q]
                           /\ job'[q] = job[q]
                           /\ q # w => mem'[q] = mem[q]
    BY <1>1, <2>1 DEF Load, Typed
  <2>5. QED  BY <1>2, <2>3, <2>4 DEF Counted, GivenUp
<1>4. CASE ~Exhausted(row[job[w]])
  BY <1>1, <1>2, <1>4, CountedFrame DEF ReadBack, Drop, Typed
<1>5. QED  BY <1>3, <1>4

LEMMA FlushAndDropCounted ==
  ASSUME Typed, Counted, NEW p \in Process,
         (p \in Worker /\ FailExhausted(p)) \/ (p \in Admin /\ FinishReplay(p))
  PROVE  Counted'
<1>1. job[p] \in Delivery
  BY DEF FailExhausted, FinishReplay, Typed
<1>2. PICK s \in {"pending", "failed"} :
        /\ Flush(p, s, mem[p].attempts, "null", mem[p].lease)
        /\ s = "failed" => pc[p] = "exhausting"
  BY DEF FailExhausted, FinishReplay
<1>3. /\ \A d \in Delivery : row'[d].attempts = row[d].attempts
      /\ \A d \in Delivery : d # job[p] => row'[d] = row[d]
      /\ row'[job[p]].status \in {s, row[job[p]].status}
  BY <1>1, <1>2, KeepsCounts
<1>4. s = "failed" => GivenUp(job[p])
  BY <1>2 DEF Counted
<1>5. Drop(p) /\ UNCHANGED <<posts, refused>>
  BY DEF FailExhausted, FinishReplay, hist
<1>6. \A q \in Process : pc'[q] \in {"posting", "refusing", "exhausting"} =>
                           /\ pc'[q] = pc[q] /\ job'[q] = job[q]
                           /\ mem'[q].attempts = mem[q].attempts
  BY <1>5 DEF Drop, Typed
<1>7. \A d \in Delivery : /\ row'[d].attempts = row[d].attempts
                          /\ row'[d].status = "failed" =>
                               row[d].status = "failed" \/ GivenUp(d)
  BY <1>2, <1>3, <1>4
<1>8. QED  BY <1>5, <1>6, <1>7, CountedFrame

LEMMA OtherCounted ==
  ASSUME Typed, Counted, NEW p \in Process,
         Crash(p) \/ \E d \in Delivery : BeginReplay(p, d)
  PROVE  Counted'
<1>1. UNCHANGED <<row, posts, refused>>
  BY DEF Crash, BeginReplay, hist
<1>2. \A q \in Process : pc'[q] \in {"posting", "refusing", "exhausting"} =>
                           /\ pc'[q] = pc[q] /\ job'[q] = job[q] /\ mem'[q] = mem[q]
  BY DEF Crash, BeginReplay, Load, Drop, Typed
<1>3. QED  BY <1>1, <1>2, CountedFrame

LEMMA CountedStep == Typed /\ Counted /\ [Next]_vars => Counted'
<1> SUFFICES ASSUME Typed, Counted, [Next]_vars PROVE Counted'
  OBVIOUS
<1>1. CASE UNCHANGED vars
  BY <1>1, CountedFrame DEF vars, local, hist
<1>2. ASSUME NEW p \in Process, NEW d \in Delivery,
             (p \in Worker /\ WorkerBegins(p, d)) \/ (p \in Admin /\ AdminBegins(p, d))
      PROVE  Counted'
  BY <1>2, BeginCounted DEF WorkerBegins, AdminBegins
<1>3. QED
  BY <1>1, <1>2, Steps, TableStepCounted, ClaimCounted, FinishCounted, ReadBackCounted,
     FlushAndDropCounted, OtherCounted

-----------------------------------------------------------------------------
(* The lease of a delivery that nothing has disturbed.                     *)

\* Process p is sending delivery d, or is about to write that it cannot.
Attempting(p, d) == pc[p] \in {"posting", "refusing"} /\ job[p] = d

\* It will attempt d once more.
Holds(p, d) == Attempting(p, d) \/ (p \in Worker /\ d \in batch[p])

\* A delivery whose lease never ran out under a worker, and that no admin
\* attempted, belongs to the one worker whose lease stands in the row; a worker
\* gives it up only when nobody can claim it; and nothing is due of it any more
\* once it is delivered.
Exclusive(d) ==
  /\ \A a \in Admin : ~Attempting(a, d)
  /\ \A v, w \in Worker : Holds(v, d) /\ Holds(w, d) => v = w
  /\ \A w \in Worker : Holds(w, d) =>
       /\ row[d].status = "pending" /\ row[d].attempts < MaxAttempts
       /\ row[d].lease = "live" /\ row[d].next # "later"
  /\ \A w \in Worker : Attempting(w, d) => mem[w].lease = "live"
  /\ \A w \in Worker : pc[w] = "exhausting" /\ job[w] = d =>
       row[d].status # "delivered" /\ row[d].attempts >= MaxAttempts
  /\ row[d].status = "delivered" => row[d].lease = "none" /\ row[d].next # "later"

Undisturbed == \A d \in Delivery \ disturbed : Exclusive(d)

LEMMA InitUndisturbed == Init => Undisturbed
  BY DEF Init, Undisturbed, Exclusive, Holds, Attempting, Blank

\* Delivery d stays exclusive as long as its row is left alone and nobody takes
\* it up.
LEMMA ExclusiveFrame ==
  ASSUME NEW d \in Delivery, Exclusive(d), row'[d] = row[d],
         \A p \in Process : Holds(p, d)' => Holds(p, d),
         \A p \in Process : Attempting(p, d)' => Attempting(p, d)
                                                 /\ mem'[p].lease = mem[p].lease,
         \A w \in Worker : (pc[w] = "exhausting" /\ job[w] = d)'
                             => pc[w] = "exhausting" /\ job[w] = d
  PROVE  Exclusive(d)'
  BY DEF Exclusive

\* The same for an action that leaves every process and batch alone.
LEMMA ProcessesStay ==
  ASSUME UNCHANGED <<local, batch>>, NEW d \in Delivery
  PROVE  /\ \A p \in Process : /\ Holds(p, d)' <=> Holds(p, d)
                               /\ Attempting(p, d)' <=> Attempting(p, d)
                               /\ mem'[p] = mem[p]
         /\ \A w \in Worker : (pc[w] = "exhausting" /\ job[w] = d)'
                             <=> pc[w] = "exhausting" /\ job[w] = d
  BY DEF local, Holds, Attempting

LEMMA TableStepUndisturbed ==
  ASSUME Typed, Undisturbed, NEW e \in Delivery,
         Enqueue(e) \/ Elapse(e) \/ LeaseOverruns(e) \/ Toggle
  PROVE  Undisturbed'
<1> SUFFICES ASSUME NEW d \in Delivery, d \notin disturbed' PROVE Exclusive(d)'
  BY DEF Undisturbed
<1>1. UNCHANGED <<local, batch>> /\ disturbed \subseteq disturbed'
  BY DEF Enqueue, Elapse, BackoffElapses, LeaseExpires, LeaseOverruns, Toggle, hist
<1>2. Exclusive(d)
  BY <1>1 DEF Undisturbed
<1>3. row \in [Delivery -> Row] /\ row[d] \in Row
  BY DEF Typed
<1>4. CASE row'[d] = row[d]
  BY <1>1, <1>2, <1>4, ProcessesStay, ExclusiveFrame
<1>5. CASE row'[d] # row[d] /\ Enqueue(e)
  <2>1. row[d].status = "absent" /\ row'[d] = [row[d] EXCEPT !.status = "pending"]
    BY <1>3, <1>5 DEF Enqueue
  <2>2. row'[d].status = "pending" /\ row'[d].attempts = row[d].attempts
    BY <1>3, <2>1 DEF Row
  <2>3. QED  BY <1>1, <1>2, <2>1, <2>2, ProcessesStay DEF Exclusive
<1>6. CASE row'[d] # row[d] /\ BackoffElapses(e)
  <2>1. row[d].next = "later" /\ row'[d] = [row[d] EXCEPT !.next = "past"]
    BY <1>3, <1>6 DEF BackoffElapses
  <2>2. row'[d].status = row[d].status /\ row'[d].attempts = row[d].attempts
    BY <1>3, <2>1 DEF Row
  <2>3. QED  BY <1>1, <1>2, <2>1, <2>2, ProcessesStay DEF Exclusive
<1>7. CASE row'[d] # row[d] /\ LeaseExpires(e)
  <2>1. row[d].lease = "live" /\ row'[d] = [row[d] EXCEPT !.lease = "expired"]
        /\ ~Held(d)
    BY <1>3, <1>7 DEF LeaseExpires
  <2>2. row'[d].status = row[d].status /\ row'[d].attempts = row[d].attempts
    BY <1>3, <2>1 DEF Row
  <2>3. \A w \in Worker : ~Holds(w, d)
    BY <2>1 DEF Held, Holds, Attempting
  <2>4. QED  BY <1>1, <1>2, <2>1, <2>2, <2>3, ProcessesStay DEF Exclusive
<1>8. CASE row'[d] # row[d] /\ LeaseOverruns(e)
  BY <1>3, <1>8 DEF LeaseOverruns
<1>9. CASE Toggle
  BY <1>4, <1>9 DEF Toggle
<1>10. QED  BY <1>4, <1>5, <1>6, <1>7, <1>8, <1>9 DEF Elapse

\* What a worker claims is pending, has attempts left and nobody's lease on it.
LEMMA ClaimUndisturbed ==
  ASSUME Typed, Undisturbed, NEW w \in Worker, Claim(w)
  PROVE  Undisturbed'
<1> SUFFICES ASSUME NEW d \in Delivery, d \notin disturbed' PROVE Exclusive(d)'
  BY DEF Undisturbed
<1>1. Exclusive(d)
  BY DEF Claim, hist, Undisturbed
<1>2. UNCHANGED local
  BY DEF Claim
<1>3. \A p \in Process : /\ Attempting(p, d)' <=> Attempting(p, d)
                         /\ mem'[p] = mem[p] /\ pc'[p] = pc[p] /\ job'[p] = job[p]
  BY <1>2 DEF local, Attempting
<1>4. \A v \in Worker : batch'[v] = IF v = w THEN Due ELSE batch[v]
  BY DEF Claim, Typed
<1>5. CASE d \in Due
  <2>1. Eligible(d)
    BY <1>5 DEF Due
  <2>2. \A v \in Worker : ~Holds(v, d) /\ ~(pc[v] = "exhausting" /\ job[v] = d)
    <3>1. row[d].attempts \in Nat
      BY RowColumns DEF Typed
    <3>2. QED  BY <1>1, <2>1, <3>1 DEF Exclusive, Eligible
  <2>3. \A v \in Worker : Holds(v, d)' => v = w
    BY <1>3, <1>4, <2>2 DEF Holds
  <2>4. row[d] \in Row /\ row'[d] = [row[d] EXCEPT !.lease = "live"]
    BY <1>5 DEF Claim, Typed
  <2>5. /\ row'[d].status = "pending" /\ row'[d].attempts < MaxAttempts
        /\ row'[d].lease = "live" /\ row'[d].next # "later"
    BY <2>1, <2>4 DEF Eligible, Row
  <2>6. \A v \in Worker : ~Attempting(v, d)
    BY <2>2 DEF Holds
  <2>7. QED  BY <1>1, <1>3, <2>2, <2>3, <2>5, <2>6 DEF Exclusive
<1>6. CASE d \notin Due
  <2>1. row'[d] = row[d]
    BY <1>6 DEF Claim
  <2>2. \A p \in Process : Holds(p, d)' => Holds(p, d)
    BY <1>3, <1>4, <1>6 DEF Holds
  <2>3. QED  BY <1>1, <1>3, <2>1, <2>2, ExclusiveFrame
<1>7. QED  BY <1>5, <1>6

\* A worker loads the row under its own lease.
LEMMA WorkerBeginsUndisturbed ==
  ASSUME Typed, Undisturbed, NEW w \in Worker, NEW e \in Delivery, WorkerBegins(w, e)
  PROVE  Undisturbed'
<1> SUFFICES ASSUME NEW d \in Delivery, d \notin disturbed' PROVE Exclusive(d)'
  BY DEF Undisturbed
<1>1. Exclusive(d) /\ row' = row /\ pc[w] = "idle" /\ e \in batch[w]
  BY DEF WorkerBegins, Undisturbed
<1>2. \A v \in Worker : batch'[v] \subseteq batch[v]
  BY DEF WorkerBegins, Typed
<1>3. \/ UNCHANGED local
      \/ \E l \in {"posting", "refusing"} : Load(w, e, l)
  BY DEF WorkerBegins, Begin
<1>4. CASE UNCHANGED local
  BY <1>1, <1>2, <1>4, ExclusiveFrame DEF local, Holds, Attempting
<1>5. CASE \E l \in {"posting", "refusing"} : Load(w, e, l)
  <2>1. PICK l \in {"posting", "refusing"} : Load(w, e, l)
    BY <1>5
  <2>2. \A p \in Process : /\ pc'[p] = IF p = w THEN l ELSE pc[p]
                           /\ job'[p] = IF p = w THEN e ELSE job[p]
                           /\ mem'[p] = IF p = w THEN row[e] ELSE mem[p]
    BY <2>1 DEF Load, Typed
  <2>3. \A p \in Process : Holds(p, d)' => Holds(p, d)
    BY <1>1, <1>2, <2>2 DEF Holds, Attempting
  <2>4. \A p \in Process : Attempting(p, d)' => Attempting(p, d) \/ (p = w /\ d = e)
    BY <2>2 DEF Attempting
  <2>5. Holds(w, e)
    BY <1>1 DEF Holds
  <2>6. \A v \in Worker : Attempting(v, d)' => mem'[v].lease = "live"
    <3> SUFFICES ASSUME NEW v \in Worker, Attempting(v, d)' PROVE mem'[v].lease = "live"
      OBVIOUS
    <3>1. CASE v = w
      <4>1. d = e
        BY <2>2, <3>1 DEF Attempting
      <4>2. row[d].lease = "live"
        BY <1>1, <2>5, <4>1 DEF Exclusive
      <4>3. QED  BY <2>2, <3>1, <4>1, <4>2
    <3>2. CASE v # w
      BY <1>1, <2>2, <2>4, <3>2 DEF Exclusive
    <3>3. QED  BY <3>1, <3>2
  <2>7. \A a \in Admin : ~Attempting(a, d)'
    BY <1>1, <2>4 DEF Exclusive
  <2>8. \A v \in Worker : pc'[v] = "exhausting" => pc[v] = "exhausting" /\ job'[v] = job[v]
    BY <2>2
  <2>9. QED  BY <1>1, <2>3, <2>6, <2>7, <2>8 DEF Exclusive
<1>6. QED  BY <1>3, <1>4, <1>5

LEMMA AdminBeginsUndisturbed ==
  ASSUME Typed, Roles, Undisturbed, NEW a \in Admin, NEW e \in Delivery, AdminBegins(a, e)
  PROVE  Undisturbed'
<1> SUFFICES ASSUME NEW d \in Delivery, d \notin disturbed' PROVE Exclusive(d)'
  BY DEF Undisturbed
<1>1. Exclusive(d) /\ d # e /\ row' = row /\ batch' = batch
  BY DEF AdminBegins, Undisturbed
<1>2. \/ UNCHANGED local
      \/ \E l \in {"posting", "refusing"} : Load(a, e, l)
  BY DEF AdminBegins, Begin
<1>3. \A p \in Process :
        \/ pc'[p] = pc[p] /\ job'[p] = job[p] /\ mem'[p] = mem[p]
        \/ job'[p] # d /\ pc'[p] # "exhausting"
  BY <1>1, <1>2 DEF local, Load, Typed
<1>4. /\ \A p \in Process : Holds(p, d)' => Holds(p, d)
      /\ \A p \in Process : Attempting(p, d)' => Attempting(p, d)
                                               /\ mem'[p].lease = mem[p].lease
      /\ \A w \in Worker : (pc[w] = "exhausting" /\ job[w] = d)'
                           => pc[w] = "exhausting" /\ job[w] = d
  BY <1>1, <1>3 DEF Holds, Attempting
<1>5. QED  BY <1>1, <1>4, ExclusiveFrame

\* The outcome of the only attempt in flight clears the lease it was made under.
LEMMA FinishUndisturbed ==
  ASSUME Typed, Roles, Undisturbed, NEW p \in Process, Finish(p)
  PROVE  Undisturbed'
<1> SUFFICES ASSUME NEW d \in Delivery, d \notin disturbed' PROVE Exclusive(d)'
  BY DEF Undisturbed
<1>1. Exclusive(d) /\ batch' = batch
  BY DEF Finish, hist, Undisturbed
<1>2. /\ job[p] \in Delivery
      /\ pc[p] \in {"posting", "refusing"}
      /\ \A e \in Delivery : e # job[p] => row'[e] = row[e]
      /\ row'[job[p]].lease = IF mem[p].lease # "none" THEN "none" ELSE row[job[p]].lease
      /\ row'[job[p]].status \in {"delivered", "failed"} =>
           row'[job[p]].next \in {"null", row[job[p]].next}
             \/ row'[job[p]].status = row[job[p]].status
  BY FinishWrites
<1>3. pc'[p] \in {"readback", "idle"}
      /\ \A q \in Process : q # p => /\ pc'[q] = pc[q] /\ job'[q] = job[q]
                                     /\ mem'[q] = mem[q]
  BY DEF Finish, AfterAttempt, Drop, Typed
<1>4. /\ \A q \in Process : Holds(q, d)' => Holds(q, d)
      /\ \A q \in Process : Attempting(q, d)' => Attempting(q, d) /\ q # p
                                               /\ mem'[q] = mem[q]
      /\ \A w \in Worker : (pc[w] = "exhausting" /\ job[w] = d)'
                           => pc[w] = "exhausting" /\ job[w] = d
  BY <1>1, <1>3 DEF Holds, Attempting
<1>5. CASE d # job[p]
  BY <1>1, <1>2, <1>4, <1>5, ExclusiveFrame
<1>6. CASE d = job[p]
  <2>1. Attempting(p, d) /\ Holds(p, d)
    BY <1>2, <1>6 DEF Attempting, Holds
  <2>2. p \in Worker /\ mem[p].lease = "live"
    BY <1>1, <2>1 DEF Exclusive
  <2>3. /\ row[d].status = "pending" /\ row[d].attempts < MaxAttempts
        /\ row[d].next # "later"
    BY <1>1, <2>1, <2>2 DEF Exclusive
  <2>4. row'[d].lease = "none"
    BY <1>2, <1>6, <2>2
  <2>5. row'[d].status = "delivered" => row'[d].next # "later"
    BY <1>2, <1>6, <2>3
  <2>6. ~Holds(p, d)'
    BY <1>1, <1>2, <1>3, <1>6, <2>2 DEF Holds, Attempting, Roles
  <2>7. \A q \in Worker : ~Holds(q, d)'
    BY <1>1, <1>4, <2>1, <2>2, <2>6 DEF Exclusive
  <2>8. row[d].attempts \in Nat
    BY RowColumns DEF Typed
  <2>9. \A w \in Worker : ~(pc[w] = "exhausting" /\ job[w] = d)
    BY <1>1, <2>3, <2>8 DEF Exclusive
  <2>10. \A q \in Worker : ~Attempting(q, d)'
    BY <2>7 DEF Holds
  <2>11. \A a \in Admin : ~Attempting(a, d)'
    BY <1>1, <1>4 DEF Exclusive
  <2>12. QED  BY <1>4, <2>4, <2>5, <2>7, <2>9, <2>10, <2>11 DEF Exclusive
<1>7. QED  BY <1>5, <1>6

LEMMA ReadBackUndisturbed ==
  ASSUME Typed, Undisturbed, NEW w \in Worker, ReadBack(w)
  PROVE  Undisturbed'
<1> SUFFICES ASSUME NEW d \in Delivery, d \notin disturbed' PROVE Exclusive(d)'
  BY DEF Undisturbed
<1>1. Exclusive(d) /\ row' = row /\ batch' = batch
  BY DEF ReadBack, hist, Undisturbed
<1>2. /\ pc'[w] = "idle" \/ (pc'[w] = "exhausting" /\ job'[w] = job[w]
                                /\ Exhausted(row[job[w]]))
      /\ \A q \in Process : q # w => /\ pc'[q] = pc[q] /\ job'[q] = job[q]
                                     /\ mem'[q] = mem[q]
  BY DEF ReadBack, Load, Drop, Typed
<1>3. /\ \A q \in Process : Holds(q, d)' => Holds(q, d)
      /\ \A q \in Process : Attempting(q, d)' => Attempting(q, d) /\ mem'[q] = mem[q]
  BY <1>1, <1>2 DEF Holds, Attempting
<1>4. \A v \in Worker : (pc[v] = "exhausting" /\ job[v] = d)' =>
        row[d].status # "delivered" /\ row[d].attempts >= MaxAttempts
  BY <1>1, <1>2 DEF Exclusive, Exhausted
<1>5. QED  BY <1>1, <1>3, <1>4 DEF Exclusive

LEMMA FlushAndDropUndisturbed ==
  ASSUME Typed, Roles, Undisturbed, NEW p \in Process,
         (p \in Worker /\ FailExhausted(p)) \/ (p \in Admin /\ FinishReplay(p))
  PROVE  Undisturbed'
<1> SUFFICES ASSUME NEW d \in Delivery, d \notin disturbed' PROVE Exclusive(d)'
  BY DEF Undisturbed
<1>1. Exclusive(d) /\ batch' = batch /\ Drop(p)
  BY DEF FailExhausted, FinishReplay, hist, Undisturbed
<1>2. job[p] \in Delivery
  BY DEF FailExhausted, FinishReplay, Typed
<1>3. PICK s \in {"pending", "failed"} :
        /\ Flush(p, s, mem[p].attempts, "null", mem[p].lease)
        /\ s = "failed" => p \in Worker /\ pc[p] = "exhausting"
  BY DEF FailExhausted, FinishReplay
<1>4. /\ row'[d].attempts = row[d].attempts
      /\ row'[d].lease = row[d].lease
      /\ row'[d].next \in {"null", row[d].next}
      /\ d # job[p] => row'[d] = row[d]
      /\ row'[job[p]].status \in {s, row[job[p]].status}
  BY <1>2, <1>3, KeepsCounts
<1>5. \A q \in Process : \/ pc'[q] = "idle"
                         \/ pc'[q] = pc[q] /\ job'[q] = job[q] /\ mem'[q] = mem[q]
  BY <1>1 DEF Drop, Typed
<1>6. /\ \A q \in Process : Holds(q, d)' => Holds(q, d)
      /\ \A q \in Process : Attempting(q, d)' => Attempting(q, d) /\ mem'[q] = mem[q]
      /\ \A v \in Worker : (pc[v] = "exhausting" /\ job[v] = d)'
                           => pc[v] = "exhausting" /\ job[v] = d
  BY <1>1, <1>5 DEF Holds, Attempting
<1>7. CASE d # job[p]
  BY <1>1, <1>4, <1>6, <1>7, ExclusiveFrame
<1>8. CASE d = job[p] /\ s = "pending"
  BY <1>1, <1>4, <1>6, <1>8 DEF Exclusive
<1>9. CASE d = job[p] /\ s = "failed"
  <2>1. row[d].attempts >= MaxAttempts /\ row[d].status # "delivered"
    BY <1>1, <1>3, <1>9 DEF Exclusive
  <2>2. row[d].attempts \in Nat
    BY RowColumns DEF Typed
  <2>3. \A w \in Worker : ~Holds(w, d)
    BY <1>1, <2>1, <2>2 DEF Exclusive
  <2>4. row'[d].status # "delivered"
    BY <1>4, <1>9, <2>1
  <2>5. QED  BY <1>1, <1>4, <1>6, <2>3, <2>4 DEF Exclusive
<1>10. QED  BY <1>3, <1>7, <1>8, <1>9

LEMMA OtherUndisturbed ==
  ASSUME Typed, Undisturbed, NEW p \in Process,
         Crash(p) \/ \E e \in Delivery : BeginReplay(p, e)
  PROVE  Undisturbed'
<1> SUFFICES ASSUME NEW d \in Delivery, d \notin disturbed' PROVE Exclusive(d)'
  BY DEF Undisturbed
<1>1. Exclusive(d) /\ row' = row
  BY DEF Crash, BeginReplay, hist, Undisturbed
<1>2. \A w \in Worker : batch'[w] \subseteq batch[w]
  BY DEF Crash, BeginReplay, Typed
<1>3. \A q \in Process : \/ pc'[q] \in {"idle", "replaying"}
                         \/ pc'[q] = pc[q] /\ job'[q] = job[q] /\ mem'[q] = mem[q]
  BY DEF Crash, BeginReplay, Drop, Load, Typed
<1>4. /\ \A q \in Process : Holds(q, d)' => Holds(q, d)
      /\ \A q \in Process : Attempting(q, d)' => Attempting(q, d) /\ mem'[q] = mem[q]
      /\ \A v \in Worker : (pc[v] = "exhausting" /\ job[v] = d)'
                           => pc[v] = "exhausting" /\ job[v] = d
  BY <1>2, <1>3 DEF Holds, Attempting
<1>5. QED  BY <1>1, <1>4, ExclusiveFrame

LEMMA UndisturbedStep == Typed /\ Roles /\ Undisturbed /\ [Next]_vars => Undisturbed'
<1> SUFFICES ASSUME Typed, Roles, Undisturbed, [Next]_vars PROVE Undisturbed'
  OBVIOUS
<1>1. CASE UNCHANGED vars
  BY <1>1 DEF vars, local, hist, Undisturbed, Exclusive, Holds, Attempting
<1>2. QED
  BY <1>1, Steps, TableStepUndisturbed, ClaimUndisturbed, WorkerBeginsUndisturbed,
     AdminBeginsUndisturbed, FinishUndisturbed, ReadBackUndisturbed,
     FlushAndDropUndisturbed, OtherUndisturbed

-----------------------------------------------------------------------------
(* How far the attempts can go.                                            *)

Holders(d) == {p \in Process : Holds(p, d)}
AdminHolders(d) == {a \in Admin : Attempting(a, d)}

\* The disturbances so far: each lets one more process hold a delivery at once.
Budget == manual + overruns

\* A worker that holds the delivery is protected by its lease.
Leased(d) == row[d].lease = "live" /\ \E w \in Worker : Holds(w, d)

\* A count in circulation, the row's or a copy's, can still be raised once by
\* every process that holds the delivery; and one process less may hold it when
\* a worker could claim it.
Bounded(d) ==
  /\ IsFiniteSet(Holders(d)) /\ IsFiniteSet(AdminHolders(d))
  /\ Cardinality(AdminHolders(d)) <= manual
  /\ Cardinality(Holders(d)) <= Budget + 1
  /\ ~Leased(d) => Cardinality(Holders(d)) <= Budget
  /\ row[d].attempts + Cardinality(Holders(d)) <= MaxAttempts + Budget
  /\ \A p \in Process : Attempting(p, d) =>
       mem[p].attempts + Cardinality(Holders(d)) <= MaxAttempts + Budget
  /\ row[d].attempts < MaxAttempts /\ ~Leased(d) =>
       /\ row[d].attempts + Cardinality(Holders(d)) < MaxAttempts + Budget
       /\ \A p \in Process : Attempting(p, d) =>
            mem[p].attempts + Cardinality(Holders(d)) < MaxAttempts + Budget

AttemptsBounded == \A d \in Delivery : Bounded(d)

LEMMA InitBounded == Init => AttemptsBounded
<1> SUFFICES ASSUME Init, NEW d \in Delivery PROVE Bounded(d)
  BY DEF AttemptsBounded
<1>1. \A p \in Process : ~Holds(p, d) /\ ~Attempting(p, d)
  BY DEF Init, Holds, Attempting
<1>2. Holders(d) = {} /\ AdminHolders(d) = {}
  BY <1>1 DEF Holders, AdminHolders
<1>3. row[d].attempts = 0 /\ manual = 0 /\ overruns = 0
  BY DEF Init, Blank
<1>4. QED  BY <1>1, <1>2, <1>3, FS_EmptySet DEF Bounded, Budget

\* Everything is a number.
LEMMA Numbers ==
  ASSUME Typed, NEW d \in Delivery, Bounded(d)
  PROVE  /\ Cardinality(Holders(d)) \in Nat /\ Cardinality(AdminHolders(d)) \in Nat
         /\ manual \in Nat /\ overruns \in Nat /\ Budget \in Nat
         /\ row[d].attempts \in Nat
         /\ \A p \in Process : mem[p].attempts \in Nat
<1>1. manual \in Nat /\ overruns \in Nat
  BY DEF Typed
<1>2. QED  BY <1>1, FS_CardinalityType, RowColumns DEF Bounded, Budget, Typed

\* Manual attempts and outlasted leases are counted one by one.
LEMMA BudgetGrows ==
  ASSUME Typed, manual' = manual \/ manual' = manual + 1,
         overruns' = overruns \/ (overruns' = overruns + 1 /\ manual' = manual)
  PROVE  Budget' >= Budget /\ Budget' \in Nat /\ manual' \in Nat /\ manual' >= manual
<1>1. manual \in Nat /\ overruns \in Nat
  BY DEF Typed
<1>2. CASE manual' = manual /\ overruns' = overruns
  BY <1>1, <1>2 DEF Budget
<1>3. CASE manual' = manual + 1 /\ overruns' = overruns
  BY <1>1, <1>3 DEF Budget
<1>4. CASE manual' = manual /\ overruns' = overruns + 1
  BY <1>1, <1>4 DEF Budget
<1>5. QED  BY <1>2, <1>3, <1>4

\* The same processes hold the delivery, and the copies are old ones or the row.
LEMMA BoundedFrame ==
  ASSUME Typed, Typed', NEW d \in Delivery, Bounded(d),
         \A p \in Process : Holds(p, d)' <=> Holds(p, d),
         \A a \in Admin : Attempting(a, d)' <=> Attempting(a, d),
         \A p \in Process : Attempting(p, d)' =>
           \/ mem'[p].attempts = row[d].attempts
           \/ Attempting(p, d) /\ mem'[p].attempts = mem[p].attempts,
         row'[d].attempts = row[d].attempts,
         manual' = manual \/ manual' = manual + 1,
         overruns' = overruns \/ (overruns' = overruns + 1 /\ manual' = manual),
         Leased(d)' <=> Leased(d)
  PROVE  Bounded(d)'
<1>1. Holders(d)' = Holders(d) /\ AdminHolders(d)' = AdminHolders(d)
  BY DEF Holders, AdminHolders
<1>2. Budget' >= Budget /\ Budget' \in Nat /\ manual' \in Nat /\ manual' >= manual
  BY BudgetGrows
<1> DEFINE n == Cardinality(Holders(d))
           m == Cardinality(AdminHolders(d))
<1>3. /\ n \in Nat /\ m \in Nat /\ manual \in Nat /\ Budget \in Nat
      /\ row[d].attempts \in Nat /\ \A p \in Process : mem[p].attempts \in Nat
  BY Numbers
<1>4. Cardinality(Holders(d)') = n /\ Cardinality(AdminHolders(d)') = m
  BY <1>1
<1> HIDE DEF n, m
<1>5. m <= manual' /\ n <= Budget' + 1 /\ (~Leased(d)' => n <= Budget')
  BY <1>2, <1>3 DEF Bounded, n, m
<1>6. row'[d].attempts + n <= MaxAttempts + Budget'
      /\ (row'[d].attempts < MaxAttempts /\ ~Leased(d)'
            => row'[d].attempts + n < MaxAttempts + Budget')
  BY <1>2, <1>3 DEF Bounded, n
<1>7. ASSUME NEW p \in Process, Attempting(p, d)'
      PROVE  /\ mem'[p].attempts + n <= MaxAttempts + Budget'
             /\ row'[d].attempts < MaxAttempts /\ ~Leased(d)'
                  => mem'[p].attempts + n < MaxAttempts + Budget'
  <2>1. CASE mem'[p].attempts = row[d].attempts
    BY <1>6, <2>1
  <2>2. CASE Attempting(p, d) /\ mem'[p].attempts = mem[p].attempts
    <3>1. mem[p].attempts \in Nat
      BY <1>3
    <3>2. mem[p].attempts + n <= MaxAttempts + Budget
      BY <2>2 DEF Bounded, n
    <3>3. row[d].attempts < MaxAttempts /\ ~Leased(d)
            => mem[p].attempts + n < MaxAttempts + Budget
      BY <2>2 DEF Bounded, n
    <3>4. QED  BY <1>2, <1>3, <2>2, <3>1, <3>2, <3>3
  <2>3. QED  BY <1>7, <2>1, <2>2
<1>8. IsFiniteSet(Holders(d)') /\ IsFiniteSet(AdminHolders(d)')
  BY <1>1 DEF Bounded
<1>9. QED  BY <1>4, <1>5, <1>6, <1>7, <1>8 DEF Bounded

\* A process lets the delivery go, and may have raised the row by one over its
\* copy: that raise was accounted for.
LEMMA BoundedShrink ==
  ASSUME Typed, Typed', NEW d \in Delivery, Bounded(d), NEW p \in Process, Holds(p, d),
         \A q \in Process : Holds(q, d)' <=> Holds(q, d) /\ q # p,
         \A q \in Process : Attempting(q, d)' <=> Attempting(q, d) /\ q # p,
         \A q \in Process : q # p => mem'[q] = mem[q],
         \/ row'[d].attempts = row[d].attempts
         \/ Attempting(p, d) /\ row'[d].attempts = mem[p].attempts + 1,
         UNCHANGED <<manual, overruns>>
  PROVE  Bounded(d)'
<1>1. Holders(d)' = Holders(d) \ {p} /\ AdminHolders(d)' = AdminHolders(d) \ {p}
  BY DEF Holders, AdminHolders
<1>2. p \in Holders(d)
  BY DEF Holders
<1> DEFINE n == Cardinality(Holders(d))
           m == Cardinality(AdminHolders(d))
           k == Cardinality(AdminHolders(d)')
<1>3. /\ n \in Nat /\ m \in Nat /\ manual \in Nat /\ Budget \in Nat
      /\ row[d].attempts \in Nat /\ \A q \in Process : mem[q].attempts \in Nat
  BY Numbers
<1>4. IsFiniteSet(Holders(d)') /\ IsFiniteSet(AdminHolders(d)')
      /\ Cardinality(Holders(d)') = n - 1 /\ k \in Nat /\ k <= m
  <2>1. IsFiniteSet(Holders(d)) /\ IsFiniteSet(AdminHolders(d))
    BY DEF Bounded
  <2>2. IsFiniteSet(Holders(d)') /\ Cardinality(Holders(d)') = n - 1
    BY <1>1, <1>2, <2>1, FS_RemoveElement
  <2>3. IsFiniteSet(AdminHolders(d)') /\ k <= m
    BY <1>1, <2>1, FS_Subset
  <2>4. k \in Nat
    BY <2>3, FS_CardinalityType
  <2>5. QED  BY <2>2, <2>3, <2>4
<1>5. Budget' = Budget /\ manual' = manual
  BY DEF Budget
<1>6. /\ m <= manual /\ n <= Budget + 1
      /\ row[d].attempts + n <= MaxAttempts + Budget
      /\ \A q \in Process : Attempting(q, d) => mem[q].attempts + n <= MaxAttempts + Budget
  BY DEF Bounded
<1> HIDE DEF n, m, k
<1>7. k <= manual' /\ n - 1 <= Budget' + 1 /\ n - 1 <= Budget'
  BY <1>3, <1>4, <1>5, <1>6
<1>8. row'[d].attempts + (n - 1) <= MaxAttempts + Budget'
      /\ (row'[d].attempts < MaxAttempts => row'[d].attempts + (n - 1) < MaxAttempts + Budget')
  <2>1. CASE row'[d].attempts = row[d].attempts
    BY <1>3, <1>5, <1>6, <2>1
  <2>2. CASE Attempting(p, d) /\ row'[d].attempts = mem[p].attempts + 1
    <3>1. mem[p].attempts \in Nat /\ mem[p].attempts + n <= MaxAttempts + Budget
      BY <1>3, <1>6, <2>2
    <3>2. QED  BY <1>3, <1>5, <1>6, <2>2, <3>1
  <2>3. QED  BY <2>1, <2>2
<1>9. \A q \in Process : Attempting(q, d)' =>
        mem'[q].attempts + (n - 1) < MaxAttempts + Budget'
  <2> SUFFICES ASSUME NEW q \in Process, Attempting(q, d)'
               PROVE  mem'[q].attempts + (n - 1) < MaxAttempts + Budget'
    OBVIOUS
  <2>1. mem'[q] = mem[q] /\ mem[q].attempts \in Nat
        /\ mem[q].attempts + n <= MaxAttempts + Budget
    BY <1>3, <1>6
  <2>2. QED  BY <1>3, <1>5, <2>1
<1>10. \A q \in Process : Attempting(q, d)' =>
         mem'[q].attempts + (n - 1) <= MaxAttempts + Budget'
  <2> SUFFICES ASSUME NEW q \in Process, Attempting(q, d)'
               PROVE  mem'[q].attempts + (n - 1) <= MaxAttempts + Budget'
    OBVIOUS
  <2>1. mem'[q] = mem[q] /\ mem[q].attempts \in Nat
        /\ mem[q].attempts + n <= MaxAttempts + Budget
    BY <1>3, <1>6
  <2>2. QED  BY <1>3, <1>5, <2>1
<1>11. Cardinality(AdminHolders(d)') <= manual' /\ Cardinality(Holders(d)') = n - 1
  BY <1>4, <1>7 DEF k
<1>12. QED  BY <1>4, <1>7, <1>8, <1>9, <1>10, <1>11 DEF Bounded

\* A worker claims the delivery, which no live lease protects and which has
\* attempts left.
LEMMA BoundedClaim ==
  ASSUME Typed, NEW d \in Delivery, Bounded(d), NEW w \in Worker, Claim(w), d \in Due,
         Typed'
  PROVE  Bounded(d)'
<1>1. Eligible(d)
  BY DEF Due
<1>2. \A p \in Process : /\ Attempting(p, d)' <=> Attempting(p, d)
                         /\ mem'[p] = mem[p]
  BY DEF Claim, local, Attempting
<1>3. \A v \in Worker : batch'[v] = IF v = w THEN Due ELSE batch[v]
  BY DEF Claim, Typed
<1>4. \A p \in Process : Holds(p, d)' <=> Holds(p, d) \/ p = w
  BY <1>2, <1>3 DEF Holds, Claim
<1>5. Holders(d)' = Holders(d) \cup {w} /\ AdminHolders(d)' = AdminHolders(d)
  BY <1>2, <1>4 DEF Holders, AdminHolders
<1>6. ~Holds(w, d)
  BY DEF Claim, Holds, Attempting
<1>7. w \notin Holders(d)
  BY <1>6 DEF Holders
<1> DEFINE n == Cardinality(Holders(d))
<1>8. IsFiniteSet(Holders(d)') /\ Cardinality(Holders(d)') = n + 1
  BY <1>5, <1>7, FS_AddElement DEF Bounded
<1>9. /\ n \in Nat /\ Budget \in Nat
      /\ row[d].attempts \in Nat /\ \A p \in Process : mem[p].attempts \in Nat
  BY Numbers
<1>10. ~Leased(d) /\ row[d].attempts < MaxAttempts
  BY <1>1 DEF Leased, Eligible
<1>11. /\ n <= Budget /\ row[d].attempts + n < MaxAttempts + Budget
       /\ \A p \in Process : Attempting(p, d) => mem[p].attempts + n < MaxAttempts + Budget
  BY <1>10 DEF Bounded
<1> HIDE DEF n
<1>12. row[d] \in Row /\ row'[d] = [row[d] EXCEPT !.lease = "live"]
  BY DEF Claim, Typed
<1>13. row'[d].attempts = row[d].attempts /\ row'[d].lease = "live"
  BY <1>12 DEF Row
<1>14. Leased(d)'
  BY <1>4, <1>13 DEF Leased
<1>15. n + 1 <= Budget + 1 /\ row'[d].attempts + (n + 1) <= MaxAttempts + Budget
  BY <1>9, <1>11, <1>13
<1>16. \A p \in Process : Attempting(p, d)' => mem'[p].attempts + (n + 1) <= MaxAttempts + Budget
  <2> SUFFICES ASSUME NEW p \in Process, Attempting(p, d)'
               PROVE  mem'[p].attempts + (n + 1) <= MaxAttempts + Budget
    OBVIOUS
  <2>1. mem'[p] = mem[p] /\ mem[p].attempts \in Nat
        /\ mem[p].attempts + n < MaxAttempts + Budget
    BY <1>2, <1>9, <1>11
  <2>2. QED  BY <1>9, <2>1
<1>17. manual' = manual /\ Budget' = Budget
  BY DEF Claim, bounds, Budget
<1>18. IsFiniteSet(AdminHolders(d)') /\ Cardinality(AdminHolders(d)') <= manual'
  BY <1>5, <1>17 DEF Bounded
<1>19. QED  BY <1>8, <1>14, <1>15, <1>16, <1>17, <1>18 DEF Bounded

\* An admin's attempt adds a process and a disturbance.
LEMMA BoundedAdmin ==
  ASSUME Typed, Typed', NEW d \in Delivery, Bounded(d), NEW a \in Admin,
         AdminBegins(a, d), row[d].status # "delivered"
  PROVE  Bounded(d)'
<1>1. \E l \in {"posting", "refusing"} : Load(a, d, l)
  BY DEF AdminBegins, Begin
<1>2. \A p \in Process :
        IF p = a THEN pc'[p] \in {"posting", "refusing"} /\ job'[p] = d /\ mem'[p] = row[d]
        ELSE pc'[p] = pc[p] /\ job'[p] = job[p] /\ mem'[p] = mem[p]
  BY <1>1 DEF Load, Typed
<1>3. batch' = batch /\ row' = row /\ pc[a] = "idle" /\ a \notin Worker
  BY DEF AdminBegins
<1>4. \A p \in Process : /\ Attempting(p, d)' <=> Attempting(p, d) \/ p = a
                         /\ Holds(p, d)' <=> Holds(p, d) \/ p = a
  BY <1>2, <1>3 DEF Holds, Attempting
<1>5. /\ Holders(d)' = Holders(d) \cup {a} /\ AdminHolders(d)' = AdminHolders(d) \cup {a}
      /\ a \notin Holders(d) /\ a \notin AdminHolders(d)
  BY <1>3, <1>4 DEF Holders, AdminHolders, Holds, Attempting
<1> DEFINE n == Cardinality(Holders(d))
           m == Cardinality(AdminHolders(d))
<1>6. /\ IsFiniteSet(Holders(d)') /\ Cardinality(Holders(d)') = n + 1
      /\ IsFiniteSet(AdminHolders(d)') /\ Cardinality(AdminHolders(d)') = m + 1
  <2>1. IsFiniteSet(Holders(d)) /\ IsFiniteSet(AdminHolders(d))
    BY DEF Bounded
  <2>2. IsFiniteSet(Holders(d)') /\ Cardinality(Holders(d)') = n + 1
    BY <1>5, <2>1, FS_AddElement
  <2>3. IsFiniteSet(AdminHolders(d)') /\ Cardinality(AdminHolders(d)') = m + 1
    BY <1>5, <2>1, FS_AddElement
  <2>4. QED  BY <2>2, <2>3
<1>7. /\ n \in Nat /\ m \in Nat /\ manual \in Nat /\ overruns \in Nat /\ Budget \in Nat
      /\ row[d].attempts \in Nat /\ \A p \in Process : mem[p].attempts \in Nat
  BY Numbers
<1>8. /\ m <= manual /\ n <= Budget + 1 /\ (~Leased(d) => n <= Budget)
      /\ row[d].attempts + n <= MaxAttempts + Budget
      /\ \A p \in Process : Attempting(p, d) => mem[p].attempts + n <= MaxAttempts + Budget
      /\ row[d].attempts < MaxAttempts /\ ~Leased(d) =>
           /\ row[d].attempts + n < MaxAttempts + Budget
           /\ \A p \in Process : Attempting(p, d) =>
                mem[p].attempts + n < MaxAttempts + Budget
  BY DEF Bounded
<1> HIDE DEF n, m
<1>9. manual' = manual + 1 /\ Budget' = Budget + 1
  <2>1. manual' = manual + 1 /\ overruns' = overruns
    BY DEF AdminBegins
  <2>2. QED  BY <1>7, <2>1 DEF Budget
<1>10. \A w \in Worker : Holds(w, d)' <=> Holds(w, d)
  BY <1>3, <1>4
<1>11. Leased(d)' <=> Leased(d)
  BY <1>3, <1>10 DEF Leased
<1>12. /\ m + 1 <= manual' /\ n + 1 <= Budget' + 1 /\ (~Leased(d)' => n + 1 <= Budget')
       /\ row'[d].attempts + (n + 1) <= MaxAttempts + Budget'
       /\ row'[d].attempts < MaxAttempts /\ ~Leased(d)' =>
            row'[d].attempts + (n + 1) < MaxAttempts + Budget'
  BY <1>3, <1>7, <1>8, <1>9, <1>11
<1>13. ASSUME NEW p \in Process, Attempting(p, d)'
       PROVE  /\ mem'[p].attempts + (n + 1) <= MaxAttempts + Budget'
              /\ row'[d].attempts < MaxAttempts /\ ~Leased(d)' =>
                   mem'[p].attempts + (n + 1) < MaxAttempts + Budget'
  <2>1. CASE p = a
    BY <1>2, <1>3, <1>12, <2>1
  <2>2. CASE p # a
    <3>1. mem'[p] = mem[p] /\ mem[p].attempts \in Nat /\ Attempting(p, d)
      BY <1>2, <1>4, <1>7, <1>13, <2>2
    <3>2. /\ mem[p].attempts + n <= MaxAttempts + Budget
          /\ row[d].attempts < MaxAttempts /\ ~Leased(d) =>
               mem[p].attempts + n < MaxAttempts + Budget
      BY <1>8, <3>1
    <3>3. QED  BY <1>3, <1>7, <1>9, <1>11, <3>1, <3>2
  <2>3. QED  BY <2>1, <2>2
<1>14. QED  BY <1>6, <1>12, <1>13 DEF Bounded

\* A lease that is outlasted is a disturbance too.
LEMMA BoundedOverrun ==
  ASSUME Typed, Typed', NEW d \in Delivery, Bounded(d), LeaseOverruns(d)
  PROVE  Bounded(d)'
<1>1. UNCHANGED <<local, batch>> /\ manual' = manual /\ overruns' = overruns + 1
  BY DEF LeaseOverruns
<1>2. \A p \in Process : /\ Holds(p, d)' <=> Holds(p, d)
                         /\ Attempting(p, d)' <=> Attempting(p, d)
                         /\ mem'[p] = mem[p]
  BY <1>1, ProcessesStay
<1>3. Holders(d)' = Holders(d) /\ AdminHolders(d)' = AdminHolders(d)
  BY <1>2 DEF Holders, AdminHolders
<1> DEFINE n == Cardinality(Holders(d))
<1>4. /\ n \in Nat /\ manual \in Nat /\ overruns \in Nat /\ Budget \in Nat
      /\ row[d].attempts \in Nat /\ \A p \in Process : mem[p].attempts \in Nat
  BY Numbers
<1>5. Budget' = Budget + 1
  BY <1>1, <1>4 DEF Budget
<1>6. row[d] \in Row /\ row'[d] = [row[d] EXCEPT !.lease = "expired"]
  BY DEF LeaseOverruns, Typed
<1>7. row'[d].attempts = row[d].attempts
  BY <1>6 DEF Row
<1>8. /\ n <= Budget + 1
      /\ row[d].attempts + n <= MaxAttempts + Budget
      /\ \A p \in Process : Attempting(p, d) => mem[p].attempts + n <= MaxAttempts + Budget
  BY DEF Bounded
<1>9. Cardinality(Holders(d)') = n
  BY <1>3
<1> HIDE DEF n
<1>10. n <= Budget' + 1 /\ n <= Budget' /\ row'[d].attempts + n < MaxAttempts + Budget'
       /\ row'[d].attempts + n <= MaxAttempts + Budget'
  BY <1>4, <1>5, <1>7, <1>8
<1>11. ASSUME NEW p \in Process, Attempting(p, d)'
       PROVE  /\ mem'[p].attempts + n <= MaxAttempts + Budget'
              /\ mem'[p].attempts + n < MaxAttempts + Budget'
  <2>1. mem'[p] = mem[p] /\ mem[p].attempts \in Nat
        /\ mem[p].attempts + n <= MaxAttempts + Budget
    BY <1>2, <1>4, <1>8, <1>11
  <2>2. QED  BY <1>4, <1>5, <2>1
<1>12. IsFiniteSet(Holders(d)') /\ IsFiniteSet(AdminHolders(d)')
       /\ Cardinality(AdminHolders(d)') <= manual'
  BY <1>1, <1>3 DEF Bounded
<1>13. QED  BY <1>9, <1>10, <1>11, <1>12 DEF Bounded

LEMMA TableStepBounded ==
  ASSUME Typed, Typed', AttemptsBounded, NEW e \in Delivery,
         Enqueue(e) \/ Elapse(e) \/ LeaseOverruns(e) \/ Toggle
  PROVE  AttemptsBounded'
<1> SUFFICES ASSUME NEW d \in Delivery PROVE Bounded(d)'
  BY DEF AttemptsBounded
<1>1. Bounded(d) /\ row \in [Delivery -> Row] /\ row[d] \in Row
  BY DEF AttemptsBounded, Typed
<1>2. CASE LeaseOverruns(d)
  BY <1>1, <1>2, BoundedOverrun
<1>3. CASE ~LeaseOverruns(d)
  <2>1. UNCHANGED <<local, batch>> /\ manual' = manual
        /\ (overruns' = overruns \/ overruns' = overruns + 1)
    BY DEF Enqueue, Elapse, BackoffElapses, LeaseExpires, LeaseOverruns, Toggle, bounds
  <2>2. \A p \in Process : /\ Holds(p, d)' <=> Holds(p, d)
                           /\ Attempting(p, d)' <=> Attempting(p, d)
                           /\ mem'[p] = mem[p]
    BY <2>1, ProcessesStay
  <2>3. row'[d].attempts = row[d].attempts
    BY TableStepKeeps
  <2>4. row'[d].lease = row[d].lease \/ \A w \in Worker : ~Holds(w, d)
    BY <1>1, <1>3, SMTT(30) DEF Enqueue, Elapse, BackoffElapses, LeaseExpires, LeaseOverruns, Toggle,
       Row, Held, Holds, Attempting
  <2>5. Leased(d)' <=> Leased(d)
    BY <2>2, <2>4 DEF Leased
  <2>6. QED  BY <1>1, <2>1, <2>2, <2>3, <2>5, BoundedFrame
<1>4. QED  BY <1>2, <1>3

LEMMA ClaimBounded ==
  ASSUME Typed, Typed', AttemptsBounded, NEW w \in Worker, Claim(w)
  PROVE  AttemptsBounded'
<1> SUFFICES ASSUME NEW d \in Delivery PROVE Bounded(d)'
  BY DEF AttemptsBounded
<1>1. Bounded(d)
  BY DEF AttemptsBounded
<1>2. CASE d \in Due
  BY <1>1, <1>2, BoundedClaim
<1>3. CASE d \notin Due
  <2>1. UNCHANGED local /\ row'[d] = row[d] /\ manual' = manual /\ overruns' = overruns
    BY <1>3 DEF Claim, bounds
  <2>2. \A v \in Worker : batch'[v] = IF v = w THEN Due ELSE batch[v]
    BY DEF Claim, Typed
  <2>3. \A p \in Process : Attempting(p, d)' <=> Attempting(p, d)
    BY <2>1 DEF local, Attempting
  <2>4. \A p \in Process : Holds(p, d)' <=> Holds(p, d)
    BY <1>3, <2>2, <2>3 DEF Holds, Claim
  <2>5. Leased(d)' <=> Leased(d)
    BY <2>1, <2>4 DEF Leased
  <2>6. \A p \in Process : mem'[p] = mem[p]
    BY <2>1 DEF local
  <2>7. QED  BY <1>1, <2>1, <2>3, <2>4, <2>5, <2>6, BoundedFrame
<1>4. QED  BY <1>2, <1>3

\* A worker passes from its batch to the attempt, or lets a delivered row go.
LEMMA WorkerBeginsBounded ==
  ASSUME Typed, Typed', AttemptsBounded, NEW w \in Worker, NEW e \in Delivery,
         WorkerBegins(w, e)
  PROVE  AttemptsBounded'
<1> SUFFICES ASSUME NEW d \in Delivery PROVE Bounded(d)'
  BY DEF AttemptsBounded
<1>1. Bounded(d) /\ row' = row /\ pc[w] = "idle" /\ e \in batch[w]
      /\ manual' = manual /\ overruns' = overruns
  BY DEF WorkerBegins, AttemptsBounded, bounds
<1>2. \A v \in Worker : batch'[v] = IF v = w THEN batch[w] \ {e} ELSE batch[v]
  BY DEF WorkerBegins, Typed
<1>3. CASE row[e].status = "delivered"
  <2>1. UNCHANGED local
    BY <1>3 DEF WorkerBegins, Begin
  <2>2. \A p \in Process : /\ Attempting(p, d)' <=> Attempting(p, d)
                           /\ mem'[p] = mem[p]
    BY <2>1 DEF local, Attempting
  <2>3. ~Attempting(w, d)
    BY <1>1 DEF Attempting
  <2>4. \A p \in Process : Holds(p, d)' <=> Holds(p, d) /\ ~(d = e /\ p = w)
    BY <1>1, <1>2, <2>2, <2>3 DEF Holds
  <2>5. CASE d = e
    <3>1. Holds(w, d)
      BY <1>1, <2>5 DEF Holds
    <3>2. \A p \in Process : /\ Holds(p, d)' <=> Holds(p, d) /\ p # w
                             /\ Attempting(p, d)' <=> Attempting(p, d) /\ p # w
      BY <2>2, <2>3, <2>4, <2>5
    <3>3. QED  BY <1>1, <2>2, <3>1, <3>2, BoundedShrink
  <2>6. CASE d # e
    <3>1. Leased(d)' <=> Leased(d)
      BY <1>1, <2>4, <2>6 DEF Leased
    <3>2. QED  BY <1>1, <2>2, <2>4, <2>6, <3>1, BoundedFrame
  <2>7. QED  BY <2>5, <2>6
<1>4. CASE row[e].status # "delivered"
  <2>1. PICK l \in {"posting", "refusing"} : Load(w, e, l)
    BY <1>4 DEF WorkerBegins, Begin
  <2>2. \A p \in Process : /\ pc'[p] = IF p = w THEN l ELSE pc[p]
                           /\ job'[p] = IF p = w THEN e ELSE job[p]
                           /\ mem'[p] = IF p = w THEN row[e] ELSE mem[p]
    BY <2>1 DEF Load, Typed
  <2>3. \A p \in Process : Attempting(p, d)' <=> Attempting(p, d) \/ (d = e /\ p = w)
    BY <1>1, <2>2 DEF Attempting
  <2>4. \A p \in Process : Holds(p, d)' <=> Holds(p, d)
    BY <1>1, <1>2, <2>2, <2>3 DEF Holds
  <2>5. Leased(d)' <=> Leased(d)
    BY <1>1, <2>4 DEF Leased
  <2>6. \A a \in Admin : Attempting(a, d)' <=> Attempting(a, d)
    BY <2>3
  <2>7. \A p \in Process : Attempting(p, d)' =>
          \/ mem'[p].attempts = row[d].attempts
          \/ Attempting(p, d) /\ mem'[p].attempts = mem[p].attempts
    <3> SUFFICES ASSUME NEW p \in Process, Attempting(p, d)'
                 PROVE  \/ mem'[p].attempts = row[d].attempts
                        \/ Attempting(p, d) /\ mem'[p].attempts = mem[p].attempts
      OBVIOUS
    <3>1. CASE p = w
      BY <2>2, <3>1 DEF Attempting
    <3>2. CASE p # w
      BY <2>2, <2>3, <3>2
    <3>3. QED  BY <3>1, <3>2
  <2>8. QED  BY <1>1, <2>4, <2>5, <2>6, <2>7, BoundedFrame
<1>5. QED  BY <1>3, <1>4

LEMMA AdminBeginsBounded ==
  ASSUME Typed, Typed', AttemptsBounded, NEW a \in Admin, NEW e \in Delivery,
         AdminBegins(a, e)
  PROVE  AttemptsBounded'
<1> SUFFICES ASSUME NEW d \in Delivery PROVE Bounded(d)'
  BY DEF AttemptsBounded
<1>1. Bounded(d) /\ row' = row /\ batch' = batch /\ pc[a] = "idle"
      /\ manual' = manual + 1 /\ overruns' = overruns
  BY DEF AdminBegins, AttemptsBounded
<1>2. CASE d = e /\ row[e].status # "delivered"
  BY <1>1, <1>2, BoundedAdmin
<1>3. CASE ~(d = e /\ row[e].status # "delivered")
  <2>1. \/ UNCHANGED local
        \/ d # e /\ \E l \in {"posting", "refusing"} : Load(a, e, l)
    BY <1>3 DEF AdminBegins, Begin
  <2>2. \A p \in Process :
          \/ pc'[p] = pc[p] /\ job'[p] = job[p] /\ mem'[p] = mem[p]
          \/ pc[p] = "idle" /\ job'[p] # d
    BY <1>1, <2>1 DEF local, Load, Typed
  <2>3. \A p \in Process : /\ Attempting(p, d)' <=> Attempting(p, d)
                           /\ Holds(p, d)' <=> Holds(p, d)
    BY <1>1, <2>2 DEF Attempting, Holds
  <2>4. \A p \in Process : Attempting(p, d) => mem'[p] = mem[p]
    BY <2>2 DEF Attempting
  <2>5. Leased(d)' <=> Leased(d)
    BY <1>1, <2>3 DEF Leased
  <2>6. QED  BY <1>1, <2>3, <2>4, <2>5, BoundedFrame
<1>4. QED  BY <1>2, <1>3

LEMMA FinishBounded ==
  ASSUME Typed, Typed', Roles, AttemptsBounded, NEW p \in Process, Finish(p)
  PROVE  AttemptsBounded'
<1> SUFFICES ASSUME NEW d \in Delivery PROVE Bounded(d)'
  BY DEF AttemptsBounded
<1>1. Bounded(d) /\ batch' = batch /\ manual' = manual /\ overruns' = overruns
  BY DEF Finish, AttemptsBounded, bounds
<1>2. /\ job[p] \in Delivery
      /\ pc[p] \in {"posting", "refusing"}
      /\ \A c \in Delivery : c # job[p] => row'[c] = row[c]
      /\ row'[job[p]].attempts = mem[p].attempts + 1
  BY FinishWrites
<1>3. pc'[p] \in {"readback", "idle"}
      /\ \A q \in Process : q # p => /\ pc'[q] = pc[q] /\ job'[q] = job[q]
                                     /\ mem'[q] = mem[q]
  BY DEF Finish, AfterAttempt, Drop, Typed
<1>4. \A q \in Process : Attempting(q, d)' <=> Attempting(q, d) /\ q # p
  BY <1>3 DEF Attempting
<1>5. CASE d = job[p]
  <2>1. Attempting(p, d) /\ Holds(p, d)
    BY <1>2, <1>5 DEF Attempting, Holds
  <2>2. ~(p \in Worker /\ d \in batch[p])
    BY <1>2, <1>5 DEF Roles
  <2>3. \A q \in Process : Holds(q, d)' <=> Holds(q, d) /\ q # p
    BY <1>1, <1>4, <2>2 DEF Holds
  <2>4. QED  BY <1>1, <1>2, <1>3, <1>4, <1>5, <2>1, <2>3, BoundedShrink
<1>6. CASE d # job[p]
  <2>1. ~Attempting(p, d)
    BY <1>6 DEF Attempting
  <2>2. \A q \in Process : /\ Attempting(q, d)' <=> Attempting(q, d)
                           /\ Attempting(q, d) => mem'[q] = mem[q]
    BY <1>3, <1>4, <2>1
  <2>3. \A q \in Process : Holds(q, d)' <=> Holds(q, d)
    BY <1>1, <2>2 DEF Holds
  <2>4. row'[d] = row[d]
    BY <1>2, <1>6
  <2>5. Leased(d)' <=> Leased(d)
    BY <2>3, <2>4 DEF Leased
  <2>6. QED  BY <1>1, <2>2, <2>3, <2>4, <2>5, BoundedFrame
<1>7. QED  BY <1>5, <1>6

LEMMA CrashBounded ==
  ASSUME Typed, Typed', AttemptsBounded, NEW p \in Process, Crash(p)
  PROVE  AttemptsBounded'
<1> SUFFICES ASSUME NEW d \in Delivery PROVE Bounded(d)'
  BY DEF AttemptsBounded
<1>1. Bounded(d) /\ row' = row /\ manual' = manual /\ overruns' = overruns
  BY DEF Crash, AttemptsBounded
<1>2. \A q \in Process : \/ q = p /\ pc'[q] = "idle"
                         \/ q # p /\ pc'[q] = pc[q] /\ job'[q] = job[q] /\ mem'[q] = mem[q]
  BY DEF Crash, Drop, Typed
<1>3. \A w \in Worker : batch'[w] = IF w = p THEN {} ELSE batch[w]
  BY DEF Crash, Typed
<1>4. \A q \in Process : /\ Attempting(q, d)' <=> Attempting(q, d) /\ q # p
                         /\ Holds(q, d)' <=> Holds(q, d) /\ q # p
  BY <1>2, <1>3 DEF Attempting, Holds
<1>5. CASE Holds(p, d)
  BY <1>1, <1>2, <1>4, <1>5, BoundedShrink
<1>6. CASE ~Holds(p, d)
  <2>1. \A q \in Process : /\ Attempting(q, d)' <=> Attempting(q, d)
                           /\ Holds(q, d)' <=> Holds(q, d)
                           /\ Attempting(q, d) => mem'[q] = mem[q]
    BY <1>2, <1>4, <1>6 DEF Holds
  <2>2. Leased(d)' <=> Leased(d)
    BY <1>1, <2>1 DEF Leased
  <2>3. QED  BY <1>1, <2>1, <2>2, BoundedFrame
<1>7. QED  BY <1>5, <1>6

\* What is done after an attempt, and a replay, leave counts and leases alone.
LEMMA OtherBounded ==
  ASSUME Typed, Typed', Roles, AttemptsBounded, NEW p \in Process,
         \/ p \in Worker /\ (ReadBack(p) \/ FailExhausted(p))
         \/ p \in Admin /\ (FinishReplay(p) \/ \E e \in Delivery : BeginReplay(p, e))
  PROVE  AttemptsBounded'
<1> SUFFICES ASSUME NEW d \in Delivery PROVE Bounded(d)'
  BY DEF AttemptsBounded
<1>1. Bounded(d) /\ batch' = batch /\ overruns' = overruns
      /\ (manual' = manual \/ manual' = manual + 1)
  BY DEF ReadBack, FailExhausted, FinishReplay, BeginReplay, AttemptsBounded, bounds
<1>2. pc[p] \notin {"posting", "refusing"} /\ pc'[p] \notin {"posting", "refusing"}
      /\ \A q \in Process : q # p => /\ pc'[q] = pc[q] /\ job'[q] = job[q]
                                     /\ mem'[q] = mem[q]
  BY DEF ReadBack, FailExhausted, FinishReplay, BeginReplay, Load, Drop, Typed
<1>3. \A q \in Process : /\ Attempting(q, d)' <=> Attempting(q, d)
                         /\ Holds(q, d)' <=> Holds(q, d)
                         /\ Attempting(q, d) => mem'[q] = mem[q]
  BY <1>1, <1>2 DEF Attempting, Holds
<1>4. row'[d].attempts = row[d].attempts /\ row'[d].lease = row[d].lease
  <2>1. CASE row' = row
    BY <2>1
  <2>2. CASE row' # row
    <3>1. job[p] \in Delivery
      BY <2>2 DEF ReadBack, FailExhausted, FinishReplay, BeginReplay, Typed
    <3>2. PICK s \in {"pending", "failed"} :
            Flush(p, s, mem[p].attempts, "null", mem[p].lease)
      BY <2>2 DEF ReadBack, FailExhausted, FinishReplay, BeginReplay
    <3>3. QED  BY <3>1, <3>2, KeepsCounts
  <2>3. QED  BY <2>1, <2>2
<1>5. Leased(d)' <=> Leased(d)
  BY <1>3, <1>4 DEF Leased
<1>6. QED  BY <1>1, <1>3, <1>4, <1>5, BoundedFrame

LEMMA AttemptsBoundedStep ==
  Typed /\ Typed' /\ Roles /\ AttemptsBounded /\ [Next]_vars => AttemptsBounded'
<1> SUFFICES ASSUME Typed, Typed', Roles, AttemptsBounded, [Next]_vars
             PROVE  AttemptsBounded'
  OBVIOUS
<1>1. CASE UNCHANGED vars
  <2> SUFFICES ASSUME NEW d \in Delivery PROVE Bounded(d)'
    BY DEF AttemptsBounded
  <2>1. Bounded(d) /\ UNCHANGED <<local, batch>> /\ row' = row
        /\ manual' = manual /\ overruns' = overruns
    BY <1>1 DEF AttemptsBounded, vars, bounds
  <2>2. \A p \in Process : /\ Holds(p, d)' <=> Holds(p, d)
                           /\ Attempting(p, d)' <=> Attempting(p, d)
                           /\ mem'[p] = mem[p]
    BY <2>1, ProcessesStay
  <2>3. Leased(d)' <=> Leased(d)
    BY <2>1, <2>2 DEF Leased
  <2>4. QED  BY <2>1, <2>2, <2>3, BoundedFrame
<1>2. QED
  BY <1>1, Steps, TableStepBounded, ClaimBounded, WorkerBeginsBounded, AdminBeginsBounded,
     FinishBounded, CrashBounded, OtherBounded

-----------------------------------------------------------------------------
(* The theorems.                                                           *)

\* What every reachable state satisfies.
IInv == Typed /\ Roles /\ Counted /\ Undisturbed /\ AttemptsBounded

\* The inductive invariant holds in every behaviour.
THEOREM InvariantHolds == Spec => []IInv
<1>1. Init => IInv
  BY InitTyped, InitCounted, InitUndisturbed, InitBounded DEF IInv
<1>2. IInv /\ [Next]_vars => IInv'
  BY TypedStep, CountedStep, UndisturbedStep, AttemptsBoundedStep DEF IInv
<1>3. QED  BY <1>1, <1>2, PTL DEF Spec

\* Columns and copies stay in their domains, and no delivery is attempted more
\* than MaxAttempts times but for admins and outlasted leases, one time for each:
\* mark_delivery_attempt writes the count of a copy, whoever else counts.
THEOREM TypeCorrect == Spec => []TypeOK
<1>1. IInv => TypeOK
  <2> SUFFICES ASSUME IInv PROVE TypeOK
    OBVIOUS
  <2>1. Typed
    BY DEF IInv
  <2>2. ASSUME NEW d \in Delivery PROVE row[d].attempts <= MaxAttempts + manual + overruns
    <3>1. Bounded(d)
      BY DEF IInv, AttemptsBounded
    <3>2. /\ row[d].attempts \in Nat /\ Cardinality(Holders(d)) \in Nat
          /\ manual \in Nat /\ overruns \in Nat
      BY <2>1, <3>1, Numbers
    <3>3. row[d].attempts + Cardinality(Holders(d)) <= MaxAttempts + (manual + overruns)
      BY <3>1 DEF Bounded, Budget
    <3>4. QED  BY <3>2, <3>3
  <2>3. QED  BY <2>1, <2>2 DEF Typed, TypeOK
<1>2. QED  BY <1>1, InvariantHolds, PTL

\* The lease of process_due_webhook_deliveries keeps two workers from sending the
\* same delivery at once, unless it ran out under one of them or an admin came in.
THEOREM LeaseExcludes == Spec => []OneWorkerPosts
<1>1. IInv => OneWorkerPosts
  <2> SUFFICES ASSUME IInv, NEW v \in Worker, NEW w \in Worker, v # w,
                      pc[v] = "posting", pc[w] = "posting", job[v] = job[w],
                      job[v] \notin disturbed
               PROVE  FALSE
    BY DEF OneWorkerPosts
  <2>1. job[v] \in Delivery
    BY DEF IInv, Typed
  <2>2. Exclusive(job[v])
    BY <2>1 DEF IInv, Undisturbed
  <2>3. Holds(v, job[v]) /\ Holds(w, job[v])
    BY DEF Holds, Attempting
  <2>4. QED  BY <2>2, <2>3 DEF Exclusive
<1>2. QED  BY <1>1, InvariantHolds, PTL

\* The dead letters hold only deliveries that were sent MaxAttempts times, or met
\* an inactive subscription: lost updates lower the count, never raise it.
THEOREM DeadLettersWereSent == Spec => []NeverGivenUpEarly
<1>1. IInv => NeverGivenUpEarly
  BY DEF IInv, Counted, GivenUp, NeverGivenUpEarly
<1>2. QED  BY <1>1, InvariantHolds, PTL

\* A delivered row that no admin attempted and whose lease was never outlasted is
\* final: no stale copy, retry time or lease writes to it, except an admin's replay
\* begun before the delivery.
THEOREM DeliveredIsFinal == Spec => DeliveredUndisturbed
<1>1. IInv /\ [Next]_vars =>
        [\A d \in Delivery : (row[d].status = "delivered" /\ d \notin disturbed)
           => row'[d] = row[d] \/ \E a \in Admin : pc[a] = "replaying" /\ job[a] = d]_vars
  <2> SUFFICES ASSUME IInv, [Next]_vars, NEW d \in Delivery,
                      row[d].status = "delivered", d \notin disturbed,
                      row'[d] # row[d]
               PROVE  \E a \in Admin : pc[a] = "replaying" /\ job[a] = d
    OBVIOUS
  <2>1. Typed /\ Exclusive(d)
    BY DEF IInv, Undisturbed
  <2>2. row \in [Delivery -> Row]
    BY <2>1 DEF Typed
  <2>3. \A p \in Process : ~Attempting(p, d)
    BY <2>1 DEF Exclusive, Holds
  <2>4. ASSUME NEW e \in Delivery, Enqueue(e) \/ Elapse(e) \/ LeaseOverruns(e) \/ Toggle
        PROVE  FALSE
    BY <2>1, <2>2, <2>4 DEF Enqueue, Elapse, BackoffElapses, LeaseExpires, LeaseOverruns,
       Toggle, Exclusive
  <2>5. ASSUME NEW w \in Worker, Claim(w) PROVE FALSE
    BY <2>5 DEF Claim, Due, Eligible
  <2>6. ASSUME NEW p \in Process, Finish(p) PROVE FALSE
    <3>1. pc[p] \in {"posting", "refusing"} /\ job[p] \in Delivery
          /\ \A e \in Delivery : e # job[p] => row'[e] = row[e]
      BY <2>1, <2>6, FinishWrites
    <3>2. QED  BY <2>3, <3>1 DEF Attempting
  <2>7. ASSUME NEW p \in Process, NEW s \in {"pending", "failed"}, job[p] \in Delivery,
               Flush(p, s, mem[p].attempts, "null", mem[p].lease)
        PROVE  job[p] = d
    BY <2>1, <2>7, KeepsCounts
  <2>8. ASSUME NEW w \in Worker, FailExhausted(w) PROVE FALSE
    <3>1. job[w] \in Delivery /\ pc[w] = "exhausting"
      BY <2>1, <2>8 DEF FailExhausted, Typed
    <3>2. job[w] = d
      BY <2>7, <2>8, <3>1 DEF FailExhausted
    <3>3. QED  BY <2>1, <3>1, <3>2 DEF Exclusive
  <2>9. ASSUME NEW a \in Admin, FinishReplay(a)
         PROVE  pc[a] = "replaying" /\ job[a] = d
    <3>1. job[a] \in Delivery /\ pc[a] = "replaying"
      BY <2>1, <2>9 DEF FinishReplay, Typed
    <3>2. QED  BY <2>7, <2>9, <3>1 DEF FinishReplay
  <2>10. row' # row
    OBVIOUS
  <2>11. QED
    BY <2>4, <2>5, <2>6, <2>8, <2>9, <2>10, Steps
    DEF ReadBack, WorkerBegins, AdminBegins, BeginReplay, Crash, vars
<1>2. QED  BY <1>1, InvariantHolds, PTL DEF Spec, DeliveredUndisturbed
=============================================================================
