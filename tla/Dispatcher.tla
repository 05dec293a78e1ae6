----------------------------- MODULE Dispatcher -----------------------------
(***************************************************************************)
(* The customer ingestion dispatcher                                       *)
(* (src/app/services/ingestion/dispatcher.py) and the activation that      *)
(* rewrites its rows meanwhile (onboarding.py).                            *)
(*                                                                         *)
(* A row enrolls a source for an organization.  A dispatcher pass goes     *)
(* through the organizations within its budgets, claims their due rows one *)
(* by one under a lease, runs the source (RunLease; here only its outcome) *)
(* and completes the claim under the token it claimed with.  An activation *)
(* loads the enrollment, waits for its lock, loads the organization's rows *)
(* and, later, writes back what differs from what it loaded.               *)
(*                                                                         *)
(* Time is abstract: a row's next run is null, later or past, and the rows *)
(* that are past are ordered by when they became so, which is the order of *)
(* next_run_at.                                                            *)
(***************************************************************************)
EXTENDS Integers, Sequences, FiniteSets

CONSTANTS
  Orgs,          \* organizations, in the order of their ids
  Keys,          \* source keys of an organization, in their order
  Dispatcher,    \* dispatcher processes, each making one pass after another
  Nobody,        \* the null lease token
  NoDraft,       \* no activation in progress
  MaxSources,    \* max_sources: claims of one pass
  PerOrg,        \* max_sources_per_organization
  MaxCuts,       \* bound: passes cut short (deadline, error or crash)
  MaxOverruns,   \* bound: leases that expire under a live dispatcher
  MaxActivations \* bound: activations

ASSUME DispatcherAssumption ==
  /\ Orgs \in Nat \ {0} /\ Keys \in Nat \ {0}
  /\ MaxSources \in Nat \ {0} /\ PerOrg \in Nat \ {0}
  /\ MaxCuts \in Nat /\ MaxOverruns \in Nat /\ MaxActivations \in Nat
  /\ Nobody \notin Dispatcher

Org == 1..Orgs
Key == 1..Keys
Row == Org \X Key

VARIABLES
  enabled,      \* enrollment.enabled of each organization
  active,       \* rows whose status is "active"; the others were removed
  next,         \* next_run_at of each row
  due,          \* each organization's keys that are past, oldest next_run_at first
  token, lease, \* lease_token, lease_expires_at
  pc, org, todo, handled,  \* a pass: organization, rows to claim, claims so far
  draft,        \* what an activation in progress has decided to write
  overtaken,    \* history: dispatchers whose claim another has replaced or wiped
  shaken,       \* history: rows that lost a lease under a live dispatcher
  seen,         \* history: what each enrollment's enabled has been so far
  misled,       \* history: organizations that are not as their last activation asked
  cuts, overruns, activations   \* bounded events so far

table == <<active, next, due, token, lease>>
pass == <<pc, org, todo, handled>>
hist == <<overtaken, shaken, seen, misled>>
bounds == <<cuts, overruns, activations>>
vars == <<enabled, table, pass, draft, hist, bounds>>

\* Activated, with every row due, or with none if it was activated disabled.
Init ==
  /\ enabled \in [Org -> BOOLEAN]
  /\ active = Row
  /\ next = [r \in Row |-> IF enabled[r[1]] THEN "past" ELSE "null"]
  /\ due = [o \in Org |-> IF enabled[o] THEN [k \in Key |-> k] ELSE <<>>]
  /\ token = [r \in Row |-> Nobody]
  /\ lease = [r \in Row |-> "none"]
  /\ pc = [p \in Dispatcher |-> "idle"]
  /\ org = [p \in Dispatcher |-> 1]
  /\ todo = [p \in Dispatcher |-> <<>>]
  /\ handled = [p \in Dispatcher |-> 0]
  /\ draft = NoDraft
  /\ overtaken = {} /\ shaken = {}
  /\ seen = [o \in Org |-> {enabled[o]}] /\ misled = {}
  /\ cuts = 0 /\ overruns = 0 /\ activations = 0

\* The n-th of these indices, and what a sequence has at them, in its order.
Nth(I, n) == CHOOSE i \in I : Cardinality({j \in I : j <= i}) = n
Sifted(s, I) == [n \in 1..Cardinality(I) |-> s[Nth(I, n)]]

Without(s, k) == Sifted(s, {i \in DOMAIN s : s[i] # k})
AtMost(n, s) == IF Len(s) <= n THEN s ELSE SubSeq(s, 1, n)

\* The row a dispatcher is about to claim, or has claimed.
Current(p) == <<org[p], Head(todo[p])>>
Works(p) == pc[p] = "running"

-----------------------------------------------------------------------------
(* Time.                                                                   *)

BecomesDue(o, k) ==
  /\ next[<<o, k>>] = "later"
  /\ next' = [next EXCEPT ![<<o, k>>] = "past"]
  /\ due' = [due EXCEPT ![o] = Append(@, k)]
  /\ UNCHANGED <<enabled, active, token, lease, pass, draft, hist, bounds>>

HeldBy(r) == {p \in Dispatcher : Works(p) /\ Current(p) = r}

\* The lease of a dispatcher that died.
LeaseExpires(r) ==
  /\ lease[r] = "live"
  /\ HeldBy(r) = {}
  /\ lease' = [lease EXCEPT ![r] = "expired"]
  /\ UNCHANGED <<enabled, active, next, due, token, pass, draft, hist, bounds>>

\* A run outlasts the lease: the deadline stops only the start of runs.
LeaseOverruns(r) ==
  /\ lease[r] = "live"
  /\ HeldBy(r) # {}
  /\ overruns < MaxOverruns
  /\ overruns' = overruns + 1
  /\ lease' = [lease EXCEPT ![r] = "expired"]
  /\ shaken' = shaken \cup {r}
  /\ UNCHANGED <<enabled, active, next, due, token, pass, draft, overtaken,
                 seen, misled, cuts, activations>>

-----------------------------------------------------------------------------
(* A pass.                                                                 *)

Goto(p, label) == pc' = [pc EXCEPT ![p] = label]

EndPass(p) ==
  /\ Goto(p, "idle")
  /\ org' = [org EXCEPT ![p] = 1]
  /\ todo' = [todo EXCEPT ![p] = <<>>]
  /\ handled' = [handled EXCEPT ![p] = 0]

NextOrg(p) ==
  /\ Goto(p, "orgs")
  /\ org' = [org EXCEPT ![p] = @ + 1]
  /\ todo' = [todo EXCEPT ![p] = <<>>]
  /\ UNCHANGED handled

StartPass(p) ==
  /\ pc[p] = "idle"
  /\ Goto(p, "orgs")
  /\ UNCHANGED <<enabled, table, org, todo, handled, draft, hist, bounds>>

\* Mutants: the lease, or the order, is not looked at.
ClaimableLeased(r) == r \in active /\ next[r] # "later"

Claimable(r) == r \in active /\ next[r] # "later" /\ lease[r] # "live"

\* Mutant: the rows are taken in the order of their keys.
DueKeysByKey(o) == Sifted([k \in Key |-> k], {k \in Key : Claimable(<<o, k>>)})

\* The claimable rows of an organization, the null ones last.
DueKeys(o) ==
  Sifted(due[o], {i \in DOMAIN due[o] : Claimable(<<o, due[o][i]>>)})
    \o Sifted([k \in Key |-> k], {k \in Key : next[<<o, k>>] = "null" /\ Claimable(<<o, k>>)})

Least(m, n) == IF m <= n THEN m ELSE n

\* Mutant: no cap per organization.
RemainingGlobal(p) == MaxSources - handled[p]

Remaining(p) == Least(MaxSources - handled[p], PerOrg)

\* Read the enrollment and the due rows of the next organization.
EnterOrg(p) ==
  /\ pc[p] = "orgs"
  /\ IF org[p] > Orgs \/ handled[p] >= MaxSources
     THEN EndPass(p)
     ELSE IF ~enabled[org[p]]
     THEN NextOrg(p)
     ELSE /\ todo' = [todo EXCEPT ![p] = AtMost(Remaining(p), DueKeys(org[p]))]
          /\ Goto(p, "claim")
          /\ UNCHANGED <<org, handled>>
  /\ UNCHANGED <<enabled, table, draft, hist, bounds>>

LeaveOrg(p) ==
  /\ pc[p] = "claim" /\ todo[p] = <<>>
  /\ NextOrg(p)
  /\ UNCHANGED <<enabled, table, draft, hist, bounds>>

\* Compare-and-set of the row; a row that is no longer claimable is skipped.
Claim(p) ==
  /\ pc[p] = "claim" /\ todo[p] # <<>>
  /\ IF Claimable(Current(p))
     THEN /\ token' = [token EXCEPT ![Current(p)] = p]
          /\ lease' = [lease EXCEPT ![Current(p)] = "live"]
          /\ handled' = [handled EXCEPT ![p] = @ + 1]
          /\ overtaken' = (overtaken \ {p}) \cup HeldBy(Current(p))
          /\ Goto(p, "running")
          /\ UNCHANGED todo
     ELSE /\ todo' = [todo EXCEPT ![p] = Tail(@)]
          /\ UNCHANGED <<token, lease, handled, overtaken, pc>>
  /\ UNCHANGED <<enabled, active, next, due, org, draft, shaken, seen, misled, bounds>>

\* Mutant: the completion does not compare the token.
HoldsAnyClaim(p) == TRUE

HoldsClaim(p) == token[Current(p)] = p

\* The run has ended, well or badly (a conflict with another run of the source,
\* a missing source and an exception are bad), which decides only how much later
\* the row is due: complete the claim, unless the lease was lost.
Complete(p) ==
  /\ pc[p] = "running"
  /\ LET r == Current(p) IN
     IF HoldsClaim(p)
     THEN /\ token' = [token EXCEPT ![r] = Nobody]
          /\ lease' = [lease EXCEPT ![r] = "none"]
          /\ next' = [next EXCEPT ![r] = "later"]
          /\ due' = [due EXCEPT ![r[1]] = Without(@, r[2])]
     ELSE UNCHANGED <<token, lease, next, due>>
  /\ todo' = [todo EXCEPT ![p] = Tail(@)]
  /\ Goto(p, "claim")
  /\ UNCHANGED <<enabled, active, org, handled, draft, hist, bounds>>

\* The deadline ends the pass before a claim; an error ends the organization;
\* a crash ends the pass anywhere.
Cut(p) ==
  /\ pc[p] # "idle"
  /\ cuts < MaxCuts
  /\ cuts' = cuts + 1
  /\ \/ EndPass(p)
     \/ pc[p] \in {"claim", "running"} /\ NextOrg(p)
  /\ UNCHANGED <<enabled, table, draft, hist, overruns, activations>>

-----------------------------------------------------------------------------
(* Activation.                                                             *)

\* Mutant: a row that is wanted again keeps no time.
WishNever(r, on) == "null"

\* The next run that an activation asks for a row that it wants.
Wish(r, on) ==
  IF ~on THEN "null" ELSE IF next[r] = "null" THEN "past" ELSE next[r]

\* An activation of organization o asks for the keys wanted, enabled or not.  It has
\* loaded the enrollment earlier, without a lock, with an enabled that may be any it
\* has had (saw); it updates the enrollment, which waits for the activation that holds
\* its lock, then loads the rows and decides on that copy.  The ORM will write only
\* the columns that differ from the copies: enabled, the lease of a removed row if the
\* copy shows one, and a next run that changes from or to null.
BeginActivation(o, wanted, on, saw) ==
  LET asked == {o} \X wanted
      removed == {r \in active : r[1] = o} \ asked
  IN
  /\ draft = NoDraft
  /\ activations < MaxActivations
  /\ activations' = activations + 1
  /\ saw \in seen[o]
  /\ draft' = [org |-> o, on |-> on, saw |-> saw,
               removed |-> removed,
               added |-> asked \ active,
               wiped |-> {r \in removed : token[r] # Nobody},
               scheduled |-> {r \in asked : next[r] = "null" /\ Wish(r, on) # "null"},
               unscheduled |-> {r \in removed : next[r] # "null"} \cup
                               {r \in asked : next[r] # "null" /\ Wish(r, on) = "null"}]
  /\ UNCHANGED <<enabled, table, pass, hist, cuts, overruns>>

\* The enabled that an activation leaves: it writes its own only over a different copy.
Switched(was) == IF draft.on # draft.saw THEN draft.on ELSE was

\* A row that gets a time is queued last: the activation's clock was read when it
\* began, so a row that became due since may in the code come behind it.
FinishActivation ==
  /\ draft # NoDraft
  /\ enabled' = [enabled EXCEPT ![draft.org] = Switched(@)]
  /\ seen' = [seen EXCEPT ![draft.org] = @ \cup {enabled'[draft.org]}]
  /\ misled' = IF enabled'[draft.org] = draft.on THEN misled \ {draft.org}
               ELSE misled \cup {draft.org}
  /\ active' = (active \ draft.removed) \cup draft.added
  /\ next' = [r \in Row |-> IF r \in draft.scheduled THEN "past"
                            ELSE IF r \in draft.unscheduled THEN "null" ELSE next[r]]
  /\ due' = [due EXCEPT ![draft.org] =
       Sifted(@, {i \in DOMAIN @ : <<draft.org, @[i]>> \notin draft.scheduled \cup draft.unscheduled})
         \o Sifted([k \in Key |-> k], {k \in Key : <<draft.org, k>> \in draft.scheduled})]
  /\ token' = [r \in Row |-> IF r \in draft.wiped THEN Nobody ELSE token[r]]
  /\ lease' = [r \in Row |-> IF r \in draft.wiped THEN "none" ELSE lease[r]]
  /\ overtaken' = overtaken \cup UNION {HeldBy(r) : r \in draft.wiped}
  /\ shaken' = shaken \cup draft.wiped
  /\ draft' = NoDraft
  /\ UNCHANGED <<pass, bounds>>

PassStep(p) == StartPass(p) \/ EnterOrg(p) \/ LeaveOrg(p) \/ Claim(p) \/ Complete(p)

Next ==
  \/ \E o \in Org, k \in Key : BecomesDue(o, k)
  \/ \E r \in Row : LeaseExpires(r) \/ LeaseOverruns(r)
  \/ \E p \in Dispatcher : PassStep(p) \/ Cut(p)
  \/ \E o \in Org, wanted \in SUBSET Key, on, saw \in BOOLEAN : BeginActivation(o, wanted, on, saw)
  \/ FinishActivation

Spec == Init /\ [][Next]_vars

\* Time passes and dispatchers are started again and again; a run ends.
FairSpec ==
  /\ Spec
  /\ \A p \in Dispatcher : WF_vars(PassStep(p))
  /\ \A r \in Row : WF_vars(BecomesDue(r[1], r[2])) /\ WF_vars(LeaseExpires(r))

-----------------------------------------------------------------------------
\* Columns and variables stay in their domains; a pass stays within its budgets.
TypeOK ==
  /\ enabled \in [Org -> BOOLEAN]
  /\ active \subseteq Row /\ shaken \subseteq Row
  /\ next \in [Row -> {"null", "later", "past"}]
  /\ \A o \in Org : {due[o][i] : i \in DOMAIN due[o]} = {k \in Key : next[<<o, k>>] = "past"}
  /\ \A o \in Org : \A i, j \in DOMAIN due[o] : due[o][i] = due[o][j] => i = j
  /\ token \in [Row -> Dispatcher \cup {Nobody}]
  /\ lease \in [Row -> {"none", "live", "expired"}]
  /\ \A r \in Row : lease[r] = "none" <=> token[r] = Nobody
  /\ pc \in [Dispatcher -> {"idle", "orgs", "claim", "running"}]
  /\ org \in [Dispatcher -> 1..(Orgs + 1)]
  /\ handled \in [Dispatcher -> 0..MaxSources]
  /\ \A p \in Dispatcher : /\ Len(todo[p]) <= PerOrg
                           /\ handled[p] <= PerOrg * org[p]
                           /\ Works(p) => todo[p] # <<>>
  /\ overtaken \subseteq Dispatcher
  /\ misled \subseteq Org /\ \A o \in Org : enabled[o] \in seen[o] /\ seen[o] \subseteq BOOLEAN
  /\ cuts \in 0..MaxCuts /\ overruns \in 0..MaxOverruns
  /\ activations \in 0..MaxActivations

\* Two dispatchers work on the same row only if the first outlasted its lease or
\* an activation wiped it.
OneHolder ==
  \A p, q \in Dispatcher :
    (p # q /\ Works(p) /\ Works(q) /\ Current(p) = Current(q)) => Current(p) \in shaken

\* Whatever activations, claims and completions overlapped, an active row of an
\* enabled organization has a next run (activate_ingestion_onboarding).  Except while
\* the organization's last activation was misled: it was asked for the enabled that it
\* had loaded, another had changed that in between, so it scheduled the rows as it was
\* asked and left enabled as it found it.
ActiveIsScheduled ==
  \A r \in active : (enabled[r[1]] /\ r[1] \notin misled) => next[r] # "null"

\* "A stale worker cannot overwrite a replacement worker"
\* (docs/customer_ingestion_dispatcher.md): a dispatcher whose claim was replaced
\* or wiped changes nothing of the row when its run ends.
StaleCompletionIsVoid ==
  [][\A p \in overtaken : (Works(p) /\ Complete(p)) => UNCHANGED table]_vars

\* Within the caps no organization and no row starves: a due row is in the end
\* dispatched, or taken out.
DueIsDispatched ==
  \A r \in Row :
    (enabled[r[1]] /\ r \in active /\ next[r] = "past")
      ~> (next[r] # "past" \/ r \notin active \/ ~enabled[r[1]])
=============================================================================
