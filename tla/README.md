# Verification of the BuildSignals backend

TLA+ models of the parts of BuildSignals whose correctness depends on what
several processes do to the same rows: the ingestion of public permit and
parcel records, its dispatch for customers, the delivery of webhooks, and the
workflows in which ingestion, analysts and administrators meet (brand matches,
the entity graph, planning links, parcels, assessments, sessions, membership,
API usage). Paths below are relative to `src/`; `service.py` alone means
`app/services/ingestion/service.py`.

## 1. The system

BuildSignals is a FastAPI application over PostgreSQL (SQLite in tests) with a
React front end. There is no message broker and no long-lived worker: everything
concurrent happens between HTTP requests, cron jobs and command-line runs that
meet in the database. A unit of work is an ORM session; sessions are at READ
COMMITTED, most rows are loaded without locks, `expire_on_commit` makes a session
reload its rows after each commit, a column set to the value it was loaded with
is not written, and with `autoflush=False` (`app/db.py:28`) a query does not see
what its own session has assigned and not flushed. So the questions are always the same: what was read before which commit,
which updates are conditional, and what is left after a crash between two
commits.

| Component | State | Operations | What makes it correct |
|---|---|---|---|
| Ingestion runs (`service.py:276-655`, `models/ingestion.py:99`) | `ingestion_runs`: status, heartbeat, checkpoint; the records of each page | claim, reclaim a stale run, heartbeat, commit part of a page, commit a page, end (completed, partial, with errors, failed) | one live run per source; a worker that lost its lease changes nothing; a checkpoint never ahead of the data; completed means complete |
| Full-snapshot reconciliation (`service.py:688-925, 1298-1463`) | `last_seen_snapshot_id` and `is_active` of every record; the generation inside checkpoints | start, continue and complete a generation; tag; retire what is missing, behind a guard | nothing skipped, nothing retired that was not reached, convergence to what the publisher serves |
| Resume checkpoints and health (`health.py`) | none of its own | the checkpoint of the newest clean run; health reports | resuming does not go back behind a completed run |
| Webhook queue (`webhook_service.py`, `routes/organizations.py:571-693`) | `webhook_deliveries`: status, attempts, retry time, lease | enqueue, claim a batch, attempt, give up, replay, acknowledge | one worker at a time; every delivery ends; dead letters are honest; delivered is final |
| Customer dispatcher (`dispatcher.py`, `onboarding.py`) | enrollment rows: status, next run, failures, lease token | pass over organizations within budgets, claim, run, complete; activate and remove | one holder, fenced completion, consecutive failures, no starvation within the caps |
| Schedule planner (`scheduling.py`) | none | due sources per shard within caps | every due source in exactly one shard |
| Sessions (`routes/auth.py`, `password_reset.py`, `twofa.py`, `services/security.py`) | token version, reset tokens, cookies | login, refresh, logout everywhere, reset, second factor | nothing issued before a revocation is accepted after it |
| Lockout and rate limiter | in-process counters | record, check, reset | at most the limit per window |
| Organizations (`routes/organizations.py`) | memberships | invite, change role, remove, switch | an organization keeps an admin |
| API keys and usage | keys, usage events, rollups | create, revoke, count, rebuild | a rollup equals its events |
| Brand matches (`brand_intelligence.py`, `service.py:688-840, 1369-1413`) | matches, party fingerprints, company relationships | detect, review, backfill, retire, rebuild | inference rests on confirmed names only; current edges agree with the filing |
| Entity graph (`graph_service.py`) | entities, aliases, relationships | resolve, relate, merge | a permit has one party, which goes by its name |
| Planning links (`service.py:1699-2064`) | relationships of planning records and permits | reconcile, expire | linked in either order of arrival |
| Timeline (`temporal_service.py`, `temporal_projection.py`) | append-only observations and events | project each poll | the history, without repeats |
| Parcel references and acquisition (`parcel_reference*.py`, `acquisition_service.py`, `parcel_service.py`) | accepted relationships; cases, candidates, deals | accept; search, review, update, promote | accepted on what was seen; one opportunity per parcel |
| Assessments (`assessment_publication.py`, `buildsignal_assessment.py`) | reviews and publications of a revision | review, publish, withdraw | published on the latest, independent approval |
| Prompts, evaluations, LLM client | versions, reports | draft, run | outside the models |
| Deals, pipeline, scoring, underwriting | one row per object | create, update, move | numeric formulas |
| Connectors (`connectors/*.py`) | a checkpoint, for some the list of the run | fetch a page by key or by offset | nothing listed all along is passed over but for withdrawals |
| Front end session (`src/api/client.ts`, `src/contexts/AuthContext.tsx`) | a token in memory, the shown user, the browser's cookie | sign in and out, reload, silent refresh, retry | the tab speaks for who signed in last |
| Scripts, migrations | none | | outside the models |

How they interact: the dispatcher, the cron scripts, the CLI and the admin route
all call `execute_source_run`, which starts with a claim on `ingestion_runs`;
each of them resolves its checkpoint through `health.py` before the call. The
page loop persists records, and the reconciliation runs in the transaction that
ends a run. Webhook rows are written by request handlers and by
`scripts/process_webhooks.py`. Tenants are separated by a request context and a
row-level security policy (`app/db.py`); every model here is of one tenant.

The hard behaviours, with the line where each bites and the properties that
cover it, are the `hazards` of `PROJECT.json`.

## 2. Modules

| Module | Models | Checked with | Proved in |
|---|---|---|---|
| `FencedSource` | the promise of the run lease: a token grows with every holder, only the holder writes | through `RunLease` | |
| `RunLease` | the claim, the page loop and the failure handler of `execute_source_run` | `MCRunLease` | `RunLeaseProofs` |
| `SnapshotIngest` | generations, tags and retirement of one full-snapshot source | `MCSnapshotIngest` | `SnapshotIngestProofs` |
| `WebhookQueue` | the delivery queue of one organization | `MCWebhookQueue` | `WebhookQueueProofs` |
| `Dispatcher` | enrollment rows of several organizations, dispatcher passes and activations | `MCDispatcher` | `DispatcherProofs` |
| `BrandReview` | matches, verdicts, fingerprints and company edges of several permits | `MCBrand`, `MCPlatform` | `EvidenceProofs` |
| `EntityMerge` | the party each of several permits names, and merges of duplicates | `MCEntity`, `MCPlatform` | `EvidenceProofs` |
| `PlanningLinks` | links between planning records and permits | `MCLinks`, `MCPlatform` | `EvidenceProofs` |
| `Timeline` | observations and events of one source record | `MCTimeline`, `MCPlatform` | `SourceProofs` |
| `Acquisition` | the acquisition case of one parcel and its opportunities | `MCPlatform` | `EvidenceProofs` |
| `ParcelReview` | acceptance of a permit's parcel reference, while ingestion rewrites both | `MCParcel`, `MCPlatform` | `EvidenceProofs` |
| `Publication` | reviews and releases of one assessment revision | `MCPlatform` | `EvidenceProofs` |
| `UserSessions` | one user's cookies, reset tokens and second factor | `MCPlatform` | `AccountProofs` |
| `OrgMembers` | organizations, their members and the deletion of accounts | `MCPlatform` | `AccountProofs` |
| `ApiUsage` | usage events of a key, their rollups, the rebuild | `MCPlatform`, itself | `AccountProofs` |
| `Lockout` | the lockout counter of one account in one process | `MCPlatform` | `AccountProofs` |
| `BrowserSession` | the session of one browser tab and the refresh cookie | `MCPlatform` | `AccountProofs` |
| `OffsetPaging` | passes over a publisher's list by offsets, over several runs | `MCPlatform` | `SourceProofs` |

### RunLease

One source. A row of `ingestion_runs` is an index into functions `status`,
`heartbeat`, `checkpoint`, `cause` (why it failed); `stored[p]` is the set of
record slots of page `p` that are durable, `writer[p]` the run that wrote it
last. A worker has a label `pc` and the local variables of the code: the claim's
`now` and the running row it read (`seen`, `seenAt`), its run id (`mine`),
`current_checkpoint` (`cursor`) and the iterations left (`left`). A checkpoint
is the number of pages read; 0 is the null checkpoint.

An action is a committed (or rolled back) transaction with the reads that decide
it: `AskRun` is a caller that resolves a checkpoint, `LookForRunning`, `Reclaim`
and `Insert` the three round trips of `_claim_source_run`, `RenewRunLease` a
heartbeat of `_fetch_with_heartbeats`, `CommitMidPage` the heartbeat commit inside
a page, and so on; `PROJECT.json` maps each definition to its lines. Every
commit under the lease is the conditional `UPDATE ... WHERE status = 'running'`;
when it matches nothing the transaction rolls back and `RunLeaseLost` leads to
the handler (`LoseLease`, then `FailRun`, itself conditional). `Crash` may
happen at any label, and a worker may stay at a label for any time while the
clock ticks, which is a stall.

Records inside a page are idempotent upserts in savepoints, so a page is a set
of slots and a commit adds a subset. Counters, error texts and `parameters`
are left out. Scripts that rewrite a run after it ended
(`scripts/recurring_regions.py:160`, `recurring_columbus.py:94`) are outside.

Properties: `LeaseExclusive`, `CheckpointCovered`, `CompletedIsWhole`
(invariants); `Fenced`, `TerminalIsFinal`, `OnlySilentReclaimed` (what a step may
never do); `ImplementsFencedSource` (refinement of `FencedSource` with the newest
row as token and the running row as holder).

### SnapshotIngest

The publisher's records are numbers in keyset order; it publishes and withdraws
them at any time. The database holds `active`, `tag` and `resume`, the
checkpoint `resolve_resume_checkpoint` would return. Callers resolve a
checkpoint (`asked`) and start a run with it at any later time; at most one run
is active, which `RunLease` justifies. A run has a generation `snap`, a cursor
and a page budget. Fetching a page and committing it is one step, since nothing
between them reads or writes what the other touches. The guard compares
fractions by cross-multiplication, exactly as the float comparison does on these
values. `owed[s]` and `got[s]` are history variables: the records published
ever since generation `s` began and not yet collected by it, and the records it
has collected.

`last_seen_snapshot_id` and `is_active` are all that is kept of a permit or
parcel. What retirement does to brand matches and graph relationships, raw
records and events is left out. A page with fewer than `PageSize` records is the
last one; ArcGIS's `exceededTransferLimit` (a short page with a successor) is not
modelled. Pages are keyset pages (`connectors/arcgis.py:67`); `OffsetPaging` has
the others.

Properties: `NothingSkipped` (wherever a generation can be continued from, all it
owes lies ahead), `RetiredWasNotOwed` (a retired record was collected, or absent
at some time), `Converges`.

### WebhookQueue

A row is a record of status, attempts, retry time and lease, with time abstract
(`null`, `later`, `past`; `none`, `live`, `expired`). Workers are runs of
`process_due_webhook_deliveries`, admins are requests. Nobody holds a lock while
a request is on the wire: a process keeps the copy it loaded in `mem`, and
`Flush` writes back exactly the attributes that differ from the copy, as
SQLAlchemy does. This matters: a worker that lost its lease does not turn a
delivered row back into a pending one, because its copy said `pending` already,
but it does overwrite the attempt count. `Begin` is the load, the check and the
send; `Finish` the outcome and the commit; `ReadBack` and `FailExhausted` the
refresh and the separate transaction that gives up. `SKIP LOCKED` makes two
concurrent claims disjoint, so they are modelled one after the other. The
lease's owner is left out because no code reads it. Acknowledging a dead letter
writes only the audit log.

`disturbed` is a history variable: deliveries whose lease ran out under a live
worker, or that an admin attempted by hand; `posts` and `refused` record what
really happened to a delivery.

Properties: `OneWorkerPosts`, `NeverGivenUpEarly`, `DeliveredUndisturbed`,
`NothingStarves`.

### Dispatcher

A row is an organization and a source key. `active` are the rows whose status is
`active`; manual, paused and removed rows are alike to the dispatcher (never
claimed) and are the others. `next` is `next_run_at` as `null`, `later` or `past`,
and `due[o]` keeps the past ones in the order in which they became so, which is
the order of `next_run_at`. What a query takes from a list is stated by the ranks of the
indices it keeps (`Nth`, `Sifted`), which can be proved about. A dispatcher's token is its own name: a pass makes a
fresh `uuid4` for each claim, and an older claim of the same process is never
completed later, so the two cannot be told apart.

`EnterOrg` reads the enrollment and the due rows, `Claim` is the conditional
update, `Complete` the run's end with the conditional update by token. How a run
ends only decides how much later the row is due, so success and failure (and
`consecutive_failures`) are one action. `Cut` is the deadline before a claim, an
exception, or a crash. `BeginActivation` loads an organization's rows and decides;
`FinishActivation` writes, as the ORM does, only the columns that differ from the
loaded copy. In between, claims and completions commit. From the flush of the
enrollment on, which updates and hence locks its row (`onboarding.py:272`), two
activations of one organization exclude each other; activations of different
organizations touch different rows, so the model has one at a time. The enrollment
itself is loaded before that flush, without a lock (`onboarding.py:254`): the copy of
`enabled` that an activation compares with may be any value the row has had (`seen`),
and `Switched` says what it then leaves. `misled` are the organizations that are not as
their last activation asked. An enrollment may start out disabled. An activation that
fails writes nothing, which is one that never finishes.

Left out: the catalog digest check and organizations beyond
`max_organizations` (neither touches a row), plan-only passes, sources outside
the worker's reviewed keys, the length of the retry delay. A null `next_run_at` sorts last, as on
PostgreSQL; SQLite sorts it first.

Properties: `OneHolder` and `StaleCompletionIsVoid` (with `shaken` and
`overtaken`, which record lost leases), `ActiveIsScheduled`, `DueIsDispatched`.
`ActiveIsScheduled` leaves out the organizations in `misled`, because there it is false: two
activations load a disabled enrollment, one enables it and commits, the other asks for
disabled, which is what it had loaded; it clears the next runs and leaves `enabled` on,
and the organization has active rows that are never due until it is activated again.
A claim that commits between the load and the flush of an activation that removes
the row leaves a live lease on a removed row; the model shows it and it does no
harm, since the completion clears it and a removed row is not claimable. A completion
may also give a next run to a row of an organization disabled meanwhile, whose rows
are not read.

### The workflow modules

In all of them a request that reads and then commits is two actions: the first
takes a copy of what the code reads into a record in a set of requests in
progress (`desk`, `inFlight`, `change`, `recording`, ...), the second applies
what the code writes, to whatever the rows hold by then. Where the code takes a
row lock (`with_for_update`, or a flush that updates the row) the guard of every
action that needs the row waits for it. A unique constraint that refuses an
insertion takes the whole request back. Bounds (`MaxJobs`, `MaxRequests`, ...)
count requests begun.

**BrandReview.** `job` is the ingestion (or backfill, or retirement) transaction
in progress. A review has three steps: `ReviewLoad` loads the match (`desk`), `ReviewRead`
flushes the verdict, counts the brand's evidence and reads the match's relationships
(`drawn`), `ReviewCommit` writes. The evidence and the relationships are read in one step,
since nothing that is written depends on both. A verdict that is what was loaded
writes no match and takes no lock (`writes`), but the relationships are written all the
same. `match[<<p, b>>]` is a `permit_brand_matches` row, `prints[b][t]` the permits that the
active fingerprints of brand `b` for team `t` count, `rows` the fingerprints that have a
row at all (an insertion of one that another transaction inserted meanwhile fails),
`edge[m][a]` the relationship of a match at a property, with who wrote it last.
`Rematched`, `Reprojected`, `FlushedActive`, `Recounted` and `Judged` say what a
transaction writes over which copy. A changed filing rebuilds no fingerprints, and a
retirement rebuilds those of the brands confirmed when it loaded.
`FingerprintsRestOnNames`, `EdgesFollowTheFiling`, `VerdictFallsOnlyBlindly`;
`RetiredNotTraining` in `brand_retired`. `EdgesFollowTheFiling` leaves out the matches in
`slipped`: a review that loads a candidate and says "candidate" or that loads a confirmed
match and confirms it writes no match, so when ingestion retracts the match in between it
stays retracted and its relationships are opened again. They stay open until the
permit's relationships are next expired.

**EntityMerge.** `ent`, `display` and `aka` are entities, display names and
aliases; `tie[p][e]` the relationship of a permit with an entity. `NameParty`
resolves (an exact name, else an alias, else a new entity, invisible to others
until it commits), `CommitNaming` writes. `AskJoin` is what
`merge_graph_entities` reads, `CommitJoin` its end: relationships read on both
sides collapse, those read only on the duplicate are rewired, and rows that came to
refer to the duplicate since go with it (`ON DELETE CASCADE`,
`models/graph.py:218`; `broken`). `overtaken` records the permits whose transaction
did so, and a naming that a merge overtook while it was under way is `late`: it
commits what it resolved before, so it does not mend what the merge did. The alias that
the code happens on may be of an entity of another type, which ends its search: a new
entity is always possible where no exact name is found. `RelatedToOneParty`.

**PlanningLinks.** One transaction of each side may be in progress. `Keeps` is
what the observed record should be linked by, `Stale` what is expired. A pair is
`settled` when its last transaction overlapped none of the other side, and `skipped` when
that transaction observed a record without a city or state: the code returns there
before it links or expires anything (`service.py:1710`, `1778`), so a link of before stays
current. `LinkedInEitherOrder` is about the settled pairs that were not skipped; what the docs
say of the others is under the disagreements below.

**Timeline.** A poll is one step, since runs of one source exclude each other
(`RunLease`). `observed` and `told` are the two append-only tables; an event
rests on an observation. What is said of one field is said by indices: `Series` are the
observations of a field and mapping, `OfField` the events of a field, `Newest` the last
of them. `TimelineIsTheHistory` compares the observation of a rank with the poll of the same
rank; `EventsFollowTheRecord`.

**Acquisition.** Reviews and promotions lock the parcel's row before they read
the case (`TakeKey`), updates of the case do not. `OneOpportunityPerParcel`. An
update may set the status `promoted` by hand, which makes no deal.

**ParcelReview.** The form holds what the analyst saw; `Grant` is the check under
the locks of the permit and the one parcel, `CommitGrant` the commit. Another
parcel that comes to carry the same reference in between is not locked, and the
property does not promise that it is noticed. `AcceptedOnWhatWasSeen`.

**Publication.** Every request locks the revision's row; deletions of users do not
lock the reviews, and one of the user who publishes or reviews fails the insertion. `ReleasedOnLatestApproval`.

**UserSessions.** A cookie keeps the version it carries and, as history, whether a
revocation has committed since its user row was loaded. `blind` becomes true when
a revocation writes a version it has not seen the predecessor of.
`AcceptedUntilRevoked`, `OnlyStaleWritersBreakEnrolment`. That a reset token
changes the password once follows from its conditional update (`Claims`).

**OrgMembers.** `admins` in a request is the set of admins that every organization
had when the request counted them; the deletion of an account counts in all of them.
`OrphanedOnlyByAStaleCount`.

**ApiUsage.** `rebuild` goes through the delete (which locks the rows it deletes),
the read of the events and the commit. `RollupsFollowEvents`: only two requests of one
bucket that overlap, or a request that commits during a rebuild, make a rollup differ
from its events by more or less than it did. Whether a rebuild mends it is another
question, `RebuildRestores` in `usage_rebuild`.

**Lockout.** Time is abstract: `lock` is `ahead` of the clock or `over`.
`FrozenButForTheLate`.

**BrowserSession.** One tab. An action is a click, an answer that reaches the browser
(its cookie is stored and its script runs on to the next `await`), a token that
expires, or another tab that writes the cookie. A request carries what the code
compares when the answer comes: whether the session and the operation are still the
tab's (`current`, for `authSession` and `authOperation`), whether the token was renewed
since, whether it is the retry. `SpeaksForWhoSignedIn` says that the tab shows, holds
the token of and asks for nobody but who signed in last. It makes one exception,
which the code cannot avoid: the cookie is the browser's. A late answer to a login or a
refresh of an earlier session, another tab, or a logout that is lost or still under way
leaves a cookie of somebody else's, and the next silent refresh of the tab
speaks for them (`meddled`, `tainted`). In the default build every signed-in user of a
browser shares one cookie, so this is the designed behaviour of several tabs.

**OffsetPaging.** A source with one of five ways of paging: `window` (ArcGIS, which may
cut a page short), `socrata`, `listing` (a total, or a list read anew for each page),
`cached` (a list kept by the run's connector) and `verified` (CSV with
`verify_snapshot`). The list changes at any time; runs end on their page budget, fail,
resume and start over. A pass keeps, as history, what it has read, what was listed all
along, and how many entries were withdrawn from before its offset.
`PassedOverOnlyByWithdrawals`. The keyset variants are `SnapshotIngest`'s. What full
snapshots do with a record passed over (they retire it) is there, too.

Several of these properties have the form "this goes wrong only if ...". The code
takes no lock there, so the plain invariant (an organization keeps an admin, a
rollup equals its events, a verdict is never overwritten) is false; the property
says exactly which overlap it takes, and that nothing else breaks it.

## 3. Runs

| Run | Bounds | Shows |
|---|---|---|
| `run_lease` | 2 workers, 3 runs, 3 pages of one slot, 2 pages per run, clock 0..2, stale after 1, no checkpoint from an operator | everything of `RunLease` |
| `snapshot` | 3 records, pages of 2, one page per run, 2 callers, 5 ids, 1 edit, 2 faults, 1 fresh run, guard 1/2 | safety of generations |
| `snapshot_live` | 1 caller, 4 ids, 2 edits, 1 fault, 1 fresh run, guard 2/2, empty snapshots allowed | convergence |
| `snapshot_overtaken` | as `snapshot`, 1 fault | a generation retires what it collected |
| `webhook` | 2 deliveries, 2 workers, 1 admin with one request, 2 attempts, batches of 2, one toggle, one overrun | safety of the queue |
| `webhook_live` | one worker, batches of 1, one crash, one overrun, one toggle, one admin request | no starvation |
| `webhook_replay` | 1 delivery, 1 worker, 1 admin | a replayed dead letter nobody claims |
| `dispatcher` | 1 organization with 2 sources, enabled or not at first, 2 dispatchers, 2 claims per pass, 2 activations, 1 overrun | leases and activation |
| `dispatcher_live` | 2 organizations with 2 sources, 1 dispatcher, 1 claim per organization and 2 per pass, 1 cut, 1 activation | no starvation within the caps |
| `platform` | see below | the thirteen workflow modules |
| `brand_retired` | 2 permits, 3 ingestion transactions, 2 reviews, no two transactions at once | counterexample to `docs/stealth_retailer_detection.md:51` |
| `usage_rebuild` | one bucket, 3 events, one rebuild | counterexample to `docs/public-api.md:82` |

Why the bounds are enough to be interesting. Three runs are the least for a run
that is reclaimed while its worker sleeps, a second that takes over and a third
that is claimed while both are still about; a clock of two ticks past a stale time
of one lets a claim read a heartbeat, wait, and find it renewed. Three records in
pages of two give a full page, a short page, and (after a withdrawal) a last page
that is exactly full; five ids are more than the generations that can be open at
once, so a fresh one always exists. Two attempts and two deliveries give a retry, an
exhaustion, a batch in which the second delivery waits for the first, and a lease
that ends before its turn. Three pages with two per run make a run end on its
budget with a page left. `OperatorResumes`, a checkpoint given on the command
line or by the admin route, is FALSE in the runs to keep them small; the proofs
cover both values. Two activations are the least that disable an organization and
enable it again; with one claim per organization and two sources, the order of
the due rows matters. The webhook runs do not check for deadlock: a queue with
nothing pending stops.

`platform` checks thirteen workflow modules in one run. They share no variable, and none reads another's rows in a way the models keep, so a property of one is a
property of its own behaviours; `MCPlatform` picks one component (`scene`) in the
initial state and lets only that one move, which explores each component's own
state space and not their product. The safety properties of the others hold
trivially in a scene, and are checked in their own. That the composition runs each of
them as it is specified is proved (`ComponentsRunAsSpecified`), so what is proved of a
component holds there too. The bounds of each: three permits,
one brand and team and two properties with four ingestion transactions and two reviews,
which may be in progress at once; one planning record and two permits with five transactions; one reset token and
four requests, two in flight; two organizations and three users with two
overlapping changes; two buckets with four events and two rebuilds; four polls
of four contents under two mappings and a merge; two candidates, four requests and
two deals on one parcel; two analysts and five requests on a revision; two parcels,
two forms and six rewrites; two permits with four transactions, three entities and
two merges; a lockout of three attempts with eight logins, three at once; a tab with
two users, the demo and three clicks; a list of five in pages of two, two pages per
run, with two changes and one trip (a failed run or one from the first page). Three entities are what two overlapping creations and a third name make.
Every bounded counter runs out, so the run does not check for deadlock.

For `BrandReview`, two permits are needed to infer a brand and a third to be inferred;
four ingestion transactions and two reviews are what it takes to confirm two permits,
infer a third and correct it. Two reviews and the source's transaction at once make each
write over what another has read.

What the bounds leave out. `snapshot_live` lets every fraction pass the guard, so that
the guard never trips there: where it trips, convergence stops by design. The budget of a
pass in `dispatcher_live` reaches every organization, so it is the order of sources
within one, and the caps, that are checked; the condition on the budget is given below.

Symmetry is used only in safety runs, over workers, dispatchers, slots, callers,
permits (of `BrandReview`) and snapshot ids, which the models never order.

### Fairness

`SnapshotIngest` (`FairSpec`): a scheduler that has resolved a checkpoint starts
its run or gets a conflict, and a run goes on to its end; cron starts callers
again, and a dead run's lease goes stale and is reclaimed, which is `FailRun`
(its number is bounded, so a run does not fail for ever). With two overlapping
callers `Converges` is false: two generations stay open and each retires the
records that the other tagged last. With the default guard a run that fails for
ever, or a retirement beyond the fraction, also stops convergence, by design.

`WebhookQueue` (`FairSpec`): retry times and leases of dead workers elapse, a
worker is started again and again, and a post ends by its timeout. Admins,
crashes, overruns and toggles are not fair and are bounded.

`Dispatcher` (`FairSpec`): cron starts a dispatcher again and again, a pass goes on
to its end (a run ends by its page budget and timeouts), and times elapse.
Activations and cuts are not fair and are bounded. `DueIsDispatched` needs the
budget of a pass to reach the last organization: `MaxSources` must exceed
`(Orgs - 1) * PerOrg`, as it does in the run. With the defaults (100 sources, 25
per organization) that is four organizations with 25 sources always due; a fifth one
behind them in the order of ids is then never dispatched, and the same holds for
organizations beyond `max_organizations` and for a deadline that always falls in
the same place.

### Disagreements the runs show

- `snapshot_overtaken`: a record has one tag, so a run of another generation
  that fails half-way takes records away from the generation it interrupted,
  and that one retires live records when it completes. The guard limits the
  damage to its fraction. `RetiredWasNotOwed`, which holds, says that this is the
  only way a published record is retired.
- `webhook_replay`: a dead letter that had used up its attempts goes to `pending`
  with `attempt_count = max_attempts`: no worker claims it and it leaves the
  dead-letter list. The operator's queue snapshot counts it as exhausted.
- `brand_retired`: a retirement assigns `is_active = False` (`service.py:1387`) and
  then rebuilds the fingerprints of the permit's confirmed brands by a query on
  `is_active` (`brand_intelligence.py:684`) in the same, unflushed session. The
  query still finds the permit active, so the retired permit goes on training. The
  sessions of `tests/conftest.py:29` flush before a query, so
  `tests/test_brand_intelligence.py:1156` passes.
- `usage_rebuild`: the rebuild adds a rollup per event and looks for it by a query
  that does not find what was added before, since sessions do not flush
  (`api_usage_service.py:238`, `app/db.py:28`): with two events in a bucket the unique
  constraint fails it. Two requests that overlap lose a count, and the rebuild that is
  offered for it does not bring it back. `tests/test_public_api_keys.py:722` rebuilds two
  events of one bucket in a session that does flush.

What the other models had to follow in the code although a reader of the docs or tests
would expect otherwise:

- The checkpoint to resume is resolved (`health.py:126`) before the lease is taken
  (`service.py:482`) and never looked at again. `docs/permit_ingestion.md:778-780` says
  that a later completed run with no checkpoint prevents an older partial cursor from
  being reused; `RunLease` has the trace in which it does not: a worker resolves a
  partial run's cursor, another one's run completes, and the first inserts a run that
  starts at the old cursor. The data stays covered (`CheckpointCovered` holds), but work
  is repeated, and a run that was to be authoritative is not.
- An observation that takes an identifier away and lacks the city or the state returns
  before it looks at the links (`service.py:1710` for a planning record, `1778` for a
  permit). The index of identifiers is updated, but the former graph edge, which
  `docs/planning_intelligence.md:100-102` says is closed, stays current until the record
  is observed with a city. `LinkedInEitherOrder` leaves these pairs out (`skipped`).
- A permit that comes back and is not looked at by the detection (its filing is not
  open) is not flushed as active either before its brands are rebuilt
  (`FlushedActive`), the same cause as above.
- `merge_graph_entities` adds the duplicate's display name and then each alias,
  among them as a rule the display name again (`graph_service.py:925-941`), so a merge
  fails unless the survivor goes by that name already (`Mergeable`); likewise for a
  duplicate with source identities. What a merge that succeeds promises,
  `RelatedToOneParty`, holds except for a permit whose transaction commits between the
  merge's reads and its end, or had resolved its party before that merge and commits
  after it.
- `switch_org` mints a refresh cookie without the user's `token_version`
  (`routes/organizations.py:732`): after any revocation it is refused at the next
  refresh, and the user must sign in again. Two revocations at once write one version.
- Two admins who demote each other at once leave an organization without one
  (`routes/organizations.py:208`).
- A replay checks the status of a delivery and writes `pending` without a lock
  (`webhook_service.py:590`), which undoes a delivery made in between.

## 4. Proofs

Eight modules hold the proofs: those in the last column of the table of section 2, and
`PlatformProofs` for the composition that `platform` checks.
Every theorem is proved for every value of the constants: any number of workers,
rows, users, permits or entries, any page size, and any value of the bounds, which
are only there for TLC. Each theorem is an inductive invariant of the component,
one lemma per action (or per group of actions that touch the same part), and a
temporal step at the end; an action property follows from the invariant and one step.

### What is assumed

Nothing but the named `ASSUME`s of the component modules, which TLC evaluates in the
runs: the bounds are natural numbers (and what the code divides by, or starts counting
at, is positive); a model value that stands for "none" is not one of the data; filings
and mentions have the fields that the code reads; sets that are counted are finite
(`Users`, `Permits`); plans and permits are different records; there is a name to give
a party; the publisher's list has no entry twice before anything happens.

### The theorems and the invariants they need

| Module | Theorem | Property | Inductive invariant |
| --- | --- | --- | --- |
| `RunLeaseProofs` | `TypeCorrect`, `Exclusive`, `Covered`, `Whole`, `FencedHolds`, `TerminalHolds`, `SilentHolds`, `Implements` | `TypeOK`, `LeaseExclusive`, `CheckpointCovered`, `CompletedIsWhole`, `Fenced`, `TerminalIsFinal`, `OnlySilentReclaimed`, `ImplementsFencedSource` | `LeaseInvariant` |
| `SnapshotIngestProofs` | `TypeCorrect`, `NoHoleBehindTheCursor`, `NoOwedRecordRetired` | `TypeOK`, `NothingSkipped`, `RetiredWasNotOwed` | `IInv` |
| `WebhookQueueProofs` | `TypeCorrect`, `LeaseExcludes`, `DeadLettersWereSent`, `DeliveredIsFinal` | `TypeOK`, `OneWorkerPosts`, `NeverGivenUpEarly`, `DeliveredUndisturbed` | `IInv` |
| `DispatcherProofs` | `TypeCorrect`, `OneDispatcherPerRow`, `NoRowIsForgotten`, `StaleCompletionChangesNothing` | `TypeOK`, `OneHolder`, `ActiveIsScheduled`, `StaleCompletionIsVoid` | `IInv` |
| `AccountProofs` | `LockedButForTheLate` | `FrozenButForTheLate` | `LockoutInv` |
| | `CookiesLiveUntilRevoked`, `EnrolmentBrokenOnlyBlindly` | `AcceptedUntilRevoked`, `OnlyStaleWritersBreakEnrolment` | `SessionInv` |
| | `OrphanedOnlyBlindly` | `OrphanedOnlyByAStaleCount` | `MemberInv` |
| | `RollupsDriftOnlyByOverlap` | `RollupsFollowEvents` | `UsageInv` |
| | `TabSpeaksForOne` | `SpeaksForWhoSignedIn` | `BrowserInv` |
| `EvidenceProofs` | `OrderOfArrivalIsNothing` | `LinkedInEitherOrder` | `LinkInv` |
| | `InferenceNeverFeedsItself`, `NoEdgeLeftBehind`, `VerdictsStand` | `FingerprintsRestOnNames`, `EdgesFollowTheFiling`, `VerdictFallsOnlyBlindly` | `BrandInv` |
| | `EachPermitHasItsParty` | `RelatedToOneParty` | `EntityInv` |
|  | `PublishedOnApproval` | `ReleasedOnLatestApproval` | `ReleaseInv` |
| | `AcceptedAsSeen` | `AcceptedOnWhatWasSeen` | `TractInv` |
| | `NoSecondOpportunity` | `OneOpportunityPerParcel` | `CaseInv` |
| `SourceProofs` | `NothingElsePassedOver` | `PassedOverOnlyByWithdrawals` | `PagingInv` |
| | `SeriesAreTheHistory`, `EventsFollow` | `TimelineIsTheHistory`, `EventsFollowTheRecord` | `TimelineInv` |
| `PlatformProofs` | `PlatformTyped`, `ComponentsRunAsSpecified` | `PlatformTypeOK`, each component's specification | of each component |

Each component of `AccountProofs`, `EvidenceProofs` and `SourceProofs` has a theorem that
its type invariant always holds as well (`LockoutTyped`, `SessionsTyped`, ..., `PagesTyped`, `TimelineTyping`).

### Why the invariants are stronger than the properties

**RunLease** (`LeaseInvariant`). Exclusion needs that only the newest row can be
running (`NewestRuns`) and that nobody works under a row that does not exist yet
(`KnownTokens`), so that a fresh row's number is nobody's; that only a silent lease is
reclaimed needs that a claim's clock reading lies in the past and was already too far
from the heartbeat it read (`ClaimsWereStale`); completeness needs that the cursor in a
worker's hand, and not just the stored ones, is covered by durable pages. The
refinement of `FencedSource` follows from the invariant, step by step.

**SnapshotIngest** (`TypeOK /\ SpentHasRead /\ OwedIsServed /\ NothingSkipped`).
`NothingSkipped` speaks of every place a generation can go on from: the cursor of the
run in progress, the checkpoint a caller has been given, the stored one. It is kept
because a page is a prefix of what lies after its cursor: `PageIsPrefix`, `FullPage`
and `ShortPage` are lemmas about any set of record numbers, and rest on the least
element of a set of naturals, taken from the well-foundedness of `<` (the induction
theorems of the library take an operator, which no prover here instantiates). A run
that has used its budget has read a page (`SpentHasRead`), so the checkpoint it
leaves is not the one it began with, and a generation owes only what is published
(`OwedIsServed`), so the end of the list leaves nothing owed.

**WebhookQueue** (`Typed /\ Roles /\ Counted /\ Undisturbed /\ AttemptsBounded`).
`Undisturbed` says what a lease is worth while it has not run out under a live worker
and no admin has touched the row: one worker holds the delivery, in its batch or in its
hand, the row is pending with room for another attempt, and nobody else's copy exists.
`Counted` covers the copies in memory besides the rows, for a stale copy writes its
count back: no count ever runs ahead of the requests really sent. `TypeOK` holds the
attempts of a row to `MaxAttempts` plus the disturbances there have been. That is proved
last: a count in circulation, a row's or a copy's, can be raised once by
every process that holds the delivery (`Bounded`), and one process less may hold it
while a worker could still claim it.

**Dispatcher** (`IInv`).
`Fenced`: the row's token tells a dispatcher at work whether its claim was replaced or
wiped, which is what `complete()` compares. `Holding`: a row that lost no lease under
its dispatcher bears that dispatcher's live lease. `DraftSound`: an activation that has been
loaded and not committed will leave each row it wants with a time if it asks for
enabled, even when passes complete in between; whether `enabled` then is what it asked
for is what `misled` records. `TypeOK` also says that a pass stays within its budgets and that the
queues are right. A pass takes rows before it counts them, so `Paced` counts the rows
still in its hands with its claims: together they fit in `MaxSources`, and in what the
organizations up to this one allow (`Quota`); the row that is being run is counted twice
and one is taken off. `Queues`: an organization's queue lists the rows that are past, each
once. Every change of it is an append, a sifting or both, and the lemmas about these
(`Queued`, `SiftedIs`, `Joined`) hold for sequences in general; that the end of an
activation does not queue a row twice needs `DraftSound` (all it writes is of its
organization).

**Accounts.** `LockoutInv` counts every login let in at most once, as one in progress or
as a failure, and dates the late ones by the locks begun since. `SessionInv` adds the
requests in flight to the cookies: while no two revocations have overlapped, a request is
late exactly when its version is not the row's (`Revocable`), and a second factor is
set up and verified on what was read (`FactorSeen`). `MemberInv` adds that a request in
flight counted another admin than the one it takes away. `UsageInv` adds that a rebuild
which nothing has disturbed has deleted every rollup and, if it succeeds, will write the
events as they are. `BrowserInv` follows who is signed in through the cookie, the calls in the
air and the tab: a call that still counts speaks for who signed in last, and while
somebody signs in the tab speaks for nobody.

**Reviews.** The three invariants have one form: the row lock lets one request in,
and what the holder has read is still so when it commits (`ReadUnderTheLock`,
`CheckedUnderTheLocks`, `ReadByTheHolder`). For an acquisition case this needs that an
update, which takes no lock, writes no other column than the status, and that a
review's status is one of `ReviewStatus` (`ReviewsSayStatus`), so it cannot undo a
promotion.

**Evidence.** `LinkInv`: a transaction writes pairs of its own record only, and while
nothing has overlapped it, what it will write, unless it returned early for want of a
city, makes them what the committed records
call for. `BrandInv`: a direct match was named, a confirmed one upheld, and the same
of what transactions and reviews have found but not committed; a match that somebody has
loaded does not go (`MatchesStay`); the backfill keeps the filing the permit has. `EntityInv`: the party a transaction has resolved stays unless a
merge broke it (`EntitiesStay`), what a transaction will commit names its party and
expires every other relationship (`DraftsKnow`), and a merge knows the relationships of
all permits but those that committed after its reads (`JoinKnows`).

**OffsetPaging** (`PagingInv`). What a pass has not read, and does not have ahead of
it in the list it slices, is counted and held to the withdrawals from in front of its
offset: an entry that a withdrawal shifts over the offset is one, an insertion shifts
only entries already read or not there when the pass began. The lemmas say it for lists
in general (`InsertionShifts`, `WithdrawalShifts`, `PageIsWhatIsNext`). A connector that
keeps the list reads an old copy while the offset it stores is applied to the new
one: the entries not withdrawn since are in the same order in both (`CacheSound`), so
those that end up before the offset are no more than the withdrawals from before it
(`KeptInOrder`).

**Timeline** (`TimelineInv`). What comes after all others of a set of indices has the
next rank, and they keep theirs (`NextRank`); so a poll that appends one observation and
one entry of the history keeps the two in step (`FieldHistory`), and one that appends
neither finds that the last of each say the same (`SaysLast`). That the present status
was told last needs `Era`: while no mapping has come back, the statuses told under the
present one follow each other as their observations do, so an event that already
rests on the newest observation is the last event. A mapping not polled before
has told nothing (`EraBefore`).

### What the attempts showed

Proving changed the models or the properties in four places, each with a counterexample that
TLC finds on a slightly larger instance:

- `OrgMembers`: with three organizations the old history of a request was too small, for the
  deletion of an account counts the admins of every organization; `admins` is now kept per
  organization.
- `EntityMerge`: with two permits and four mentions the old property was false: a naming
  under way when a merge ends commits a relationship with what it resolved before, and the
  duplicate's rows that came since go with it by `ON DELETE CASCADE`. The histories `late`
  and `broken` name both.
- `BrowserSession`: two clauses of a `CASE` overlapped, and TLA+ does not say which is taken;
  they exclude each other now.
- `OffsetPaging`: nothing is lost only if the publisher's first list has no entry twice.

`Timeline` and `Dispatcher` were restated to be proved: sets of indices and their ranks in
place of sequences filtered by `SelectSeq`, which is defined by recursion. The two say the
same of the code's queries. `Dispatcher.TypeOK` had bounded the length of a queue; it now says
that no row is queued twice, which is what the bound stood for.

### What is only model-checked

- Liveness (`Converges`, `NothingStarves`, `DueIsDispatched`): fairness and `ENABLED` are
  beyond the prover.
- That due rows are taken oldest first: no invariant says it, `DueIsDispatched` needs it.

## 5. Plan

Every invariant and action property that a passing run checks is proved. What is left is to model
what section 6 lists, starting with resume and health (`health.py`), the scheduler's
windows and the recurring regions script.

## 6. Not modelled

- Scoring, underwriting, ranking, geometry, heat maps: formulas over floats.
- Normalization, connectors' parsing, planning documents, e-mail, exports: text
  processing and I/O. How the connectors' pages follow each other is in
  `SnapshotIngest` and `OffsetPaging`.
- The schedule planner, the rollout, catalog and promotion tools, host policy and
  source access: functions of reviewed configuration, run by one operator, without
  state that another process shares.
- Deals and pipeline, contacts, documents, the prompt registry, evaluations, the LLM
  client and its budgets: requests that touch one row each, where a property would
  restate a guard.
- The rate limiter: one counter per window. It admits twice its limit across a
  window's boundary, and its title calls that window sliding.
- The front end beyond its session, scripts, migrations, deployment; tenant isolation, which is a
  request context and a row-level policy: every model is of one tenant.
- A record that always fails, and scripts that rewrite a run that has
  ended, for the reasons given with their hazards in `PROJECT.json`.
