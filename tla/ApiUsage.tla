------------------------------ MODULE ApiUsage ------------------------------
(***************************************************************************)
(* The usage events of an API key and their daily rollups                  *)
(* (src/app/services/api_usage_service.py).                                *)
(*                                                                         *)
(* A public request loads the rollup of its bucket (date, method, path)    *)
(* and later commits the event with the counter of its copy plus one, or a *)
(* new rollup, which a unique constraint guards.  An admin's rebuild       *)
(* deletes the rollups, reads the events and the rollups others have       *)
(* committed since, and commits; the rollups it makes are not flushed      *)
(* before its next query (autoflush=False, src/app/db.py:28), which        *)
(* therefore does not find them.  One rebuild runs at a time.              *)
(***************************************************************************)
EXTENDS Integers, FiniteSets

CONSTANTS
  Buckets,
  NoRebuild,    \* no rebuild in progress
  MaxRecords,   \* bound: requests recorded
  MaxRebuilds   \* bound: rebuilds

ASSUME UsageAssumption == MaxRecords \in Nat /\ MaxRebuilds \in Nat

VARIABLES
  events,     \* events of each bucket
  rollup,     \* total_calls of each bucket's row, 0 when there is none
  recording,  \* requests between their read of the rollup and their commit
  rebuild,    \* the rebuild in progress
  disturbed,  \* history: a request has committed since the rebuild's delete
  records, rebuilds  \* bounded events so far

usageVars == <<events, rollup, recording, rebuild, disturbed, records, rebuilds>>

UsageInit ==
  /\ events = [b \in Buckets |-> 0]
  /\ rollup = [b \in Buckets |-> 0]
  /\ recording = {}
  /\ rebuild = NoRebuild
  /\ disturbed = FALSE
  /\ records = 0 /\ rebuilds = 0

RecordLoad(b) ==
  /\ records < MaxRecords
  /\ records' = records + 1
  /\ recording' = recording \cup
       {[bucket |-> b, total |-> rollup[b], gone |-> FALSE, id |-> records + 1]}
  /\ UNCHANGED <<events, rollup, rebuild, disturbed, rebuilds>>

Locked(b) == rebuild # NoRebuild /\ b \in rebuild.deleted

\* A row that is inserted twice, or is gone when it is updated, fails the
\* request, and its event with it.
RecordFails(d) == d.gone \/ (d.total = 0 /\ rollup[d.bucket] # 0)

RecordCommit(d) ==
  /\ ~Locked(d.bucket)
  /\ recording' = recording \ {d}
  /\ IF RecordFails(d)
     THEN UNCHANGED <<events, rollup, disturbed>>
     ELSE /\ events' = [events EXCEPT ![d.bucket] = @ + 1]
          /\ rollup' = [rollup EXCEPT ![d.bucket] = d.total + 1]
          /\ disturbed' = TRUE
  /\ UNCHANGED <<rebuild, records, rebuilds>>

\* Mutant: the rollups there are are counted on, not deleted.
DeletesNone == {}

Deletes == {b \in Buckets : rollup[b] # 0}

RebuildDelete ==
  /\ rebuild = NoRebuild /\ rebuilds < MaxRebuilds
  /\ rebuild' = [step |-> "read", deleted |-> Deletes, count |-> events, found |-> rollup]
  /\ disturbed' = FALSE
  /\ rebuilds' = rebuilds + 1
  /\ UNCHANGED <<events, rollup, recording, records>>

\* The events, and the rollup that the first event of a bucket finds.
RebuildRead ==
  /\ rebuild # NoRebuild /\ rebuild.step = "read"
  /\ rebuild' = [rebuild EXCEPT
       !.step = "commit",
       !.count = events,
       !.found = [b \in Buckets |-> IF b \in rebuild.deleted THEN 0 ELSE rollup[b]]]
  /\ UNCHANGED <<events, rollup, recording, disturbed, records, rebuilds>>

\* New rows of a bucket: one for each event, when none was found.
NewRows(b) == IF rebuild.found[b] = 0 THEN rebuild.count[b] ELSE 0

RebuildFails ==
  \E b \in Buckets :
    \/ NewRows(b) > 1
    \/ NewRows(b) = 1 /\ rollup[b] # 0 /\ ~Locked(b)

RebuildCommit ==
  /\ rebuild # NoRebuild /\ rebuild.step = "commit"
  /\ rebuild' = NoRebuild
  /\ IF RebuildFails
     THEN UNCHANGED <<rollup, recording>>
     ELSE /\ rollup' = [b \in Buckets |->
               IF rebuild.count[b] > 0 THEN rebuild.found[b] + rebuild.count[b]
               ELSE IF Locked(b) THEN 0 ELSE rollup[b]]
          /\ recording' = {[d EXCEPT !.gone = @ \/ (d.total > 0 /\ Locked(d.bucket))]
                             : d \in recording}
  /\ UNCHANGED <<events, disturbed, records, rebuilds>>

UsageNext ==
  \/ \E b \in Buckets : RecordLoad(b)
  \/ \E d \in recording : RecordCommit(d)
  \/ RebuildDelete \/ RebuildRead \/ RebuildCommit

UsageSpec == UsageInit /\ [][UsageNext]_usageVars

(***************************************************************************)
(* Properties                                                              *)
(***************************************************************************)
\* Counters, copies and the rebuild have the shapes the code gives them.
UsageTypeOK ==
  /\ events \in [Buckets -> 0..MaxRecords]
  /\ rollup \in [Buckets -> Nat]
  /\ recording \subseteq [bucket: Buckets, total: Nat, gone: BOOLEAN, id: 1..MaxRecords]
  /\ rebuild # NoRebuild =>
       rebuild \in [step: {"read", "commit"}, deleted: SUBSET Buckets,
                    count: [Buckets -> Nat], found: [Buckets -> Nat]]
  /\ disturbed \in BOOLEAN
  /\ records \in 0..MaxRecords /\ rebuilds \in 0..MaxRebuilds

Drift(b) == rollup[b] - events[b]

\* A rollup comes apart from its events only where transactions overlap: a
\* request that adds to a counter another has moved since, or a rebuild during
\* which a request committed.  Any other rebuild leaves it or restores it.
RollupsFollowEvents ==
  [][\A b \in Buckets : Drift(b)' # Drift(b) =>
       \/ Drift(b)' = 0
       \/ \E d \in recording \ recording' : d.total # rollup[b]
       \/ rebuild # NoRebuild /\ rebuild' = NoRebuild /\ disturbed]_usageVars

\* "Admins can rebuild a key's daily rollups from raw usage events"
\* (docs/public-api.md:82): a rebuild during which no request commits leaves each
\* rollup at the count of its events.
RebuildRestores ==
  [][rebuild # NoRebuild /\ rebuild' = NoRebuild /\ ~disturbed =>
       \A b \in Buckets : Drift(b)' = 0]_usageVars
=============================================================================
