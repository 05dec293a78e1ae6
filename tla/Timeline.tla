------------------------------ MODULE Timeline ------------------------------
(***************************************************************************)
(* The append-only observations and events of one source record            *)
(* (src/app/services/temporal_service.py,                                  *)
(* ingestion/temporal_projection.py).                                      *)
(*                                                                         *)
(* Each poll of the source projects the record, changed or not.  Polls of  *)
(* a record are one transaction after another (RunLease), so a poll is one *)
(* step.  Two fields stand for the projected ones: a status, whose events  *)
(* follow its changes, and a date of the life cycle, whose events are told *)
(* apart by the date.  Raw versions are kept by content: a record that     *)
(* returns to what it said before returns to the old raw version.          *)
(***************************************************************************)
EXTENDS Naturals, Sequences, SequencesExt, FiniteSets

CONSTANTS
  Contents,    \* what the publisher may say: a status, a date, and the rest
  Methods,     \* mapping versions, in the methodology of each observation
  NoValue,     \* the publisher gives no value
  MaxPolls,    \* bound: polls
  MaxMerges    \* bound: merges of the record's graph entity into another

ASSUME TimelineAssumption == MaxPolls \in Nat /\ MaxMerges \in Nat

VARIABLES
  observed,   \* temporal_observations of the record, by recorded_at
  told,       \* temporal_events of the record, by recorded_at
  entity,     \* the graph entity of the record: merges so far
  saidLast,   \* history: the content last polled, and its mapping
  cameBack,   \* history: a mapping was used again after another one
  said,       \* history: contents and entities polled with each mapping, without repeats
  polls       \* bounded events so far

timelineVars == <<observed, told, entity, saidLast, cameBack, said, polls>>

Field == {"status", "date"}

TimelineInit ==
  /\ observed = <<>>
  /\ told = <<>>
  /\ entity = 0
  /\ saidLast = NoValue
  /\ cameBack = FALSE
  /\ said = [m \in Methods |-> <<>>]
  /\ polls = 0

Value(c, f) == IF f = "status" THEN c.status ELSE c.date

Series(obs, f, m) == {i \in DOMAIN obs : obs[i].field = f /\ obs[i].method = m}

\* Mutant: looks at the observations of this raw version only.
LatestOfRaw(obs, f, m, c) ==
  LET S == {i \in Series(obs, f, m) : obs[i].raw = c}
  IN  IF S = {} THEN 0 ELSE CHOOSE i \in S : \A j \in S : j <= i

\* The latest observation of the field under this mapping, of any raw version
\* and any entity: 0 when there is none.
Latest(obs, f, m, c) ==
  LET S == Series(obs, f, m)
  IN  IF S = {} THEN 0 ELSE CHOOSE i \in S : \A j \in S : j <= i

Observation(f, m, c) == [field |-> f, method |-> m, raw |-> c, entity |-> entity]

\* One field's part of a projection: an absent value that was never observed
\* is skipped, what the latest observation says is not said again.
Observe(obs, f, m, c) ==
  LET latest == Latest(obs, f, m, c) IN
    CASE latest = 0 /\ Value(c, f) = NoValue                    -> obs
      [] latest # 0 /\ obs[latest] = Observation(f, m, c)       -> obs
      [] OTHER                                                  -> Append(obs, Observation(f, m, c))

\* Mutant: the observation there was before this projection.
RestsBefore(obs, f, m, c) == Latest(obs, f, m, c)

\* The observation an event of this projection would rest on.
Rests(obs, f, m, c) == Latest(Observe(obs, f, m, c), f, m, c)

OfField(ev, f) == {k \in DOMAIN ev : ev[k].field = f}

\* k is the last of these indices.
Newest(S, k) == k \in S /\ \A j \in S : j <= k

\* Mutant: an event is told again whenever another observation carries it.
AlreadyHere(ev, f, i, v) == \E k \in DOMAIN ev : ev[k] = [field |-> f, rests |-> i, value |-> v]

\* _already_observed_event, and the unique constraint record_event falls back on.
AlreadyTold(ev, f, i, v) ==
  LET mine == OfField(ev, f) IN
    \/ \E k \in mine : ev[k].rests = i
    \/ f = "date" /\ \E k \in mine : ev[k].value = v
    \/ f = "status" /\ \E k \in mine : Newest(mine, k) /\ ev[k].value = v

Tell(ev, f, i, v) ==
  IF v = NoValue \/ AlreadyTold(ev, f, i, v) THEN ev
  ELSE Append(ev, [field |-> f, rests |-> i, value |-> v])

\* project_record_observations: the status first, then the dates.
Poll(c, m) ==
  /\ polls < MaxPolls
  /\ LET obs1 == Observe(observed, "status", m, c)
         obs2 == Observe(obs1, "date", m, c)
         ev1  == Tell(told, "status", Rests(observed, "status", m, c), c.status)
     IN  /\ observed' = obs2
         /\ told' = Tell(ev1, "date", Rests(obs1, "date", m, c), c.date)
  /\ saidLast' = <<c, m>>
  /\ cameBack' = (cameBack \/ (said[m] # <<>> /\ saidLast[2] # m))
  /\ said' = IF said[m] # <<>> /\ Last(said[m]) = <<c, entity>> THEN said
             ELSE [said EXCEPT ![m] = Append(@, <<c, entity>>)]
  /\ polls' = polls + 1
  /\ UNCHANGED entity

\* merge_graph_entities: the record's link moves to the survivor, the
\* observations keep the entity they were made with.
MergeEntity ==
  /\ entity < MaxMerges
  /\ entity' = entity + 1
  /\ UNCHANGED <<observed, told, saidLast, cameBack, said, polls>>

TimelineNext ==
  \/ \E c \in Contents, m \in Methods : Poll(c, m)
  \/ MergeEntity

TimelineSpec == TimelineInit /\ [][TimelineNext]_timelineVars

(***************************************************************************)
(* Properties                                                              *)
(***************************************************************************)
\* Observations and events have the shapes the code gives them, and an event
\* has the value of the observation it rests on.
TimelineTypeOK ==
  /\ observed \in Seq([field: Field, method: Methods, raw: Contents, entity: 0..MaxMerges])
  /\ \A k \in DOMAIN told :
       /\ told[k].field \in Field
       /\ told[k].rests \in DOMAIN observed
       /\ told[k].value = Value(observed[told[k].rests].raw, told[k].field)
  /\ entity \in 0..MaxMerges
  /\ saidLast # NoValue => saidLast \in Contents \X Methods
  /\ cameBack \in BOOLEAN
  /\ polls \in 0..MaxPolls

\* "An unchanged poll does not grow the timeline [...] a return from A to B to
\* A appends the return even when A's original raw bytes are reused"
\* (docs/temporal-foundation.md): each series holds what was polled with its
\* mapping, in that order, from the first value on and without repeats,
\* whatever other mappings and merges came between.
Since(s, f) == {k \in DOMAIN s : \E j \in 1..k : Value(s[j][1], f) # NoValue}

Rank(S, k) == Cardinality({j \in S : j <= k})

TimelineIsTheHistory ==
  \A f \in Field, m \in Methods :
    LET here  == Series(observed, f, m)
        there == Since(said[m], f)
    IN  /\ Cardinality(here) = Cardinality(there)
        /\ \A i \in here, k \in there : Rank(here, i) = Rank(there, k) =>
             <<observed[i].raw, observed[i].entity>> = said[m][k]

\* "A change elsewhere in a source record does not repeatedly emit the same
\* unchanged lifecycle event": no date is told twice, no status twice running,
\* across mappings and merges; and the present date is told, and the present
\* status is the last one told, unless an earlier mapping came back: what was
\* told of one of its observations is not told of it again.
EventsFollowTheRecord ==
  LET status == OfField(told, "status")
      date   == OfField(told, "date")
  IN  /\ \A j, k \in date : told[j].value = told[k].value => j = k
      /\ \A j, k \in status : j < k /\ told[j].value = told[k].value =>
           \E i \in status : j < i /\ i < k
      /\ saidLast # NoValue =>
           /\ saidLast[1].date # NoValue =>
                \E k \in date : told[k].value = saidLast[1].date
           /\ saidLast[1].status # NoValue /\ ~cameBack =>
                \E k \in status : Newest(status, k) /\ told[k].value = saidLast[1].status
=============================================================================
