---------------------------- MODULE OffsetPaging ----------------------------
(***************************************************************************)
(* Reading a publisher's list by offsets                                   *)
(* (src/app/services/ingestion/connectors), as the page loop of service.py *)
(* and the checkpoints of health.py use it.                                *)
(*                                                                         *)
(* A pass over the list takes as many bounded runs as it needs, each with a*)
(* connector of its own, and the list changes all the while.  Connectors   *)
(* differ in the list they slice, and in how they know that there is more. *)
(* (SnapshotIngest has the connectors that page by a key.)                 *)
(***************************************************************************)
EXTENDS Integers, SequencesExt

CONSTANTS
  Connectors,  \* ways of paging, of those below
  Entries,     \* records the publisher may list
  FirstList,   \* its list at the start
  PageSize, MaxPages,
  NoList,      \* no list
  MaxChanges,  \* bound: changes of the publisher
  MaxTrips     \* bound: runs that fail or are started from the first page

ASSUME PagingAssumption ==
  /\ Connectors \subseteq {"window", "socrata", "listing", "cached", "verified"}
  /\ FirstList \in Seq(Entries) /\ IsInjective(FirstList)
  /\ NoList \notin Seq(Entries)
  /\ PageSize \in Nat \ {0} /\ MaxPages \in Nat \ {0}
  /\ MaxChanges \in Nat /\ MaxTrips \in Nat

VARIABLES
  connector,  \* the source's adapter
  list,       \* the publisher's list
  stored,     \* checkpoint of the last clean run: offset and fingerprint
  at,         \* the checkpoint the active run has reached
  cache,      \* _record_cache of the active run's connector
  left,       \* pages the active run may still read, -1 with no run
  story,      \* history: the pass that the stored checkpoint is part of
  mine,       \* history: the pass that the active run is part of
  late,       \* history: entries withdrawn since the cache in use was read
  changes, trips  \* bounded events so far

pagingVars == <<connector, list, stored, at, cache, left, story, mine, late, changes, trips>>

\* A pass: entries it has read, entries listed since it began, and how many
\* were withdrawn from before its offset.
NoPass == [got |-> {}, there |-> {}, shifted |-> 0]

\* The checkpoint of the first page: none.
First == [offset |-> 0, mark |-> NoList]

PagingInit ==
  /\ connector \in Connectors
  /\ list = FirstList
  /\ stored = First /\ at = First /\ cache = NoList /\ left = -1
  /\ story = NoPass /\ mine = NoPass /\ late = {}
  /\ changes = 0 /\ trips = 0

(***************************************************************************)
(* The publisher                                                           *)
(***************************************************************************)
Insert(e, i) ==
  /\ changes < MaxChanges /\ e \notin ToSet(list)
  /\ list' = InsertAt(list, i, e)
  /\ changes' = changes + 1
  /\ UNCHANGED <<connector, stored, at, cache, left, story, mine, late, trips>>

Without(pass, e, before) ==
  [pass EXCEPT !.there = @ \ {e}, !.shifted = IF before THEN @ + 1 ELSE @]

Withdraw(i) ==
  /\ changes < MaxChanges
  /\ list' = RemoveAt(list, i)
  /\ story' = Without(story, list[i], i <= stored.offset)
  /\ mine' = Without(mine, list[i], cache = NoList /\ i <= at.offset)
  /\ late' = IF cache = NoList THEN late ELSE late \cup {list[i]}
  /\ changes' = changes + 1
  /\ UNCHANGED <<connector, stored, at, cache, left, trips>>

(***************************************************************************)
(* Connectors: the page at an offset of a list, and whether there is more  *)
(***************************************************************************)
Slice(l, offset, n) == SubSeq(l, offset + 1, IF offset + n < Len(l) THEN offset + n ELSE Len(l))

\* ArcGIS, whose server may cut a page short and then says so.
\* Mutant: only a full page is taken to have a successor.
WindowFull(l, offset) ==
  {[page |-> p, more |-> Len(p) = PageSize] : p \in {Slice(l, offset, n) : n \in 1..PageSize}}

Window(l, offset) ==
  {[page |-> p, more |-> offset + Len(p) < Len(l) \/ Len(p) = PageSize] :
     p \in {Slice(l, offset, n) : n \in 1..PageSize}}

\* Socrata: a full page is taken to have a successor.
Socrata(l, offset) ==
  LET p == Slice(l, offset, PageSize) IN {[page |-> p, more |-> Len(p) = PageSize]}

\* The publisher's total (CKAN, OpenDataSoft), or the length of the list that
\* is read anew for each page (JSON arrays, RSS, CivicPlus, HTML indexes, CSV).
Listing(l, offset) ==
  LET p == Slice(l, offset, PageSize) IN {[page |-> p, more |-> offset + Len(p) < Len(l)]}

\* ERCOT, Legistar and planning documents slice the list that the run's
\* connector has read for its first page.
Cached(l, offset) == Listing(IF cache = NoList THEN l ELSE cache, offset)

\* A CSV with verify_snapshot compares the file's fingerprint with the one in
\* the checkpoint, and fails rather than go on in another file.
Matches(l) == at.offset = 0 \/ at.mark = l

Verified(l, offset) == IF Matches(l) THEN Listing(l, offset) ELSE {}

Envelopes ==
  CASE connector = "window"   -> Window(list, at.offset)
    [] connector = "socrata"  -> Socrata(list, at.offset)
    [] connector = "listing"  -> Listing(list, at.offset)
    [] connector = "cached"   -> Cached(list, at.offset)
    [] connector = "verified" -> Verified(list, at.offset)

(***************************************************************************)
(* Runs                                                                    *)
(***************************************************************************)
Running == left >= 0

\* A run resumes, or begins anew; its connector has read nothing yet.
StartRun(checkpoint) ==
  /\ ~Running
  /\ at' = checkpoint /\ left' = MaxPages /\ mine' = story
  /\ UNCHANGED <<connector, list, stored, cache, story, late, changes>>

Resume == StartRun(stored) /\ UNCHANGED trips

StartOver ==
  /\ trips < MaxTrips /\ stored # First
  /\ StartRun(First)
  /\ trips' = trips + 1

\* The pass after one more page; the first page begins one.
PassWith(page) ==
  IF at.offset = 0 THEN [got |-> ToSet(page), there |-> ToSet(list), shifted |-> 0]
  ELSE [mine EXCEPT !.got = @ \cup ToSet(page)]

\* The run's connector is gone with it: of the cache, what was withdrawn before
\* the offset shifts the list that the next run reads.
EndRun(checkpoint, pass, offset) ==
  LET front == IF cache = NoList THEN {} ELSE late \cap ToSet(Slice(cache, 0, offset))
  IN /\ stored' = checkpoint
     /\ story' = [pass EXCEPT !.shifted = @ + Cardinality(front)]
     /\ left' = -1 /\ at' = First /\ cache' = NoList
     /\ mine' = NoPass /\ late' = {}

\* fetch, and the page loop around it: a page that has no successor ends the
\* pass, and the last one the run may read ends the run.
FetchPage ==
  /\ Running
  /\ \E e \in Envelopes :
       LET next == [offset |-> at.offset + Len(e.page),
                    mark |-> IF connector = "verified" THEN list ELSE NoList]
       IN IF ~e.more THEN EndRun(First, PassWith(e.page), 0)
          ELSE IF left = 1 THEN EndRun(next, PassWith(e.page), next.offset)
          ELSE /\ at' = next /\ left' = left - 1 /\ mine' = PassWith(e.page)
               /\ cache' = IF connector = "cached" /\ cache = NoList THEN list ELSE cache
               /\ UNCHANGED <<stored, story, late>>
  /\ UNCHANGED <<connector, list, changes, trips>>

\* A failed run is not resumed from.
FailRun ==
  /\ Running
  /\ IF Envelopes = {} THEN UNCHANGED trips ELSE trips < MaxTrips /\ trips' = trips + 1
  /\ left' = -1 /\ at' = First /\ cache' = NoList /\ mine' = NoPass /\ late' = {}
  /\ UNCHANGED <<connector, list, stored, story, changes>>

PagingNext ==
  \/ \E e \in Entries : \E i \in 1..Len(list) + 1 : Insert(e, i)
  \/ \E i \in DOMAIN list : Withdraw(i)
  \/ Resume \/ StartOver \/ FetchPage \/ FailRun

PagingSpec == PagingInit /\ [][PagingNext]_pagingVars

(***************************************************************************)
(* Properties                                                              *)
(***************************************************************************)
\* Lists, checkpoints and histories have the shapes the code gives them.
PagingTypeOK ==
  /\ connector \in Connectors
  /\ list \in Seq(Entries) /\ IsInjective(list)
  /\ cache = NoList \/ cache \in Seq(Entries)
  /\ \A c \in {stored, at} :
       c.offset \in Nat /\ (c.mark = NoList \/ (connector = "verified" /\ c.mark \in Seq(Entries)))
  /\ left \in -1..MaxPages /\ (~Running => at = First /\ cache = NoList)
  /\ {story, mine} \subseteq
       [got: SUBSET Entries, there: SUBSET Entries, shifted: 0..MaxChanges]
  /\ late \subseteq Entries
  /\ changes \in 0..MaxChanges /\ trips \in 0..MaxTrips

\* What is withdrawn in front of an offset shifts the pages behind it, and what
\* a pass passes over a full snapshot retires.  A pass that is over has passed
\* over no more of the entries listed all through it than were withdrawn from
\* before its offset; inserts cost nothing, a connector that keeps its list lets
\* withdrawals count from the next run on only, and a verified CSV never goes
\* on in another file ("fails explicitly", docs/parcel-reconciliation.md:56).
PassedOverOnlyByWithdrawals ==
  stored = First =>
    Cardinality(story.there \ story.got) <= IF connector = "verified" THEN 0 ELSE story.shifted
=============================================================================
