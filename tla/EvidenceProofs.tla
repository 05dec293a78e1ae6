--------------------------- MODULE EvidenceProofs ---------------------------
(***************************************************************************)
(* Proofs about what is concluded from filings (the links of planning      *)
(* records and permits, the brand matches with what they train and         *)
(* project, the merge of entities) and what people decide of it (the       *)
(* publication of an assessment, the acquisition case of a parcel, the     *)
(* acceptance of a parcel reference), each for every value of its          *)
(* constants.  The components share no variable, so each is proved of its  *)
(* own specification.                                                      *)
(***************************************************************************)
EXTENDS BrandReview, PlanningLinks, EntityMerge, Publication, Acquisition, ParcelReview,
        FiniteSetTheorems, TLAPS

-----------------------------------------------------------------------------
(* Planning links.                                                         *)

\* A transaction writes the pairs of its own record, of its own side.
OwnPairsOnly ==
  \A s \in Side : work[s] # NoWork =>
    \A c \in Couple \ OfRecord(work[s].record) : work[s].add[c] = {} /\ work[s].drop[c] = {}

\* While nothing has overlapped a transaction, what it will write makes of its
\* record's pairs what the committed records call for.
UpToDateAlone ==
  \A s \in alone : work[s] # NoWork =>
    /\ work[Other(s)] = NoWork
    /\ work[s].says.city # NoCity =>
         \A c \in OfRecord(work[s].record) :
           (link[c] \cup work[s].add[c]) \ work[s].drop[c]
             = Keeps(s, work[s].record, work[s].says)[c]

WorkOfSides == work = [s \in Side |-> work[s]]

LinkInv ==
  /\ LinkTypeOK /\ WorkOfSides
  /\ OwnPairsOnly /\ UpToDateAlone /\ LinkedInEitherOrder

\* Whichever record is looked at first, a pair is wanted for the same reason.
LEMMA WantedEitherWay == \A a, b : Wanted(a, b) = Wanted(b, a) /\ Wanted(a, b) \in SUBSET Role
  BY DEF Wanted, SameScope, Canonical, Role

LEMMA Couples == \A c \in Couple : c[1] \in Plans /\ c[2] \in Papers
  BY DEF Couple

LEMMA KeepsTyped ==
  ASSUME NEW s \in Side, NEW x, NEW v
  PROVE  /\ Keeps(s, x, v) \in [Couple -> SUBSET Role]
         /\ \A c \in Couple \ OfRecord(x) : Keeps(s, x, v)[c] = {}
<1>1. \A c \in Couple : Keeps(s, x, v)[c] \in SUBSET Role
  BY WantedEitherWay DEF Keeps
<1>2. QED  BY <1>1 DEF Keeps, OfRecord

LEMMA LinkStarts == LinkInit => LinkInv
<1> SUFFICES ASSUME LinkInit PROVE LinkInv
  OBVIOUS
<1>1. linkJobs \in 0..MaxLinkJobs
  BY LinkAssumption DEF LinkInit
<1>2. LinkTypeOK
  BY <1>1 DEF LinkInit, LinkTypeOK
<1>3. WorkOfSides /\ OwnPairsOnly /\ UpToDateAlone /\ LinkedInEitherOrder
  BY DEF LinkInit, WorkOfSides, OwnPairsOnly, UpToDateAlone, LinkedInEitherOrder
<1>4. QED  BY <1>2, <1>3 DEF LinkInv

\* What a reconciliation is going to write.
DraftAdd(s, x, v) ==
  IF v.city = NoCity THEN None ELSE [c \in Couple |-> Keeps(s, x, v)[c] \ link[c]]

DraftDrop(s, x, v) == IF v.city = NoCity THEN None ELSE Stale(s, x, v)

\* Nothing of other records' pairs, and of its own what makes them what it keeps.
LEMMA Drafted ==
  ASSUME LinkInv, NEW s \in Side, NEW x, NEW v
  PROVE  /\ DraftAdd(s, x, v) \in [Couple -> SUBSET Role]
         /\ DraftDrop(s, x, v) \in [Couple -> SUBSET Role]
         /\ \A c \in Couple \ OfRecord(x) :
              DraftAdd(s, x, v)[c] = {} /\ DraftDrop(s, x, v)[c] = {}
         /\ v.city # NoCity =>
              \A c \in OfRecord(x) :
                (link[c] \cup DraftAdd(s, x, v)[c]) \ DraftDrop(s, x, v)[c] = Keeps(s, x, v)[c]
<1> DEFINE K == Keeps(s, x, v)
           add == DraftAdd(s, x, v)
           drop == DraftDrop(s, x, v)
<1>1. link \in [Couple -> SUBSET Role]
  BY DEF LinkInv, LinkTypeOK
<1>2. K \in [Couple -> SUBSET Role] /\ \A c \in Couple \ OfRecord(x) : K[c] = {}
  BY KeepsTyped
<1>3. /\ add = IF v.city = NoCity THEN None ELSE [c \in Couple |-> K[c] \ link[c]]
      /\ drop = IF v.city = NoCity THEN None
                ELSE [c \in Couple |-> IF x \in {c[1], c[2]} THEN link[c] \ K[c] ELSE {}]
  BY DEF Stale, DraftAdd, DraftDrop
<1> HIDE DEF K, add, drop
<1>4. /\ add \in [Couple -> SUBSET Role] /\ drop \in [Couple -> SUBSET Role]
      /\ \A c \in Couple \ OfRecord(x) : add[c] = {} /\ drop[c] = {}
      /\ v.city # NoCity => \A c \in OfRecord(x) : (link[c] \cup add[c]) \ drop[c] = K[c]
  <2>1. CASE v.city = NoCity
    BY <1>3, <2>1 DEF None
  <2>2. CASE v.city # NoCity
    <3>1. \A c \in Couple : add[c] = K[c] \ link[c]
      BY <1>3, <2>2
    <3>2. \A c \in Couple : drop[c] = IF c \in OfRecord(x) THEN link[c] \ K[c] ELSE {}
      BY <1>3, <2>2 DEF OfRecord
    <3>3. add \in [Couple -> SUBSET Role] /\ drop \in [Couple -> SUBSET Role]
      BY <1>1, <1>2, <1>3, <2>2
    <3>4. \A c \in Couple \ OfRecord(x) : add[c] = {} /\ drop[c] = {}
      BY <1>2, <3>1, <3>2
    <3>5. \A c \in OfRecord(x) : (link[c] \cup add[c]) \ drop[c] = K[c]
      BY <3>1, <3>2 DEF OfRecord
    <3>6. QED  BY <3>3, <3>4, <3>5
  <2>3. QED  BY <2>1, <2>2
<1>5. QED  BY <1>4 DEF K, add, drop

LEMMA Sides ==
  /\ \A s \in Side : Other(s) \in Side /\ Other(s) # s /\ Other(Other(s)) = s
  /\ \A s, t \in Side : t # s => t = Other(s)
  BY DEF Side, Other

\* A record is observed.
LEMMA ReconcileStep ==
  ASSUME LinkInv, NEW s \in Side, NEW x \in Plans \cup Papers, NEW v \in Sayings,
         Reconcile(s, x, v)
  PROVE  LinkInv'
<1> DEFINE w == [record |-> x, says |-> v,
                 add |-> DraftAdd(s, x, v), drop |-> DraftDrop(s, x, v)]
<1>1. /\ work' = [work EXCEPT ![s] = w] /\ work[s] = NoWork
      /\ alone' = IF work[Other(s)] = NoWork THEN alone \cup {s} ELSE alone \ Side
      /\ linkJobs' = linkJobs + 1 /\ linkJobs < MaxLinkJobs
      /\ x \in Records(s)
      /\ UNCHANGED <<says, standing, link, settled, skipped>>
  BY DEF Reconcile, DraftAdd, DraftDrop
<1>2. /\ w \in [record: Records(s), says: Sayings,
                add: [Couple -> SUBSET Role], drop: [Couple -> SUBSET Role]]
      /\ w.record = x /\ w.says = v
      /\ w.add = DraftAdd(s, x, v) /\ w.drop = DraftDrop(s, x, v)
  BY <1>1, Drafted
<1> HIDE DEF w
<1>3. work = [t \in Side |-> work[t]] /\ alone \subseteq Side /\ linkJobs \in 0..MaxLinkJobs
  BY DEF LinkInv, LinkTypeOK, WorkOfSides
<1>4. /\ work' = [t \in Side |-> work'[t]]
      /\ work'[s] = w /\ \A t \in Side : t # s => work'[t] = work[t]
  BY <1>1, <1>3
<1>5. linkJobs' \in 0..MaxLinkJobs
  BY <1>1, <1>3, LinkAssumption
<1>6. LinkTypeOK'
  <2>1. \A t \in Side : work'[t] # NoWork =>
          work'[t] \in [record: Records(t), says: Sayings,
                        add: [Couple -> SUBSET Role], drop: [Couple -> SUBSET Role]]
    BY <1>2, <1>4 DEF LinkInv, LinkTypeOK
  <2>2. alone' \subseteq Side
    BY <1>1, <1>3
  <2>3. QED  BY <1>1, <1>5, <2>1, <2>2 DEF LinkInv, LinkTypeOK, Records
<1>7. OwnPairsOnly'
  BY <1>1, <1>2, <1>4, Drafted DEF LinkInv, OwnPairsOnly, OfRecord
<1>8. UpToDateAlone'
  <2> SUFFICES ASSUME NEW t \in alone', work'[t] # NoWork
               PROVE  /\ work'[Other(t)] = NoWork
                      /\ work'[t].says.city # NoCity =>
                           \A c \in OfRecord(work'[t].record) :
                             (link[c] \cup work'[t].add[c]) \ work'[t].drop[c]
                               = Keeps(t, work'[t].record, work'[t].says)[c]
    BY <1>1 DEF UpToDateAlone, Keeps, Candidates, OfRecord
  <2>1. work[Other(s)] = NoWork /\ t \in alone \cup {s} /\ t \in Side
    BY <1>1, <1>3
  <2>2. t = s
    BY <1>4, <2>1, Sides
  <2>3. work'[Other(s)] = NoWork
    BY <1>4, <2>1, Sides
  <2>4. v.city # NoCity =>
          \A c \in OfRecord(x) :
            (link[c] \cup DraftAdd(s, x, v)[c]) \ DraftDrop(s, x, v)[c] = Keeps(s, x, v)[c]
    BY Drafted
  <2>5. QED  BY <1>2, <1>4, <2>2, <2>3, <2>4
<1>9. LinkedInEitherOrder'
  BY <1>1 DEF LinkInv, LinkedInEitherOrder, Wanted, SameScope, Canonical
<1>10. QED  BY <1>4, <1>6, <1>7, <1>8, <1>9 DEF LinkInv, WorkOfSides

\* The pairs of the records other than the one written stay as they were.
LEMMA FinishElsewhere ==
  ASSUME LinkInv, NEW s \in Side, Finish(s), NEW c \in Couple \ OfRecord(work[s].record)
  PROVE  /\ link'[c] = link[c]
         /\ says'[c[1]] = says[c[1]] /\ says'[c[2]] = says[c[2]]
         /\ c[2] \in standing' <=> c[2] \in standing
<1>1. link'[c] = (link[c] \cup work[s].add[c]) \ work[s].drop[c]
  BY DEF Finish
<1>2. work[s].add[c] = {} /\ work[s].drop[c] = {}
  BY DEF Finish, LinkInv, OwnPairsOnly
<1>3. c[1] # work[s].record /\ c[2] # work[s].record
  BY DEF OfRecord
<1>4. c[1] \in Plans \cup Papers /\ c[2] \in Plans \cup Papers
  BY Couples
<1>5. says'[c[1]] = says[c[1]] /\ says'[c[2]] = says[c[2]]
  <2>1. says' = [says EXCEPT ![work[s].record] = work[s].says]
    BY DEF Finish
  <2>2. says \in [Plans \cup Papers -> Sayings \cup {Unsaid}]
    BY DEF LinkInv, LinkTypeOK
  <2>3. QED  BY <1>3, <1>4, <2>1, <2>2
<1>6. standing' = standing \cup ({work[s].record} \cap Papers)
  BY DEF Finish
<1>7. QED  BY <1>1, <1>2, <1>3, <1>5, <1>6

\* The pairs of the record written become, when nothing overlapped, what the
\* committed records call for.
LEMMA FinishAlone ==
  ASSUME LinkInv, NEW s \in Side, Finish(s), s \in alone, work[s].says.city # NoCity,
         NEW c \in OfRecord(work[s].record)
  PROVE  link'[c] = IF c[2] \in standing' THEN Wanted(says'[c[1]], says'[c[2]]) ELSE {}
<1> DEFINE x == work[s].record
           v == work[s].says
<1>1. c \in Couple /\ (x = c[1] \/ x = c[2]) /\ c[1] \in Plans /\ c[2] \in Papers
  BY Couples DEF OfRecord
<1>2. work[s] # NoWork /\ x \in Records(s) /\ v \in Sayings
  BY DEF Finish, LinkInv, LinkTypeOK
<1>3. link'[c] = Keeps(s, x, v)[c]
  <2>1. link'[c] = (link[c] \cup work[s].add[c]) \ work[s].drop[c]
    BY <1>1 DEF Finish
  <2>2. QED  BY <1>2, <2>1 DEF LinkInv, UpToDateAlone
<1>4. /\ says' = [says EXCEPT ![x] = v]
      /\ standing' = standing \cup ({x} \cap Papers)
  BY DEF Finish
<1>5. says \in [Plans \cup Papers -> Sayings \cup {Unsaid}]
  BY DEF LinkInv, LinkTypeOK
<1> HIDE DEF x, v
<1>6. CASE s = "plan"
  <2>1. x = c[1] /\ x \notin Papers /\ c[2] # x
    BY <1>1, <1>2, <1>6, LinkAssumption DEF Records
  <2>2. standing' = standing /\ says'[c[1]] = v /\ says'[c[2]] = says[c[2]]
    BY <1>1, <1>4, <1>5, <2>1
  <2>3. Keeps(s, x, v)[c] = IF c[2] \in standing THEN Wanted(v, says[c[2]]) ELSE {}
    BY <1>1, <1>6 DEF Keeps, Candidates
  <2>4. QED  BY <1>3, <2>2, <2>3
<1>7. CASE s = "permit"
  <2>1. x = c[2] /\ c[1] # x
    BY <1>1, <1>2, <1>7, LinkAssumption DEF Records
  <2>2. c[2] \in standing' /\ says'[c[2]] = v /\ says'[c[1]] = says[c[1]]
    BY <1>1, <1>4, <1>5, <2>1
  <2>3. Keeps(s, x, v)[c] = Wanted(v, says[c[1]])
    BY <1>1, <1>7 DEF Keeps, Candidates
  <2>4. QED  BY <1>3, <2>2, <2>3, WantedEitherWay
<1>8. QED  BY <1>6, <1>7 DEF Side

\* A transaction writes and commits.
LEMMA FinishStep ==
  ASSUME LinkInv, NEW s \in Side, Finish(s)
  PROVE  LinkInv'
<1> DEFINE x == work[s].record
           v == work[s].says
<1>1. /\ work[s] # NoWork /\ work' = [work EXCEPT ![s] = NoWork]
      /\ says' = [says EXCEPT ![x] = v]
      /\ standing' = standing \cup ({x} \cap Papers)
      /\ link' = [c \in Couple |-> (link[c] \cup work[s].add[c]) \ work[s].drop[c]]
      /\ settled' = IF s \in alone THEN settled \cup OfRecord(x) ELSE settled \ OfRecord(x)
      /\ skipped' = IF v.city = NoCity THEN skipped \cup OfRecord(x) ELSE skipped \ OfRecord(x)
      /\ alone' = alone \ {s} /\ UNCHANGED linkJobs
  BY DEF Finish
<1>2. /\ x \in Records(s) /\ v \in Sayings
      /\ work[s].add \in [Couple -> SUBSET Role]
  BY <1>1 DEF LinkInv, LinkTypeOK
<1>3. work = [t \in Side |-> work[t]] /\ alone \subseteq Side
  BY DEF LinkInv, LinkTypeOK, WorkOfSides
<1>4. /\ work' = [t \in Side |-> work'[t]]
      /\ work'[s] = NoWork /\ \A t \in Side : t # s => work'[t] = work[t]
  BY <1>1, <1>3
<1>5. OfRecord(x) \subseteq Couple
  BY DEF OfRecord
<1> HIDE DEF x, v
<1>6. LinkTypeOK'
  <2>1. link' \in [Couple -> SUBSET Role]
    BY <1>1, <1>2 DEF LinkInv, LinkTypeOK
  <2>2. says' \in [Plans \cup Papers -> Sayings \cup {Unsaid}]
    BY <1>1, <1>2 DEF LinkInv, LinkTypeOK
  <2>3. \A t \in Side : work'[t] # NoWork =>
          work'[t] \in [record: Records(t), says: Sayings,
                        add: [Couple -> SUBSET Role], drop: [Couple -> SUBSET Role]]
    BY <1>4 DEF LinkInv, LinkTypeOK
  <2>4. /\ standing' \subseteq Papers /\ alone' \subseteq Side
        /\ settled' \subseteq Couple /\ skipped' \subseteq Couple
    BY <1>1, <1>3, <1>5 DEF LinkInv, LinkTypeOK
  <2>5. linkJobs' \in 0..MaxLinkJobs
    BY <1>1 DEF LinkInv, LinkTypeOK
  <2>6. QED  BY <2>1, <2>2, <2>3, <2>4, <2>5 DEF LinkTypeOK, Records
<1>7. OwnPairsOnly'
  BY <1>4 DEF LinkInv, OwnPairsOnly, OfRecord
<1>8. UpToDateAlone'
  <2>1. ASSUME NEW t \in alone', work'[t] # NoWork
        PROVE  FALSE
    <3>1. t \in Side /\ t # s /\ t \in alone /\ work[t] # NoWork
      BY <1>1, <1>3, <1>4, <2>1
    <3>2. work[Other(t)] = NoWork /\ Other(t) = s
      BY <3>1, Sides DEF LinkInv, UpToDateAlone
    <3>3. QED  BY <1>1, <3>2
  <2>2. QED  BY <2>1 DEF UpToDateAlone
<1>9. LinkedInEitherOrder'
  <2>1. ASSUME NEW c \in settled' \ skipped'
        PROVE  link'[c] = IF c[2] \in standing' THEN Wanted(says'[c[1]], says'[c[2]]) ELSE {}
    <3>1. c \in Couple
      BY <1>1, <1>5 DEF LinkInv, LinkTypeOK
    <3>2. CASE c \in OfRecord(x)
      <4>1. s \in alone /\ v.city # NoCity
        BY <1>1, <3>2
      <4>2. QED  BY <3>2, <4>1, FinishAlone DEF x, v
    <3>3. CASE c \notin OfRecord(x)
      <4>1. c \in settled \ skipped
        BY <1>1, <3>3
      <4>2. link[c] = IF c[2] \in standing THEN Wanted(says[c[1]], says[c[2]]) ELSE {}
        BY <4>1 DEF LinkInv, LinkedInEitherOrder
      <4>3. /\ link'[c] = link[c]
            /\ says'[c[1]] = says[c[1]] /\ says'[c[2]] = says[c[2]]
            /\ c[2] \in standing' <=> c[2] \in standing
        BY <3>1, <3>3, FinishElsewhere DEF x
      <4>4. QED  BY <4>2, <4>3
    <3>4. QED  BY <3>2, <3>3
  <2>2. QED  BY <2>1 DEF LinkedInEitherOrder, Wanted, SameScope, Canonical
<1>10. QED  BY <1>4, <1>6, <1>7, <1>8, <1>9 DEF LinkInv, WorkOfSides

\* A permit retires: its links wait for the next look at the planning record.
LEMMA RetireLinksStep ==
  ASSUME LinkInv, NEW x \in Papers, Retire(x)
  PROVE  LinkInv'
<1>1. /\ work["permit"] = NoWork /\ linkJobs < MaxLinkJobs /\ linkJobs' = linkJobs + 1
      /\ standing' = standing \ {x} /\ settled' = settled \ OfRecord(x)
      /\ alone' = alone \ {"plan"}
      /\ UNCHANGED <<says, link, work, skipped>>
  BY DEF Retire
<1>2. linkJobs' \in 0..MaxLinkJobs
  BY <1>1, LinkAssumption DEF LinkInv, LinkTypeOK
<1>3. LinkTypeOK'
  BY <1>1, <1>2 DEF LinkInv, LinkTypeOK, Records
<1>4. OwnPairsOnly' /\ WorkOfSides'
  BY <1>1 DEF LinkInv, OwnPairsOnly, OfRecord, WorkOfSides
<1>5. UpToDateAlone'
  <2>1. \A t \in alone' : work'[t] = NoWork
    BY <1>1 DEF LinkInv, LinkTypeOK, Side
  <2>2. QED  BY <2>1 DEF UpToDateAlone
<1>6. LinkedInEitherOrder'
  <2>1. \A c \in settled' \ skipped' : c \in settled \ skipped /\ c[2] # x
    BY <1>1 DEF LinkInv, LinkTypeOK, OfRecord
  <2>2. \A c \in settled' \ skipped' :
          link'[c] = IF c[2] \in standing' THEN Wanted(says'[c[1]], says'[c[2]]) ELSE {}
    BY <1>1, <2>1 DEF LinkInv, LinkedInEitherOrder
  <2>3. QED  BY <2>2 DEF LinkedInEitherOrder, Wanted, SameScope, Canonical
<1>7. QED  BY <1>3, <1>4, <1>5, <1>6 DEF LinkInv

LEMMA LinkSteps == LinkInv /\ [LinkNext]_linkVars => LinkInv'
<1> SUFFICES ASSUME LinkInv, [LinkNext]_linkVars PROVE LinkInv'
  OBVIOUS
<1>1. CASE \E s \in Side, x \in Plans \cup Papers, v \in Sayings : Reconcile(s, x, v)
  BY <1>1, ReconcileStep
<1>2. CASE \E s \in Side : Finish(s)
  BY <1>2, FinishStep
<1>3. CASE \E x \in Papers : Retire(x)
  BY <1>3, RetireLinksStep
<1>4. CASE UNCHANGED linkVars
  <2>1. UNCHANGED <<says, standing, link, work, settled, skipped, alone, linkJobs>>
    BY <1>4 DEF linkVars
  <2>2. LinkTypeOK' /\ WorkOfSides' /\ OwnPairsOnly'
    BY <2>1 DEF LinkInv, LinkTypeOK, Records, WorkOfSides, OwnPairsOnly, OfRecord
  <2>3. UpToDateAlone'
    BY <2>1 DEF LinkInv, UpToDateAlone, OfRecord, Keeps, Candidates, Wanted, SameScope, Canonical
  <2>4. LinkedInEitherOrder'
    BY <2>1 DEF LinkInv, LinkedInEitherOrder, Wanted, SameScope, Canonical
  <2>5. QED  BY <2>2, <2>3, <2>4 DEF LinkInv
<1>5. QED  BY <1>1, <1>2, <1>3, <1>4 DEF LinkNext

LEMMA LinksHold == LinkSpec => []LinkInv
<1>1. QED  BY LinkStarts, LinkSteps, PTL DEF LinkSpec

\* Records, roles and transactions keep their shapes.
THEOREM LinksTyped == LinkSpec => []LinkTypeOK
<1>1. LinkInv => LinkTypeOK
  BY DEF LinkInv
<1>2. QED  BY <1>1, LinksHold, PTL

\* A pair whose last transaction overlapped none of the other side, and did not
\* return early for want of a city or state, has exactly the link its records
\* call for, whichever side came first.  A pair whose last transaction returned
\* early is left out: nothing closes the link it had.
THEOREM OrderOfArrivalIsNothing == LinkSpec => []LinkedInEitherOrder
<1>1. LinkInv => LinkedInEitherOrder
  BY DEF LinkInv
<1>2. QED  BY <1>1, LinksHold, PTL

-----------------------------------------------------------------------------
(* Brand matches, fingerprints and edges.                                  *)

Match == [status: Status, how: {"no", "direct", "party"}]
Job == [kind: {"changed", "back", "backfill", "retire"}, permit: Permits, filing: Filings,
        seen: [Brands -> Status], found: [Brands -> {"no", "direct", "party"}]]
Loaded == [at: Nat, permit: Permits, brand: Brands, verdict: Verdict, writes: BOOLEAN,
           team: Teams \cup {NoTeam}]
Review == [at: Nat, permit: Permits, brand: Brands, verdict: Verdict, writes: BOOLEAN,
           count: [Teams -> SUBSET Permits], held: [Teams -> SUBSET Permits],
           known: SUBSET Teams, flips: SUBSET Addrs]

\* A direct match was named, a confirmed one was upheld.
MatchesRest ==
  \A m \in Pair : /\ match[m].how = "direct" => m[2] \in named[m[1]]
                  /\ match[m].status = "confirmed" => m \in upheld

\* A match is of a permit that was ingested, and one that a transaction has
\* loaded is not gone when it commits.
MatchesStay ==
  /\ \A m \in Pair : match[m].status # "none" => filing[m[1]] \in Filings
  /\ job # NoJob =>
       \A b \in Brands : job.seen[b] # "none" => match[<<job.permit, b>>].status # "none"
  /\ \A d \in desk \cup drawn : match[<<d.permit, d.brand>>].status # "none"

\* What a transaction of the source has found is in its filing; a backfill
\* keeps the filing the permit has.
JobSound ==
  job # NoJob =>
    /\ \A b \in Brands : job.found[b] = "direct" => b \in job.filing.names
    /\ job.kind = "backfill" => live[job.permit] /\ filing[job.permit] = job.filing

\* What a review has counted was named and upheld, or is what it upholds.
CountsRest ==
  \A d \in drawn, t \in Teams : \A p \in d.count[t] :
    /\ d.brand \in named[p]
    /\ <<p, d.brand>> \in upheld \/ (p = d.permit /\ d.verdict = "confirmed")

BrandInv ==
  /\ BrandTypeOK /\ MatchesRest /\ MatchesStay /\ JobSound /\ CountsRest
  /\ FingerprintsRestOnNames /\ EdgesFollowTheFiling

LEMMA BrandStarts == BrandInit => BrandInv
<1> SUFFICES ASSUME BrandInit PROVE BrandInv
  OBVIOUS
<1>1. jobs \in 0..MaxJobs /\ reviews \in 0..MaxReviews
  BY BrandAssumption DEF BrandInit
<1>2. match \in [Pair -> Match] /\ \A m \in Pair : match[m] = [status |-> "none", how |-> "no"]
  BY DEF BrandInit, Match, Status, Verdict
<1>3. BrandTypeOK
  BY <1>1, <1>2 DEF BrandInit, BrandTypeOK, Match
<1>4. MatchesRest /\ MatchesStay /\ JobSound /\ CountsRest
  BY <1>2 DEF BrandInit, MatchesRest, MatchesStay, JobSound, CountsRest
<1>5. FingerprintsRestOnNames /\ EdgesFollowTheFiling
  BY <1>2 DEF BrandInit, FingerprintsRestOnNames, EdgesFollowTheFiling
<1>6. QED  BY <1>3, <1>4, <1>5 DEF BrandInv

\* The transaction of the source loads.
LEMMA IngestLoadStep ==
  ASSUME BrandInv, NEW p \in Permits, NEW k \in {"changed", "back", "backfill", "retire"},
         NEW f \in Filings, IngestLoad(p, k, f)
  PROVE  BrandInv' /\ (job # NoJob => job' # NoJob)
<1> DEFINE see == [b \in Brands |-> match[<<p, b>>].status]
           find == IF k = "retire" THEN [b \in Brands |-> "no"] ELSE Detect(f)
           j == [kind |-> k, permit |-> p, filing |-> f, seen |-> see, found |-> find]
<1>1. /\ job = NoJob /\ jobs < MaxJobs /\ job' = j /\ jobs' = jobs + 1
      /\ UNCHANGED <<filing, live, match, prints, rows, edge, desk, drawn, named, upheld, slipped,
                     reviews>>
  BY DEF IngestLoad
<1>2. k = "backfill" => live[p] /\ filing[p] = f
  BY DEF IngestLoad
<1>3. see \in [Brands -> Status] /\ \A b \in Brands : see[b] = match[<<p, b>>].status
  BY DEF BrandInv, BrandTypeOK, Pair
<1>4. find \in [Brands -> {"no", "direct", "party"}]
      /\ \A b \in Brands : find[b] = "direct" => b \in f.names
  BY DEF Detect
<1> HIDE DEF see, find
<1>5. j \in Job
  BY <1>3, <1>4 DEF Job
<1>6. j.kind = k /\ j.permit = p /\ j.filing = f /\ j.found = find /\ j.seen = see
  OBVIOUS
<1> HIDE DEF j
<1>7. jobs' \in 0..MaxJobs
  BY <1>1, BrandAssumption DEF BrandInv, BrandTypeOK
<1>8. BrandTypeOK'
  BY <1>1, <1>5, <1>7 DEF BrandInv, BrandTypeOK, Job
<1>9. JobSound'
  BY <1>1, <1>2, <1>4, <1>6 DEF JobSound
<1>10. MatchesRest' /\ CountsRest' /\ FingerprintsRestOnNames' /\ EdgesFollowTheFiling'
  BY <1>1 DEF BrandInv, MatchesRest, CountsRest, FingerprintsRestOnNames, EdgesFollowTheFiling
<1>11. MatchesStay'
  BY <1>1, <1>3, <1>6 DEF BrandInv, MatchesStay
<1>12. QED  BY <1>1, <1>8, <1>9, <1>10, <1>11 DEF BrandInv

\* What the transaction makes of the matches.
LEMMA RematchedAre ==
  ASSUME BrandInv, job # NoJob
  PROVE  /\ Rematched(job) \in [Pair -> Match]
         /\ \A m \in Pair :
              /\ m[1] # job.permit => Rematched(job)[m] = match[m]
              /\ Rematched(job)[m].how = "direct" =>
                   match[m].how = "direct" \/ (m[1] = job.permit /\ job.found[m[2]] = "direct")
              /\ Rematched(job)[m].status = "confirmed" => match[m].status = "confirmed"
              /\ Rematched(job)[m].status = "retracted" =>
                   match[m].status = "retracted" \/ (m[1] = job.permit /\ m[2] \in Retracts(job))
              /\ match[m].status \in {"confirmed", "dismissed"}
                 /\ Rematched(job)[m].status # match[m].status
                   => job.seen[m[2]] # match[m].status
              /\ m[2] \notin Found(job) \cup Retracts(job) => Rematched(job)[m] = match[m]
              /\ Rematched(job)[m].status = "none" <=> Rematched(job)[m].how = "no"
              /\ match[m].status # "none" => Rematched(job)[m].status # "none"
<1> DEFINE R == Rematched(job)
<1>1. match \in [Pair -> Match] /\ job \in Job
  BY DEF BrandInv, BrandTypeOK, Match, Job
<1>2. ASSUME NEW m \in Pair
      PROVE  /\ R[m] \in Match
             /\ \/ R[m] = match[m]
                \/ /\ m[1] = job.permit /\ m[2] \in Retracts(job) /\ job.seen[m[2]] = "candidate"
                   /\ R[m].status = "retracted" /\ R[m].how = match[m].how
                \/ /\ m[1] = job.permit /\ m[2] \in Found(job) /\ R[m].how = job.found[m[2]]
                   /\ R[m].status = match[m].status /\ job.seen[m[2]] # "none"
                \/ /\ m[1] = job.permit /\ m[2] \in Found(job) /\ R[m].how = job.found[m[2]]
                   /\ R[m].status = "candidate" /\ job.seen[m[2]] \in {"none", "retracted"}
  <2>1. match[m] \in Match /\ m[2] \in Brands
    BY <1>1 DEF Pair
  <2>2. job.found[m[2]] \in {"no", "direct", "party"}
    BY <1>1, <2>1 DEF Job
  <2>3. CASE m[1] # job.permit
    BY <2>1, <2>3 DEF Rematched
  <2>4. CASE m[1] = job.permit /\ m[2] \in Retracts(job)
    <3>1. R[m] = [match[m] EXCEPT !.status = "retracted"]
      BY <2>4 DEF Rematched
    <3>2. R[m] \in Match /\ R[m].status = "retracted" /\ R[m].how = match[m].how
      BY <2>1, <3>1 DEF Match, Status
    <3>3. QED  BY <2>4, <3>2 DEF Retracts
  <2>5. CASE m[1] = job.permit /\ m[2] \notin Retracts(job) /\ m[2] \in Found(job)
    <3> DEFINE st == IF job.seen[m[2]] \in {"none", "retracted"} THEN "candidate"
                     ELSE match[m].status
    <3>1. R[m] = [status |-> st, how |-> job.found[m[2]]]
      BY <2>5 DEF Rematched
    <3>2. st \in Status
      BY <2>1 DEF Match, Status, Verdict
    <3>3. R[m] \in Match /\ R[m].status = st /\ R[m].how = job.found[m[2]]
      BY <2>2, <3>1, <3>2 DEF Match
    <3>4. QED  BY <2>5, <3>3
  <2>6. CASE m[1] = job.permit /\ m[2] \notin Retracts(job) /\ m[2] \notin Found(job)
    BY <2>1, <2>6 DEF Rematched
  <2>7. QED  BY <2>3, <2>4, <2>5, <2>6
<1>3. R \in [Pair -> Match]
  BY <1>2 DEF Rematched
<1>4. \A m \in Pair : /\ m[1] # job.permit => R[m] = match[m]
                      /\ m[2] \notin Found(job) \cup Retracts(job) => R[m] = match[m]
  BY <1>2
<1> HIDE DEF R
<1>5. \A m \in Pair :
        /\ R[m].how = "direct" =>
             match[m].how = "direct" \/ (m[1] = job.permit /\ job.found[m[2]] = "direct")
        /\ R[m].status = "confirmed" => match[m].status = "confirmed"
        /\ R[m].status = "retracted" =>
             match[m].status = "retracted" \/ (m[1] = job.permit /\ m[2] \in Retracts(job))
        /\ match[m].status \in {"confirmed", "dismissed"} /\ R[m].status # match[m].status
             => job.seen[m[2]] # match[m].status
  BY <1>2
<1>6. ASSUME NEW m \in Pair
      PROVE  /\ R[m].status = "none" <=> R[m].how = "no"
             /\ match[m].status # "none" => R[m].status # "none"
  <2>1. /\ match[m].status = "none" <=> match[m].how = "no"
        /\ m[2] \in Brands /\ m = <<m[1], m[2]>>
    BY DEF BrandInv, BrandTypeOK, Pair
  <2>2. m[1] = job.permit /\ job.seen[m[2]] # "none" => match[m].status # "none"
    BY <2>1 DEF BrandInv, MatchesStay
  <2>3. m[2] \in Found(job) => job.found[m[2]] # "no"
    BY DEF Found
  <2>4. QED  BY <1>2, <2>1, <2>2, <2>3
<1>7. QED  BY <1>3, <1>4, <1>5, <1>6 DEF R

\* A fingerprint that is rebuilt counts direct, confirmed matches.
LEMMA Trained ==
  ASSUME NEW M \in [Pair -> Match], NEW f, NEW b \in Brands, NEW A \in SUBSET Permits
  PROVE  /\ Rebuilt(M, f, b, A) \in [Teams -> SUBSET Permits]
         /\ \A t \in Teams : \A p \in Rebuilt(M, f, b, A)[t] :
              p \in A /\ M[<<p, b>>].status = "confirmed" /\ M[<<p, b>>].how = "direct"
  BY DEF Rebuilt, Trains

\* The transaction writes and commits: what it leaves of the rows.
LEMMA CommittedAre ==
  ASSUME BrandInv, IngestCommit
  PROVE  /\ job # NoJob /\ job \in Job /\ job' = NoJob
         /\ match' = Rematched(job) /\ edge' = Reprojected(job)
         /\ filing' = [filing EXCEPT ![job.permit] = job.filing]
         /\ live' = [live EXCEPT ![job.permit] = (job.kind # "retire")]
         /\ named' = [named EXCEPT ![job.permit] = @ \cup job.filing.names]
         /\ rows' = rows \cup {k \in Brands \X Teams : prints'[k[1]][k[2]] # {}}
         /\ prints' \in [Brands -> [Teams -> SUBSET Permits]]
         /\ \A b \in Brands, t \in Teams : \A p \in prints'[b][t] :
              \/ p \in prints[b][t]
              \/ match'[<<p, b>>].status = "confirmed" /\ match'[<<p, b>>].how = "direct"
         /\ slipped' = IF Expires(job) THEN {m \in slipped : m[1] # job.permit} ELSE slipped
         /\ UNCHANGED <<desk, drawn, upheld, jobs, reviews>>
<1> DEFINE R == Rematched(job)
<1>1. /\ job # NoJob /\ job' = NoJob /\ match' = R /\ edge' = Reprojected(job)
      /\ filing' = [filing EXCEPT ![job.permit] = job.filing]
      /\ live' = [live EXCEPT ![job.permit] = (job.kind # "retire")]
      /\ named' = [named EXCEPT ![job.permit] = @ \cup job.filing.names]
      /\ rows' = rows \cup {k \in Brands \X Teams : prints'[k[1]][k[2]] # {}}
      /\ slipped' = IF Expires(job) THEN {m \in slipped : m[1] # job.permit} ELSE slipped
      /\ UNCHANGED <<desk, drawn, upheld, jobs, reviews>>
  BY DEF IngestCommit
<1>2. job \in Job /\ prints \in [Brands -> [Teams -> SUBSET Permits]]
  BY <1>1 DEF BrandInv, BrandTypeOK, Job
<1>3. R \in [Pair -> Match]
  BY <1>1, RematchedAre
<1>4. PICK first : prints' = [b \in Brands |->
        IF b \notin Rebuilds(job) THEN prints[b]
        ELSE Rebuilt(R, filing, b, IF b = first THEN FlushedActive(job)
                           ELSE {p \in Permits : live'[p]})]
  BY DEF IngestCommit
<1> HIDE DEF R
<1>5. FlushedActive(job) \in SUBSET Permits
  BY <1>2 DEF FlushedActive, Active, Job
<1>6. ASSUME NEW b \in Brands
      PROVE  /\ prints'[b] \in [Teams -> SUBSET Permits]
             /\ \A t \in Teams : \A p \in prints'[b][t] :
                  p \in prints[b][t] \/ (R[<<p, b>>].status = "confirmed"
                                         /\ R[<<p, b>>].how = "direct")
  <2>1. CASE b \notin Rebuilds(job)
    BY <1>2, <1>4, <2>1
  <2>2. CASE b \in Rebuilds(job)
    <3>1. PICK A \in SUBSET Permits : prints'[b] = Rebuilt(R, filing, b, A)
      BY <1>4, <1>5, <2>2
    <3>2. QED  BY <1>3, <3>1, Trained
  <2>3. QED  BY <2>1, <2>2
<1>7. prints' \in [Brands -> [Teams -> SUBSET Permits]]
  BY <1>4, <1>6
<1>8. QED  BY <1>1, <1>2, <1>6, <1>7 DEF R

\* No current edge of the source is left at another property, and none of a
\* match that is retracted.
LEMMA EdgesAfterCommit ==
  ASSUME BrandInv, IngestCommit
  PROVE  EdgesFollowTheFiling' /\ edge' \in [Pair -> [Addrs -> {"absent", "past", "source", "review"}]]
<1> DEFINE R == Rematched(job)
<1>1. /\ job # NoJob /\ job \in Job /\ match' = R /\ edge' = Reprojected(job)
      /\ filing' = [filing EXCEPT ![job.permit] = job.filing]
      /\ live' = [live EXCEPT ![job.permit] = (job.kind # "retire")]
      /\ slipped' = IF Expires(job) THEN {m \in slipped : m[1] # job.permit} ELSE slipped
  BY CommittedAre
<1>2. edge \in [Pair -> [Addrs -> {"absent", "past", "source", "review"}]]
  BY DEF BrandInv, BrandTypeOK
<1>3. filing \in [Permits -> Filings \cup {NoFiling}] /\ live \in [Permits -> BOOLEAN]
  BY DEF BrandInv, BrandTypeOK
<1>4. ASSUME NEW m \in Pair
      PROVE  /\ m[1] # job.permit => R[m] = match[m]
             /\ R[m].status = "retracted" =>
                  match[m].status = "retracted" \/ (m[1] = job.permit /\ m[2] \in Retracts(job))
             /\ m[2] \notin Found(job) \cup Retracts(job) => R[m] = match[m]
  BY <1>1, RematchedAre
<1>5. "retracted" \notin Standing
  BY DEF Standing
<1> HIDE DEF R
<1>6. ASSUME NEW m \in Pair, NEW a \in Addrs
      PROVE  /\ edge'[m][a] = IF m[1] # job.permit \/ ~Expires(job) THEN edge[m][a]
                             ELSE IF Projects(job) /\ a = job.filing.addr /\ R[m].status \in Standing
                               THEN "source"
                             ELSE IF edge[m][a] = "absent" THEN "absent" ELSE "past"
  BY <1>1 DEF Reprojected, R
<1>7. edge' \in [Pair -> [Addrs -> {"absent", "past", "source", "review"}]]
  BY <1>1, <1>2 DEF Reprojected
<1>8. ASSUME NEW m \in Pair, NEW a \in Addrs
      PROVE  /\ edge'[m][a] = "source" => live'[m[1]] /\ filing'[m[1]].addr = a
             /\ match'[m].status = "retracted" /\ m \notin slipped' =>
                  edge'[m][a] \in {"absent", "past"}
  <2>1. /\ edge[m][a] = "source" => live[m[1]] /\ filing[m[1]].addr = a
        /\ match[m].status = "retracted" /\ m \notin slipped => edge[m][a] \in {"absent", "past"}
    BY DEF BrandInv, EdgesFollowTheFiling
  <2>2. m[1] \in Permits
    BY DEF Pair
  <2>3. CASE m[1] # job.permit
    BY <1>1, <1>3, <1>4, <1>6, <2>1, <2>2, <2>3
  <2>4. CASE m[1] = job.permit /\ Expires(job)
    <3>1. Projects(job) => job.kind # "retire"
      BY DEF Projects
    <3>2. live'[m[1]] = (job.kind # "retire") /\ filing'[m[1]] = job.filing
      BY <1>1, <1>3, <2>2, <2>4
    <3>3. edge'[m][a] = IF Projects(job) /\ a = job.filing.addr /\ R[m].status \in Standing
                        THEN "source" ELSE IF edge[m][a] = "absent" THEN "absent" ELSE "past"
      BY <1>6, <2>4
    <3>4. QED  BY <1>1, <1>5, <3>1, <3>2, <3>3
  <2>5. CASE m[1] = job.permit /\ ~Expires(job)
    <3>1. job.kind = "backfill" /\ Found(job) \cup Retracts(job) = {}
      BY <1>1, <2>5 DEF Expires, Projects, Job
    <3>2. R[m] = match[m] /\ edge'[m][a] = edge[m][a]
      BY <1>4, <1>6, <2>5, <3>1
    <3>3. live'[m[1]] = live[m[1]] /\ filing'[m[1]] = filing[m[1]]
      BY <1>1, <1>3, <2>2, <2>5, <3>1 DEF BrandInv, JobSound
    <3>4. match'[m] = match[m] /\ slipped' = slipped
      BY <1>1, <2>5, <3>2
    <3>5. QED  BY <2>1, <3>2, <3>3, <3>4
  <2>6. QED  BY <2>3, <2>4, <2>5
<1>9. QED  BY <1>7, <1>8 DEF EdgesFollowTheFiling

LEMMA IngestCommitStep ==
  ASSUME BrandInv, IngestCommit
  PROVE  BrandInv'
<1>1. /\ job # NoJob /\ job \in Job /\ job' = NoJob
      /\ match' = Rematched(job)
      /\ filing' = [filing EXCEPT ![job.permit] = job.filing]
      /\ live' = [live EXCEPT ![job.permit] = (job.kind # "retire")]
      /\ named' = [named EXCEPT ![job.permit] = @ \cup job.filing.names]
      /\ rows' = rows \cup {k \in Brands \X Teams : prints'[k[1]][k[2]] # {}}
      /\ prints' \in [Brands -> [Teams -> SUBSET Permits]]
      /\ slipped' \subseteq slipped
      /\ UNCHANGED <<desk, drawn, upheld, jobs, reviews>>
  BY CommittedAre
<1>2. /\ match' \in [Pair -> Match]
      /\ \A m \in Pair : /\ match'[m].status = "none" <=> match'[m].how = "no"
                         /\ match[m].status # "none" => match'[m].status # "none"
  BY <1>1, RematchedAre
<1>3. job.permit \in Permits /\ job.filing \in Filings /\ job.filing.names \in SUBSET Brands
  BY <1>1, BrandAssumption DEF Job
<1>4. named \in [Permits -> SUBSET Brands] /\ filing \in [Permits -> Filings \cup {NoFiling}]
      /\ live \in [Permits -> BOOLEAN]
  BY DEF BrandInv, BrandTypeOK
<1>5. /\ named' \in [Permits -> SUBSET Brands] /\ \A p \in Permits : named[p] \subseteq named'[p]
      /\ job.filing.names \subseteq named'[job.permit]
  BY <1>1, <1>3, <1>4
<1>6. BrandTypeOK'
  <2>1. filing' \in [Permits -> Filings \cup {NoFiling}] /\ live' \in [Permits -> BOOLEAN]
        /\ \A p \in Permits : live'[p] => filing'[p] # NoFiling
    BY <1>1, <1>3, <1>4, BrandAssumption DEF BrandInv, BrandTypeOK
  <2>2. rows' \subseteq Brands \X Teams
    BY <1>1 DEF BrandInv, BrandTypeOK
  <2>3. edge' \in [Pair -> [Addrs -> {"absent", "past", "source", "review"}]]
    BY EdgesAfterCommit
  <2>4. /\ desk' \subseteq Loaded /\ drawn' \subseteq Review
        /\ upheld' \subseteq Pair /\ slipped' \subseteq Pair
        /\ jobs' \in 0..MaxJobs /\ reviews' \in 0..MaxReviews
    BY <1>1 DEF BrandInv, BrandTypeOK, Loaded, Review
  <2>5. QED  BY <1>1, <1>2, <1>5, <2>1, <2>2, <2>3, <2>4 DEF BrandTypeOK, Match, Loaded, Review
<1>7. MatchesRest'
  <2> SUFFICES ASSUME NEW m \in Pair
               PROVE  /\ match'[m].how = "direct" => m[2] \in named'[m[1]]
                      /\ match'[m].status = "confirmed" => m \in upheld
    BY <1>1 DEF MatchesRest
  <2>1. m[1] \in Permits /\ m[2] \in Brands
    BY DEF Pair
  <2>2. /\ match'[m].how = "direct" =>
             match[m].how = "direct" \/ (m[1] = job.permit /\ job.found[m[2]] = "direct")
        /\ match'[m].status = "confirmed" => match[m].status = "confirmed"
    BY <1>1, RematchedAre
  <2>3. job.found[m[2]] = "direct" => m[2] \in job.filing.names
    BY <1>1, <2>1 DEF BrandInv, JobSound
  <2>4. /\ match[m].how = "direct" => m[2] \in named[m[1]]
        /\ match[m].status = "confirmed" => m \in upheld
    BY DEF BrandInv, MatchesRest
  <2>5. QED  BY <1>5, <2>1, <2>2, <2>3, <2>4
<1>8. JobSound'
  BY <1>1 DEF JobSound
<1>9. CountsRest'
  <2>1. drawn \subseteq Review
    BY DEF BrandInv, BrandTypeOK, Review
  <2>2. \A d \in drawn, t \in Teams : \A p \in d.count[t] : p \in Permits
    BY <2>1 DEF Review
  <2>3. QED  BY <1>1, <1>5, <2>2 DEF BrandInv, CountsRest
<1>10. FingerprintsRestOnNames'
  <2> SUFFICES ASSUME NEW b \in Brands, NEW t \in Teams, NEW p \in prints'[b][t]
               PROVE  b \in named'[p] /\ <<p, b>> \in upheld
    BY <1>1 DEF FingerprintsRestOnNames
  <2>1. p \in Permits
    BY <1>1
  <2>2. \/ p \in prints[b][t]
        \/ match'[<<p, b>>].status = "confirmed" /\ match'[<<p, b>>].how = "direct"
    BY CommittedAre
  <2>3. CASE p \in prints[b][t]
    BY <1>5, <2>1, <2>3 DEF BrandInv, FingerprintsRestOnNames
  <2>4. CASE match'[<<p, b>>].status = "confirmed" /\ match'[<<p, b>>].how = "direct"
    <3>1. <<p, b>> \in Pair /\ <<p, b>>[1] = p /\ <<p, b>>[2] = b
      BY <2>1 DEF Pair
    <3>2. QED  BY <1>1, <1>7, <2>4, <3>1 DEF MatchesRest
  <2>5. QED  BY <2>2, <2>3, <2>4
<1>11. EdgesFollowTheFiling'
  BY EdgesAfterCommit
<1>12. MatchesStay'
  <2>1. \A d \in desk \cup drawn : <<d.permit, d.brand>> \in Pair
    BY DEF BrandInv, BrandTypeOK, Pair
  <2>2. ASSUME NEW m \in Pair, match'[m].status # "none"
        PROVE  filing'[m[1]] \in Filings
    <3>1. m[1] \in Permits
      BY DEF Pair
    <3>2. CASE m[1] = job.permit
      BY <1>1, <1>3, <1>4, <3>2
    <3>3. CASE m[1] # job.permit
      <4>1. match'[m] = match[m]
        BY <1>1, <3>3, RematchedAre
      <4>2. filing'[m[1]] = filing[m[1]]
        BY <1>1, <1>4, <3>1, <3>3
      <4>3. QED  BY <2>2, <4>1, <4>2 DEF BrandInv, MatchesStay
    <3>4. QED  BY <3>2, <3>3
  <2>3. QED  BY <1>1, <1>2, <2>1, <2>2 DEF BrandInv, MatchesStay
<1>13. QED  BY <1>6, <1>7, <1>8, <1>9, <1>10, <1>11, <1>12 DEF BrandInv

\* A review loads its match.
LEMMA ReviewLoadStep ==
  ASSUME BrandInv, NEW p \in Permits, NEW b \in Brands, NEW v \in Verdict,
         NEW at \in 1..MaxDesks, ReviewLoad(p, b, v, at)
  PROVE  BrandInv' /\ job' = job
<1> DEFINE d == [at |-> at, permit |-> p, brand |-> b, verdict |-> v,
                 writes |-> v # match[<<p, b>>].status, team |-> filing[p].team]
<1>1. /\ reviews < MaxReviews /\ reviews' = reviews + 1
      /\ desk' = desk \cup {d} /\ match[<<p, b>>].status # "none"
      /\ UNCHANGED <<filing, live, match, prints, rows, edge, job, drawn, named, upheld, slipped,
                     jobs>>
  BY DEF ReviewLoad
<1>2. filing[p].team \in Teams \cup {NoTeam}
  <2>1. <<p, b>> \in Pair /\ <<p, b>>[1] = p
    BY DEF Pair
  <2>2. filing[p] \in Filings
    BY <1>1, <2>1 DEF BrandInv, MatchesStay
  <2>3. QED  BY <2>2, BrandAssumption
<1>3. d \in Loaded /\ d.permit = p /\ d.brand = b
  BY <1>2 DEF Loaded
<1> HIDE DEF d
<1>4. reviews' \in 0..MaxReviews
  BY <1>1, BrandAssumption DEF BrandInv, BrandTypeOK
<1>5. BrandTypeOK'
  BY <1>1, <1>3, <1>4 DEF BrandInv, BrandTypeOK, Loaded
<1>6. MatchesStay'
  BY <1>1, <1>3 DEF BrandInv, MatchesStay
<1>7. MatchesRest' /\ JobSound' /\ CountsRest' /\ FingerprintsRestOnNames' /\ EdgesFollowTheFiling'
  BY <1>1 DEF BrandInv, MatchesRest, JobSound, CountsRest, FingerprintsRestOnNames,
              EdgesFollowTheFiling
<1>8. QED  BY <1>1, <1>5, <1>6, <1>7 DEF BrandInv

\* What a review's query finds of the matches, and what they are once it commits.
LEMMA FlushedAre ==
  ASSUME BrandInv, NEW d, d.permit \in Permits, d.brand \in Brands, d.verdict \in Verdict
  PROVE  /\ <<d.permit, d.brand>> \in Pair
         /\ Flushed(d) \in [Pair -> Match]
         /\ \A m \in Pair : Flushed(d)[m].how = match[m].how
         /\ \A m \in Pair : m # <<d.permit, d.brand>> \/ ~d.writes => Flushed(d)[m] = match[m]
         /\ d.writes => Flushed(d)[<<d.permit, d.brand>>].status = d.verdict
<1> DEFINE pair == <<d.permit, d.brand>>
           row == [match[pair] EXCEPT !.status = d.verdict]
<1>1. match \in [Pair -> Match] /\ pair \in Pair /\ d.verdict \in Status
  BY DEF BrandInv, BrandTypeOK, Match, Pair, Status
<1>2. row \in Match /\ row.status = d.verdict /\ row.how = match[pair].how
  BY <1>1 DEF Match
<1>3. Flushed(d) = IF d.writes THEN [match EXCEPT ![pair] = row] ELSE match
  BY DEF Flushed
<1> HIDE DEF row, pair
<1>4. /\ pair \in Pair
      /\ Flushed(d) \in [Pair -> Match]
      /\ \A m \in Pair : Flushed(d)[m].how = match[m].how
      /\ \A m \in Pair : m # pair \/ ~d.writes => Flushed(d)[m] = match[m]
      /\ d.writes => Flushed(d)[pair].status = d.verdict
  BY <1>1, <1>2, <1>3
<1>5. QED  BY <1>4 DEF pair

\* A review flushes its verdict, counts, and reads the edges.
LEMMA ReviewReadStep ==
  ASSUME BrandInv, NEW d \in desk, ReviewRead(d)
  PROVE  BrandInv' /\ job' = job
<1> DEFINE M == Flushed(d)
           F == [filing EXCEPT ![d.permit].team = d.team]
           cnt == Rebuilt(M, F, d.brand, Active)
           kn == {t \in Teams : <<d.brand, t>> \in rows}
           fl == {a \in Addrs : IF d.verdict \in Standing THEN edge[<<d.permit, d.brand>>][a] = "past"
                                ELSE edge[<<d.permit, d.brand>>][a] \in {"source", "review"}}
           e == [at |-> d.at, permit |-> d.permit, brand |-> d.brand, verdict |-> d.verdict,
                 writes |-> d.writes, count |-> cnt, known |-> kn, held |-> prints[d.brand],
                 flips |-> fl]
<1>1. /\ desk' = desk \ {d} /\ drawn' = drawn \cup {e}
      /\ UNCHANGED <<filing, live, match, prints, rows, edge, job, named, upheld, slipped,
                     jobs, reviews>>
  BY DEF ReviewRead
<1>2. d \in Loaded /\ desk \subseteq Loaded /\ drawn \subseteq Review
  BY DEF BrandInv, BrandTypeOK, Loaded, Review
<1>3. d.permit \in Permits /\ d.brand \in Brands /\ d.verdict \in Verdict
  BY <1>2 DEF Loaded
<1>4. /\ <<d.permit, d.brand>> \in Pair /\ M \in [Pair -> Match]
      /\ \A m \in Pair : M[m].how = match[m].how
      /\ \A m \in Pair : m # <<d.permit, d.brand>> \/ ~d.writes => M[m] = match[m]
      /\ d.writes => M[<<d.permit, d.brand>>].status = d.verdict
  BY <1>3, FlushedAre
<1> HIDE DEF M, F
<1>5. /\ cnt \in [Teams -> SUBSET Permits]
      /\ \A t \in Teams : \A q \in cnt[t] :
           q \in Permits /\ M[<<q, d.brand>>].status = "confirmed" /\ M[<<q, d.brand>>].how = "direct"
  <2>1. Active \in SUBSET Permits
    BY DEF Active
  <2>2. M \in [Pair -> Match] /\ d.brand \in Brands
    BY <1>3, <1>4
  <2> HIDE DEF Active
  <2>3. QED  BY <2>1, <2>2 DEF Rebuilt, Trains
<1>6. kn \in SUBSET Teams /\ fl \in SUBSET Addrs /\ prints[d.brand] \in [Teams -> SUBSET Permits]
  BY <1>3 DEF BrandInv, BrandTypeOK
<1> HIDE DEF cnt, kn, fl
<1>7. e \in Review
  BY <1>2, <1>5, <1>6 DEF Loaded, Review
<1>8. e.permit = d.permit /\ e.brand = d.brand /\ e.verdict = d.verdict /\ e.count = cnt
  OBVIOUS
<1> HIDE DEF e
<1>9. BrandTypeOK'
  <2>1. desk' \subseteq Loaded /\ drawn' \subseteq Review
    BY <1>1, <1>2, <1>7
  <2>2. QED  BY <1>1, <2>1 DEF BrandInv, BrandTypeOK, Loaded, Review
<1>10. CountsRest'
  <2>1. ASSUME NEW t \in Teams, NEW q \in cnt[t]
        PROVE  /\ d.brand \in named[q]
               /\ <<q, d.brand>> \in upheld \/ (q = d.permit /\ d.verdict = "confirmed")
    <3> DEFINE m == <<q, d.brand>>
    <3>1. q \in Permits /\ M[m].status = "confirmed" /\ M[m].how = "direct"
      BY <1>5
    <3>2. m \in Pair /\ m[1] = q /\ m[2] = d.brand
      BY <1>3, <3>1 DEF Pair
    <3>3. d.brand \in named[q]
      BY <1>4, <3>1, <3>2 DEF BrandInv, MatchesRest
    <3>4. CASE m # <<d.permit, d.brand>> \/ ~d.writes
      BY <1>4, <3>1, <3>2, <3>3, <3>4 DEF BrandInv, MatchesRest
    <3>5. CASE m = <<d.permit, d.brand>> /\ d.writes
      BY <1>4, <3>1, <3>3, <3>5
    <3>6. QED  BY <1>2, <3>4, <3>5 DEF Loaded
  <2>2. QED  BY <1>1, <1>8, <2>1 DEF BrandInv, CountsRest
<1>11. MatchesStay'
  BY <1>1, <1>8 DEF BrandInv, MatchesStay
<1>12. MatchesRest' /\ JobSound' /\ FingerprintsRestOnNames' /\ EdgesFollowTheFiling'
  BY <1>1 DEF BrandInv, MatchesRest, JobSound, FingerprintsRestOnNames, EdgesFollowTheFiling
<1>13. QED  BY <1>1, <1>9, <1>10, <1>11, <1>12 DEF BrandInv

\* A review commits: what it leaves of the rows.
LEMMA ReviewedAre ==
  ASSUME BrandInv, NEW d \in drawn, ReviewCommit(d),
         ~ \E t \in Inserted(d) : <<d.brand, t>> \in rows
  PROVE  /\ match' = Flushed(d)
         /\ edge' \in [Pair -> [Addrs -> {"absent", "past", "source", "review"}]]
         /\ \A m \in Pair, a \in Addrs :
              /\ edge'[m][a] = "source" => edge[m][a] = "source"
              /\ m # <<d.permit, d.brand>> \/ d.verdict \notin Standing =>
                   edge'[m][a] \in {edge[m][a], "past"}
         /\ prints' \in [Brands -> [Teams -> SUBSET Permits]]
         /\ \A b \in Brands, t \in Teams : \A p \in prints'[b][t] :
              p \in prints[b][t] \/ (b = d.brand /\ p \in d.count[t])
<1> DEFINE pair == <<d.permit, d.brand>>
<1>1. d \in Review
  BY DEF BrandInv, BrandTypeOK, Review
<1>2. /\ d.permit \in Permits /\ d.brand \in Brands
      /\ d.count \in [Teams -> SUBSET Permits] /\ pair \in Pair
  BY <1>1 DEF Review, Pair
<1>3. /\ edge \in [Pair -> [Addrs -> {"absent", "past", "source", "review"}]]
      /\ prints \in [Brands -> [Teams -> SUBSET Permits]]
  BY DEF BrandInv, BrandTypeOK
<1>4. /\ match' = Flushed(d)
      /\ edge' = [edge EXCEPT ![pair] = [a \in Addrs |-> Judged(d, a)]]
      /\ prints' = [prints EXCEPT ![d.brand] = [t \in Teams |-> Recounted(d, t, @[t])]]
  BY DEF ReviewCommit
<1>5. \A a \in Addrs : /\ Judged(d, a) \in {"absent", "past", "source", "review"}
                       /\ Judged(d, a) = "source" => edge[pair][a] = "source"
                       /\ d.verdict \notin Standing => Judged(d, a) \in {edge[pair][a], "past"}
  BY <1>2, <1>3 DEF Judged
<1>6. /\ edge' \in [Pair -> [Addrs -> {"absent", "past", "source", "review"}]]
      /\ \A m \in Pair, a \in Addrs :
           /\ edge'[m][a] = "source" => edge[m][a] = "source"
           /\ m # pair \/ d.verdict \notin Standing => edge'[m][a] \in {edge[m][a], "past"}
  <2> DEFINE row == [a \in Addrs |-> Judged(d, a)]
  <2>1. /\ row \in [Addrs -> {"absent", "past", "source", "review"}]
        /\ \A a \in Addrs : /\ row[a] = "source" => edge[pair][a] = "source"
                            /\ d.verdict \notin Standing => row[a] \in {edge[pair][a], "past"}
    BY <1>5
  <2>2. edge' = [edge EXCEPT ![pair] = row]
    BY <1>4
  <2> HIDE DEF row, pair
  <2>3. QED  BY <1>2, <1>3, <2>1, <2>2
<1>7. \A t \in Teams : Recounted(d, t, prints[d.brand][t]) \in {prints[d.brand][t], d.count[t]}
  BY DEF Recounted
<1>8. /\ prints' \in [Brands -> [Teams -> SUBSET Permits]]
      /\ \A b \in Brands, t \in Teams : \A p \in prints'[b][t] :
           p \in prints[b][t] \/ (b = d.brand /\ p \in d.count[t])
  <2> DEFINE row == [t \in Teams |-> Recounted(d, t, prints[d.brand][t])]
  <2>1. row \in [Teams -> SUBSET Permits]
    BY <1>2, <1>3, <1>7
  <2>2. \A t \in Teams : row[t] \in {prints[d.brand][t], d.count[t]}
    BY <1>7
  <2>3. prints' = [prints EXCEPT ![d.brand] = row]
    BY <1>4
  <2> HIDE DEF row
  <2>4. QED  BY <1>2, <1>3, <2>1, <2>2, <2>3
<1>9. QED  BY <1>4, <1>6, <1>8

LEMMA ReviewCommitStep ==
  ASSUME BrandInv, NEW d \in drawn, ReviewCommit(d)
  PROVE  BrandInv' /\ job' = job
<1> DEFINE pair == <<d.permit, d.brand>>
<1>1. drawn' = drawn \ {d} /\ UNCHANGED <<filing, live, job, desk, named, jobs, reviews>>
  BY DEF ReviewCommit
<1>2. JobSound'
  BY <1>1 DEF BrandInv, JobSound
<1>3. d \in Review /\ drawn \subseteq Review
  BY DEF BrandInv, BrandTypeOK, Review
<1>4. CASE \E t \in Inserted(d) : <<d.brand, t>> \in rows
  <2>1. UNCHANGED <<match, prints, rows, edge, upheld, slipped>>
    BY <1>4 DEF ReviewCommit
  <2>2. BrandTypeOK'
    BY <1>1, <2>1 DEF BrandInv, BrandTypeOK
  <2>3. /\ MatchesRest' /\ MatchesStay' /\ CountsRest'
        /\ FingerprintsRestOnNames' /\ EdgesFollowTheFiling'
    BY <1>1, <2>1
       DEF BrandInv, MatchesRest, MatchesStay, CountsRest, FingerprintsRestOnNames,
           EdgesFollowTheFiling
  <2>4. QED  BY <1>1, <1>2, <2>2, <2>3 DEF BrandInv
<1>5. CASE ~ \E t \in Inserted(d) : <<d.brand, t>> \in rows
  <2>1. /\ rows' = rows \cup {<<d.brand, t>> : t \in Inserted(d)}
        /\ upheld' = IF d.verdict = "confirmed" THEN upheld \cup {pair} ELSE upheld
        /\ slipped' = IF Slips(d) THEN slipped \cup {pair} ELSE slipped
    BY <1>5 DEF ReviewCommit
  <2>2. /\ edge' \in [Pair -> [Addrs -> {"absent", "past", "source", "review"}]]
        /\ \A m \in Pair, a \in Addrs :
             /\ edge'[m][a] = "source" => edge[m][a] = "source"
             /\ m # pair \/ d.verdict \notin Standing => edge'[m][a] \in {edge[m][a], "past"}
        /\ match' = Flushed(d)
    BY <1>5, ReviewedAre
  <2>3. /\ prints' \in [Brands -> [Teams -> SUBSET Permits]]
        /\ \A b \in Brands, t \in Teams : \A p \in prints'[b][t] :
             p \in prints[b][t] \/ (b = d.brand /\ p \in d.count[t])
    BY <1>5, ReviewedAre
  <2>4. d.permit \in Permits /\ d.brand \in Brands /\ d.verdict \in Verdict /\ d.writes \in BOOLEAN
    BY <1>3 DEF Review
  <2>5. /\ pair \in Pair /\ match' \in [Pair -> Match]
        /\ \A m \in Pair : match'[m].how = match[m].how
        /\ \A m \in Pair : m # pair \/ ~d.writes => match'[m] = match[m]
        /\ d.writes => match'[pair].status = d.verdict
    BY <2>2, <2>4, FlushedAre
  <2>6. /\ d.verdict # "none" /\ d.verdict # "retracted"
        /\ match[pair].status # "none"
    BY <2>4 DEF Verdict, BrandInv, MatchesStay
  <2> HIDE DEF pair
  <2>7. \A m \in Pair : match[m].status = "none" <=> match'[m].status = "none"
    BY <2>4, <2>5, <2>6
  <2>8. BrandTypeOK'
    <3>1. rows' \subseteq Brands \X Teams
      BY <2>1, <2>4 DEF BrandInv, BrandTypeOK, Inserted
    <3>2. upheld' \subseteq Pair /\ slipped' \subseteq Pair
      BY <2>1, <2>5 DEF BrandInv, BrandTypeOK
    <3>3. drawn' \subseteq Review
      BY <1>1, <1>3
    <3>4. \A m \in Pair : match'[m].status = "none" <=> match'[m].how = "no"
      BY <2>5, <2>7 DEF BrandInv, BrandTypeOK
    <3>5. QED
      BY <1>1, <2>2, <2>3, <2>5, <3>1, <3>2, <3>3, <3>4
         DEF BrandInv, BrandTypeOK, Match, Review
  <2>9. MatchesRest'
    <3> SUFFICES ASSUME NEW m \in Pair
                 PROVE  /\ match'[m].how = "direct" => m[2] \in named[m[1]]
                        /\ match'[m].status = "confirmed" => m \in upheld'
      BY <1>1 DEF MatchesRest
    <3>1. /\ match[m].how = "direct" => m[2] \in named[m[1]]
          /\ match[m].status = "confirmed" => m \in upheld
      BY DEF BrandInv, MatchesRest
    <3>2. QED  BY <2>1, <2>4, <2>5, <3>1
  <2>10. MatchesStay'
    <3>1. \A c \in desk \cup drawn : <<c.permit, c.brand>> \in Pair
      BY DEF BrandInv, BrandTypeOK, Pair
    <3>2. \A b \in Brands : job # NoJob => <<job.permit, b>> \in Pair
      BY DEF BrandInv, BrandTypeOK, Pair
    <3>3. QED
      BY <1>1, <2>7, <3>1, <3>2 DEF BrandInv, MatchesStay
  <2>11. CountsRest'
    BY <1>1, <2>1 DEF BrandInv, CountsRest
  <2>12. FingerprintsRestOnNames'
    <3> SUFFICES ASSUME NEW b \in Brands, NEW t \in Teams, NEW p \in prints'[b][t]
                 PROVE  b \in named[p] /\ <<p, b>> \in upheld'
      BY <1>1 DEF FingerprintsRestOnNames
    <3>1. CASE p \in prints[b][t]
      BY <2>1, <3>1 DEF BrandInv, FingerprintsRestOnNames
    <3>2. CASE b = d.brand /\ p \in d.count[t]
      BY <2>1, <3>2 DEF BrandInv, CountsRest, pair
    <3>3. QED  BY <2>3, <3>1, <3>2
  <2>13. EdgesFollowTheFiling'
    <3> SUFFICES ASSUME NEW m \in Pair, NEW a \in Addrs
                 PROVE  /\ edge'[m][a] = "source" => live[m[1]] /\ filing[m[1]].addr = a
                        /\ match'[m].status = "retracted" /\ m \notin slipped' =>
                             edge'[m][a] \in {"absent", "past"}
      BY <1>1 DEF EdgesFollowTheFiling
    <3>1. /\ edge[m][a] = "source" => live[m[1]] /\ filing[m[1]].addr = a
          /\ match[m].status = "retracted" /\ m \notin slipped => edge[m][a] \in {"absent", "past"}
      BY DEF BrandInv, EdgesFollowTheFiling
    <3>2. ASSUME match'[m].status = "retracted", m \notin slipped'
          PROVE  edge'[m][a] \in {"absent", "past"}
      <4>1. match[m].status = "retracted" /\ m \notin slipped
        BY <2>1, <2>4, <2>5, <2>6, <3>2
      <4>2. m = pair => ~d.writes
        BY <2>5, <2>6, <3>2
      <4>3. m # pair \/ d.verdict \notin Standing
        BY <2>1, <3>2, <4>1, <4>2 DEF Slips, pair
      <4>4. QED  BY <2>2, <3>1, <4>1, <4>3
    <3>3. QED  BY <2>2, <3>1, <3>2
  <2>14. QED  BY <1>1, <1>2, <2>8, <2>9, <2>10, <2>11, <2>12, <2>13 DEF BrandInv
<1>6. QED  BY <1>4, <1>5

\* A verdict falls to a transaction of the source only when it was not there
\* for that transaction to see.
VerdictFellUnseen ==
  job # NoJob /\ job' = NoJob =>
    \A b \in Brands :
      /\ match[<<job.permit, b>>].status \in {"confirmed", "dismissed"}
      /\ match'[<<job.permit, b>>].status # match[<<job.permit, b>>].status
      => job.seen[b] # match[<<job.permit, b>>].status

LEMMA CommitFellsUnseen ==
  ASSUME BrandInv, IngestCommit
  PROVE  VerdictFellUnseen
<1> SUFFICES ASSUME NEW b \in Brands,
                    match[<<job.permit, b>>].status \in {"confirmed", "dismissed"},
                    match'[<<job.permit, b>>].status # match[<<job.permit, b>>].status
             PROVE  job.seen[b] # match[<<job.permit, b>>].status
  BY DEF VerdictFellUnseen
<1>1. job # NoJob /\ job \in Job /\ match' = Rematched(job)
  BY CommittedAre
<1>2. <<job.permit, b>> \in Pair /\ <<job.permit, b>>[2] = b
  BY <1>1 DEF Job, Pair
<1>3. QED  BY <1>1, <1>2, RematchedAre

LEMMA BrandSteps == BrandInv /\ [BrandNext]_brandVars => BrandInv' /\ VerdictFellUnseen
<1> SUFFICES ASSUME BrandInv, [BrandNext]_brandVars PROVE BrandInv' /\ VerdictFellUnseen
  OBVIOUS
<1>1. CASE \E p \in Permits, k \in {"changed", "back", "backfill", "retire"}, f \in Filings :
             IngestLoad(p, k, f)
  BY <1>1, IngestLoadStep DEF VerdictFellUnseen
<1>2. CASE IngestCommit
  BY <1>2, IngestCommitStep, CommitFellsUnseen
<1>3. CASE \E p \in Permits, b \in Brands, v \in Verdict, at \in 1..MaxDesks :
             ReviewLoad(p, b, v, at)
  <2>1. BrandInv' /\ job' = job
    BY <1>3, ReviewLoadStep
  <2>2. QED  BY <2>1 DEF VerdictFellUnseen
<1>4. CASE (\E d \in desk : ReviewRead(d)) \/ (\E d \in drawn : ReviewCommit(d))
  <2>1. BrandInv' /\ job' = job
    BY <1>4, ReviewReadStep, ReviewCommitStep
  <2>2. QED  BY <2>1 DEF VerdictFellUnseen
<1>5. CASE UNCHANGED brandVars
  <2>1. UNCHANGED <<filing, live, match, prints, rows, edge, job, desk, drawn, named, upheld,
                    slipped, jobs, reviews>>
    BY <1>5 DEF brandVars
  <2>2. BrandTypeOK' /\ MatchesRest' /\ MatchesStay' /\ JobSound' /\ CountsRest'
    BY <2>1 DEF BrandInv, BrandTypeOK, MatchesRest, MatchesStay, JobSound, CountsRest
  <2>3. FingerprintsRestOnNames' /\ EdgesFollowTheFiling'
    BY <2>1 DEF BrandInv, FingerprintsRestOnNames, EdgesFollowTheFiling
  <2>4. QED  BY <2>1, <2>2, <2>3 DEF BrandInv, VerdictFellUnseen
<1>6. QED  BY <1>1, <1>2, <1>3, <1>4, <1>5 DEF BrandNext

LEMMA BrandsHold == BrandSpec => []BrandInv
<1>1. QED  BY BrandStarts, BrandSteps, PTL DEF BrandSpec

\* Rows, drafts and histories keep their shapes.
THEOREM BrandsTyped == BrandSpec => []BrandTypeOK
<1>1. BrandInv => BrandTypeOK
  BY DEF BrandInv
<1>2. QED  BY <1>1, BrandsHold, PTL

\* Inference does not feed itself: a fingerprint counts a permit only if one of
\* its filings named the brand and a reviewer confirmed it.
THEOREM InferenceNeverFeedsItself == BrandSpec => []FingerprintsRestOnNames
<1>1. BrandInv => FingerprintsRestOnNames
  BY DEF BrandInv
<1>2. QED  BY <1>1, BrandsHold, PTL

\* The source's current edges are at the property of an active permit's present
\* filing, and a retracted match has no current edge, but where a review stated
\* again the verdict it had loaded before the retraction.
THEOREM NoEdgeLeftBehind == BrandSpec => []EdgesFollowTheFiling
<1>1. BrandInv => EdgesFollowTheFiling
  BY DEF BrandInv
<1>2. QED  BY <1>1, BrandsHold, PTL

\* The source takes a verdict back only if it had loaded the match before.
THEOREM VerdictsStand == BrandSpec => VerdictFallsOnlyBlindly
<1>1. BrandInv /\ [BrandNext]_brandVars => [VerdictFellUnseen]_brandVars
  BY BrandSteps
<1>2. BrandSpec => [][VerdictFellUnseen]_brandVars
  BY <1>1, BrandsHold, PTL DEF BrandSpec
<1>3. QED  BY <1>2 DEF VerdictFallsOnlyBlindly, VerdictFellUnseen

-----------------------------------------------------------------------------
(* The entity of a permit's party, and merges.                             *)

Tie == {"absent", "past", "current"}
Draft == [mention: Mentions, entity: Ents, had: BOOLEAN, adds: SUBSET PartyNames,
          mine: SUBSET Ents, broken: BOOLEAN, late: BOOLEAN]
Join == [keep: Ents, drop: Ents, adds: SUBSET PartyNames, since: SUBSET Folders,
         kept: [Folders -> Tie], dropped: [Folders -> Tie]]

\* The entity a transaction has resolved stays, unless it is broken; one that
\* is being made is its alone.
EntitiesStay ==
  \A p \in Folders : naming[p] # NoNaming =>
    /\ ent[naming[p].entity] # "none"
    /\ ent[naming[p].entity] = "gone" => naming[p].broken
    /\ \A q \in Folders :
         q # p /\ naming[q] # NoNaming /\ naming[q].entity = naming[p].entity =>
           ent[naming[p].entity] # "making"

\* What a transaction will commit names its party, and expires every other
\* relationship that is current, unless a merge overtook the permit meanwhile.
DraftsKnow ==
  \A p \in Folders : naming[p] # NoNaming =>
    /\ naming[p].late => p \in overtaken
    /\ ~naming[p].broken =>
         /\ naming[p].mention.name \in aka[naming[p].entity] \cup naming[p].adds
         /\ \A x \in naming[p].mine : tie[p][x] # "absent"
         /\ ~naming[p].late =>
              \A x \in Ents : tie[p][x] = "current" => x \in naming[p].mine

\* A merge knows the relationships of the permits that have not committed since.
JoinKnows ==
  /\ \A i, j \in joining : i = j
  /\ \A j \in joining :
       /\ j.keep # j.drop /\ ent[j.keep] = "live" /\ ent[j.drop] = "live"
       /\ \A p \in Folders :
            /\ j.kept[p] # "absent" => tie[p][j.keep] # "absent"
            /\ j.dropped[p] # "absent" => tie[p][j.drop] # "absent"
            /\ p \notin j.since =>
                 /\ j.kept[p] = tie[p][j.keep] /\ j.dropped[p] = tie[p][j.drop]
                 /\ (mention[p] # NoMention /\ p \notin overtaken
                     /\ tie[p][j.drop] = "current")
                       => mention[p].name \in aka[j.keep] \cup j.adds

\* The permit is related to entity e alone, which goes by the permit's name.
OnlyTo(p, e) ==
  /\ tie[p][e] = "current" /\ mention[p].name \in aka[e]
  /\ \A x \in Ents : tie[p][x] = "current" => x = e

Related ==
  \A p \in Folders : mention[p] # NoMention /\ p \notin overtaken => \E e \in Ents : OnlyTo(p, e)

NamingOfFolders == naming = [p \in Folders |-> naming[p]]

EntityInv ==
  /\ EntityTypeOK /\ NamingOfFolders
  /\ EntitiesStay /\ DraftsKnow /\ JoinKnows /\ Related

LEMMA EntityTypes ==
  ASSUME EntityInv
  PROVE  /\ ent \in [Ents -> {"none", "making", "live", "gone"}]
         /\ display \in [Ents -> PartyNames] /\ aka \in [Ents -> SUBSET PartyNames]
         /\ tie \in [Folders -> [Ents -> Tie]]
         /\ mention \in [Folders -> Mentions \cup {NoMention}]
         /\ \A p \in Folders : naming[p] # NoNaming => naming[p] \in Draft
         /\ joining \subseteq Join /\ overtaken \subseteq Folders
         /\ namings \in 0..MaxNamings /\ joins \in 0..MaxJoins
         /\ \A e \in Ents : ent[e] = "gone" => aka[e] = {}
         /\ \A p \in Folders, e \in Ents : tie[p][e] # "absent" => ent[e] = "live"
  BY DEF EntityInv, EntityTypeOK, Draft, Join, Tie

LEMMA EntityTypesBack ==
  /\ ent' \in [Ents -> {"none", "making", "live", "gone"}]
  /\ display' \in [Ents -> PartyNames] /\ aka' \in [Ents -> SUBSET PartyNames]
  /\ tie' \in [Folders -> [Ents -> Tie]]
  /\ mention' \in [Folders -> Mentions \cup {NoMention}]
  /\ \A p \in Folders : naming'[p] # NoNaming => naming'[p] \in Draft
  /\ joining' \subseteq Join /\ overtaken' \subseteq Folders
  /\ namings' \in 0..MaxNamings /\ joins' \in 0..MaxJoins
  /\ \A e \in Ents : ent'[e] = "gone" => aka'[e] = {}
  /\ \A p \in Folders, e \in Ents : tie'[p][e] # "absent" => ent'[e] = "live"
  => EntityTypeOK'
  BY DEF EntityTypeOK, Draft, Join, Tie, Ents

LEMMA EntityStarts == EntityInit => EntityInv
<1> SUFFICES ASSUME EntityInit PROVE EntityInv
  OBVIOUS
<1>1. (CHOOSE n \in PartyNames : TRUE) \in PartyNames
  BY EntityAssumption
<1>2. namings \in 0..MaxNamings /\ joins \in 0..MaxJoins
  BY EntityAssumption DEF EntityInit
<1>3. EntityTypeOK
  BY <1>1, <1>2 DEF EntityInit, EntityTypeOK
<1>4. NamingOfFolders /\ EntitiesStay /\ DraftsKnow /\ JoinKnows /\ Related
  BY DEF EntityInit, NamingOfFolders, EntitiesStay, DraftsKnow, JoinKnows, Related
<1>5. QED  BY <1>3, <1>4 DEF EntityInv

\* A transaction of a permit resolves its party.
LEMMA NamePartyStep ==
  ASSUME EntityInv, NEW p \in Folders, NEW m \in Mentions, NameParty(p, m)
  PROVE  EntityInv'
<1>1. PICK e \in Resolved(m) :
        /\ naming' = [naming EXCEPT ![p] =
             [mention |-> m, entity |-> e, had |-> tie[p][e] # "absent",
              adds |-> Terms(m) \ aka[e],
              mine |-> {x \in Ents : tie[p][x] = "current"}, broken |-> FALSE, late |-> FALSE]]
        /\ ent' = IF ent[e] = "none" THEN [ent EXCEPT ![e] = "making"] ELSE ent
        /\ display' = IF ent[e] = "none" THEN [display EXCEPT ![e] = m.name] ELSE display
  BY DEF NameParty
<1> DEFINE n == [mention |-> m, entity |-> e, had |-> tie[p][e] # "absent",
                 adds |-> Terms(m) \ aka[e],
                 mine |-> {x \in Ents : tie[p][x] = "current"}, broken |-> FALSE, late |-> FALSE]
<1>2. /\ namings < MaxNamings /\ namings' = namings + 1 /\ naming[p] = NoNaming
      /\ UNCHANGED <<aka, tie, mention, joining, overtaken, joins>>
  BY DEF NameParty
<1>3. e \in Ents /\ ent[e] \in {"none", "live"}
  BY DEF Resolved, Exact, Aliased, Fresh
<1>4. m.name \in PartyNames /\ m.also \in SUBSET PartyNames
  BY EntityAssumption
<1>5. n \in Draft
  <2>1. Terms(m) \ aka[e] \in SUBSET PartyNames
    BY <1>4 DEF Terms
  <2>2. QED  BY <1>3, <2>1 DEF Draft
<1>6. /\ n.mention = m /\ n.entity = e /\ n.adds = Terms(m) \ aka[e]
      /\ n.mine = {x \in Ents : tie[p][x] = "current"} /\ n.broken = FALSE /\ n.late = FALSE
  OBVIOUS
<1>7. naming' = [naming EXCEPT ![p] = n]
  BY <1>1
<1> HIDE DEF n
<1>8. /\ NamingOfFolders' /\ naming'[p] = n
      /\ \A q \in Folders : q # p => naming'[q] = naming[q]
  BY <1>7 DEF EntityInv, NamingOfFolders
<1>9. /\ ent' \in [Ents -> {"none", "making", "live", "gone"}]
      /\ \A x \in Ents : x # e => ent'[x] = ent[x]
      /\ ent'[e] \in {"making", "live"}
      /\ ent[e] = "live" => ent'[e] = "live"
      /\ ent'[e] = "making" => ent[e] = "none"
  BY <1>1, <1>3, EntityTypes
<1>10. display' \in [Ents -> PartyNames]
  BY <1>1, <1>4, EntityTypes
<1>11. namings' \in 0..MaxNamings
  BY <1>2, EntityAssumption, EntityTypes
<1>12. EntityTypeOK'
  <2>1. \A q \in Folders : naming'[q] # NoNaming => naming'[q] \in Draft
    BY <1>5, <1>8, EntityTypes
  <2>2. \A x \in Ents : ent'[x] = "gone" => aka[x] = {}
    BY <1>9, EntityTypes
  <2>3. \A q \in Folders, x \in Ents : tie[q][x] # "absent" => ent'[x] = "live"
    BY <1>9, EntityTypes
  <2>4. QED  BY <1>2, <1>9, <1>10, <1>11, <2>1, <2>2, <2>3, EntityTypes, EntityTypesBack
<1>13. EntitiesStay'
  <2>1. \A q \in Folders : q # p /\ naming[q] # NoNaming =>
          naming[q].entity \in Ents /\ ent[naming[q].entity] # "none"
    BY EntityTypes DEF EntityInv, EntitiesStay, Draft
  <2>2. QED  BY <1>6, <1>8, <1>9, <2>1 DEF EntityInv, EntitiesStay
<1>14. DraftsKnow'
  <2>1. m.name \in aka[e] \cup (Terms(m) \ aka[e])
    BY DEF Terms
  <2>2. /\ n.mention.name \in aka[n.entity] \cup n.adds
        /\ \A x \in n.mine : tie[p][x] # "absent"
        /\ \A x \in Ents : tie[p][x] = "current" => x \in n.mine
    BY <1>6, <2>1
  <2>3. QED  BY <1>2, <1>6, <1>8, <2>2 DEF EntityInv, DraftsKnow
<1>15. JoinKnows'
  <2>1. joining \subseteq Join
    BY EntityTypes
  <2>2. \A j \in joining : j.keep \in Ents /\ j.drop \in Ents
    BY <2>1 DEF Join
  <2>3. \A j \in joining : ent'[j.keep] = "live" /\ ent'[j.drop] = "live"
    BY <1>9, <2>2 DEF EntityInv, JoinKnows
  <2>4. QED  BY <1>2, <2>3 DEF EntityInv, JoinKnows
<1>16. Related'
  BY <1>2 DEF EntityInv, Related, OnlyTo, Ents
<1>17. QED  BY <1>8, <1>12, <1>13, <1>14, <1>15, <1>16 DEF EntityInv

\* A transaction of a permit that ends changes no other one.
LEMMA OthersDraftsStay ==
  ASSUME EntityInv, NEW p \in Folders, CommitNaming(p)
  PROVE  /\ naming[p] # NoNaming /\ naming[p] \in Draft
         /\ naming'[p] = NoNaming /\ NamingOfFolders'
         /\ \A q \in Folders : q # p => naming'[q] = naming[q]
         /\ \A q \in Folders : naming'[q] # NoNaming => q # p /\ naming[q] # NoNaming
         /\ UNCHANGED <<display, namings, joins>>
<1>1. /\ naming[p] # NoNaming /\ naming' = [naming EXCEPT ![p] = NoNaming]
      /\ UNCHANGED <<display, namings, joins>>
  BY DEF CommitNaming
<1>2. naming = [q \in Folders |-> naming[q]]
  BY DEF EntityInv, NamingOfFolders
<1>3. naming[p] \in Draft
  BY <1>1, EntityTypes
<1>4. QED  BY <1>1, <1>2, <1>3 DEF NamingOfFolders

\* It fails: what it was making is gone with it.
LEMMA NamingFailsStep ==
  ASSUME EntityInv, NEW p \in Folders, CommitNaming(p), NamingFails(p, naming[p])
  PROVE  EntityInv'
<1> DEFINE e == naming[p].entity
<1>1. /\ naming[p] # NoNaming /\ naming'[p] = NoNaming /\ NamingOfFolders'
      /\ \A q \in Folders : q # p => naming'[q] = naming[q]
      /\ \A q \in Folders : naming'[q] # NoNaming => q # p /\ naming[q] # NoNaming
      /\ UNCHANGED <<display, namings, joins>>
  BY OthersDraftsStay
<1>2. /\ ent' = IF ent[e] = "making" THEN [ent EXCEPT ![e] = "none"] ELSE ent
      /\ UNCHANGED <<aka, tie, mention, joining, overtaken>>
  BY DEF CommitNaming
<1>3. e \in Ents
  BY OthersDraftsStay DEF Draft
<1>4. /\ ent' \in [Ents -> {"none", "making", "live", "gone"}]
      /\ \A x \in Ents : ent'[x] = ent[x] \/ (x = e /\ ent[x] = "making" /\ ent'[x] = "none")
  BY <1>2, <1>3, EntityTypes
<1> HIDE DEF e
<1>5. EntityTypeOK'
  <2>1. \A q \in Folders : naming'[q] # NoNaming => naming'[q] \in Draft
    BY <1>1, EntityTypes
  <2>2. \A x \in Ents : ent'[x] = "gone" => aka[x] = {}
    BY <1>4, EntityTypes
  <2>3. \A q \in Folders, x \in Ents : tie[q][x] # "absent" => ent'[x] = "live"
    BY <1>4, EntityTypes
  <2>4. QED  BY <1>1, <1>2, <1>4, <2>1, <2>2, <2>3, EntityTypes, EntityTypesBack
<1>6. EntitiesStay'
  <2> SUFFICES ASSUME NEW q \in Folders, naming'[q] # NoNaming
               PROVE  /\ ent'[naming[q].entity] # "none"
                      /\ ent'[naming[q].entity] = "gone" => naming[q].broken
                      /\ \A r \in Folders :
                           r # q /\ naming'[r] # NoNaming
                           /\ naming[r].entity = naming[q].entity =>
                             ent'[naming[q].entity] # "making"
    BY <1>1 DEF EntitiesStay
  <2>1. q # p /\ naming[q] # NoNaming /\ naming[q] \in Draft
    BY <1>1, EntityTypes
  <2>2. naming[q].entity \in Ents
    BY <2>1 DEF Draft
  <2>3. /\ ent[naming[q].entity] # "none"
        /\ ent[naming[q].entity] = "gone" => naming[q].broken
        /\ \A r \in Folders :
             r # q /\ naming[r] # NoNaming /\ naming[r].entity = naming[q].entity =>
               ent[naming[q].entity] # "making"
    BY <2>1 DEF EntityInv, EntitiesStay
  <2>4. naming[q].entity = e => ent[e] # "making"
    BY <1>1, <2>1, <2>3 DEF e
  <2>5. ent'[naming[q].entity] = ent[naming[q].entity]
    BY <1>4, <2>2, <2>4
  <2>6. QED  BY <1>1, <2>3, <2>5
<1>7. DraftsKnow'
  BY <1>1, <1>2 DEF EntityInv, DraftsKnow, Ents
<1>8. JoinKnows'
  <2>1. joining \subseteq Join
    BY EntityTypes
  <2>2. \A j \in joining : j.keep \in Ents /\ j.drop \in Ents
    BY <2>1 DEF Join
  <2>3. \A j \in joining : ent'[j.keep] = "live" /\ ent'[j.drop] = "live"
    BY <1>4, <2>2 DEF EntityInv, JoinKnows
  <2>4. QED  BY <1>2, <2>3 DEF EntityInv, JoinKnows
<1>9. Related'
  BY <1>2 DEF EntityInv, Related, OnlyTo, Ents
<1>10. QED  BY <1>1, <1>5, <1>6, <1>7, <1>8, <1>9 DEF EntityInv

LEMMA SinceAlso ==
  ASSUME NEW A, NEW B, NEW C, NEW D, NEW j \in [keep: A, drop: A, adds: B, since: SUBSET C,
                                                kept: D, dropped: D],
         NEW p \in C, NEW i, i = [j EXCEPT !.since = @ \cup {p}]
  PROVE  /\ i.keep = j.keep /\ i.drop = j.drop /\ i.adds = j.adds
         /\ i.since = j.since \cup {p} /\ i.kept = j.kept /\ i.dropped = j.dropped
         /\ i \in [keep: A, drop: A, adds: B, since: SUBSET C, kept: D, dropped: D]
  OBVIOUS

\* It commits: what it leaves of the rows.
LEMMA NamedAre ==
  ASSUME EntityInv, NEW p \in Folders, CommitNaming(p), ~NamingFails(p, naming[p])
  PROVE  /\ naming[p].entity \in Ents /\ ~naming[p].broken
         /\ ent' = [ent EXCEPT ![naming[p].entity] = "live"]
         /\ aka' \in [Ents -> SUBSET PartyNames]
         /\ \A x \in Ents : aka[x] \subseteq aka'[x]
         /\ \A x \in Ents : x # naming[p].entity => aka'[x] = aka[x]
         /\ naming[p].mention.name \in aka'[naming[p].entity]
         /\ tie' \in [Folders -> [Ents -> Tie]]
         /\ \A q \in Folders : q # p => tie'[q] = tie[q]
         /\ \A x \in Ents : tie'[p][x] =
              IF x = naming[p].entity THEN "current"
              ELSE IF x \in naming[p].mine THEN "past" ELSE tie[p][x]
         /\ \A x \in Ents : tie[p][x] # "absent" => tie'[p][x] # "absent"
         /\ \A x \in Ents : tie'[p][x] # "absent" => x = naming[p].entity \/ tie[p][x] # "absent"
         /\ mention' \in [Folders -> Mentions \cup {NoMention}]
         /\ mention'[p] = naming[p].mention
         /\ \A q \in Folders : q # p => mention'[q] = mention[q]
         /\ overtaken' \subseteq overtaken /\ overtaken \subseteq overtaken' \cup {p}
         /\ naming[p].late => p \in overtaken'
         /\ joining' = {[j EXCEPT !.since = @ \cup {p}] : j \in joining}
<1> DEFINE n == naming[p]
<1>1. n \in Draft /\ n # NoNaming
  BY OthersDraftsStay
<1>2. n.entity \in Ents /\ n.adds \in SUBSET PartyNames /\ n.mention \in Mentions
  BY <1>1 DEF Draft
<1>3. ~n.broken
  BY DEF NamingFails
<1>4. /\ ent' = [ent EXCEPT ![n.entity] = "live"]
      /\ aka' = [aka EXCEPT ![n.entity] = @ \cup n.adds]
      /\ tie' = [tie EXCEPT ![p] = [x \in Ents |->
           IF x = n.entity THEN "current" ELSE IF x \in n.mine THEN "past" ELSE @[x]]]
      /\ mention' = [mention EXCEPT ![p] = n.mention]
      /\ joining' = {[j EXCEPT !.since = @ \cup {p}] : j \in joining}
      /\ overtaken' = IF n.late THEN overtaken ELSE overtaken \ {p}
  BY DEF CommitNaming
<1>5. /\ n.late => p \in overtaken
      /\ n.mention.name \in aka[n.entity] \cup n.adds
      /\ \A x \in n.mine : tie[p][x] # "absent"
  BY <1>1, <1>3 DEF EntityInv, DraftsKnow
<1> HIDE DEF n
<1>6. /\ aka' \in [Ents -> SUBSET PartyNames]
      /\ \A x \in Ents : x # n.entity => aka'[x] = aka[x]
      /\ aka'[n.entity] = aka[n.entity] \cup n.adds
  BY <1>2, <1>4, EntityTypes
<1>7. tie \in [Folders -> [Ents -> Tie]]
  BY EntityTypes
<1> DEFINE row == [x \in Ents |-> IF x = n.entity THEN "current"
                                  ELSE IF x \in n.mine THEN "past" ELSE tie[p][x]]
<1>8. row \in [Ents -> Tie]
  BY <1>7 DEF Tie
<1>9. \A x \in Ents : row[x] = IF x = n.entity THEN "current"
                               ELSE IF x \in n.mine THEN "past" ELSE tie[p][x]
  OBVIOUS
<1>10. tie' = [tie EXCEPT ![p] = row]
  BY <1>4
<1> HIDE DEF row
<1>11. /\ tie' \in [Folders -> [Ents -> Tie]] /\ tie'[p] = row
       /\ \A q \in Folders : q # p => tie'[q] = tie[q]
  BY <1>7, <1>8, <1>10
<1>12. /\ mention' \in [Folders -> Mentions \cup {NoMention}] /\ mention'[p] = n.mention
       /\ \A q \in Folders : q # p => mention'[q] = mention[q]
  BY <1>2, <1>4, EntityTypes
<1>13. /\ \A x \in Ents : tie[p][x] # "absent" => tie'[p][x] # "absent"
       /\ \A x \in Ents : tie'[p][x] # "absent" => x = n.entity \/ tie[p][x] # "absent"
  BY <1>5, <1>9, <1>11
<1>14. \A x \in Ents : aka[x] \subseteq aka'[x]
  BY <1>6
<1>15. n.mention.name \in aka'[n.entity]
  BY <1>5, <1>6
<1>16. overtaken' \subseteq overtaken /\ overtaken \subseteq overtaken' \cup {p}
       /\ (n.late => p \in overtaken')
  BY <1>4, <1>5
<1>17. QED
  BY <1>2, <1>3, <1>4, <1>6, <1>9, <1>11, <1>12, <1>13, <1>14, <1>15, <1>16 DEF n

LEMMA NamingCommitsStep ==
  ASSUME EntityInv, NEW p \in Folders, CommitNaming(p), ~NamingFails(p, naming[p])
  PROVE  EntityInv'
<1> DEFINE e == naming[p].entity
<1>1. /\ naming[p] # NoNaming /\ naming'[p] = NoNaming /\ NamingOfFolders'
      /\ \A q \in Folders : q # p => naming'[q] = naming[q]
      /\ \A q \in Folders : naming'[q] # NoNaming => q # p /\ naming[q] # NoNaming
      /\ UNCHANGED <<display, namings, joins>>
  BY OthersDraftsStay
<1>2. /\ e \in Ents /\ ~naming[p].broken
      /\ ent' = [ent EXCEPT ![e] = "live"]
      /\ mention' \in [Folders -> Mentions \cup {NoMention}]
      /\ mention'[p] = naming[p].mention
      /\ \A q \in Folders : q # p => mention'[q] = mention[q]
      /\ overtaken' \subseteq overtaken /\ overtaken \subseteq overtaken' \cup {p}
      /\ joining' = {[j EXCEPT !.since = @ \cup {p}] : j \in joining}
  BY NamedAre
<1>3. /\ aka' \in [Ents -> SUBSET PartyNames]
      /\ \A x \in Ents : aka[x] \subseteq aka'[x]
      /\ \A x \in Ents : x # e => aka'[x] = aka[x]
      /\ naming[p].mention.name \in aka'[e]
  BY NamedAre
<1>4. /\ tie' \in [Folders -> [Ents -> Tie]]
      /\ \A q \in Folders : q # p => tie'[q] = tie[q]
      /\ \A x \in Ents : tie'[p][x] = IF x = e THEN "current"
                                    ELSE IF x \in naming[p].mine THEN "past" ELSE tie[p][x]
      /\ \A x \in Ents : tie[p][x] # "absent" => tie'[p][x] # "absent"
      /\ \A x \in Ents : tie'[p][x] # "absent" => x = e \/ tie[p][x] # "absent"
  BY NamedAre
<1>5. naming[p].late => p \in overtaken'
  BY NamedAre
<1>6. ent[e] \in {"making", "live"}
  <2>1. ent[e] # "none" /\ (ent[e] = "gone" => naming[p].broken)
    BY <1>1 DEF EntityInv, EntitiesStay
  <2>2. ent[e] \in {"none", "making", "live", "gone"}
    BY <1>2, EntityTypes
  <2>3. QED  BY <1>2, <2>1, <2>2
<1> HIDE DEF e
<1>7. /\ ent' \in [Ents -> {"none", "making", "live", "gone"}] /\ ent'[e] = "live"
      /\ \A x \in Ents : x # e => ent'[x] = ent[x]
      /\ \A x \in Ents : ent[x] = "live" => ent'[x] = "live"
  BY <1>2, EntityTypes
<1>8. /\ joining' \subseteq Join
      /\ \A i \in joining' : \E j \in joining :
           /\ i.keep = j.keep /\ i.drop = j.drop /\ i.adds = j.adds
           /\ i.since = j.since \cup {p} /\ i.kept = j.kept /\ i.dropped = j.dropped
  <2>1. joining \subseteq Join
    BY EntityTypes
  <2>2. ASSUME NEW j \in joining, NEW i, i = [j EXCEPT !.since = @ \cup {p}]
        PROVE  /\ i \in Join
               /\ i.keep = j.keep /\ i.drop = j.drop /\ i.adds = j.adds
               /\ i.since = j.since \cup {p} /\ i.kept = j.kept /\ i.dropped = j.dropped
    BY <2>1, <2>2, SinceAlso DEF Join
  <2>3. ASSUME NEW i \in joining'
        PROVE  /\ i \in Join
               /\ \E j \in joining :
                    /\ i.keep = j.keep /\ i.drop = j.drop /\ i.adds = j.adds
                    /\ i.since = j.since \cup {p} /\ i.kept = j.kept /\ i.dropped = j.dropped
    <3>1. PICK j \in joining : i = [j EXCEPT !.since = @ \cup {p}]
      BY <1>2
    <3>2. QED  BY <2>2, <3>1
  <2>4. QED  BY <2>3
<1>9. \A i, j \in joining' : i = j
  <2>1. ASSUME NEW i \in joining', NEW h \in joining'  PROVE  i = h
    <3>1. PICK a \in joining : i = [a EXCEPT !.since = @ \cup {p}]
      BY <1>2
    <3>2. PICK b \in joining : h = [b EXCEPT !.since = @ \cup {p}]
      BY <1>2
    <3>3. a = b
      BY DEF EntityInv, JoinKnows
    <3>4. QED  BY <3>1, <3>2, <3>3
  <2>2. QED  BY <2>1
<1>10. EntityTypeOK'
  <2>1. \A q \in Folders : naming'[q] # NoNaming => naming'[q] \in Draft
    BY <1>1, EntityTypes
  <2>2. \A x \in Ents : ent'[x] = "gone" => aka'[x] = {}
    BY <1>3, <1>7, EntityTypes
  <2>3. ASSUME NEW q \in Folders, NEW x \in Ents, tie'[q][x] # "absent"
        PROVE  ent'[x] = "live"
    <3>1. x = e \/ tie[q][x] # "absent"
      BY <1>4, <2>3
    <3>2. QED  BY <1>7, <3>1, EntityTypes
  <2>4. overtaken' \subseteq Folders
    BY <1>2, EntityTypes
  <2>5. QED
    BY <1>1, <1>2, <1>3, <1>4, <1>7, <1>8, <2>1, <2>2, <2>3, <2>4, EntityTypes, EntityTypesBack
<1>11. EntitiesStay'
  <2> SUFFICES ASSUME NEW q \in Folders, naming'[q] # NoNaming
               PROVE  /\ ent'[naming[q].entity] # "none"
                      /\ ent'[naming[q].entity] = "gone" => naming[q].broken
                      /\ \A r \in Folders :
                           r # q /\ naming'[r] # NoNaming
                           /\ naming[r].entity = naming[q].entity =>
                             ent'[naming[q].entity] # "making"
    BY <1>1 DEF EntitiesStay
  <2>1. naming[q] # NoNaming /\ naming[q] \in Draft
    BY <1>1, EntityTypes
  <2>2. naming[q].entity \in Ents
    BY <2>1 DEF Draft
  <2>3. /\ ent[naming[q].entity] # "none"
        /\ ent[naming[q].entity] = "gone" => naming[q].broken
        /\ \A r \in Folders :
             r # q /\ naming[r] # NoNaming /\ naming[r].entity = naming[q].entity =>
               ent[naming[q].entity] # "making"
    BY <2>1 DEF EntityInv, EntitiesStay
  <2>4. ent'[naming[q].entity] = "live" \/ ent'[naming[q].entity] = ent[naming[q].entity]
    BY <1>7, <2>2
  <2>5. QED  BY <1>1, <2>3, <2>4
<1>12. DraftsKnow'
  <2> SUFFICES ASSUME NEW q \in Folders, naming'[q] # NoNaming
               PROVE  /\ naming[q].late => q \in overtaken'
                      /\ ~naming[q].broken =>
                           /\ naming[q].mention.name \in aka'[naming[q].entity] \cup naming[q].adds
                           /\ \A x \in naming[q].mine : tie'[q][x] # "absent"
                           /\ ~naming[q].late =>
                                \A x \in Ents : tie'[q][x] = "current" => x \in naming[q].mine
    BY <1>1 DEF DraftsKnow
  <2>1. q # p /\ naming[q] # NoNaming /\ naming[q] \in Draft
    BY <1>1, EntityTypes
  <2>2. naming[q].entity \in Ents
    BY <2>1 DEF Draft
  <2>3. /\ naming[q].late => q \in overtaken
        /\ ~naming[q].broken =>
             /\ naming[q].mention.name \in aka[naming[q].entity] \cup naming[q].adds
             /\ \A x \in naming[q].mine : tie[q][x] # "absent"
             /\ ~naming[q].late =>
                  \A x \in Ents : tie[q][x] = "current" => x \in naming[q].mine
    BY <2>1 DEF EntityInv, DraftsKnow
  <2>4. tie'[q] = tie[q] /\ aka[naming[q].entity] \subseteq aka'[naming[q].entity]
        /\ (q \in overtaken => q \in overtaken')
    BY <1>2, <1>3, <1>4, <2>1, <2>2
  <2>5. QED  BY <2>3, <2>4
<1>13. JoinKnows'
  <2> SUFFICES ASSUME NEW i \in joining'
               PROVE  /\ i.keep # i.drop /\ ent'[i.keep] = "live" /\ ent'[i.drop] = "live"
                      /\ \A q \in Folders :
                           /\ i.kept[q] # "absent" => tie'[q][i.keep] # "absent"
                           /\ i.dropped[q] # "absent" => tie'[q][i.drop] # "absent"
                           /\ q \notin i.since =>
                                /\ i.kept[q] = tie'[q][i.keep] /\ i.dropped[q] = tie'[q][i.drop]
                                /\ (mention'[q] # NoMention /\ q \notin overtaken'
                                    /\ tie'[q][i.drop] = "current")
                                      => mention'[q].name \in aka'[i.keep] \cup i.adds
    BY <1>9 DEF JoinKnows
  <2>1. PICK j \in joining :
          /\ i.keep = j.keep /\ i.drop = j.drop /\ i.adds = j.adds
          /\ i.since = j.since \cup {p} /\ i.kept = j.kept /\ i.dropped = j.dropped
    BY <1>8
  <2>2. joining \subseteq Join
    BY EntityTypes
  <2>3. j.keep \in Ents /\ j.drop \in Ents
    BY <2>2 DEF Join
  <2>4. j.keep # j.drop /\ ent'[j.keep] = "live" /\ ent'[j.drop] = "live"
    BY <1>7, <2>3 DEF EntityInv, JoinKnows
  <2>5. ASSUME NEW q \in Folders
        PROVE  /\ j.kept[q] # "absent" => tie'[q][j.keep] # "absent"
               /\ j.dropped[q] # "absent" => tie'[q][j.drop] # "absent"
    <3>1. /\ j.kept[q] # "absent" => tie[q][j.keep] # "absent"
          /\ j.dropped[q] # "absent" => tie[q][j.drop] # "absent"
      BY DEF EntityInv, JoinKnows
    <3>2. QED  BY <1>4, <2>3, <3>1
  <2>6. ASSUME NEW q \in Folders, q \notin i.since
        PROVE  /\ j.kept[q] = tie'[q][j.keep] /\ j.dropped[q] = tie'[q][j.drop]
               /\ (mention'[q] # NoMention /\ q \notin overtaken' /\ tie'[q][j.drop] = "current")
                    => mention'[q].name \in aka'[j.keep] \cup j.adds
    <3>1. q # p /\ q \notin j.since
      BY <2>1, <2>6
    <3>2. /\ j.kept[q] = tie[q][j.keep] /\ j.dropped[q] = tie[q][j.drop]
          /\ (mention[q] # NoMention /\ q \notin overtaken /\ tie[q][j.drop] = "current")
               => mention[q].name \in aka[j.keep] \cup j.adds
      BY <3>1 DEF EntityInv, JoinKnows
    <3>3. tie'[q] = tie[q] /\ mention'[q] = mention[q] /\ aka[j.keep] \subseteq aka'[j.keep]
          /\ (q \in overtaken => q \in overtaken')
      BY <1>2, <1>3, <1>4, <2>3, <3>1
    <3>4. QED  BY <3>2, <3>3
  <2>7. QED  BY <2>1, <2>4, <2>5, <2>6
<1>14. Related'
  <2> SUFFICES ASSUME NEW q \in Folders, mention'[q] # NoMention, q \notin overtaken'
               PROVE  \E x \in Ents : /\ tie'[q][x] = "current" /\ mention'[q].name \in aka'[x]
                                      /\ \A y \in Ents : tie'[q][y] = "current" => y = x
    BY DEF Related, OnlyTo, Ents
  <2>1. CASE q = p
    <3>1. ~naming[p].late
      BY <1>5, <2>1
    <3>2. \A x \in Ents : tie[p][x] = "current" => x \in naming[p].mine
      BY <1>1, <1>2, <3>1 DEF EntityInv, DraftsKnow
    <3>3. \A x \in Ents : tie'[p][x] = "current" => x = e
      BY <1>4, <3>2
    <3>4. QED  BY <1>2, <1>3, <1>4, <2>1, <3>3
  <2>2. CASE q # p
    <3>1. q \notin overtaken /\ mention'[q] = mention[q] /\ tie'[q] = tie[q]
      BY <1>2, <1>4, <2>2
    <3>2. PICK x \in Ents : OnlyTo(q, x)
      BY <3>1 DEF EntityInv, Related
    <3>3. QED  BY <1>3, <3>1, <3>2 DEF OnlyTo
  <2>3. QED  BY <2>1, <2>2
<1>15. QED  BY <1>1, <1>10, <1>11, <1>12, <1>13, <1>14 DEF EntityInv

\* A merge reads the duplicate and the survivor.
LEMMA AskJoinStep ==
  ASSUME EntityInv, NEW k \in Ents, NEW d \in Ents, AskJoin(k, d)
  PROVE  EntityInv'
<1> DEFINE i == [keep |-> k, drop |-> d, adds |-> aka[d] \ aka[k], since |-> {},
                 kept |-> [p \in Folders |-> tie[p][k]],
                 dropped |-> [p \in Folders |-> tie[p][d]]]
<1>1. /\ joining' = {i} /\ joins < MaxJoins /\ joins' = joins + 1
      /\ k # d /\ ent[k] = "live" /\ ent[d] = "live"
      /\ UNCHANGED <<ent, display, aka, tie, mention, naming, overtaken, namings>>
  BY DEF AskJoin
<1>2. /\ i.keep = k /\ i.drop = d /\ i.adds = aka[d] \ aka[k] /\ i.since = {}
      /\ \A p \in Folders : i.kept[p] = tie[p][k] /\ i.dropped[p] = tie[p][d]
  OBVIOUS
<1>3. i \in Join
  <2>1. aka[d] \ aka[k] \in SUBSET PartyNames
    BY EntityTypes
  <2>2. [p \in Folders |-> tie[p][k]] \in [Folders -> Tie]
        /\ [p \in Folders |-> tie[p][d]] \in [Folders -> Tie]
    BY EntityTypes
  <2>3. QED  BY <2>1, <2>2 DEF Join
<1> HIDE DEF i
<1>4. joins' \in 0..MaxJoins
  BY <1>1, EntityAssumption, EntityTypes
<1>5. EntityTypeOK'
  <2>1. joining' \subseteq Join
    BY <1>1, <1>3
  <2>2. QED  BY <1>1, <1>4, <2>1, EntityTypes, EntityTypesBack
<1>6. NamingOfFolders' /\ EntitiesStay' /\ DraftsKnow' /\ Related'
  BY <1>1 DEF EntityInv, NamingOfFolders, EntitiesStay, DraftsKnow, Related, OnlyTo, Ents
<1>7. JoinKnows'
  <2>1. ASSUME NEW p \in Folders, mention[p] # NoMention, p \notin overtaken,
               tie[p][d] = "current"
        PROVE  mention[p].name \in aka[k] \cup (aka[d] \ aka[k])
    <3>1. PICK e \in Ents : OnlyTo(p, e)
      BY <2>1 DEF EntityInv, Related
    <3>2. QED  BY <2>1, <3>1 DEF OnlyTo
  <2>2. QED  BY <1>1, <1>2, <2>1 DEF JoinKnows
<1>8. QED  BY <1>5, <1>6, <1>7 DEF EntityInv

\* What the merge does to a transaction of a permit.
LEMMA DraftAfterJoin ==
  ASSUME NEW A, NEW B, NEW C, NEW D,
         NEW n \in [mention: A, entity: B, had: BOOLEAN, adds: C, mine: D,
                    broken: BOOLEAN, late: BOOLEAN],
         NEW u \in BOOLEAN, NEW w \in BOOLEAN, NEW M \in D,
         NEW d, d = [n EXCEPT !.broken = @ \/ u, !.late = @ \/ w, !.mine = M]
  PROVE  /\ d \in [mention: A, entity: B, had: BOOLEAN, adds: C, mine: D,
                   broken: BOOLEAN, late: BOOLEAN]
         /\ d.mention = n.mention /\ d.entity = n.entity /\ d.adds = n.adds /\ d.mine = M
         /\ d.broken <=> n.broken \/ u
         /\ d.late <=> n.late \/ w
<1>1. d \in [mention: A, entity: B, had: BOOLEAN, adds: C, mine: D,
             broken: BOOLEAN, late: BOOLEAN]
  OBVIOUS
<1>2. d.mention = n.mention /\ d.entity = n.entity /\ d.adds = n.adds /\ d.mine = M
  OBVIOUS
<1>3. d.broken <=> n.broken \/ u
  OBVIOUS
<1>4. d.late <=> n.late \/ w
  OBVIOUS
<1>5. QED  BY <1>1, <1>2, <1>3, <1>4

\* The merge commits: what it leaves of the relationships.
LEMMA JoinedTies ==
  ASSUME EntityInv, NEW j \in joining, CommitJoin(j), ~JoinFails(j)
  PROVE  /\ j.keep \in Ents /\ j.drop \in Ents /\ j.keep # j.drop
         /\ tie' \in [Folders -> [Ents -> Tie]]
         /\ \A p \in Folders :
              /\ tie'[p][j.drop] = "absent"
              /\ \A x \in Ents \ {j.keep, j.drop} : tie'[p][x] = tie[p][x]
              /\ tie'[p][j.keep] = IF p \in Twice(j) THEN Combined(j, p)
                                   ELSE IF p \in Rewired(j) THEN tie[p][j.drop]
                                   ELSE tie[p][j.keep]
<1>1. joining \subseteq Join /\ tie \in [Folders -> [Ents -> Tie]]
  BY EntityTypes
<1>2. j.keep \in Ents /\ j.drop \in Ents /\ j.keep # j.drop
  BY <1>1 DEF Join, EntityInv, JoinKnows
<1> DEFINE kt(p) == IF p \in Twice(j) THEN Combined(j, p)
                    ELSE IF p \in Rewired(j) THEN tie[p][j.drop] ELSE tie[p][j.keep]
<1>3. tie' = [p \in Folders |-> [tie[p] EXCEPT
               ![j.drop] = "absent",
               ![j.keep] = IF p \in Twice(j) THEN Combined(j, p)
                           ELSE IF p \in Rewired(j) THEN tie[p][j.drop] ELSE @]]
  BY DEF CommitJoin
<1>4. ASSUME NEW p \in Folders
      PROVE  /\ tie'[p] \in [Ents -> Tie] /\ tie'[p][j.drop] = "absent"
             /\ \A x \in Ents \ {j.keep, j.drop} : tie'[p][x] = tie[p][x]
             /\ tie'[p][j.keep] = kt(p)
  <2>1. tie[p] \in [Ents -> Tie]
    BY <1>1
  <2>2. kt(p) \in Tie
    BY <1>2, <2>1 DEF Combined, Tie
  <2>3. tie'[p] = [tie[p] EXCEPT ![j.drop] = "absent", ![j.keep] = kt(p)]
    BY <1>2, <1>3, <2>1
  <2>4. "absent" \in Tie
    BY DEF Tie
  <2> HIDE DEF kt, Tie
  <2>5. QED  BY <1>2, <2>1, <2>2, <2>3, <2>4
<1>5. tie' \in [Folders -> [Ents -> Tie]]
  BY <1>3, <1>4
<1>6. QED  BY <1>2, <1>4, <1>5

\* The rows that the merge leaves go by every name that the duplicate had when
\* it was read.
LEMMA JoinedNames ==
  ASSUME EntityInv, NEW j \in joining, CommitJoin(j), ~JoinFails(j)
  PROVE  /\ ent' \in [Ents -> {"none", "making", "live", "gone"}]
         /\ ent'[j.drop] = "gone" /\ \A x \in Ents \ {j.drop} : ent'[x] = ent[x]
         /\ aka' \in [Ents -> SUBSET PartyNames]
         /\ aka'[j.drop] = {} /\ aka'[j.keep] = aka[j.keep] \cup j.adds
         /\ \A x \in Ents \ {j.keep, j.drop} : aka'[x] = aka[x]
         /\ joining' = {} /\ overtaken' = overtaken \cup Overtakes(j)
         /\ UNCHANGED <<display, mention, namings, joins>>
<1>1. joining \subseteq Join
  BY EntityTypes
<1>2. /\ j.keep \in Ents /\ j.drop \in Ents /\ j.keep # j.drop
      /\ j.adds \in SUBSET PartyNames
  BY <1>1 DEF Join, EntityInv, JoinKnows
<1>3. /\ ent' = [ent EXCEPT ![j.drop] = "gone"]
      /\ aka' = [aka EXCEPT ![j.keep] = @ \cup j.adds, ![j.drop] = {}]
      /\ joining' = {} /\ overtaken' = overtaken \cup Overtakes(j)
      /\ UNCHANGED <<display, mention, namings, joins>>
  BY DEF CommitJoin
<1>4. /\ ent' \in [Ents -> {"none", "making", "live", "gone"}]
      /\ ent'[j.drop] = "gone" /\ \A x \in Ents \ {j.drop} : ent'[x] = ent[x]
  BY <1>2, <1>3, EntityTypes
<1>5. /\ aka' \in [Ents -> SUBSET PartyNames]
      /\ aka'[j.drop] = {} /\ aka'[j.keep] = aka[j.keep] \cup j.adds
      /\ \A x \in Ents \ {j.keep, j.drop} : aka'[x] = aka[x]
  BY <1>2, <1>3, EntityTypes
<1>6. QED  BY <1>3, <1>4, <1>5

\* What it leaves of the transactions of permits.
LEMMA JoinedDrafts ==
  ASSUME EntityInv, NEW j \in joining, CommitJoin(j), ~JoinFails(j)
  PROVE  /\ NamingOfFolders'
         /\ \A p \in Folders : naming'[p] # NoNaming =>
              /\ naming[p] # NoNaming /\ naming'[p] \in Draft
              /\ naming'[p].mention = naming[p].mention
              /\ naming'[p].entity = naming[p].entity /\ naming'[p].adds = naming[p].adds
              /\ naming'[p].broken <=>
                   \/ naming[p].broken \/ naming[p].entity = j.drop
                   \/ j.drop \in naming[p].mine /\ p \notin Rewired(j)
              /\ naming'[p].late <=> naming[p].late \/ p \in Overtakes(j)
              /\ naming'[p].mine = IF j.drop \in naming[p].mine
                                   THEN (naming[p].mine \ {j.drop}) \cup {j.keep}
                                   ELSE naming[p].mine
<1>1. naming' = [p \in Folders |->
        IF naming[p] = NoNaming THEN NoNaming
        ELSE [naming[p] EXCEPT
          !.broken = @ \/ naming[p].entity = j.drop
                       \/ (j.drop \in naming[p].mine /\ p \notin Rewired(j)),
          !.late = @ \/ p \in Overtakes(j),
          !.mine = IF j.drop \in @ THEN (@ \ {j.drop}) \cup {j.keep} ELSE @]]
  BY DEF CommitJoin
<1>2. joining \subseteq Join
  BY EntityTypes
<1>3. j.keep \in Ents
  BY <1>2 DEF Join
<1>4. ASSUME NEW p \in Folders, naming'[p] # NoNaming
      PROVE  /\ naming[p] # NoNaming /\ naming'[p] \in Draft
             /\ naming'[p].mention = naming[p].mention
             /\ naming'[p].entity = naming[p].entity /\ naming'[p].adds = naming[p].adds
             /\ naming'[p].broken <=>
                  \/ naming[p].broken \/ naming[p].entity = j.drop
                  \/ j.drop \in naming[p].mine /\ p \notin Rewired(j)
             /\ naming'[p].late <=> naming[p].late \/ p \in Overtakes(j)
             /\ naming'[p].mine = IF j.drop \in naming[p].mine
                                  THEN (naming[p].mine \ {j.drop}) \cup {j.keep}
                                  ELSE naming[p].mine
  <2> DEFINE n == naming[p]
             u == n.entity = j.drop \/ (j.drop \in n.mine /\ p \notin Rewired(j))
             w == p \in Overtakes(j)
             M == IF j.drop \in n.mine THEN (n.mine \ {j.drop}) \cup {j.keep} ELSE n.mine
             d == naming'[p]
  <2>1. n # NoNaming /\ n \in Draft
    BY <1>1, <1>4, EntityTypes
  <2>2. u \in BOOLEAN /\ w \in BOOLEAN
    OBVIOUS
  <2>3. M \in SUBSET Ents
    BY <1>3, <2>1 DEF Draft
  <2>4. d = [n EXCEPT !.broken = @ \/ u, !.late = @ \/ w, !.mine = M]
    BY <1>1, <2>1
  <2>5. n \in [mention: Mentions, entity: Ents, had: BOOLEAN, adds: SUBSET PartyNames,
               mine: SUBSET Ents, broken: BOOLEAN, late: BOOLEAN]
    BY <2>1 DEF Draft
  <2> HIDE DEF n, u, w, M, d
  <2>6. /\ d \in [mention: Mentions, entity: Ents, had: BOOLEAN, adds: SUBSET PartyNames,
                  mine: SUBSET Ents, broken: BOOLEAN, late: BOOLEAN]
        /\ d.mention = n.mention /\ d.entity = n.entity /\ d.adds = n.adds /\ d.mine = M
        /\ d.broken <=> n.broken \/ u
        /\ d.late <=> n.late \/ w
    BY <2>2, <2>3, <2>4, <2>5, DraftAfterJoin, ZenonT(60)
  <2>7. QED  BY <2>1, <2>6 DEF Draft, n, u, w, M, d
<1>5. NamingOfFolders'
  BY <1>1 DEF NamingOfFolders
<1>6. QED  BY <1>4, <1>5

LEMMA CommitJoinStep ==
  ASSUME EntityInv, NEW j \in joining, CommitJoin(j)
  PROVE  EntityInv'
<1> DEFINE k == j.keep
           d == j.drop
<1>1. CASE JoinFails(j)
  <2>1. /\ joining' = {}
        /\ UNCHANGED <<ent, display, aka, tie, mention, naming, overtaken, namings, joins>>
    BY <1>1 DEF CommitJoin
  <2>2. EntityTypeOK'
    BY <2>1, EntityTypes, EntityTypesBack
  <2>3. NamingOfFolders' /\ EntitiesStay' /\ DraftsKnow' /\ Related'
    BY <2>1 DEF EntityInv, NamingOfFolders, EntitiesStay, DraftsKnow, Related, OnlyTo, Ents
  <2>4. JoinKnows'
    BY <2>1 DEF JoinKnows
  <2>5. QED  BY <2>2, <2>3, <2>4 DEF EntityInv
<1>2. CASE ~JoinFails(j)
  <2>1. /\ k \in Ents /\ d \in Ents /\ k # d
        /\ tie' \in [Folders -> [Ents -> Tie]]
        /\ \A p \in Folders :
             /\ tie'[p][d] = "absent"
             /\ \A x \in Ents \ {k, d} : tie'[p][x] = tie[p][x]
             /\ tie'[p][k] = IF p \in Twice(j) THEN Combined(j, p)
                             ELSE IF p \in Rewired(j) THEN tie[p][d]
                             ELSE tie[p][k]
    BY <1>2, JoinedTies
  <2>2. /\ ent' \in [Ents -> {"none", "making", "live", "gone"}]
        /\ ent'[d] = "gone" /\ \A x \in Ents \ {d} : ent'[x] = ent[x]
        /\ aka' \in [Ents -> SUBSET PartyNames]
        /\ aka'[d] = {} /\ aka'[k] = aka[k] \cup j.adds
        /\ \A x \in Ents \ {k, d} : aka'[x] = aka[x]
        /\ joining' = {} /\ overtaken' = overtaken \cup Overtakes(j)
        /\ UNCHANGED <<display, mention, namings, joins>>
    BY <1>2, JoinedNames
  <2>3. /\ NamingOfFolders'
        /\ \A p \in Folders : naming'[p] # NoNaming =>
             /\ naming[p] # NoNaming /\ naming'[p] \in Draft
             /\ naming'[p].mention = naming[p].mention
             /\ naming'[p].entity = naming[p].entity /\ naming'[p].adds = naming[p].adds
             /\ naming'[p].broken <=>
                  \/ naming[p].broken \/ naming[p].entity = d
                  \/ d \in naming[p].mine /\ p \notin Rewired(j)
             /\ naming'[p].late <=> naming[p].late \/ p \in Overtakes(j)
             /\ naming'[p].mine = IF d \in naming[p].mine
                                  THEN (naming[p].mine \ {d}) \cup {k}
                                  ELSE naming[p].mine
    BY <1>2, JoinedDrafts
  <2>4. /\ ent[k] = "live" /\ ent[d] = "live"
        /\ \A p \in Folders :
             /\ j.kept[p] # "absent" => tie[p][k] # "absent"
             /\ j.dropped[p] # "absent" => tie[p][d] # "absent"
             /\ p \notin j.since =>
                  /\ j.kept[p] = tie[p][k] /\ j.dropped[p] = tie[p][d]
                  /\ (mention[p] # NoMention /\ p \notin overtaken /\ tie[p][d] = "current")
                        => mention[p].name \in aka[k] \cup j.adds
    BY DEF EntityInv, JoinKnows
  <2>5. /\ \A p \in Folders : p \in Twice(j) <=> j.kept[p] # "absent" /\ j.dropped[p] # "absent"
        /\ \A p \in Folders : p \in Rewired(j) <=> j.kept[p] = "absent" /\ j.dropped[p] # "absent"
        /\ \A p \in Folders : p \in Overtakes(j) <=> p \in j.since /\ tie[p][d] # "absent"
        /\ \A p \in Rewired(j) : tie[p][k] = "absent"
        /\ \A p \in Folders : Combined(j, p) =
             IF j.kept[p] = "past" /\ j.dropped[p] = "current" THEN "current" ELSE tie[p][k]
        /\ Overtakes(j) \subseteq Folders
    <3>1. joining \subseteq Join
      BY EntityTypes
    <3>2. j.since \subseteq Folders
      BY <3>1 DEF Join
    <3>3. QED  BY <1>2, <3>2 DEF Twice, Rewired, Overtakes, JoinFails, Combined
  <2> HIDE DEF k, d
  \* A relationship with the survivor stays, and one with the duplicate that
  \* the merge moves becomes one with the survivor.
  <2>6. \A p \in Folders :
          /\ tie[p][k] # "absent" => tie'[p][k] # "absent"
          /\ p \in Rewired(j) => tie'[p][k] # "absent"
          /\ tie'[p][k] # "absent" => tie[p][k] # "absent" \/ p \in Rewired(j)
    BY <2>1, <2>4, <2>5
  <2>7. EntityTypeOK'
    <3>1. \A x \in Ents : ent'[x] = "gone" => aka'[x] = {}
      BY <2>1, <2>2, <2>4, EntityTypes
    <3>2. ASSUME NEW p \in Folders, NEW x \in Ents, tie'[p][x] # "absent"
          PROVE  ent'[x] = "live"
      BY <2>1, <2>2, <2>4, <3>2, EntityTypes
    <3>3. joining' \subseteq Join /\ overtaken' \subseteq Folders
      BY <2>2, <2>5, EntityTypes
    <3>4. \A p \in Folders : naming'[p] # NoNaming => naming'[p] \in Draft
      BY <2>3
    <3>5. QED  BY <2>1, <2>2, <3>1, <3>2, <3>3, <3>4, EntityTypes, EntityTypesBack
  <2>8. EntitiesStay'
    <3> SUFFICES ASSUME NEW p \in Folders, naming'[p] # NoNaming
                 PROVE  /\ ent'[naming[p].entity] # "none"
                        /\ ent'[naming[p].entity] = "gone" => naming'[p].broken
                        /\ \A q \in Folders :
                             q # p /\ naming'[q] # NoNaming
                             /\ naming[q].entity = naming[p].entity =>
                               ent'[naming[p].entity] # "making"
      <4>1. \A p \in Folders : naming'[p] # NoNaming => naming'[p].entity = naming[p].entity
        BY <2>3
      <4>2. QED  BY <4>1 DEF EntitiesStay
    <3>1. naming[p] # NoNaming /\ naming[p] \in Draft
      BY <2>3, EntityTypes
    <3>2. naming[p].entity \in Ents
      BY <3>1 DEF Draft
    <3>3. /\ ent[naming[p].entity] # "none"
          /\ ent[naming[p].entity] = "gone" => naming[p].broken
          /\ \A q \in Folders :
               q # p /\ naming[q] # NoNaming /\ naming[q].entity = naming[p].entity =>
                 ent[naming[p].entity] # "making"
      BY <3>1 DEF EntityInv, EntitiesStay
    <3>4. CASE naming[p].entity = d
      <4>1. naming'[p].broken
        BY <2>3, <3>4
      <4>2. QED  BY <2>2, <3>4, <4>1
    <3>5. CASE naming[p].entity # d
      <4>1. ent'[naming[p].entity] = ent[naming[p].entity]
        BY <2>2, <3>2, <3>5
      <4>2. naming[p].broken => naming'[p].broken
        BY <2>3
      <4>3. QED  BY <2>3, <3>3, <4>1, <4>2
    <3>6. QED  BY <3>4, <3>5
  <2>9. DraftsKnow'
    <3> SUFFICES ASSUME NEW p \in Folders, naming'[p] # NoNaming
                 PROVE  /\ naming'[p].late => p \in overtaken'
                        /\ ~naming'[p].broken =>
                             /\ naming[p].mention.name \in aka'[naming[p].entity] \cup naming[p].adds
                             /\ \A x \in naming'[p].mine : tie'[p][x] # "absent"
                             /\ ~naming'[p].late =>
                                  \A x \in Ents : tie'[p][x] = "current" => x \in naming'[p].mine
      BY <2>3 DEF DraftsKnow
    <3>1. naming[p] # NoNaming /\ naming[p] \in Draft
      BY <2>3, EntityTypes
    <3>2. naming[p].entity \in Ents /\ naming[p].mine \subseteq Ents
      BY <3>1 DEF Draft
    <3>3. /\ naming[p].late => p \in overtaken
          /\ ~naming[p].broken =>
               /\ naming[p].mention.name \in aka[naming[p].entity] \cup naming[p].adds
               /\ \A x \in naming[p].mine : tie[p][x] # "absent"
               /\ ~naming[p].late =>
                    \A x \in Ents : tie[p][x] = "current" => x \in naming[p].mine
      BY <3>1 DEF EntityInv, DraftsKnow
    <3>4. naming'[p].late => p \in overtaken'
      BY <2>2, <2>3, <3>3
    <3>5. ASSUME ~naming'[p].broken
          PROVE  naming[p].mention.name \in aka'[naming[p].entity] \cup naming[p].adds
      <4>1. ~naming[p].broken /\ naming[p].entity # d
        BY <2>3, <3>5
      <4>2. aka[naming[p].entity] \subseteq aka'[naming[p].entity]
        BY <2>1, <2>2, <3>2, <4>1
      <4>3. QED  BY <3>3, <4>1, <4>2
    <3>6. ASSUME ~naming'[p].broken, NEW x \in naming'[p].mine
          PROVE  tie'[p][x] # "absent"
      <4>1. ~naming[p].broken /\ (d \in naming[p].mine => p \in Rewired(j))
        BY <2>3, <3>6
      <4>2. naming'[p].mine = IF d \in naming[p].mine
                              THEN (naming[p].mine \ {d}) \cup {k} ELSE naming[p].mine
        BY <2>3
      <4>3. CASE x = k /\ p \in Rewired(j)
        BY <2>6, <4>3
      <4>4. CASE x \in naming[p].mine /\ x # d
        BY <2>1, <2>6, <3>2, <3>3, <4>1, <4>4
      <4>5. QED  BY <3>6, <4>1, <4>2, <4>3, <4>4
    <3>7. ASSUME ~naming'[p].broken, ~naming'[p].late, NEW x \in Ents, tie'[p][x] = "current"
          PROVE  x \in naming'[p].mine
      <4>1. /\ ~naming[p].broken /\ ~naming[p].late /\ p \notin Overtakes(j)
            /\ d \in naming[p].mine => p \in Rewired(j)
        BY <2>3, <3>7
      <4>2. x # d
        BY <2>1, <3>7
      <4>3. CASE x # k
        <5>1. tie[p][x] = "current"
          BY <2>1, <3>7, <4>2, <4>3
        <5>2. QED  BY <2>3, <3>3, <4>1, <4>2, <5>1
      <4>4. CASE x = k
        <5>1. tie[p][k] = "current" \/ tie[p][d] = "current"
          BY <2>1, <2>4, <2>5, <3>7, <4>1, <4>4
        <5>2. k \in naming[p].mine \/ d \in naming[p].mine
          BY <2>1, <3>3, <4>1, <5>1
        <5>3. QED  BY <2>1, <2>3, <4>4, <5>2
      <4>5. QED  BY <4>3, <4>4
    <3>8. QED  BY <3>4, <3>5, <3>6, <3>7
  <2>10. JoinKnows'
    BY <2>2 DEF JoinKnows
  <2>11. Related'
    <3> SUFFICES ASSUME NEW p \in Folders, mention[p] # NoMention,
                        p \notin overtaken, p \notin Overtakes(j)
                 PROVE  \E x \in Ents : /\ tie'[p][x] = "current" /\ mention[p].name \in aka'[x]
                                        /\ \A y \in Ents : tie'[p][y] = "current" => y = x
      BY <2>2 DEF Related, OnlyTo, Ents
    <3>1. PICK x \in Ents : OnlyTo(p, x)
      BY DEF EntityInv, Related
    <3>2. /\ tie[p][x] = "current" /\ mention[p].name \in aka[x]
          /\ \A y \in Ents : tie[p][y] = "current" => y = x
      BY <3>1 DEF OnlyTo
    <3>3. tie'[p][k] = "current" => tie[p][k] = "current" \/ tie[p][d] = "current"
      BY <2>1, <2>4, <2>5
    <3>4. CASE x = d
      <4>1. p \notin j.since
        BY <2>5, <3>2, <3>4
      <4>2. j.dropped[p] = "current" /\ j.kept[p] = tie[p][k] /\ tie[p][k] # "current"
        BY <2>1, <2>4, <3>2, <3>4, <4>1
      <4>3. tie \in [Folders -> [Ents -> Tie]]
        BY EntityTypes
      <4>4. tie[p][k] \in {"absent", "past", "current"}
        BY <2>1, <4>3 DEF Tie
      <4>5. tie'[p][k] = "current"
        BY <2>1, <2>5, <3>2, <3>4, <4>2, <4>4
      <4>6. mention[p].name \in aka'[k]
        BY <2>2, <2>4, <3>2, <3>4, <4>1
      <4>7. \A y \in Ents : tie'[p][y] = "current" => y = k
        BY <2>1, <3>2, <3>4
      <4>8. QED  BY <2>1, <4>5, <4>6, <4>7
    <3>5. CASE x # d
      <4>1. tie[p][d] # "current"
        BY <2>1, <3>2, <3>5
      <4>2. mention[p].name \in aka'[x]
        BY <2>1, <2>2, <3>2, <3>5
      <4>3. tie'[p][x] = "current"
        BY <2>1, <2>4, <2>5, <3>2, <3>5
      <4>4. \A y \in Ents : tie'[p][y] = "current" => y = x
        BY <2>1, <3>2, <3>3, <4>1
      <4>5. QED  BY <4>2, <4>3, <4>4
    <3>6. QED  BY <3>4, <3>5
  <2>12. QED  BY <2>3, <2>7, <2>8, <2>9, <2>10, <2>11 DEF EntityInv
<1>3. QED  BY <1>1, <1>2

LEMMA EntitySteps == EntityInv /\ [EntityNext]_entityVars => EntityInv'
<1> SUFFICES ASSUME EntityInv, [EntityNext]_entityVars PROVE EntityInv'
  OBVIOUS
<1>1. ASSUME NEW p \in Folders, NEW m \in Mentions, NameParty(p, m)  PROVE  EntityInv'
  BY <1>1, NamePartyStep
<1>2. ASSUME NEW p \in Folders, CommitNaming(p)  PROVE  EntityInv'
  BY <1>2, NamingFailsStep, NamingCommitsStep
<1>3. ASSUME NEW k \in Ents, NEW d \in Ents, AskJoin(k, d)  PROVE  EntityInv'
  BY <1>3, AskJoinStep
<1>4. ASSUME NEW j \in joining, CommitJoin(j)  PROVE  EntityInv'
  BY <1>4, CommitJoinStep
<1>5. CASE UNCHANGED entityVars
  <2>1. UNCHANGED <<ent, display, aka, tie, mention, naming, joining, overtaken, namings, joins>>
    BY <1>5 DEF entityVars
  <2>2. EntityTypeOK'
    BY <2>1, EntityTypes, EntityTypesBack
  <2>3. NamingOfFolders' /\ EntitiesStay' /\ DraftsKnow' /\ JoinKnows' /\ Related'
    BY <2>1 DEF EntityInv, NamingOfFolders, EntitiesStay, DraftsKnow, JoinKnows, Related,
                OnlyTo, Ents
  <2>4. QED  BY <2>2, <2>3 DEF EntityInv
<1>6. QED  BY <1>1, <1>2, <1>3, <1>4, <1>5 DEF EntityNext

LEMMA EntitiesHold == EntitySpec => []EntityInv
<1>1. QED  BY EntityStarts, EntitySteps, PTL DEF EntitySpec

\* The rows and the transactions of permits and merges have the shapes of
\* resolve_entity and merge_graph_entities, and a merged entity keeps no alias
\* and no relationship, however permits and merges overlap.
THEOREM EntitiesTyped == EntitySpec => []EntityTypeOK
<1>1. EntityInv => EntityTypeOK
  BY DEF EntityInv
<1>2. QED  BY EntitiesHold, <1>1, PTL

\* Through any merges, a permit stays related to one party that goes by the
\* name it gives, unless its transaction overtook a merge of that party
\* (create_relationship and merge_graph_entities).
THEOREM EachPermitHasItsParty == EntitySpec => []RelatedToOneParty
<1>1. EntityInv => RelatedToOneParty
  <2> SUFFICES ASSUME EntityInv, NEW p \in Folders, mention[p] # NoMention, p \notin overtaken
               PROVE  \E e \in Ents : /\ {x \in Ents : tie[p][x] = "current"} = {e}
                                      /\ mention[p].name \in aka[e]
    BY DEF RelatedToOneParty
  <2>1. PICK e \in Ents : OnlyTo(p, e)
    BY DEF EntityInv, Related
  <2>2. {x \in Ents : tie[p][x] = "current"} = {e}
    BY <2>1 DEF OnlyTo
  <2>3. QED  BY <2>1, <2>2 DEF OnlyTo
<1>2. QED  BY EntitiesHold, <1>1, PTL

-----------------------------------------------------------------------------
(* Publication.                                                            *)

\* The latest review approves, and is not the author's.
ApprovedByAnother ==
  /\ Len(verdicts) > 0
  /\ verdicts[Len(verdicts)].decision = "approved"
  /\ author # NoAnalyst => verdicts[Len(verdicts)].by # author

\* The lock of the revision's row lets one request in, and what it has read is
\* still so when it commits.
ReadUnderTheLock ==
  /\ \A d, e \in releasing : d = e
  /\ \A d \in releasing :
       /\ d.kind = "review" => ~Published
       /\ d.kind = "published" => /\ ~Published /\ ApprovedByAnother
                                  /\ d.version = Len(releases) /\ d.review = Len(verdicts)
       /\ d.kind = "withdrawn" => Published /\ d.version = Len(releases)

ReleaseRowsTyped ==
  /\ author \in Analysts \cup {NoAnalyst}
  /\ verdicts \in Seq([decision: {"approved", "rejected"}, by: Analysts \cup {NoAnalyst}])
  /\ releases \in Seq([action: {"published", "withdrawn"}, review: Nat])
  /\ \A i \in DOMAIN releases : releases[i].review <= Len(verdicts)
  /\ staff \subseteq Analysts
  /\ releaseJobs \in 0..MaxReleaseJobs

RequestsTyped ==
  \A d \in releasing :
    \/ d \in [kind: {"review"}, by: Analysts, decision: {"approved", "rejected"}]
    \/ d \in [kind: {"published", "withdrawn"}, by: Analysts, version: 0..Len(releases),
              review: 0..Len(verdicts)]

ReleaseInv ==
  /\ ReleaseRowsTyped /\ RequestsTyped /\ ReadUnderTheLock
  /\ ReleasedOnLatestApproval
  /\ Published => ApprovedByAnother

\* Odd and even alternate.
LEMMA Parity == \A n \in Nat : (n % 2 = 1) <=> ~((n + 1) % 2 = 1)
  OBVIOUS

LEMMA ReleaseStarts == ReleaseInit => ReleaseInv
<1> SUFFICES ASSUME ReleaseInit PROVE ReleaseInv
  OBVIOUS
<1>1. ReleaseRowsTyped /\ RequestsTyped
  BY ReleaseAssumption DEF ReleaseInit, ReleaseRowsTyped, RequestsTyped
<1>2. ReadUnderTheLock /\ ReleasedOnLatestApproval /\ ~Published
  BY DEF ReleaseInit, ReadUnderTheLock, ReleasedOnLatestApproval, Published
<1>3. QED  BY <1>1, <1>2 DEF ReleaseInv

\* Whether the revision is published is told by the number of its releases.
LEMMA PublishedIsOdd ==
  ASSUME ReleaseInv
  PROVE  Published <=> Len(releases) % 2 = 1
<1>1. releases \in Seq([action: {"published", "withdrawn"}, review: Nat])
  BY DEF ReleaseInv, ReleaseRowsTyped
<1>2. Len(releases) \in Nat /\ DOMAIN releases = 1..Len(releases)
  BY <1>1
<1>3. CASE releases = <<>>
  <2>1. Len(releases) = 0 /\ 0 % 2 = 0
    BY <1>3
  <2>2. QED  BY <1>3, <2>1 DEF Published
<1>4. CASE releases # <<>>
  <2>1. Len(releases) \in DOMAIN releases
    BY <1>1, <1>2, <1>4
  <2>2. QED  BY <1>4, <2>1 DEF Published, ReleaseInv, ReleasedOnLatestApproval
<1>5. QED  BY <1>3, <1>4

\* A request reads under the lock.
LEMMA AskReleaseStep ==
  ASSUME ReleaseInv,
         \/ \E u \in staff, v \in {"approved", "rejected"} : AskReview(u, v)
         \/ \E u \in staff : AskPublish(u) \/ AskWithdraw(u)
  PROVE  ReleaseInv'
<1>1. PICK d : Ask(d) /\ releasing' = {d}
  BY DEF AskReview, AskPublish, AskWithdraw, Ask, RowFree
<1>2. /\ UNCHANGED <<author, verdicts, releases, staff>>
      /\ releaseJobs' = releaseJobs + 1 /\ releaseJobs < MaxReleaseJobs
      /\ releasing = {}
  BY <1>1 DEF Ask, RowFree
<1>3. /\ verdicts \in Seq([decision: {"approved", "rejected"}, by: Analysts \cup {NoAnalyst}])
      /\ releases \in Seq([action: {"published", "withdrawn"}, review: Nat])
      /\ Len(verdicts) \in Nat /\ Len(releases) \in Nat
      /\ verdicts # <<>> => Len(verdicts) > 0
      /\ releaseJobs \in 0..MaxReleaseJobs /\ staff \subseteq Analysts
  BY DEF ReleaseInv, ReleaseRowsTyped
<1>4. /\ \/ d \in [kind: {"review"}, by: Analysts, decision: {"approved", "rejected"}]
         \/ d \in [kind: {"published", "withdrawn"}, by: Analysts, version: 0..Len(releases),
                   review: 0..Len(verdicts)]
      /\ d.kind = "review" => ~Published
      /\ d.kind = "published" => /\ ~Published /\ ApprovedByAnother
                                 /\ d.version = Len(releases) /\ d.review = Len(verdicts)
      /\ d.kind = "withdrawn" => Published /\ d.version = Len(releases)
  <2>1. CASE \E u \in staff, v \in {"approved", "rejected"} : AskReview(u, v)
    <3>1. PICK u \in staff, v \in {"approved", "rejected"} : AskReview(u, v)
      BY <2>1
    <3>2. d = [kind |-> "review", by |-> u, decision |-> v] /\ ~Published /\ u \in Analysts
      BY <1>1, <1>3, <3>1 DEF AskReview, Ask, RowFree
    <3>3. QED  BY <3>2
  <2>2. CASE \E u \in staff : AskPublish(u)
    <3> PICK u \in staff : AskPublish(u)
      BY <2>2
    <3>1. d = [kind |-> "published", by |-> u, version |-> Len(releases), review |-> Len(verdicts)]
          /\ u \in Analysts /\ ~Published /\ verdicts # <<>> /\ Independent(verdicts[Len(verdicts)])
      BY <1>1, <1>3 DEF AskPublish, Ask, RowFree
    <3>2. ApprovedByAnother
      BY <1>3, <3>1 DEF Independent, ApprovedByAnother
    <3>3. QED  BY <1>3, <3>1, <3>2
  <2>3. CASE \E u \in staff : AskWithdraw(u)
    <3> PICK u \in staff : AskWithdraw(u)
      BY <2>3
    <3>1. d = [kind |-> "withdrawn", by |-> u, version |-> Len(releases), review |-> 0]
          /\ u \in Analysts /\ Published
      BY <1>1, <1>3 DEF AskWithdraw, Ask, RowFree
    <3>2. QED  BY <1>3, <3>1
  <2>4. QED  BY <2>1, <2>2, <2>3
<1>5. ReleaseRowsTyped'
  BY <1>2, <1>3, ReleaseAssumption DEF ReleaseInv, ReleaseRowsTyped
<1>6. RequestsTyped'
  BY <1>1, <1>2, <1>4 DEF RequestsTyped
<1>7. ReadUnderTheLock'
  BY <1>1, <1>2, <1>4 DEF ReadUnderTheLock, Published, ApprovedByAnother
<1>8. ReleasedOnLatestApproval' /\ (Published' => ApprovedByAnother')
  BY <1>2 DEF ReleaseInv, ReleasedOnLatestApproval, Published, ApprovedByAnother
<1>9. QED  BY <1>5, <1>6, <1>7, <1>8 DEF ReleaseInv

\* A review is appended only to what is not published.
LEMMA VerdictStep ==
  ASSUME ReleaseInv, NEW d \in releasing, CommitVerdict(d)
  PROVE  ReleaseInv'
<1>1. /\ releasing' = {} /\ ~Published
      /\ UNCHANGED <<author, releases, staff, releaseJobs>>
  BY DEF CommitVerdict, ReleaseInv, ReadUnderTheLock
<1>2. /\ d.by \in Analysts /\ d.decision \in {"approved", "rejected"}
      /\ verdicts \in Seq([decision: {"approved", "rejected"}, by: Analysts \cup {NoAnalyst}])
  BY DEF CommitVerdict, ReleaseInv, RequestsTyped, ReleaseRowsTyped
<1>3. /\ verdicts' \in Seq([decision: {"approved", "rejected"}, by: Analysts \cup {NoAnalyst}])
      /\ Len(verdicts) \in Nat /\ Len(verdicts') \in Nat /\ Len(verdicts) <= Len(verdicts')
  <2>1. verdicts' = verdicts \/ verdicts' = Append(verdicts, [decision |-> d.decision, by |-> d.by])
    BY DEF CommitVerdict
  <2>2. [decision |-> d.decision, by |-> d.by]
          \in [decision: {"approved", "rejected"}, by: Analysts \cup {NoAnalyst}]
    BY <1>2
  <2> DEFINE Opinion == [decision: {"approved", "rejected"}, by: Analysts \cup {NoAnalyst}]
             opinion == [decision |-> d.decision, by |-> d.by]
  <2>3. verdicts \in Seq(Opinion) /\ opinion \in Opinion
        /\ (verdicts' = verdicts \/ verdicts' = Append(verdicts, opinion))
    BY <1>2, <2>1, <2>2
  <2> HIDE DEF Opinion, opinion
  <2>4. verdicts' \in Seq(Opinion) /\ Len(verdicts) \in Nat /\ Len(verdicts') \in Nat
        /\ Len(verdicts) <= Len(verdicts')
    BY <2>3
  <2>5. QED  BY <2>4 DEF Opinion
<1>4. \A i \in DOMAIN releases : releases[i].review \in Nat /\ releases[i].review <= Len(verdicts)
  <2> DEFINE Step == [action: {"published", "withdrawn"}, review: Nat]
  <2>1. releases \in Seq(Step) /\ \A s \in Step : s.review \in Nat
    BY DEF ReleaseInv, ReleaseRowsTyped
  <2> HIDE DEF Step
  <2>2. \A i \in DOMAIN releases : releases[i] \in Step
    BY <2>1
  <2>3. QED  BY <2>1, <2>2 DEF ReleaseInv, ReleaseRowsTyped
<1>5. ReleaseRowsTyped'
  BY <1>1, <1>3, <1>4 DEF ReleaseInv, ReleaseRowsTyped
<1>6. RequestsTyped' /\ ReadUnderTheLock'
  BY <1>1 DEF RequestsTyped, ReadUnderTheLock
<1>7. ReleasedOnLatestApproval' /\ ~Published'
  BY <1>1 DEF ReleaseInv, ReleasedOnLatestApproval, Published
<1>8. QED  BY <1>5, <1>6, <1>7 DEF ReleaseInv

\* A release or a withdrawal by a user there still is is appended, under the number
\* it was asked for.
LEMMA AppendedStep ==
  ASSUME ReleaseInv, NEW d \in releasing, CommitRelease(d), d.by \in staff
  PROVE  ReleaseInv'
<1> DEFINE row == [action |-> d.kind, review |-> d.review]
<1>1. /\ d.kind \in {"published", "withdrawn"} /\ d.review \in 0..Len(verdicts)
      /\ releases \in Seq([action: {"published", "withdrawn"}, review: Nat])
      /\ Len(verdicts) \in Nat
  BY DEF CommitRelease, ReleaseInv, RequestsTyped, ReleaseRowsTyped
<1>2. /\ releasing' = {} /\ releases' = Append(releases, row)
      /\ UNCHANGED <<author, verdicts, staff, releaseJobs>>
  BY <1>1 DEF CommitRelease, ReleaseInv, ReadUnderTheLock
<1>3. row \in [action: {"published", "withdrawn"}, review: Nat] /\ row.review <= Len(verdicts)
      /\ row.action = d.kind
  BY <1>1
<1> HIDE DEF row
<1>4. /\ releases' \in Seq([action: {"published", "withdrawn"}, review: Nat])
      /\ Len(releases') = Len(releases) + 1 /\ Len(releases) \in Nat
      /\ DOMAIN releases = 1..Len(releases) /\ DOMAIN releases' = 1..(Len(releases) + 1)
      /\ releases'[Len(releases) + 1] = row
      /\ \A i \in 1..Len(releases) : releases'[i] = releases[i]
      /\ releases' # <<>>
  BY <1>1, <1>2, <1>3
<1>5. ReleaseRowsTyped'
  <2>1. \A i \in DOMAIN releases' : releases'[i].review <= Len(verdicts)
    BY <1>3, <1>4, SMTT(30) DEF ReleaseInv, ReleaseRowsTyped
  <2>2. QED  BY <1>2, <1>4, <2>1 DEF ReleaseInv, ReleaseRowsTyped
<1>6. RequestsTyped' /\ ReadUnderTheLock'
  BY <1>2 DEF RequestsTyped, ReadUnderTheLock
<1>7. (row.action = "published") <=> (Len(releases) + 1) % 2 = 1
  <2>1. (row.action = "published") <=> ~Published
    BY <1>1, <1>3 DEF ReleaseInv, ReadUnderTheLock
  <2>2. Published <=> Len(releases) % 2 = 1
    BY PublishedIsOdd
  <2>3. QED  BY <1>4, <2>1, <2>2, Parity
<1>8. \A i \in DOMAIN releases' : (releases'[i].action = "published") = (i % 2 = 1)
  <2>1. \A i \in 1..Len(releases) : (releases[i].action = "published") = (i % 2 = 1)
    BY <1>4 DEF ReleaseInv, ReleasedOnLatestApproval
  <2>2. ASSUME NEW i \in 1..Len(releases)
        PROVE  (releases'[i].action = "published") = (i % 2 = 1)
    BY <1>4, <2>1
  <2>3. (releases'[Len(releases) + 1].action = "published") = ((Len(releases) + 1) % 2 = 1)
    BY <1>4, <1>7
  <2>4. \A i \in 1..(Len(releases) + 1) : i \in 1..Len(releases) \/ i = Len(releases) + 1
    BY <1>4
  <2>5. QED  BY <1>4, <2>2, <2>3, <2>4
<1>9. ASSUME Published'
      PROVE  releases'[Len(releases')].review = Len(verdicts') /\ ApprovedByAnother'
  <2>1. row.action = "published" /\ releases'[Len(releases')] = row
    BY <1>4, <1>9 DEF Published
  <2>2. d.kind = "published" /\ row.review = d.review
    BY <1>3, <2>1 DEF row
  <2>3. d.review = Len(verdicts) /\ ApprovedByAnother
    BY <2>2 DEF ReleaseInv, ReadUnderTheLock
  <2>4. QED  BY <1>2, <2>1, <2>2, <2>3 DEF ApprovedByAnother
<1>10. ReleasedOnLatestApproval'
  BY <1>8, <1>9 DEF ReleasedOnLatestApproval, ApprovedByAnother
<1>11. QED  BY <1>5, <1>6, <1>9, <1>10 DEF ReleaseInv

\* One by a user deleted meanwhile is refused.
LEMMA ReleaseStep ==
  ASSUME ReleaseInv, NEW d \in releasing, CommitRelease(d)
  PROVE  ReleaseInv'
<1>1. CASE d.by \in staff
  BY <1>1, AppendedStep
<1>2. CASE d.by \notin staff
  <2>1. /\ releasing' = {}
        /\ UNCHANGED <<author, verdicts, releases, staff, releaseJobs>>
    BY <1>2 DEF CommitRelease, ReleaseInv, ReadUnderTheLock
  <2>2. ReleaseRowsTyped' /\ RequestsTyped' /\ ReadUnderTheLock'
    BY <2>1 DEF ReleaseInv, ReleaseRowsTyped, RequestsTyped, ReadUnderTheLock
  <2>3. ReleasedOnLatestApproval' /\ (Published' => ApprovedByAnother')
    BY <2>1 DEF ReleaseInv, ReleasedOnLatestApproval, Published, ApprovedByAnother
  <2>4. QED  BY <2>2, <2>3 DEF ReleaseInv
<1>3. QED  BY <1>1, <1>2

\* The deletion of a user empties the columns that name it: a verdict keeps its
\* decision, and the author's own waits for the revision's lock.
LEMMA DeletionStep ==
  ASSUME ReleaseInv, NEW u \in Analysts, DeleteAnalyst(u)
  PROVE  ReleaseInv'
<1> DEFINE Opinion == [decision: {"approved", "rejected"}, by: Analysts \cup {NoAnalyst}]
<1>1. /\ u = author => releasing = {}
      /\ staff' = staff \ {u}
      /\ author' = IF author = u THEN NoAnalyst ELSE author
      /\ verdicts' = [i \in DOMAIN verdicts |->
                       IF verdicts[i].by = u THEN [verdicts[i] EXCEPT !.by = NoAnalyst]
                       ELSE verdicts[i]]
      /\ UNCHANGED <<releases, releasing, releaseJobs>>
  BY DEF DeleteAnalyst
<1>2. /\ verdicts \in Seq(Opinion) /\ author \in Analysts \cup {NoAnalyst}
      /\ Len(verdicts) \in Nat /\ DOMAIN verdicts = 1..Len(verdicts)
  BY DEF ReleaseInv, ReleaseRowsTyped
<1>3. \A i \in DOMAIN verdicts : verdicts[i] \in Opinion
  <2> HIDE DEF Opinion
  <2>1. QED  BY <1>2
<1>4. \A i \in DOMAIN verdicts :
        /\ verdicts'[i] \in Opinion /\ verdicts'[i].decision = verdicts[i].decision
        /\ verdicts'[i].by = IF verdicts[i].by = u THEN NoAnalyst ELSE verdicts[i].by
  <2> TAKE i \in DOMAIN verdicts
  <2>1. verdicts'[i] = IF verdicts[i].by = u THEN [verdicts[i] EXCEPT !.by = NoAnalyst]
                       ELSE verdicts[i]
    BY <1>1
  <2>2. QED  BY <1>3, <2>1
<1> HIDE DEF Opinion
<1>5. verdicts' \in Seq(Opinion) /\ Len(verdicts') = Len(verdicts)
  BY <1>1, <1>2, <1>4
<1>6. ReleaseRowsTyped'
  <2>1. author' \in Analysts \cup {NoAnalyst} /\ staff' \subseteq Analysts
    BY <1>1, <1>2 DEF ReleaseInv, ReleaseRowsTyped
  <2>2. QED  BY <1>1, <1>5, <2>1 DEF ReleaseInv, ReleaseRowsTyped, Opinion
<1>7. RequestsTyped'
  BY <1>1, <1>5 DEF ReleaseInv, RequestsTyped
<1>8. ApprovedByAnother => ApprovedByAnother'
  <2> SUFFICES ASSUME ApprovedByAnother PROVE ApprovedByAnother'
    OBVIOUS
  <2>1. Len(verdicts) \in DOMAIN verdicts
    BY <1>2 DEF ApprovedByAnother
  <2>2. QED  BY <1>1, <1>2, <1>4, <1>5, <2>1, ReleaseAssumption DEF ApprovedByAnother
<1>9. ReadUnderTheLock'
  BY <1>1, <1>5, <1>8 DEF ReleaseInv, ReadUnderTheLock, Published
<1>10. Published' = Published /\ (Published => ApprovedByAnother')
  BY <1>1, <1>8 DEF ReleaseInv, Published
<1>11. ReleasedOnLatestApproval'
  BY <1>1, <1>5, <1>10 DEF ReleaseInv, ReleasedOnLatestApproval, ApprovedByAnother
<1>12. QED  BY <1>6, <1>7, <1>9, <1>10, <1>11 DEF ReleaseInv

LEMMA ReleaseSteps == ReleaseInv /\ [ReleaseNext]_releaseVars => ReleaseInv'
<1> SUFFICES ASSUME ReleaseInv, [ReleaseNext]_releaseVars PROVE ReleaseInv'
  OBVIOUS
<1>1. CASE \/ \E u \in staff, v \in {"approved", "rejected"} : AskReview(u, v)
           \/ \E u \in staff : AskPublish(u) \/ AskWithdraw(u)
  BY <1>1, AskReleaseStep
<1>2. CASE \E d \in releasing : CommitVerdict(d) \/ CommitRelease(d)
  BY <1>2, VerdictStep, ReleaseStep
<1>3. CASE \E u \in Analysts : DeleteAnalyst(u)
  BY <1>3, DeletionStep
<1>4. CASE UNCHANGED releaseVars
  <2>1. UNCHANGED <<author, verdicts, releases, releasing, staff, releaseJobs>>
    BY <1>4 DEF releaseVars
  <2>2. QED
    BY <2>1 DEF ReleaseInv, ReleaseRowsTyped, RequestsTyped, ReadUnderTheLock,
                ReleasedOnLatestApproval, Published, ApprovedByAnother
<1>5. QED  BY <1>1, <1>2, <1>3, <1>4 DEF ReleaseNext

LEMMA ReleasesHold == ReleaseSpec => []ReleaseInv
<1>1. QED  BY ReleaseStarts, ReleaseSteps, PTL DEF ReleaseSpec

\* The rows and the requests keep their shapes; a release names a review there is.
THEOREM ReleasesTyped == ReleaseSpec => []ReleaseTypeOK
<1>1. ReleaseInv => ReleaseTypeOK
  <2> SUFFICES ASSUME ReleaseInv PROVE ReleaseTypeOK
    OBVIOUS
  <2> DEFINE Step == [action: {"published", "withdrawn"}, review: Nat]
             Narrow == [action: {"published", "withdrawn"}, review: 0..Len(verdicts)]
  <2>1. releases \in Seq(Step) /\ Len(verdicts) \in Nat
    BY DEF ReleaseInv, ReleaseRowsTyped
  <2>2. \A s \in Step : s.review <= Len(verdicts) => s \in Narrow
    BY <2>1
  <2> HIDE DEF Step, Narrow
  <2>3. \A i \in DOMAIN releases : releases[i] \in Narrow
    BY <2>1, <2>2 DEF ReleaseInv, ReleaseRowsTyped
  <2>4. releases \in Seq(Narrow)
    BY <2>1, <2>3
  <2>5. QED
    BY <2>4 DEF Narrow, ReleaseInv, ReleaseRowsTyped, RequestsTyped, ReleaseTypeOK
<1>2. QED  BY <1>1, ReleasesHold, PTL

\* What is published rests on the latest review there is, an approval that is
\* not the author's, and releases and withdrawals alternate.
THEOREM PublishedOnApproval == ReleaseSpec => []ReleasedOnLatestApproval
<1>1. ReleaseInv => ReleasedOnLatestApproval
  BY DEF ReleaseInv
<1>2. QED  BY <1>1, ReleasesHold, PTL

-----------------------------------------------------------------------------
(* The acceptance of a parcel reference.                                   *)

\* The lock of the permit's row lets one review in, and what it has checked is
\* still so when it commits: no acceptance of another parcel stands.
CheckedUnderTheLocks ==
  /\ \A f, g \in granting : f = g
  /\ \A f \in granting :
       /\ f.saw = <<sheet, tract[f.tract]>>
       /\ sheet.ref \in tract[f.tract].ids /\ sheet.addr = tract[f.tract].addr
       /\ granted \subseteq {f.tract}

TractInv == TractTypeOK /\ CheckedUnderTheLocks

LEMMA TractStarts == TractInit => TractInv
<1> SUFFICES ASSUME TractInit PROVE TractInv
  OBVIOUS
<1>1. TractTypeOK
  BY TractAssumption DEF TractInit, TractTypeOK
<1>2. CheckedUnderTheLocks
  BY DEF TractInit, CheckedUnderTheLocks
<1>3. QED  BY <1>1, <1>2 DEF TractInv

\* Ingestion waits for the locks of what it rewrites.
LEMMA RewriteStep ==
  ASSUME TractInv,
         \/ \E v \in SheetSayings \cup {NotActive} : SheetChanges(v)
         \/ \E x \in Tracts, v \in TractSayings \cup {NotActive} : TractChanges(x, v)
  PROVE  TractInv' /\ granting' = granting
<1>1. UNCHANGED <<forms, granting, granted, opened>>
  BY DEF SheetChanges, TractChanges
<1>2. /\ sheet' \in SheetSayings \cup {NotActive}
      /\ tract' \in [Tracts -> TractSayings \cup {NotActive}]
  BY DEF SheetChanges, TractChanges, TractInv, TractTypeOK
<1>3. rewrites' \in 0..MaxRewrites
  BY TractAssumption DEF SheetChanges, TractChanges, TractInv, TractTypeOK
<1>4. TractTypeOK'
  BY <1>1, <1>2, <1>3 DEF TractInv, TractTypeOK
<1>5. ASSUME NEW f \in granting
      PROVE  sheet' = sheet /\ tract'[f.tract] = tract[f.tract]
  <2>1. f.tract \in Tracts
    BY DEF TractInv, TractTypeOK, FormRows
  <2>2. CASE \E v \in SheetSayings \cup {NotActive} : SheetChanges(v)
    BY <2>2 DEF SheetChanges, SheetLocked
  <2>3. CASE \E x \in Tracts, v \in TractSayings \cup {NotActive} : TractChanges(x, v)
    <3>1. PICK x \in Tracts, v \in TractSayings \cup {NotActive} : TractChanges(x, v)
      BY <2>3
    <3>2. x # f.tract /\ sheet' = sheet /\ tract' = [tract EXCEPT ![x] = v]
      BY <3>1 DEF TractChanges, TractLocked
    <3>3. QED  BY <2>1, <3>2 DEF TractInv, TractTypeOK
  <2>4. QED  BY <2>2, <2>3
<1>6. CheckedUnderTheLocks'
  BY <1>1, <1>5 DEF TractInv, CheckedUnderTheLocks
<1>7. QED  BY <1>1, <1>4, <1>6 DEF TractInv

\* A form shows the permit and the parcel as they are.
LEMMA FormStep ==
  ASSUME TractInv, NEW x \in Tracts, OpenForm(x)
  PROVE  TractInv' /\ granting' = granting
<1>1. UNCHANGED <<sheet, tract, granting, granted, rewrites>>
  BY DEF OpenForm
<1>2. [tract |-> x, saw |-> <<sheet, tract[x]>>] \in FormRows
  <2>1. sheet \in SheetSayings /\ tract[x] \in TractSayings
    BY DEF OpenForm, Referenced, TractInv, TractTypeOK
  <2>2. QED  BY <2>1 DEF FormRows
<1>3. forms' \subseteq FormRows /\ forms \subseteq forms'
  BY <1>2 DEF OpenForm, TractInv, TractTypeOK
<1>4. opened' \in 0..MaxForms
  BY TractAssumption DEF OpenForm, TractInv, TractTypeOK
<1>5. TractTypeOK'
  BY <1>1, <1>3, <1>4 DEF TractInv, TractTypeOK
<1>6. CheckedUnderTheLocks'
  BY <1>1 DEF TractInv, CheckedUnderTheLocks
<1>7. QED  BY <1>1, <1>5, <1>6 DEF TractInv

\* A review checks under the locks.
LEMMA GrantStep ==
  ASSUME TractInv, NEW f \in forms, Grant(f)
  PROVE  TractInv' /\ granting \subseteq granting'
<1>1. /\ granting = {} /\ granting' = {f}
      /\ UNCHANGED <<sheet, tract, forms, granted, opened, rewrites>>
      /\ <<sheet, tract[f.tract]>> = f.saw
      /\ f.tract \in Referenced /\ Corroborated(f.tract) /\ granted \subseteq {f.tract}
  BY DEF Grant, SheetLocked
<1>2. sheet.ref \in tract[f.tract].ids /\ sheet.addr = tract[f.tract].addr
  BY <1>1 DEF Referenced, Corroborated
<1>3. TractTypeOK'
  BY <1>1 DEF TractInv, TractTypeOK
<1>4. CheckedUnderTheLocks'
  BY <1>1, <1>2 DEF CheckedUnderTheLocks
<1>5. QED  BY <1>1, <1>3, <1>4 DEF TractInv

\* The commit of a review: the acceptance is of what the analyst saw.
LEMMA CommitGrantStep ==
  ASSUME TractInv, NEW f \in granting, CommitGrant(f)
  PROVE  /\ TractInv' /\ granting \ granting' \subseteq {f}
         /\ f.saw = <<sheet, tract[f.tract]>>
         /\ f.saw[1].ref \in f.saw[2].ids /\ f.saw[1].addr = f.saw[2].addr
         /\ granted' = {f.tract}
<1>1. /\ f.saw = <<sheet, tract[f.tract]>> /\ f.tract \in Tracts
      /\ sheet.ref \in tract[f.tract].ids /\ sheet.addr = tract[f.tract].addr
      /\ granted \subseteq {f.tract} /\ granting = {f}
  BY DEF TractInv, TractTypeOK, FormRows, CheckedUnderTheLocks
<1>2. /\ granting' = {} /\ granted' = {f.tract}
      /\ UNCHANGED <<sheet, tract, forms, opened, rewrites>>
  BY <1>1 DEF CommitGrant
<1>3. f.saw[1] = sheet /\ f.saw[2] = tract[f.tract]
  BY <1>1
<1>4. TractTypeOK'
  BY <1>1, <1>2 DEF TractInv, TractTypeOK
<1>5. CheckedUnderTheLocks'
  BY <1>2 DEF CheckedUnderTheLocks
<1>6. QED  BY <1>1, <1>2, <1>3, <1>4, <1>5 DEF TractInv

\* What a step may do to the reviews that have passed their checks.
AcceptanceIsOfWhatWasSeen ==
  \A f \in granting \ granting' :
    /\ f.saw = <<sheet, tract[f.tract]>>
    /\ f.saw[1].ref \in f.saw[2].ids /\ f.saw[1].addr = f.saw[2].addr
    /\ granted' = {f.tract}

LEMMA TractSteps ==
  TractInv /\ [TractNext]_tractVars => TractInv' /\ AcceptanceIsOfWhatWasSeen
<1> SUFFICES ASSUME TractInv, [TractNext]_tractVars
             PROVE  TractInv' /\ AcceptanceIsOfWhatWasSeen
  OBVIOUS
<1>1. CASE \/ \E v \in SheetSayings \cup {NotActive} : SheetChanges(v)
           \/ \E x \in Tracts, v \in TractSayings \cup {NotActive} : TractChanges(x, v)
  BY <1>1, RewriteStep DEF AcceptanceIsOfWhatWasSeen
<1>2. CASE \E x \in Tracts : OpenForm(x)
  BY <1>2, FormStep DEF AcceptanceIsOfWhatWasSeen
<1>3. CASE \E f \in forms : Grant(f)
  BY <1>3, GrantStep DEF AcceptanceIsOfWhatWasSeen
<1>4. CASE \E f \in granting : CommitGrant(f)
  <2>1. PICK f \in granting : CommitGrant(f)
    BY <1>4
  <2>2. /\ TractInv' /\ granting \ granting' \subseteq {f}
        /\ f.saw = <<sheet, tract[f.tract]>>
        /\ f.saw[1].ref \in f.saw[2].ids /\ f.saw[1].addr = f.saw[2].addr
        /\ granted' = {f.tract}
    BY <2>1, CommitGrantStep
  <2>3. QED  BY <2>2 DEF AcceptanceIsOfWhatWasSeen
<1>5. CASE UNCHANGED tractVars
  <2>1. UNCHANGED <<sheet, tract, forms, granting, granted, opened, rewrites>>
    BY <1>5 DEF tractVars
  <2>2. QED
    BY <2>1 DEF TractInv, TractTypeOK, CheckedUnderTheLocks, AcceptanceIsOfWhatWasSeen
<1>6. QED  BY <1>1, <1>2, <1>3, <1>4, <1>5 DEF TractNext

LEMMA AcceptancesHold == TractSpec => []TractInv
<1>1. QED  BY TractStarts, TractSteps, PTL DEF TractSpec

\* The records, the forms and the acceptances keep their shapes.
THEOREM AcceptancesTyped == TractSpec => []TractTypeOK
<1>1. TractInv => TractTypeOK
  BY DEF TractInv
<1>2. QED  BY <1>1, AcceptancesHold, PTL

\* An acceptance commits on the evidence the analyst saw, which corroborates
\* it, and leaves the permit with one accepted parcel.
THEOREM AcceptedAsSeen == TractSpec => AcceptedOnWhatWasSeen
<1>1. TractInv /\ [TractNext]_tractVars => [AcceptanceIsOfWhatWasSeen]_tractVars
  BY TractSteps
<1>2. TractSpec => [][AcceptanceIsOfWhatWasSeen]_tractVars
  BY <1>1, AcceptancesHold, PTL DEF TractSpec
<1>3. QED  BY <1>2 DEF AcceptedOnWhatWasSeen, AcceptanceIsOfWhatWasSeen

-----------------------------------------------------------------------------
(* The acquisition case.                                                   *)

CaseAsk == [kind: {"review", "promote", "update"}, hits: SUBSET SearchHits, to: CaseStatus,
            loaded: CaseRow, id: 1..MaxCaseJobs]

\* The lock of the parcel's row lets one request in, and the opportunity that
\* it read is still the case's: an update of the case takes no lock, but
\* writes no other column than the status.
ReadByTheHolder ==
  /\ \A d, e \in keyHolder : d = e
  /\ \A d \in keyHolder : d.loaded.deal = case.deal

\* A review says what candidates may say.
ReviewsSayStatus == \A d \in caseDesk \cup keyHolder : d.kind = "review" => d.to \in ReviewStatus

CaseInv ==
  /\ CaseTypeOK /\ ReadByTheHolder /\ ReviewsSayStatus /\ OneOpportunityPerParcel

LEMMA CaseStarts == CaseInit => CaseInv
<1> SUFFICES ASSUME CaseInit PROVE CaseInv
  OBVIOUS
<1>1. case \in CaseRow /\ caseJobs \in 0..MaxCaseJobs
  BY CaseAssumption DEF CaseInit, CaseRow
<1>2. CaseTypeOK
  BY <1>1 DEF CaseInit, CaseTypeOK
<1>3. ReadByTheHolder /\ ReviewsSayStatus /\ OneOpportunityPerParcel
  BY DEF CaseInit, ReadByTheHolder, ReviewsSayStatus, OneOpportunityPerParcel
<1>4. QED  BY <1>2, <1>3 DEF CaseInv

\* A search finds the parcel; the first one makes its case.
LEMMA SearchStep ==
  ASSUME CaseInv, NEW c \in SearchHits, SearchFinds(c)
  PROVE  CaseInv'
<1>1. UNCHANGED <<deal, caseDesk, keyHolder, caseJobs>>
  BY DEF SearchFinds
<1>2. case' \in CaseRow /\ case'.deal = case.deal
  BY DEF SearchFinds, CaseInv, CaseTypeOK, CaseRow, CaseStatus, ReviewStatus
<1>3. hit' \in [SearchHits -> ReviewStatus \cup {"none"}]
  BY DEF SearchFinds, CaseInv, CaseTypeOK, ReviewStatus
<1>4. CaseTypeOK'
  BY <1>1, <1>2, <1>3 DEF CaseInv, CaseTypeOK
<1>5. ReadByTheHolder' /\ ReviewsSayStatus' /\ OneOpportunityPerParcel'
  BY <1>1, <1>2 DEF CaseInv, ReadByTheHolder, ReviewsSayStatus, OneOpportunityPerParcel
<1>6. QED  BY <1>4, <1>5 DEF CaseInv

\* A request loads what it loads before it has the lock.
LEMMA OpenStep ==
  ASSUME CaseInv, (\E c \in SearchHits : AskOf(c)) \/ AskOfCase
  PROVE  CaseInv'
<1>1. PICK kind \in {"review", "promote", "update"}, c \in SUBSET SearchHits, v \in CaseStatus :
        OpenCase(kind, c, v) /\ (kind = "review" => v \in ReviewStatus)
  BY DEF AskOf, AskOfCase, HitsFound, CaseStatus, ReviewStatus
<1> DEFINE d == [kind |-> kind, hits |-> c, to |-> v, loaded |-> case, id |-> caseJobs + 1]
<1>2. /\ caseJobs < MaxCaseJobs /\ caseJobs' = caseJobs + 1
      /\ caseDesk' = caseDesk \cup {d}
      /\ UNCHANGED <<hit, case, deal, keyHolder>>
  BY <1>1 DEF OpenCase
<1>3. case \in CaseRow /\ caseJobs \in 0..MaxCaseJobs
  BY DEF CaseInv, CaseTypeOK
<1>4. caseJobs + 1 \in 1..MaxCaseJobs /\ caseJobs' \in 0..MaxCaseJobs
  BY <1>2, <1>3, CaseAssumption
<1>5. d \in CaseAsk
  BY <1>1, <1>3, <1>4 DEF CaseAsk
<1>6. d.kind = "review" => d.to \in ReviewStatus
  BY <1>1
<1> HIDE DEF d
<1>7. caseDesk \cup keyHolder \subseteq CaseAsk
  BY DEF CaseInv, CaseTypeOK, CaseAsk
<1>8. caseDesk' \cup keyHolder' \subseteq CaseAsk
  BY <1>2, <1>5, <1>7
<1>9. CaseTypeOK'
  BY <1>2, <1>4, <1>8 DEF CaseInv, CaseTypeOK, CaseAsk, CaseRow
<1>10. ReadByTheHolder' /\ ReviewsSayStatus' /\ OneOpportunityPerParcel'
  BY <1>2, <1>6 DEF CaseInv, ReadByTheHolder, ReviewsSayStatus, OneOpportunityPerParcel
<1>11. QED  BY <1>9, <1>10 DEF CaseInv

\* A request gets the lock, and reads the case under it.
LEMMA TakeKeyStep ==
  ASSUME CaseInv, NEW d \in caseDesk, TakeKey(d)
  PROVE  CaseInv'
<1> DEFINE e == [d EXCEPT !.loaded = case]
<1>1. /\ caseDesk' = caseDesk \ {d} /\ keyHolder' = {e}
      /\ UNCHANGED <<hit, case, deal, caseJobs>>
  BY DEF TakeKey, CaseRead
<1>2. d \in CaseAsk /\ case \in CaseRow
  BY DEF CaseInv, CaseTypeOK, CaseAsk
<1>3. e \in CaseAsk /\ e.loaded = case /\ e.kind = d.kind /\ e.to = d.to
  BY <1>2 DEF CaseAsk
<1> HIDE DEF e
<1>4. caseDesk' \cup keyHolder' \subseteq CaseAsk
  BY <1>1, <1>3 DEF CaseInv, CaseTypeOK, CaseAsk
<1>5. CaseTypeOK'
  BY <1>1, <1>4 DEF CaseInv, CaseTypeOK, CaseAsk, CaseRow
<1>6. ReadByTheHolder' /\ ReviewsSayStatus' /\ OneOpportunityPerParcel'
  BY <1>1, <1>3 DEF CaseInv, ReadByTheHolder, ReviewsSayStatus, OneOpportunityPerParcel
<1>7. QED  BY <1>5, <1>6 DEF CaseInv

\* What a request writes keeps the shapes of the rows.
LEMMA Written ==
  ASSUME CaseInv, NEW d \in caseDesk \cup keyHolder
  PROVE  /\ [case EXCEPT !.status = CaseWritten(d, d.to)] \in CaseRow
         /\ [case EXCEPT !.status = CaseWritten(d, d.to)].deal = case.deal
         /\ d.to \in ReviewStatus => HitsWritten(d) \in [SearchHits -> ReviewStatus \cup {"none"}]
<1>1. d \in CaseAsk /\ case \in CaseRow
  BY DEF CaseInv, CaseTypeOK, CaseAsk
<1>2. CaseWritten(d, d.to) \in CaseStatus \cup {"none"}
  BY <1>1 DEF CaseWritten, CaseAsk, CaseRow
<1>3. hit \in [SearchHits -> ReviewStatus \cup {"none"}]
  BY DEF CaseInv, CaseTypeOK
<1>4. d.to \in ReviewStatus => HitsWritten(d) \in [SearchHits -> ReviewStatus \cup {"none"}]
  BY <1>3 DEF HitsWritten
<1>5. QED  BY <1>1, <1>2, <1>4 DEF CaseRow

\* Reviews and updates write the status of the case and of its candidates.
LEMMA StatusStep ==
  ASSUME CaseInv,
         \/ \E d \in keyHolder : CommitReview(d)
         \/ \E d \in caseDesk : CommitUpdate(d)
  PROVE  CaseInv'
<1>1. /\ case' \in CaseRow /\ case'.deal = case.deal
      /\ hit' \in [SearchHits -> ReviewStatus \cup {"none"}]
      /\ caseDesk' \subseteq caseDesk /\ keyHolder' \subseteq keyHolder
      /\ UNCHANGED <<deal, caseJobs>>
  <2>1. CASE \E d \in keyHolder : CommitReview(d)
    <3>1. PICK d \in keyHolder : CommitReview(d)
      BY <2>1
    <3>2. d.to \in ReviewStatus
      BY <3>1 DEF CommitReview, CaseInv, ReviewsSayStatus
    <3>3. QED  BY <3>1, <3>2, Written DEF CommitReview
  <2>2. CASE \E d \in caseDesk : CommitUpdate(d)
    <3>1. PICK d \in caseDesk : CommitUpdate(d)
      BY <2>2
    <3>2. hit \in [SearchHits -> ReviewStatus \cup {"none"}]
      BY DEF CaseInv, CaseTypeOK
    <3>3. QED  BY <3>1, <3>2, Written DEF CommitUpdate
  <2>3. QED  BY <2>1, <2>2
<1>2. CaseTypeOK'
  <2>1. caseDesk' \cup keyHolder' \subseteq caseDesk \cup keyHolder
    BY <1>1
  <2>2. QED  BY <1>1, <2>1 DEF CaseInv, CaseTypeOK, CaseRow
<1>3. ReadByTheHolder' /\ ReviewsSayStatus' /\ OneOpportunityPerParcel'
  BY <1>1 DEF CaseInv, ReadByTheHolder, ReviewsSayStatus, OneOpportunityPerParcel
<1>4. QED  BY <1>2, <1>3 DEF CaseInv

\* A promotion makes an opportunity where no live one is.
LEMMA PromotionStep ==
  ASSUME CaseInv, NEW d \in keyHolder, CommitPromotion(d)
  PROVE  CaseInv'
<1>1. keyHolder' = {} /\ UNCHANGED <<hit, caseDesk, caseJobs>>
  BY DEF CommitPromotion
<1>2. ReadByTheHolder' /\ ReviewsSayStatus'
  BY <1>1 DEF CaseInv, ReadByTheHolder, ReviewsSayStatus
<1>3. CASE UNCHANGED <<case, deal>>
  <2>1. CaseTypeOK' /\ OneOpportunityPerParcel'
    BY <1>1, <1>3 DEF CaseInv, CaseTypeOK, CaseRow, OneOpportunityPerParcel
  <2>2. QED  BY <1>2, <2>1 DEF CaseInv
<1>4. CASE ~Existing(d) /\ \E i \in 1..MaxDeals :
             /\ deal' = [deal EXCEPT ![i] = "live"]
             /\ case' = [status |-> "promoted", deal |-> i]
  <2>1. PICK i \in 1..MaxDeals : /\ deal' = [deal EXCEPT ![i] = "live"]
                                 /\ case' = [status |-> "promoted", deal |-> i]
    BY <1>4
  <2>2. deal \in [1..MaxDeals -> {"none", "live", "deleted"}]
    BY DEF CaseInv, CaseTypeOK
  <2>3. \A j \in 1..MaxDeals : deal[j] # "live"
    <3>1. d.loaded.deal = case.deal
      BY DEF CaseInv, ReadByTheHolder
    <3>2. case.deal = 0 \/ deal[case.deal] # "live"
      BY <1>4, <3>1 DEF Existing
    <3>3. \A j \in 1..MaxDeals : deal[j] = "live" => case.deal = j
      BY DEF CaseInv, OneOpportunityPerParcel
    <3>4. QED  BY <3>2, <3>3
  <2>4. OneOpportunityPerParcel'
    BY <2>1, <2>2, <2>3 DEF OneOpportunityPerParcel
  <2>5. case' \in CaseRow
    BY <2>1, CaseAssumption DEF CaseRow, CaseStatus
  <2>6. deal' \in [1..MaxDeals -> {"none", "live", "deleted"}]
    BY <2>1, <2>2
  <2>7. CaseTypeOK'
    BY <1>1, <2>5, <2>6 DEF CaseInv, CaseTypeOK, CaseRow
  <2>8. QED  BY <1>2, <2>4, <2>7 DEF CaseInv
<1>5. QED  BY <1>3, <1>4 DEF CommitPromotion

\* An opportunity is soft-deleted.
LEMMA DropStep ==
  ASSUME CaseInv, NEW i \in 1..MaxDeals, DropDeal(i)
  PROVE  CaseInv'
<1>1. UNCHANGED <<hit, case, caseDesk, keyHolder, caseJobs>>
  BY DEF DropDeal
<1>2. /\ deal' \in [1..MaxDeals -> {"none", "live", "deleted"}]
      /\ \A j \in 1..MaxDeals : deal'[j] = "live" => deal[j] = "live"
  BY DEF DropDeal, CaseInv, CaseTypeOK
<1>3. CaseTypeOK'
  BY <1>1, <1>2 DEF CaseInv, CaseTypeOK, CaseRow
<1>4. ReadByTheHolder' /\ ReviewsSayStatus' /\ OneOpportunityPerParcel'
  BY <1>1, <1>2 DEF CaseInv, ReadByTheHolder, ReviewsSayStatus, OneOpportunityPerParcel
<1>5. QED  BY <1>3, <1>4 DEF CaseInv

LEMMA CaseSteps == CaseInv /\ [CaseNext]_caseVars => CaseInv'
<1> SUFFICES ASSUME CaseInv, [CaseNext]_caseVars PROVE CaseInv'
  OBVIOUS
<1>1. CASE \E c \in SearchHits : SearchFinds(c)
  BY <1>1, SearchStep
<1>2. CASE (\E c \in SearchHits : AskOf(c)) \/ AskOfCase
  BY <1>2, OpenStep
<1>3. CASE \E d \in caseDesk : TakeKey(d)
  BY <1>3, TakeKeyStep
<1>4. CASE \/ \E d \in keyHolder : CommitReview(d)
           \/ \E d \in caseDesk : CommitUpdate(d)
  BY <1>4, StatusStep
<1>5. CASE \E d \in keyHolder : CommitPromotion(d)
  BY <1>5, PromotionStep
<1>6. CASE \E i \in 1..MaxDeals : DropDeal(i)
  BY <1>6, DropStep
<1>7. CASE UNCHANGED caseVars
  <2>1. UNCHANGED <<hit, case, deal, caseDesk, keyHolder, caseJobs>>
    BY <1>7 DEF caseVars
  <2>2. QED
    BY <2>1 DEF CaseInv, CaseTypeOK, CaseRow, ReadByTheHolder, ReviewsSayStatus,
                OneOpportunityPerParcel
<1>8. QED  BY <1>1, <1>2, <1>3, <1>4, <1>5, <1>6, <1>7 DEF CaseNext

LEMMA CasesHold == CaseSpec => []CaseInv
<1>1. QED  BY CaseStarts, CaseSteps, PTL DEF CaseSpec

\* The rows of the case and its requests keep their shapes.
THEOREM CasesTyped == CaseSpec => []CaseTypeOK
<1>1. CaseInv => CaseTypeOK
  BY DEF CaseInv
<1>2. QED  BY <1>1, CasesHold, PTL

\* The only live opportunity made of a parcel is the one its case points at.
THEOREM NoSecondOpportunity == CaseSpec => []OneOpportunityPerParcel
<1>1. CaseInv => OneOpportunityPerParcel
  BY DEF CaseInv
<1>2. QED  BY <1>1, CasesHold, PTL
=============================================================================
