------------------------ MODULE SnapshotIngestProofs ------------------------
(***************************************************************************)
(* Proofs about SnapshotIngest, for every number of records, every page    *)
(* size and page budget, every set of callers and of generation ids, every *)
(* retirement guard and every bound on edits, faults and fresh starts.     *)
(***************************************************************************)
EXTENDS SnapshotIngest, FiniteSetTheorems, WellFoundedInduction, TLAPS

USE SnapshotAssumption, NullsAssumption DEF Record, Cursor, Running

-----------------------------------------------------------------------------
(* Pages.                                                                  *)

\* A non-empty set of numbers has a least one.
LEMMA LeastNumber ==
  ASSUME NEW T \in SUBSET Nat, T # {}
  PROVE  \E x \in T : \A y \in T : x <= y
<1> DEFINE R == OpToRel(<, Nat)
<1>1. IsWellFoundedOn(R, Nat)
  BY NatLessThanWellFounded
<1>2. \A x, y \in Nat : x < y => <<x, y>> \in R
  BY DEF OpToRel
<1> HIDE DEF R
<1>3. PICK x \in T : \A y \in T : <<y, x>> \notin R
  BY <1>1, WFMin
<1>4. \A y \in T : x \in Nat /\ y \in Nat /\ ~(y < x)
  BY <1>2, <1>3
<1>5. \A y \in T : x <= y
  BY <1>4
<1>6. QED  BY <1>5

\* A non-empty set of records has a last one: CHOOSE in LastOf finds it.
LEMMA LastOfIsLast ==
  ASSUME NEW page \in SUBSET Record, page # {}
  PROVE  LastOf(page) \in page /\ \A r \in page : r <= LastOf(page)
<1> DEFINE U == {n \in Nat : \A r \in page : r <= n}
<1>1. U # {}
  <2>1. RecordCount \in U
    OBVIOUS
  <2>2. QED  BY <2>1
<1>2. PICK n \in U : \A m \in U : n <= m
  <2>1. U \in SUBSET Nat
    OBVIOUS
  <2>2. QED  BY <1>1, <2>1, LeastNumber
<1>3. n \in page
  <2>1. SUFFICES ASSUME n \notin page PROVE FALSE
    OBVIOUS
  <2>2. n \in Nat /\ \A r \in page : r \in Nat /\ r > 0 /\ r <= n /\ r # n
    BY <2>1
  <2>3. n - 1 \in Nat
    <3>1. PICK r : r \in page
      OBVIOUS
    <3>2. QED  BY <2>2, <3>1
  <2>4. n - 1 \in U
    BY <2>2, <2>3
  <2>5. QED  BY <1>2, <2>2, <2>4
<1>4. \E r \in page : \A q \in page : q <= r
  BY <1>3
<1>5. QED  BY <1>4 DEF LastOf

\* The records after a cursor are finitely many, and so are those of a page.
LEMMA AfterFinite ==
  ASSUME published \subseteq Record, NEW k
  PROVE  /\ After(k) \subseteq Record /\ IsFiniteSet(After(k))
         /\ PageAfter(k) \subseteq After(k) /\ IsFiniteSet(PageAfter(k))
         /\ \A r \in Record : /\ IsFiniteSet({q \in After(k) : q < r})
                              /\ Cardinality({q \in After(k) : q < r}) \in Nat
<1>1. After(k) \subseteq Record
  BY DEF After
<1>2. IsFiniteSet(Record)
  BY FS_Interval
<1>3. IsFiniteSet(After(k))
  <2>1. After(k) \in SUBSET Record
    BY <1>1
  <2>2. QED  BY <1>2, <2>1, FS_Subset
<1>4. PageAfter(k) \subseteq After(k)
  BY DEF PageAfter
<1>5. \A S \in SUBSET After(k) : IsFiniteSet(S) /\ Cardinality(S) \in Nat
  BY <1>3, FS_Subset, FS_CardinalityType
<1>6. \A r : {q \in After(k) : q < r} \in SUBSET After(k)
  OBVIOUS
<1>7. IsFiniteSet(PageAfter(k))
  BY <1>4, <1>5
<1>8. QED  BY <1>1, <1>3, <1>4, <1>5, <1>6, <1>7

\* A page leaves out only records that come after all of its own.
LEMMA PageIsPrefix ==
  ASSUME published \subseteq Record, NEW k,
         NEW r \in PageAfter(k), NEW q \in After(k), q \notin PageAfter(k)
  PROVE  r < q
<1> DEFINE Before(x) == {y \in After(k) : y < x}
<1>1. r \in Record /\ q \in Record /\ r \in After(k)
  BY AfterFinite
<1>2. SUFFICES ASSUME q < r PROVE FALSE
  BY <1>1
<1>3. Before(q) \in SUBSET Before(r)
  <2>1. \A y \in After(k) : y \in Record
    BY AfterFinite
  <2>2. \A y \in After(k) : y < q => y < r
    BY <1>1, <1>2, <2>1
  <2>3. QED  BY <2>2
<1>4. /\ IsFiniteSet(Before(r)) /\ Cardinality(Before(r)) \in Nat
      /\ Cardinality(Before(q)) \in Nat
  BY <1>1, AfterFinite
<1>5. Cardinality(Before(q)) <= Cardinality(Before(r))
  BY <1>3, <1>4, FS_Subset
<1>6. Cardinality(Before(r)) < PageSize /\ ~(Cardinality(Before(q)) < PageSize)
  BY <1>1 DEF PageAfter
<1>7. QED  BY <1>4, <1>5, <1>6

\* A page with a successor ends in a record that all the records left out follow.
LEMMA FullPage ==
  ASSUME published \subseteq Record, NEW k \in Cursor, HasMore(PageAfter(k))
  PROVE  /\ LastOf(PageAfter(k)) \in Record
         /\ LastOf(PageAfter(k)) > k
         /\ \A q \in After(k) \ PageAfter(k) : q > LastOf(PageAfter(k))
<1>1. PageAfter(k) # {}
  <2>1. Cardinality({}) = 0
    BY FS_EmptySet
  <2>2. QED  BY <2>1 DEF HasMore
<1>2. PageAfter(k) \in SUBSET Record /\ PageAfter(k) \subseteq After(k)
  BY AfterFinite
<1>3. LastOf(PageAfter(k)) \in PageAfter(k)
  BY <1>1, <1>2, LastOfIsLast
<1>4. \A q \in After(k) \ PageAfter(k) : LastOf(PageAfter(k)) < q
  BY <1>3, PageIsPrefix
<1>5. LastOf(PageAfter(k)) > k
  BY <1>2, <1>3 DEF After
<1>6. \A q \in After(k) : q \in Record
  BY AfterFinite
<1>7. QED  BY <1>2, <1>3, <1>4, <1>5, <1>6

\* A page that is not full holds everything after the cursor.
LEMMA ShortPage ==
  ASSUME published \subseteq Record, NEW k \in Cursor, ~HasMore(PageAfter(k))
  PROVE  PageAfter(k) = After(k)
<1> DEFINE page == PageAfter(k)
           Before(x) == {y \in After(k) : y < x}
           left_out == After(k) \ page
<1>1. /\ After(k) \subseteq Record /\ page \subseteq After(k) /\ IsFiniteSet(page)
      /\ \A r \in Record : IsFiniteSet(Before(r)) /\ Cardinality(Before(r)) \in Nat
  BY AfterFinite
<1>2. SUFFICES ASSUME left_out # {} PROVE FALSE
  BY <1>1
<1>3. PICK m \in left_out : \A q \in left_out : m <= q
  <2>1. left_out \in SUBSET Nat
    BY <1>1
  <2>2. QED  BY <1>2, <2>1, LeastNumber
<1>4. page = Before(m)
  <2>1. \A r \in page : r < m
    BY <1>3, PageIsPrefix
  <2>2. \A q \in After(k) : q < m => q \in page
    BY <1>1, <1>3
  <2>3. QED  BY <1>1, <2>1, <2>2
<1>5. m \in Record /\ m \in After(k) /\ m \notin page
  BY <1>1, <1>3
<1>6. Cardinality(page) \in Nat /\ Cardinality(page) >= PageSize
  <2>1. ~(Cardinality(Before(m)) < PageSize)
    BY <1>5 DEF PageAfter
  <2>2. QED  BY <1>1, <1>4, <1>5, <2>1
<1>7. page # {}
  <2>1. Cardinality({}) = 0
    BY FS_EmptySet
  <2>2. QED  BY <1>6, <2>1
<1>8. PICK M \in page : \A r \in page : r <= M
  <2>1. page \in SUBSET Record
    BY <1>1
  <2>2. QED  BY <1>7, <2>1, LastOfIsLast
<1>9. page = Before(M) \cup {M}
  <2>1. M \in Record /\ M \in After(k) /\ M < m
    BY <1>1, <1>4, <1>8
  <2>2. \A q \in After(k) : q < M => q \in page
    BY <1>1, <1>4, <1>5, <2>1
  <2>3. \A r \in page : r < M \/ r = M
    BY <1>1, <1>8, <2>1
  <2>4. QED  BY <1>1, <1>8, <2>1, <2>2, <2>3
<1>10. Cardinality(Before(M)) < PageSize /\ M \in Record /\ M \notin Before(M)
  BY <1>1, <1>8 DEF PageAfter
<1>11. Cardinality(page) = Cardinality(Before(M)) + 1
  <2>1. IsFiniteSet(Before(M))
    BY <1>1, <1>10
  <2>2. Cardinality(Before(M) \cup {M}) = Cardinality(Before(M)) + 1
    BY <1>10, <2>1, FS_AddElement
  <2>3. QED  BY <1>9, <2>2
<1>12. Cardinality(page) = PageSize
  BY <1>1, <1>6, <1>10, <1>11
<1>13. QED  BY <1>12 DEF HasMore

-----------------------------------------------------------------------------
(* The inductive invariant.                                                *)

\* A run that has spent its page budget has read a page.
SpentHasRead == Running /\ left = 0 => cursor > 0

\* What a generation still owes is served: a record withdrawn is owed no more.
OwedIsServed == \A s \in Snapshot : owed[s] \subseteq published

IInv == TypeOK /\ SpentHasRead /\ OwedIsServed /\ NothingSkipped

LEMMA InitIInv == Init => IInv
<1> SUFFICES ASSUME Init PROVE IInv
  OBVIOUS
<1> USE DEF Init
<1>1. resume \in Checkpoint /\ (resume.snap \in Snapshot => resume.cursor > 0)
  BY DEF Checkpoint, Null
<1>2. TypeOK
  BY <1>1 DEF TypeOK, hist, db, run
<1>3. SpentHasRead /\ OwedIsServed
  BY DEF SpentHasRead, OwedIsServed
<1>4. NothingSkipped
  <2>1. resume.snap = NoSnapshot \/ resume.snap \notin Snapshot \/ resume.snap \in Snapshot
    OBVIOUS
  <2>2. QED  BY <2>1 DEF NothingSkipped, OwesOnlyAfter
<1>5. QED  BY <1>2, <1>3, <1>4 DEF IInv

\* Changes of the publisher.
LEMMA PublisherStep ==
  ASSUME IInv, NEW r \in Record, Publish(r) \/ Withdraw(r)
  PROVE  IInv'
<1> USE DEF db, run, hist
<1>1. /\ UNCHANGED <<active, tag, resume, asked, owner, snap, cursor, left, got,
                     faults, fresh>>
      /\ published' \subseteq Record /\ edits' \in 0..MaxEdits
      /\ owed' \in [Snapshot -> SUBSET Record]
      /\ \A s \in Snapshot : owed'[s] \subseteq owed[s] /\ owed'[s] \subseteq published'
  <2>1. /\ published \subseteq Record /\ edits \in 0..MaxEdits
        /\ owed \in [Snapshot -> SUBSET Record]
        /\ \A s \in Snapshot : owed[s] \subseteq published
    BY DEF IInv, TypeOK, OwedIsServed
  <2>2. CASE Publish(r)
    BY <2>1, <2>2 DEF Publish
  <2>3. CASE Withdraw(r)
    <3>1. /\ owed' = [s \in Snapshot |-> owed[s] \ {r}] /\ published' = published \ {r}
          /\ edits < MaxEdits /\ edits' = edits + 1
          /\ UNCHANGED <<active, tag, resume, asked, owner, snap, cursor, left, got,
                        faults, fresh>>
      BY <2>3 DEF Withdraw
    <3>2. QED  BY <2>1, <3>1
  <2>4. QED  BY <2>2, <2>3
<1>2. TypeOK'
  BY <1>1 DEF IInv, TypeOK
<1>3. SpentHasRead' /\ OwedIsServed'
  BY <1>1 DEF IInv, SpentHasRead, OwedIsServed
<1>4. NothingSkipped'
  BY <1>1 DEF IInv, NothingSkipped, OwesOnlyAfter
<1>5. QED  BY <1>2, <1>3, <1>4 DEF IInv

\* A caller resolves a checkpoint, or gives it up.
LEMMA AskStep ==
  ASSUME IInv, NEW c \in Caller, AskToResume(c) \/ AskFresh(c) \/ Conflict(c)
  PROVE  IInv'
<1> USE DEF db, run, hist
<1>1. /\ UNCHANGED <<published, active, tag, resume, owner, snap, cursor, left,
                     owed, got, edits, faults>>
      /\ fresh' \in 0..MaxFresh
      /\ \E v \in {resume, Null, NotAsked} : asked' = [asked EXCEPT ![c] = v]
  BY DEF AskToResume, AskFresh, Conflict, IInv, TypeOK
<1>2. asked \in [Caller -> Checkpoint \cup {NotAsked}] /\ resume \in Checkpoint
  BY DEF IInv, TypeOK
<1>3. Null \in Checkpoint /\ Null.snap = NoSnapshot
  BY DEF Null, Checkpoint
<1>4. asked' \in [Caller -> Checkpoint \cup {NotAsked}]
  BY <1>1, <1>2, <1>3
<1>5. TypeOK'
  BY <1>1, <1>4 DEF IInv, TypeOK
<1>6. SpentHasRead' /\ OwedIsServed'
  BY <1>1 DEF IInv, SpentHasRead, OwedIsServed
<1>7. NothingSkipped'
  <2>1. OwesOnlyAfter(snap, cursor)' /\ OwesOnlyAfter(resume.snap, resume.cursor)'
    BY <1>1 DEF IInv, NothingSkipped, OwesOnlyAfter
  <2>2. ASSUME NEW b \in Caller, asked'[b] # NotAsked
        PROVE  OwesOnlyAfter(asked[b].snap, asked[b].cursor)'
    <3>1. asked'[b] = asked[b] \/ asked'[b] = resume \/ asked'[b] = Null
      BY <1>1, <1>2, <2>2
    <3>2. CASE asked'[b] = asked[b]
      BY <1>1, <2>2, <3>2 DEF IInv, NothingSkipped, OwesOnlyAfter
    <3>3. CASE asked'[b] = resume
      BY <1>1, <3>3 DEF IInv, NothingSkipped, OwesOnlyAfter
    <3>4. CASE asked'[b] = Null
      BY <1>3, <3>4 DEF OwesOnlyAfter
    <3>5. QED  BY <3>1, <3>2, <3>3, <3>4
  <2>3. QED  BY <2>1, <2>2 DEF NothingSkipped
<1>8. QED  BY <1>5, <1>6, <1>7 DEF IInv

\* A run starts.
LEMMA StartStep ==
  ASSUME IInv, NEW c \in Caller, StartGeneration(c) \/ Continue(c)
  PROVE  IInv'
<1> USE DEF db, run, hist
<1>1. asked \in [Caller -> Checkpoint \cup {NotAsked}] /\ asked[c] \in Checkpoint
  <2>1. asked[c] # NotAsked
    BY DEF StartGeneration, Continue, Null, Checkpoint
  <2>2. QED  BY <2>1 DEF IInv, TypeOK
<1>2. PICK s \in Snapshot \cup {NoSnapshot} : Claim(c, s)
  BY <1>1 DEF StartGeneration, Continue, FreshIds, Checkpoint
<1>3. /\ UNCHANGED <<published, active, tag, resume, edits, faults, fresh>>
      /\ owner' = c /\ snap' = s /\ cursor' = asked[c].cursor /\ left' = MaxPages
      /\ asked' = [asked EXCEPT ![c] = NotAsked]
  BY <1>2 DEF Claim
<1>4. owed' \in [Snapshot -> SUBSET Record] /\ got' \in [Snapshot -> SUBSET Record]
  BY DEF StartGeneration, Continue, IInv, TypeOK
<1>5. asked[c].cursor \in Cursor
  BY <1>1 DEF Checkpoint
<1>6. TypeOK'
  BY <1>1, <1>3, <1>4, <1>5 DEF IInv, TypeOK
<1>7. SpentHasRead'
  BY <1>3 DEF SpentHasRead
<1>8. OwedIsServed'
  BY <1>3 DEF StartGeneration, Continue, IInv, OwedIsServed
<1>9. \A t \in Open : t \in Snapshot => owed'[t] \subseteq owed[t]
  BY DEF StartGeneration, Continue, FreshIds, IInv, TypeOK
<1>10. OwesOnlyAfter(snap, cursor)'
  <2>1. CASE StartGeneration(c)
    <3>1. asked[c].cursor = 0
      BY <2>1 DEF StartGeneration, Null
    <3>2. \A t \in Snapshot : owed'[t] \subseteq Record
      BY <1>4
    <3>3. QED  BY <1>3, <3>1, <3>2 DEF OwesOnlyAfter
  <2>2. CASE Continue(c)
    <3>1. snap' = asked[c].snap /\ owed' = owed /\ asked[c] # NotAsked
      BY <2>2 DEF Continue, Claim
    <3>2. QED  BY <1>3, <3>1 DEF IInv, NothingSkipped, OwesOnlyAfter
  <2>3. QED  BY <2>1, <2>2
<1>11. OwesOnlyAfter(resume.snap, resume.cursor)'
  BY <1>3, <1>9 DEF Open, IInv, NothingSkipped, OwesOnlyAfter
<1>12. ASSUME NEW b \in Caller, asked'[b] # NotAsked
       PROVE  OwesOnlyAfter(asked[b].snap, asked[b].cursor)'
  <2>1. asked'[b] = asked[b] /\ asked[b] # NotAsked
    BY <1>1, <1>3, <1>12
  <2>2. asked[b].snap \in Open
    BY <2>1 DEF Open
  <2>3. QED  BY <1>9, <2>1, <2>2 DEF IInv, NothingSkipped, OwesOnlyAfter
<1>13. QED  BY <1>6, <1>7, <1>8, <1>10, <1>11, <1>12 DEF IInv, NothingSkipped

\* Collecting takes records off the debts and adds none.
LEMMA CollectPays ==
  ASSUME IInv, NEW page \in SUBSET Record, Collect(page)
  PROVE  /\ tag' \in [Record -> Snapshot \cup {NoSnapshot}]
         /\ owed' \in [Snapshot -> SUBSET Record] /\ got' \in [Snapshot -> SUBSET Record]
         /\ \A s \in Snapshot : owed'[s] \subseteq owed[s]
         /\ snap \in Snapshot => owed'[snap] = owed[snap] \ page
<1>1. tag \in [Record -> Snapshot \cup {NoSnapshot}] /\ snap \in Snapshot \cup {NoSnapshot}
  BY DEF IInv, TypeOK
<1>2. tag' \in [Record -> Snapshot \cup {NoSnapshot}]
  BY <1>1 DEF Collect
<1>3. owed \in [Snapshot -> SUBSET Record] /\ got \in [Snapshot -> SUBSET Record]
  BY DEF IInv, TypeOK
<1>4. owed' \in [Snapshot -> SUBSET Record] /\ got' \in [Snapshot -> SUBSET Record]
  BY <1>3 DEF Collect
<1>5. QED  BY <1>2, <1>3, <1>4 DEF Collect

\* A run ends and leaves its generation to the stored checkpoint, if to any.
LEMMA EndStep ==
  ASSUME IInv,
         FinishPartial \/ Complete \/ TripGuard \/ FinishWithErrors \/ FailRun
  PROVE  IInv'
<1> USE DEF db, run, hist
<1>1. /\ owner' = Nobody /\ snap' = NoSnapshot /\ cursor' = 0 /\ left' = 0
      /\ UNCHANGED <<published, asked, edits, fresh>>
  BY DEF FinishPartial, Complete, TripGuard, FinishWithErrors, FailRun, EndRun
<1>2. \A page \in SUBSET PageAfter(cursor) : page \in SUBSET Record
  BY AfterFinite DEF IInv, TypeOK
<1>3. \/ UNCHANGED <<active, tag, owed, got>>
      \/ \E page \in SUBSET Record : Collect(page) /\ active' \subseteq active \cup page
  <2>1. CASE FinishPartial \/ TripGuard
    BY <2>1 DEF FinishPartial, TripGuard
  <2>2. CASE Complete
    BY <1>2, <2>2 DEF Complete
  <2>3. CASE FinishWithErrors
    BY <1>2, <2>3 DEF FinishWithErrors, Persist
  <2>4. CASE FailRun
    BY <1>2, <2>4 DEF FailRun, Persist
  <2>5. QED  BY <2>1, <2>2, <2>3, <2>4
<1>4. /\ active' \subseteq Record
      /\ tag' \in [Record -> Snapshot \cup {NoSnapshot}]
      /\ owed' \in [Snapshot -> SUBSET Record] /\ got' \in [Snapshot -> SUBSET Record]
      /\ \A s \in Snapshot : owed'[s] \subseteq owed[s]
  <2>1. CASE UNCHANGED <<active, tag, owed, got>>
    BY <2>1 DEF IInv, TypeOK
  <2>2. CASE \E page \in SUBSET Record : Collect(page) /\ active' \subseteq active \cup page
    <3>1. PICK page \in SUBSET Record : Collect(page) /\ active' \subseteq active \cup page
      BY <2>2
    <3>2. active \subseteq Record
      BY DEF IInv, TypeOK
    <3>3. QED  BY <3>1, <3>2, CollectPays
  <2>3. QED  BY <1>3, <2>1, <2>2
<1>5. /\ resume' \in Checkpoint
      /\ resume'.snap \in Snapshot => resume'.cursor > 0
      /\ \/ resume' = resume
         \/ resume' = Null
         \/ resume'.snap = snap /\ resume'.cursor = cursor
  <2>1. CASE FinishPartial
    <3>1. snap \in Snapshot \cup {NoSnapshot} /\ cursor \in Cursor /\ cursor > 0
      BY <2>1 DEF FinishPartial, IInv, TypeOK, SpentHasRead
    <3>2. QED  BY <2>1, <3>1 DEF FinishPartial, Checkpoint
  <2>2. CASE Complete
    BY <2>2 DEF Complete, Null, Checkpoint
  <2>3. CASE TripGuard \/ FinishWithErrors \/ FailRun
    BY <2>3 DEF TripGuard, FinishWithErrors, FailRun, IInv, TypeOK
  <2>4. QED  BY <2>1, <2>2, <2>3
<1>6. faults' \in 0..MaxFaults
  BY DEF FinishPartial, Complete, TripGuard, FinishWithErrors, FailRun, IInv, TypeOK
<1>7. TypeOK'
  BY <1>1, <1>4, <1>5, <1>6 DEF IInv, TypeOK
<1>8. SpentHasRead' /\ OwedIsServed'
  BY <1>1, <1>4 DEF IInv, SpentHasRead, OwedIsServed
<1>9. NothingSkipped'
  <2>1. OwesOnlyAfter(snap, cursor)'
    BY <1>1 DEF OwesOnlyAfter
  <2>2. OwesOnlyAfter(resume.snap, resume.cursor)'
    <3>1. CASE resume' = resume
      BY <1>4, <3>1 DEF IInv, NothingSkipped, OwesOnlyAfter
    <3>2. CASE resume' = Null
      BY <3>2 DEF Null, OwesOnlyAfter
    <3>3. CASE resume'.snap = snap /\ resume'.cursor = cursor
      BY <1>4, <3>3 DEF IInv, NothingSkipped, OwesOnlyAfter
    <3>4. QED  BY <1>5, <3>1, <3>2, <3>3
  <2>3. \A c \in Caller :
          asked'[c] # NotAsked => OwesOnlyAfter(asked[c].snap, asked[c].cursor)'
    BY <1>1, <1>4 DEF IInv, NothingSkipped, OwesOnlyAfter
  <2>4. QED  BY <2>1, <2>2, <2>3 DEF NothingSkipped
<1>10. QED  BY <1>7, <1>8, <1>9 DEF IInv

\* A page is committed with the cursor past it: the generation owes nothing up
\* to the new cursor, because a full page leaves out only later records.
LEMMA CommitStep ==
  ASSUME IInv, CommitPage
  PROVE  IInv'
<1> DEFINE page == PageAfter(cursor)
<1>1. /\ HasMore(page) /\ Persist(page) /\ cursor' = LastOf(page) /\ left' = left - 1
      /\ left > 0 /\ Running
      /\ UNCHANGED <<published, resume, asked, owner, snap, edits, faults, fresh>>
  BY DEF CommitPage
<1>2. published \subseteq Record /\ cursor \in Cursor
  BY DEF IInv, TypeOK
<1>3. page \in SUBSET Record
  BY <1>2, AfterFinite
<1>4. /\ LastOf(page) \in Record /\ LastOf(page) > cursor
      /\ \A q \in After(cursor) \ page : q > LastOf(page)
  BY <1>1, <1>2, FullPage
<1> HIDE DEF page
<1>5. /\ tag' \in [Record -> Snapshot \cup {NoSnapshot}]
      /\ owed' \in [Snapshot -> SUBSET Record] /\ got' \in [Snapshot -> SUBSET Record]
      /\ \A s \in Snapshot : owed'[s] \subseteq owed[s]
      /\ snap \in Snapshot => owed'[snap] = owed[snap] \ page
  BY <1>1, <1>3, CollectPays DEF Persist
<1>6. TypeOK'
  BY <1>1, <1>3, <1>4, <1>5 DEF Persist, IInv, TypeOK
<1>7. SpentHasRead' /\ OwedIsServed'
  BY <1>1, <1>4, <1>5 DEF IInv, SpentHasRead, OwedIsServed
<1>8. OwesOnlyAfter(snap, cursor)'
  <2>1. SUFFICES ASSUME snap \in Snapshot, NEW r \in owed'[snap] PROVE r > cursor'
    BY <1>1 DEF OwesOnlyAfter
  <2>2. r \in owed[snap] /\ r \notin page
    BY <1>5, <2>1
  <2>3. r \in published /\ r > cursor
    BY <2>1, <2>2 DEF IInv, OwedIsServed, NothingSkipped, OwesOnlyAfter
  <2>4. r \in After(cursor) \ page
    BY <2>2, <2>3 DEF After
  <2>5. QED  BY <1>1, <1>4, <2>4
<1>9. OwesOnlyAfter(resume.snap, resume.cursor)'
  BY <1>1, <1>5 DEF IInv, NothingSkipped, OwesOnlyAfter
<1>10. \A c \in Caller :
         asked'[c] # NotAsked => OwesOnlyAfter(asked[c].snap, asked[c].cursor)'
  BY <1>1, <1>5 DEF IInv, NothingSkipped, OwesOnlyAfter
<1>11. QED  BY <1>6, <1>7, <1>8, <1>9, <1>10 DEF IInv, NothingSkipped

LEMMA StutterStep == ASSUME IInv, UNCHANGED vars PROVE IInv'
  BY DEF vars, db, run, hist, IInv, TypeOK, SpentHasRead, OwedIsServed,
         NothingSkipped, OwesOnlyAfter

LEMMA NextStep == IInv /\ [Next]_vars => IInv'
<1> SUFFICES ASSUME IInv, [Next]_vars PROVE IInv'
  OBVIOUS
<1>1. CASE \E r \in Record : Publish(r) \/ Withdraw(r)
  BY <1>1, PublisherStep
<1>2. CASE \E c \in Caller : \/ AskToResume(c) \/ AskFresh(c)
                             \/ StartGeneration(c) \/ Continue(c) \/ Conflict(c)
  BY <1>2, AskStep, StartStep
<1>3. CASE RunStep \/ FinishWithErrors \/ FailRun
  BY <1>3, EndStep, CommitStep DEF RunStep
<1>4. CASE UNCHANGED vars
  BY <1>4, StutterStep
<1>5. QED  BY <1>1, <1>2, <1>3, <1>4 DEF Next

-----------------------------------------------------------------------------
(* Theorems.                                                               *)

\* The inductive invariant: whatever runs fail, whoever starts a generation and
\* however long a caller holds a checkpoint, each generation that can be
\* continued owes only served records, all of them ahead of its cursor.
THEOREM InvariantHolds == Spec => []IInv
<1>1. QED  BY InitIInv, NextStep, PTL DEF Spec

\* The columns, the run and the checkpoints stay in their domains, nothing of a
\* run outlives it and a checkpoint of a generation lies past its first page.
THEOREM TypeCorrect == Spec => []TypeOK
<1>1. IInv => TypeOK
  BY DEF IInv
<1>2. QED  BY <1>1, InvariantHolds, PTL

\* Wherever a generation is continued from - the run, the stored checkpoint, a
\* checkpoint resolved long ago - no record served all along lies behind it
\* uncollected.
THEOREM NoHoleBehindTheCursor == Spec => []NothingSkipped
<1>1. IInv => NothingSkipped
  BY DEF IInv
<1>2. QED  BY <1>1, InvariantHolds, PTL

\* The last page of a generation holds all it still owes, so what it retires it
\* does not owe: no record is retired because a page failed, was skipped or was
\* not reached.
LEMMA RetiredIsPaid ==
  ASSUME IInv, [Next]_vars
  PROVE  \A r \in active \ active' : snap \in Snapshot /\ r \notin owed[snap]
<1> SUFFICES ASSUME NEW r \in active \ active'
             PROVE  snap \in Snapshot /\ r \notin owed[snap]
  OBVIOUS
<1>1. Complete
  <2>1. CASE UNCHANGED active
    BY <2>1
  <2>2. CASE CommitPage \/ FinishWithErrors \/ FailRun
    BY <2>2 DEF CommitPage, FinishWithErrors, FailRun, Persist
  <2>3. CASE Complete
    BY <2>3
  <2>4. QED
    BY <2>1, <2>2, <2>3
       DEF Next, RunStep, vars, db, run, hist, Publish, Withdraw, AskToResume, AskFresh,
           StartGeneration, Continue, Conflict, Claim, FinishPartial, TripGuard
<1> DEFINE page == PageAfter(cursor)
<1>2. /\ ~HasMore(page)
      /\ active' = (active \cup page) \ (IF snap = NoSnapshot THEN {} ELSE Missing(page))
  BY <1>1 DEF Complete
<1>3. published \subseteq Record /\ cursor \in Cursor /\ snap \in Snapshot \cup {NoSnapshot}
  BY DEF IInv, TypeOK
<1>4. page = After(cursor)
  BY <1>2, <1>3, ShortPage
<1> HIDE DEF page
<1>5. snap \in Snapshot /\ r \notin page
  BY <1>2, <1>3 DEF Missing
<1>6. owed[snap] \subseteq After(cursor)
  BY <1>5 DEF IInv, OwedIsServed, NothingSkipped, OwesOnlyAfter, After
<1>7. QED  BY <1>4, <1>5, <1>6

\* A generation retires no record that it owes.
THEOREM NoOwedRecordRetired == Spec => RetiredWasNotOwed
<1>1. IInv /\ [Next]_vars =>
        [\A r \in active \ active' : snap \in Snapshot /\ r \notin owed[snap]]_vars
  BY RetiredIsPaid
<1>2. QED  BY <1>1, InvariantHolds, PTL DEF Spec, RetiredWasNotOwed
=============================================================================
