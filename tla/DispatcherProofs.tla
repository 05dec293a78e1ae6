-------------------------- MODULE DispatcherProofs --------------------------
(***************************************************************************)
(* Proofs about Dispatcher, for every number of organizations, keys and    *)
(* dispatchers, every budget and every bound on cuts, outlasted leases and *)
(* activations.                                                            *)
(***************************************************************************)
EXTENDS Dispatcher, FiniteSetTheorems, SequenceTheorems, TLAPS

-----------------------------------------------------------------------------
(* What a sequence has at some of its indices.                             *)

Elements(s) == {s[i] : i \in DOMAIN s}
Distinct(s) == \A i, j \in DOMAIN s : s[i] = s[j] => i = j
UpTo(I, i) == {j \in I : j <= i}

\* Indices have different ranks, and every rank.
LEMMA Ranks ==
  ASSUME NEW m \in Nat, NEW I \in SUBSET (1 .. m)
  PROVE  /\ Cardinality(I) \in Nat
         /\ \A i \in I : Cardinality(UpTo(I, i)) \in 1 .. Cardinality(I)
         /\ \A i, k \in I : Cardinality(UpTo(I, i)) = Cardinality(UpTo(I, k)) => i = k
         /\ \A n \in 1 .. Cardinality(I) : \E i \in I : Cardinality(UpTo(I, i)) = n
<1>1. IsFiniteSet(I) /\ Cardinality(I) \in Nat
  <2>1. IsFiniteSet(1 .. m)
    BY FS_Interval
  <2>2. QED  BY <2>1, FS_Subset, FS_CardinalityType
<1>2. \A i : /\ IsFiniteSet(UpTo(I, i)) /\ Cardinality(UpTo(I, i)) \in Nat
             /\ Cardinality(UpTo(I, i)) <= Cardinality(I)
  <2> TAKE i
  <2>1. UpTo(I, i) \in SUBSET I
    BY DEF UpTo
  <2>2. QED  BY <1>1, <2>1, FS_Subset, FS_CardinalityType
<1>3. \A i \in I : Cardinality(UpTo(I, i)) \in 1 .. Cardinality(I)
  <2> TAKE i \in I
  <2>1. UpTo(I, i) # {}
    BY DEF UpTo
  <2>2. Cardinality(UpTo(I, i)) # 0
    BY <1>2, <2>1, FS_EmptySet
  <2>3. QED  BY <1>1, <1>2, <2>2
<1>4. \A i, k \in I : Cardinality(UpTo(I, i)) = Cardinality(UpTo(I, k)) => i = k
  <2>1. ASSUME NEW i \in I, NEW k \in I, i < k
        PROVE  Cardinality(UpTo(I, i)) # Cardinality(UpTo(I, k))
    <3>1. UpTo(I, i) \in SUBSET UpTo(I, k) /\ k \in UpTo(I, k) \ UpTo(I, i)
      <4>1. \A j \in I : j \in Nat
        OBVIOUS
      <4>2. \A j \in I : j <= i => j <= k
        BY <2>1, <4>1
      <4>3. ~(k <= i) /\ k <= k
        BY <2>1, <4>1
      <4>4. QED  BY <4>2, <4>3 DEF UpTo
    <3>2. QED  BY <1>2, <3>1, FS_Subset
  <2>2. \A i, k \in I : i < k \/ k < i \/ i = k
    OBVIOUS
  <2>3. QED  BY <2>1, <2>2
<1> DEFINE R == [i \in I |-> Cardinality(UpTo(I, i))]
           T == 1 .. Cardinality(I)
<1>5. R \in Injection(I, T)
  BY <1>3, <1>4 DEF Injection, IsInjective
<1>6. IsFiniteSet(T) /\ Cardinality(T) = Cardinality(I)
  BY <1>1, FS_Interval
<1>7. R \in Surjection(I, T)
  <2> HIDE DEF R, T
  <2>1. QED  BY <1>5, <1>6, FS_Injection
<1>8. \A n \in T : \E i \in I : Cardinality(UpTo(I, i)) = n
  BY <1>7 DEF Surjection
<1>9. QED  BY <1>1, <1>3, <1>4, <1>8

\* Nth is the inverse of the rank.
LEMMA NthIs ==
  ASSUME NEW m \in Nat, NEW I \in SUBSET (1 .. m)
  PROVE  /\ \A n \in 1 .. Cardinality(I) : Nth(I, n) \in I /\ Cardinality(UpTo(I, Nth(I, n))) = n
         /\ \A i \in I : Nth(I, Cardinality(UpTo(I, i))) = i
<1>0. /\ \A i \in I : Cardinality(UpTo(I, i)) \in 1 .. Cardinality(I)
      /\ \A i, k \in I : Cardinality(UpTo(I, i)) = Cardinality(UpTo(I, k)) => i = k
      /\ \A n \in 1 .. Cardinality(I) : \E i \in I : Cardinality(UpTo(I, i)) = n
  BY Ranks
<1>1. \A n : Nth(I, n) = CHOOSE i \in I : Cardinality(UpTo(I, i)) = n
  BY DEF Nth, UpTo
<1>2. ASSUME NEW n \in 1 .. Cardinality(I)
      PROVE  Nth(I, n) \in I /\ Cardinality(UpTo(I, Nth(I, n))) = n
  <2>1. \E i \in I : Cardinality(UpTo(I, i)) = n
    BY <1>0
  <2>2. QED  BY <1>1, <2>1
<1>3. ASSUME NEW i \in I PROVE Nth(I, Cardinality(UpTo(I, i))) = i
  <2>1. /\ Cardinality(UpTo(I, i)) \in 1 .. Cardinality(I)
        /\ \A k \in I : Cardinality(UpTo(I, k)) = Cardinality(UpTo(I, i)) => k = i
    BY <1>0
  <2>2. QED  BY <1>2, <2>1
<1>4. QED  BY <1>2, <1>3

\* Sifting keeps the elements at the indices, and their being distinct.
LEMMA SiftedIs ==
  ASSUME NEW S, NEW s \in Seq(S), NEW I \in SUBSET DOMAIN s
  PROVE  /\ Sifted(s, I) \in Seq(S)
         /\ Elements(Sifted(s, I)) = {s[i] : i \in I}
         /\ Distinct(s) => Distinct(Sifted(s, I))
<1> DEFINE t == Sifted(s, I)
           c == Cardinality(I)
<1>1. Len(s) \in Nat /\ DOMAIN s = 1 .. Len(s) /\ I \in SUBSET (1 .. Len(s))
      /\ \A i \in 1 .. Len(s) : s[i] \in S
  BY LenProperties, ElementOfSeq
<1>2. c \in Nat /\ \A i \in I : Cardinality(UpTo(I, i)) \in 1 .. c
  BY <1>1, Ranks
<1>3. /\ \A n \in 1 .. c : Nth(I, n) \in I /\ Cardinality(UpTo(I, Nth(I, n))) = n
      /\ \A i \in I : Nth(I, Cardinality(UpTo(I, i))) = i
  BY <1>1, NthIs
<1>4. t = [n \in 1 .. c |-> s[Nth(I, n)]]
  BY DEF Sifted
<1> HIDE DEF t, c
<1>5. t \in [1 .. c -> S]
  BY <1>1, <1>3, <1>4
<1>6. t \in Seq(S)
  BY <1>2, <1>5
<1>7. Elements(t) = {s[i] : i \in I}
  <2>1. ASSUME NEW n \in 1 .. c PROVE t[n] \in {s[i] : i \in I}
    BY <1>3, <1>4
  <2>2. ASSUME NEW i \in I PROVE \E n \in 1 .. c : t[n] = s[i]
    BY <1>2, <1>3, <1>4
  <2>3. DOMAIN t = 1 .. c
    BY <1>4
  <2>4. QED  BY <2>1, <2>2, <2>3 DEF Elements
<1>8. ASSUME Distinct(s) PROVE Distinct(t)
  <2> SUFFICES ASSUME NEW n \in 1 .. c, NEW k \in 1 .. c, t[n] = t[k] PROVE n = k
    BY <1>4 DEF Distinct
  <2>1. Nth(I, n) = Nth(I, k)
    BY <1>1, <1>3, <1>4, <1>8 DEF Distinct
  <2>2. QED  BY <1>3, <2>1
<1>9. QED  BY <1>6, <1>7, <1>8 DEF t

\* One sequence behind another.
LEMMA Joined ==
  ASSUME NEW S, NEW s \in Seq(S), NEW t \in Seq(S)
  PROVE  /\ s \o t \in Seq(S)
         /\ Elements(s \o t) = Elements(s) \cup Elements(t)
         /\ Distinct(s) /\ Distinct(t) /\ Elements(s) \cap Elements(t) = {} => Distinct(s \o t)
<1> DEFINE u == s \o t
<1>1. /\ Len(s) \in Nat /\ DOMAIN s = 1 .. Len(s) /\ Len(t) \in Nat /\ DOMAIN t = 1 .. Len(t)
  BY LenProperties
<1>2. /\ u \in Seq(S) /\ Len(u) = Len(s) + Len(t)
      /\ \A i \in 1 .. Len(s) + Len(t) : u[i] = IF i <= Len(s) THEN s[i] ELSE t[i - Len(s)]
  BY ConcatProperties
<1> HIDE DEF u
<1>3. DOMAIN u = 1 .. Len(s) + Len(t)
  BY <1>2, LenProperties
<1>4. /\ \A i \in 1 .. Len(s) : i \in DOMAIN u /\ u[i] = s[i]
      /\ \A i \in 1 .. Len(t) : Len(s) + i \in DOMAIN u /\ u[Len(s) + i] = t[i]
  <2>1. ASSUME NEW i \in 1 .. Len(s) PROVE i \in DOMAIN u /\ u[i] = s[i]
    <3>1. i \in 1 .. Len(s) + Len(t) /\ i <= Len(s)
      BY <1>1
    <3>2. QED  BY <1>2, <1>3, <3>1
  <2>2. ASSUME NEW i \in 1 .. Len(t) PROVE Len(s) + i \in DOMAIN u /\ u[Len(s) + i] = t[i]
    <3>1. Len(s) + i \in 1 .. Len(s) + Len(t) /\ ~(Len(s) + i <= Len(s)) /\ Len(s) + i - Len(s) = i
      BY <1>1
    <3>2. QED  BY <1>2, <1>3, <3>1
  <2>3. QED  BY <2>1, <2>2
<1>5. \A i \in DOMAIN u : i \in 1 .. Len(s) \/ \E j \in 1 .. Len(t) : i = Len(s) + j
  <2> SUFFICES ASSUME NEW i \in 1 .. Len(s) + Len(t), i \notin 1 .. Len(s)
               PROVE  \E j \in 1 .. Len(t) : i = Len(s) + j
    BY <1>3
  <2>1. i - Len(s) \in 1 .. Len(t) /\ i = Len(s) + (i - Len(s))
    BY <1>1
  <2>2. QED  BY <2>1
<1>6. Elements(u) = Elements(s) \cup Elements(t)
  <2>1. \A i \in DOMAIN u : u[i] \in Elements(s) \cup Elements(t)
    BY <1>1, <1>4, <1>5 DEF Elements
  <2>2. \A i \in DOMAIN s : s[i] \in Elements(u)
    BY <1>1, <1>4 DEF Elements
  <2>3. \A i \in DOMAIN t : t[i] \in Elements(u)
    BY <1>1, <1>4 DEF Elements
  <2>4. QED  BY <2>1, <2>2, <2>3 DEF Elements
<1>7. ASSUME Distinct(s), Distinct(t), Elements(s) \cap Elements(t) = {} PROVE Distinct(u)
  <2> SUFFICES ASSUME NEW i \in DOMAIN u, NEW k \in DOMAIN u, u[i] = u[k] PROVE i = k
    BY DEF Distinct
  <2>1. CASE i \in 1 .. Len(s) /\ k \in 1 .. Len(s)
    BY <1>1, <1>4, <1>7, <2>1 DEF Distinct
  <2>2. ASSUME NEW j \in 1 .. Len(t), NEW l \in 1 .. Len(t), i = Len(s) + j, k = Len(s) + l
        PROVE  i = k
    BY <1>1, <1>4, <1>7, <2>2 DEF Distinct
  <2>3. ASSUME NEW a \in 1 .. Len(s), NEW j \in 1 .. Len(t), s[a] = t[j] PROVE FALSE
    BY <1>1, <1>7, <2>3 DEF Elements
  <2>4. QED  BY <1>4, <1>5, <2>1, <2>2, <2>3
<1>8. QED  BY <1>2, <1>6, <1>7 DEF u

\* A set of keys, listed in their order.
LEMMA Requeued ==
  ASSUME NEW Y \in SUBSET Key, DispatcherAssumption
  PROVE  /\ Sifted([k \in Key |-> k], Y) \in Seq(Key)
         /\ Elements(Sifted([k \in Key |-> k], Y)) = Y
         /\ Distinct(Sifted([k \in Key |-> k], Y))
<1> DEFINE s == [k \in Key |-> k]
<1>1. s \in Seq(Key) /\ DOMAIN s = Key
  <2>1. Keys \in Nat /\ s \in [1 .. Keys -> Key]
    BY DEF Key, DispatcherAssumption
  <2>4. DOMAIN s = Key
    OBVIOUS
  <2> HIDE DEF s
  <2>2. s \in Seq(Key)
    BY <2>1
  <2>3. QED  BY <2>4, <2>2
<1>2. Distinct(s) /\ {s[i] : i \in Y} = Y
  BY DEF Distinct
<1> HIDE DEF s
<1>3. Y \in SUBSET DOMAIN s
  BY <1>1
<1>4. /\ Sifted(s, Y) \in Seq(Key)
      /\ Elements(Sifted(s, Y)) = {s[i] : i \in Y}
      /\ Distinct(s) => Distinct(Sifted(s, Y))
  BY <1>1, <1>3, SiftedIs
<1>5. /\ Sifted(s, Y) \in Seq(Key)
      /\ Elements(Sifted(s, Y)) = Y
      /\ Distinct(Sifted(s, Y))
  BY <1>2, <1>4
<1>6. QED  BY <1>5 DEF s

\* One more at the end.
LEMMA Queued ==
  ASSUME NEW S, NEW s \in Seq(S), NEW e \in S
  PROVE  /\ Append(s, e) \in Seq(S)
         /\ Elements(Append(s, e)) = Elements(s) \cup {e}
         /\ Distinct(s) /\ e \notin Elements(s) => Distinct(Append(s, e))
<1> DEFINE u == Append(s, e)
<1>1. Len(s) \in Nat /\ DOMAIN s = 1 .. Len(s)
  BY LenProperties
<1>2. /\ u \in Seq(S) /\ Len(u) = Len(s) + 1
      /\ \A i \in 1 .. Len(s) : u[i] = s[i]
      /\ u[Len(s) + 1] = e
  BY AppendProperties
<1> HIDE DEF u
<1>3. DOMAIN u = 1 .. Len(s) + 1
  BY <1>2, LenProperties
<1>4. Elements(u) = Elements(s) \cup {e}
  <2>1. \A i \in 1 .. Len(s) + 1 : i \in 1 .. Len(s) \/ i = Len(s) + 1
    BY <1>1
  <2>2. \A i \in 1 .. Len(s) : i \in 1 .. Len(s) + 1
    BY <1>1
  <2>3. Len(s) + 1 \in 1 .. Len(s) + 1
    BY <1>1
  <2>4. QED  BY <1>1, <1>2, <1>3, <2>1, <2>2, <2>3 DEF Elements
<1>5. ASSUME Distinct(s), e \notin Elements(s) PROVE Distinct(u)
  BY <1>1, <1>2, <1>3, <1>5 DEF Distinct, Elements
<1>6. QED  BY <1>2, <1>4, <1>5 DEF u

-----------------------------------------------------------------------------

USE DispatcherAssumption DEF Org, Key, Works

Phases == {"idle", "orgs", "claim", "running"}
Times == {"null", "later", "past"}
Leases == {"none", "live", "expired"}

USE DEF Phases, Times, Leases

\* TypeOK without the order of the due rows and the budgets; a dispatcher at work
\* has a row of the table in hand.
Typed ==
  /\ enabled \in [Org -> BOOLEAN]
  /\ active \subseteq Row /\ shaken \subseteq Row
  /\ next \in [Row -> Times]
  /\ token \in [Row -> Dispatcher \cup {Nobody}]
  /\ lease \in [Row -> Leases]
  /\ pc \in [Dispatcher -> Phases]
  /\ org \in [Dispatcher -> Int]
  /\ todo = [p \in Dispatcher |-> todo[p]]
  /\ handled \in [Dispatcher -> Int]
  /\ overtaken \subseteq Dispatcher
  /\ misled \subseteq Org
  /\ \A o \in Org : enabled[o] \in seen[o] /\ seen[o] \subseteq BOOLEAN
  /\ seen = [o \in Org |-> seen[o]]
  /\ \A p \in Dispatcher : Works(p) => Current(p) \in Row

\* What an activation in progress will write concerns its organization, and
\* leaves each row that it wants with a time.
DraftSound ==
  draft # NoDraft =>
    /\ draft.org \in Org /\ draft.on \in BOOLEAN /\ draft.saw \in BOOLEAN
    /\ \A r \in draft.added : r \in Row
    /\ \A r \in draft.removed \cup draft.added \cup draft.wiped
               \cup draft.scheduled \cup draft.unscheduled : r[1] = draft.org
    /\ \A r \in draft.wiped : r \in Row
    /\ draft.on => \A r \in (active \ draft.removed) \cup draft.added :
         r[1] = draft.org =>
           r \in draft.scheduled \/ (next[r] # "null" /\ r \notin draft.unscheduled)

-----------------------------------------------------------------------------
(* Types, one step per action.                                             *)

LEMMA InitTyped == Init => Typed /\ DraftSound
  BY DEF Init, Typed, DraftSound

\* Updating a function whose range is left open.
LEMMA UpdateOne ==
  ASSUME NEW D, NEW f, f = [q \in D |-> f[q]], NEW p \in D, NEW v,
         NEW g, g = [f EXCEPT ![p] = v]
  PROVE  /\ g = [q \in D |-> g[q]]
         /\ g[p] = v /\ \A q \in D : q # p => g[q] = f[q]
  OBVIOUS

\* A dispatcher that leaves the row it had, or moves to another organization.
LEMMA MovesTyped ==
  ASSUME Typed, NEW p \in Dispatcher, EndPass(p) \/ NextOrg(p)
  PROVE  /\ pc' \in [Dispatcher -> Phases] /\ org' \in [Dispatcher -> Int]
         /\ todo' = [q \in Dispatcher |-> todo'[q]] /\ handled' \in [Dispatcher -> Int]
         /\ pc'[p] # "running"
         /\ \A q \in Dispatcher : q # p => /\ pc'[q] = pc[q] /\ org'[q] = org[q]
                                           /\ todo'[q] = todo[q]
<1>1. /\ pc' \in [Dispatcher -> Phases] /\ org' \in [Dispatcher -> Int]
      /\ handled' \in [Dispatcher -> Int]
      /\ pc'[p] # "running"
      /\ \A q \in Dispatcher : q # p => pc'[q] = pc[q] /\ org'[q] = org[q]
  <2>1. CASE EndPass(p)
    BY <2>1 DEF EndPass, Goto, Typed
  <2>2. CASE NextOrg(p)
    <3>1. org[p] + 1 \in Int
      BY DEF Typed
    <3>2. QED  BY <2>2, <3>1 DEF NextOrg, Goto, Typed
  <2>3. QED  BY <2>1, <2>2
<1>2. todo = [q \in Dispatcher |-> todo[q]] /\ todo' = [todo EXCEPT ![p] = <<>>]
  BY DEF EndPass, NextOrg, Typed
<1>3. todo' = [q \in Dispatcher |-> todo'[q]]
      /\ \A q \in Dispatcher : q # p => todo'[q] = todo[q]
  BY <1>2, UpdateOne
<1>4. QED  BY <1>1, <1>3

LEMMA TimeTyped ==
  ASSUME Typed, DraftSound,
         \/ \E o \in Org, k \in Key : BecomesDue(o, k)
         \/ \E r \in Row : LeaseExpires(r) \/ LeaseOverruns(r)
  PROVE  Typed' /\ DraftSound'
<1>1. Typed'
  <2>1. next' \in [Row -> Times] /\ lease' \in [Row -> Leases] /\ shaken' \subseteq Row
    <3>1. CASE \E o \in Org, k \in Key : BecomesDue(o, k)
      <4>1. PICK o \in Org, k \in Key : BecomesDue(o, k)
        BY <3>1
      <4>2. next' = [next EXCEPT ![<<o, k>>] = "past"] /\ UNCHANGED <<lease, shaken>>
        BY <4>1 DEF BecomesDue, hist
      <4>3. next \in [Row -> Times] /\ lease \in [Row -> Leases] /\ shaken \subseteq Row
        BY DEF Typed
      <4>4. next' \in [Row -> Times]
        BY <4>2, <4>3
      <4>5. QED  BY <4>2, <4>3, <4>4
    <3>2. CASE \E r \in Row : LeaseExpires(r) \/ LeaseOverruns(r)
      <4>1. PICK r \in Row : LeaseExpires(r) \/ LeaseOverruns(r)
        BY <3>2
      <4>2. /\ lease' = [lease EXCEPT ![r] = "expired"] /\ next' = next
            /\ shaken' = shaken \/ shaken' = shaken \cup {r}
        BY <4>1 DEF LeaseExpires, LeaseOverruns, hist
      <4>3. QED  BY <4>2 DEF Typed
    <3>3. QED  BY <3>1, <3>2
  <2>2. UNCHANGED <<enabled, active, token, pass, overtaken, seen, misled>>
    BY DEF BecomesDue, LeaseExpires, LeaseOverruns, hist
  <2>3. QED  BY <2>1, <2>2 DEF pass, Typed, Current
<1>2. UNCHANGED <<active, draft>>
      /\ \A r \in Row : next[r] # "null" => next'[r] # "null"
  BY DEF BecomesDue, LeaseExpires, LeaseOverruns, Typed
<1>3. DraftSound'
  BY <1>2 DEF DraftSound, Typed
<1>4. QED  BY <1>1, <1>3

\* A step between two rows leaves every other dispatcher where it is.
LEMMA MoveStays ==
  ASSUME Typed, NEW p \in Dispatcher,
         StartPass(p) \/ EnterOrg(p) \/ LeaveOrg(p) \/ Cut(p)
  PROVE  /\ pc' \in [Dispatcher -> Phases] /\ org' \in [Dispatcher -> Int]
         /\ todo' = [q \in Dispatcher |-> todo'[q]] /\ handled' \in [Dispatcher -> Int]
         /\ pc'[p] # "running"
         /\ \A q \in Dispatcher : q # p => /\ pc'[q] = pc[q] /\ org'[q] = org[q]
                                           /\ todo'[q] = todo[q]
<1>1. CASE EndPass(p) \/ NextOrg(p)
  BY <1>1, MovesTyped
<1>2. CASE ~(EndPass(p) \/ NextOrg(p))
  <2>1. todo = [q \in Dispatcher |-> todo[q]]
    BY DEF Typed
  <2>2. todo' = todo \/ \E v : todo' = [todo EXCEPT ![p] = v]
    BY <1>2 DEF StartPass, EnterOrg, LeaveOrg, Cut
  <2>3. todo' = [q \in Dispatcher |-> todo'[q]]
        /\ \A q \in Dispatcher : q # p => todo'[q] = todo[q]
    BY <2>1, <2>2, UpdateOne
  <2>4. pc' \in [Dispatcher -> Phases] /\ pc'[p] # "running"
        /\ \A q \in Dispatcher : q # p => pc'[q] = pc[q]
    <3>1. pc' = [pc EXCEPT ![p] = "orgs"] \/ pc' = [pc EXCEPT ![p] = "claim"]
      BY <1>2 DEF StartPass, EnterOrg, LeaveOrg, Cut, Goto
    <3>2. pc \in [Dispatcher -> Phases]
      BY DEF Typed
    <3>3. QED  BY <3>1, <3>2
  <2>5. UNCHANGED <<org, handled>>
    BY <1>2 DEF StartPass, EnterOrg, LeaveOrg, Cut
  <2>6. QED  BY <2>3, <2>4, <2>5 DEF Typed
<1>3. QED  BY <1>1, <1>2

LEMMA MoveTyped ==
  ASSUME Typed, DraftSound, NEW p \in Dispatcher,
         StartPass(p) \/ EnterOrg(p) \/ LeaveOrg(p) \/ Cut(p)
  PROVE  Typed' /\ DraftSound'
<1>1. UNCHANGED <<enabled, table, draft, hist>>
  BY DEF StartPass, EnterOrg, LeaveOrg, Cut
<1>2. /\ pc' \in [Dispatcher -> Phases] /\ org' \in [Dispatcher -> Int]
      /\ todo' = [q \in Dispatcher |-> todo'[q]] /\ handled' \in [Dispatcher -> Int]
      /\ pc'[p] # "running"
      /\ \A q \in Dispatcher : q # p => /\ pc'[q] = pc[q] /\ org'[q] = org[q]
                                        /\ todo'[q] = todo[q]
  BY MoveStays
<1>3. Typed'
  BY <1>1, <1>2 DEF Typed, Current, table, hist
<1>4. DraftSound'
  BY <1>1 DEF DraftSound, table
<1>5. QED  BY <1>3, <1>4

LEMMA ClaimTyped ==
  ASSUME Typed, DraftSound, NEW p \in Dispatcher, Claim(p)
  PROVE  Typed' /\ DraftSound'
<1>1. UNCHANGED <<enabled, active, next, org, draft, shaken, seen, misled>>
  BY DEF Claim
<1>2. DraftSound'
  BY <1>1 DEF DraftSound
<1>3. CASE Claimable(Current(p))
  <2>1. Current(p) \in Row
    BY <1>3 DEF Claimable, Typed
  <2>2. /\ token' = [token EXCEPT ![Current(p)] = p]
        /\ lease' = [lease EXCEPT ![Current(p)] = "live"]
        /\ handled' = [handled EXCEPT ![p] = @ + 1]
        /\ overtaken' = (overtaken \ {p}) \cup HeldBy(Current(p))
        /\ pc' = [pc EXCEPT ![p] = "running"] /\ todo' = todo
    BY <1>3 DEF Claim, Goto
  <2>3. HeldBy(Current(p)) \subseteq Dispatcher
    BY DEF HeldBy
  <2>4. /\ token' \in [Row -> Dispatcher \cup {Nobody}] /\ lease' \in [Row -> Leases]
        /\ handled' \in [Dispatcher -> Int] /\ overtaken' \subseteq Dispatcher
        /\ pc' \in [Dispatcher -> Phases] /\ todo' = [q \in Dispatcher |-> todo'[q]]
    BY <2>1, <2>2, <2>3 DEF Typed
  <2>5. \A q \in Dispatcher : Works(q)' => Current(q)' \in Row
    BY <1>1, <2>1, <2>2 DEF Typed, Current
  <2>6. QED  BY <1>1, <1>2, <2>4, <2>5 DEF Typed
<1>4. CASE ~Claimable(Current(p))
  <2>1. todo' = [todo EXCEPT ![p] = Tail(@)]
        /\ UNCHANGED <<token, lease, handled, overtaken, pc>> /\ pc[p] = "claim"
    BY <1>4 DEF Claim
  <2>2. \A q \in Dispatcher : Works(q)' => Current(q)' \in Row
    BY <1>1, <2>1 DEF Typed, Current
  <2>3. todo' = [q \in Dispatcher |-> todo'[q]]
    BY <2>1, UpdateOne DEF Typed
  <2>4. QED  BY <1>1, <1>2, <2>1, <2>2, <2>3 DEF Typed
<1>5. QED  BY <1>3, <1>4

LEMMA CompleteTyped ==
  ASSUME Typed, DraftSound, NEW p \in Dispatcher, Complete(p)
  PROVE  Typed' /\ DraftSound'
<1>1. Current(p) \in Row
  BY DEF Complete, Typed
<1>2. UNCHANGED <<enabled, active, org, handled, draft, hist>>
      /\ todo' = [todo EXCEPT ![p] = Tail(@)] /\ pc' = [pc EXCEPT ![p] = "claim"]
  BY DEF Complete, Goto
<1>3. \/ UNCHANGED <<token, lease, next>>
      \/ /\ token' = [token EXCEPT ![Current(p)] = Nobody]
         /\ lease' = [lease EXCEPT ![Current(p)] = "none"]
         /\ next' = [next EXCEPT ![Current(p)] = "later"]
  BY DEF Complete
<1>4. /\ token' \in [Row -> Dispatcher \cup {Nobody}] /\ lease' \in [Row -> Leases]
      /\ next' \in [Row -> Times] /\ \A r \in Row : next[r] # "null" => next'[r] # "null"
  BY <1>1, <1>3 DEF Typed
<1>5. /\ pc' \in [Dispatcher -> Phases] /\ todo' = [q \in Dispatcher |-> todo'[q]]
      /\ \A q \in Dispatcher : Works(q)' => Current(q)' \in Row
  BY <1>2 DEF Typed, Current
<1>6. Typed'
  BY <1>2, <1>4, <1>5 DEF Typed, hist
<1>7. DraftSound'
  BY <1>2, <1>4 DEF DraftSound, Typed
<1>8. QED  BY <1>6, <1>7

\* The decision of an activation: what it removes and adds leaves the keys asked,
\* and each of these has a time or gets one.
LEMMA BeginActivationTyped ==
  ASSUME Typed, DraftSound, NEW o \in Org, NEW wanted \in SUBSET Key, NEW on \in BOOLEAN,
         NEW saw \in BOOLEAN, BeginActivation(o, wanted, on, saw)
  PROVE  Typed' /\ DraftSound'
<1> DEFINE asked == {o} \X wanted
           removed == {r \in active : r[1] = o} \ asked
<1>1. UNCHANGED <<enabled, table, pass, hist>>
  BY DEF BeginActivation
<1>2. Typed'
  BY <1>1 DEF Typed, table, pass, hist, Current
<1>3. /\ draft'.org = o /\ draft'.on = on /\ draft'.saw = saw
      /\ draft'.removed = removed /\ draft'.added = asked \ active
      /\ draft'.wiped = {r \in removed : token[r] # Nobody}
      /\ draft'.scheduled = {r \in asked : next[r] = "null" /\ Wish(r, on) # "null"}
      /\ draft'.unscheduled = {r \in removed : next[r] # "null"} \cup
                              {r \in asked : next[r] # "null" /\ Wish(r, on) = "null"}
  BY DEF BeginActivation
<1>4. asked \subseteq Row /\ removed \subseteq Row
      /\ \A r \in asked \cup removed : r[1] = o
  BY DEF Typed, Row
<1> HIDE DEF asked
<1>5. \A r \in asked : on => IF next[r] = "null" THEN Wish(r, on) = "past"
                             ELSE Wish(r, on) = next[r]
  BY DEF Wish
<1>6. \A r \in (active \ removed) \cup (asked \ active) : r[1] = o => r \in asked
  OBVIOUS
<1>7. on => \A r \in asked : r \in draft'.scheduled
                             \/ (next[r] # "null" /\ r \notin draft'.unscheduled)
  BY <1>3, <1>5
<1>8. active' = active /\ next' = next
  BY <1>1 DEF table
<1>9. DraftSound'
  BY <1>3, <1>4, <1>6, <1>7, <1>8 DEF DraftSound
<1>10. QED  BY <1>2, <1>9

LEMMA FinishActivationTyped ==
  ASSUME Typed, DraftSound, FinishActivation
  PROVE  Typed' /\ DraftSound'
<1>1. /\ enabled' = [enabled EXCEPT ![draft.org] = Switched(enabled[draft.org])]
      /\ seen' = [seen EXCEPT ![draft.org] = seen[draft.org] \cup {enabled'[draft.org]}]
      /\ misled' \subseteq misled \cup {draft.org}
      /\ active' = (active \ draft.removed) \cup draft.added
      /\ next' = [r \in Row |-> IF r \in draft.scheduled THEN "past"
                                ELSE IF r \in draft.unscheduled THEN "null" ELSE next[r]]
      /\ token' = [r \in Row |-> IF r \in draft.wiped THEN Nobody ELSE token[r]]
      /\ lease' = [r \in Row |-> IF r \in draft.wiped THEN "none" ELSE lease[r]]
      /\ overtaken' = overtaken \cup UNION {HeldBy(r) : r \in draft.wiped}
      /\ shaken' = shaken \cup draft.wiped
      /\ draft' = NoDraft /\ UNCHANGED pass
      /\ draft # NoDraft
  BY DEF FinishActivation
<1>2. /\ draft.org \in Org /\ draft.on \in BOOLEAN
      /\ draft.added \subseteq Row /\ draft.wiped \subseteq Row
  BY <1>1 DEF DraftSound
<1>3. /\ enabled' \in [Org -> BOOLEAN] /\ misled' \subseteq Org
      /\ \A o \in Org : enabled'[o] \in seen'[o] /\ seen'[o] \subseteq BOOLEAN
      /\ seen' = [o \in Org |-> seen'[o]]
  <2>1. Switched(enabled[draft.org]) \in BOOLEAN
    BY <1>2 DEF Typed, Switched
  <2>2. enabled' \in [Org -> BOOLEAN] /\ misled' \subseteq Org
    BY <1>1, <1>2, <2>1 DEF Typed
  <2>3. seen' = [o \in Org |-> seen'[o]] /\ seen'[draft.org] = seen[draft.org] \cup {enabled'[draft.org]}
        /\ \A o \in Org : o # draft.org => seen'[o] = seen[o]
    BY <1>1, <1>2 DEF Typed
  <2>4. \A o \in Org : o # draft.org => enabled'[o] = enabled[o]
    BY <1>1, <1>2 DEF Typed
  <2>5. enabled'[draft.org] \in BOOLEAN
    BY <1>2, <2>2
  <2>6. QED  BY <1>2, <2>2, <2>3, <2>4, <2>5 DEF Typed
<1>4. active' \subseteq Row /\ shaken' \subseteq Row
  BY <1>1, <1>2 DEF Typed
<1>5. next' \in [Row -> Times] /\ token' \in [Row -> Dispatcher \cup {Nobody}]
      /\ lease' \in [Row -> Leases]
  BY <1>1 DEF Typed
<1>6. overtaken' \subseteq Dispatcher
  BY <1>1 DEF Typed, HeldBy
<1>7. Typed'
  BY <1>1, <1>3, <1>4, <1>5, <1>6 DEF Typed, pass, Current
<1>8. DraftSound'
  BY <1>1 DEF DraftSound
<1>9. QED  BY <1>7, <1>8

LEMMA TypedStep == Typed /\ DraftSound /\ [Next]_vars => Typed' /\ DraftSound'
<1> SUFFICES ASSUME Typed, DraftSound, [Next]_vars PROVE Typed' /\ DraftSound'
  OBVIOUS
<1>1. CASE UNCHANGED vars
  BY <1>1 DEF vars, table, pass, hist, Typed, DraftSound, Current
<1>2. CASE Next
  BY <1>2, TimeTyped, MoveTyped, ClaimTyped, CompleteTyped, BeginActivationTyped,
     FinishActivationTyped DEF Next, PassStep
<1>3. QED  BY <1>1, <1>2

-----------------------------------------------------------------------------
(* Fencing.                                                                *)

\* The token of the row tells a dispatcher at work whether its claim was replaced
\* or wiped.
Fenced ==
  \A p \in Dispatcher : Works(p) => (token[Current(p)] = p <=> p \notin overtaken)

\* A row that lost no lease under a dispatcher is held by the one it names.
Holding ==
  \A p \in Dispatcher : (Works(p) /\ Current(p) \notin shaken) =>
    lease[Current(p)] = "live" /\ token[Current(p)] = p

\* A dispatcher goes on with its row, and the row with it.
LEMMA FencingFrame ==
  ASSUME Typed, Fenced, Holding, overtaken' = overtaken, shaken \subseteq shaken',
         \A p \in Dispatcher : Works(p)' => /\ Works(p) /\ Current(p)' = Current(p)
                                            /\ token'[Current(p)] = token[Current(p)]
                                            /\ lease'[Current(p)] = lease[Current(p)]
                                                 \/ Current(p) \in shaken'
  PROVE  Fenced' /\ Holding'
  BY DEF Fenced, Holding

LEMMA TimeFenced ==
  ASSUME Typed, Fenced, Holding,
         \/ \E o \in Org, k \in Key : BecomesDue(o, k)
         \/ \E r \in Row : LeaseExpires(r) \/ LeaseOverruns(r)
  PROVE  Fenced' /\ Holding'
<1>1. UNCHANGED <<pass, token, overtaken>> /\ shaken \subseteq shaken'
  BY DEF BecomesDue, LeaseExpires, LeaseOverruns, hist
<1>2. \A p \in Dispatcher : (Works(p)' <=> Works(p)) /\ Current(p)' = Current(p)
  BY <1>1 DEF pass, Current
<1>3. ASSUME NEW p \in Dispatcher, Works(p)
      PROVE  lease'[Current(p)] = lease[Current(p)] \/ Current(p) \in shaken'
  <2>1. Current(p) \in Row
    BY <1>3 DEF Typed
  <2>2. CASE \E o \in Org, k \in Key : BecomesDue(o, k)
    BY <2>2 DEF BecomesDue
  <2>3. ASSUME NEW r \in Row, LeaseExpires(r)
        PROVE  lease'[Current(p)] = lease[Current(p)]
    <3>1. p \notin HeldBy(r) /\ lease' = [lease EXCEPT ![r] = "expired"]
      BY <2>3 DEF LeaseExpires
    <3>2. Current(p) # r
      BY <1>3, <3>1 DEF HeldBy
    <3>3. QED  BY <2>1, <3>1, <3>2 DEF Typed
  <2>4. ASSUME NEW r \in Row, LeaseOverruns(r)
        PROVE  lease'[Current(p)] = lease[Current(p)] \/ Current(p) \in shaken'
    BY <2>1, <2>4 DEF LeaseOverruns, Typed
  <2>5. QED  BY <2>2, <2>3, <2>4
<1>4. QED  BY <1>1, <1>2, <1>3, FencingFrame

LEMMA MoveFenced ==
  ASSUME Typed, Fenced, Holding, NEW p \in Dispatcher,
         StartPass(p) \/ EnterOrg(p) \/ LeaveOrg(p) \/ Cut(p)
  PROVE  Fenced' /\ Holding'
<1>1. UNCHANGED <<token, lease, overtaken, shaken>>
  BY DEF StartPass, EnterOrg, LeaveOrg, Cut, table, hist
<1>2. pc'[p] # "running"
      /\ \A q \in Dispatcher : q # p => /\ pc'[q] = pc[q] /\ org'[q] = org[q]
                                        /\ todo'[q] = todo[q]
  BY MoveStays
<1>3. \A q \in Dispatcher : Works(q)' => Works(q) /\ Current(q)' = Current(q)
  BY <1>2 DEF Current
<1>4. QED  BY <1>1, <1>3, FencingFrame

\* Whoever works on the row that is claimed had lost its lease, and is overtaken.
LEMMA ClaimFenced ==
  ASSUME Typed, Fenced, Holding, NEW p \in Dispatcher, Claim(p)
  PROVE  Fenced' /\ Holding'
<1>1. UNCHANGED <<org, shaken>> /\ pc[p] = "claim"
  BY DEF Claim
<1>2. CASE Claimable(Current(p))
  <2> DEFINE r == Current(p)
  <2>1. /\ r \in Row /\ lease[r] # "live"
        /\ token' = [token EXCEPT ![r] = p] /\ lease' = [lease EXCEPT ![r] = "live"]
        /\ overtaken' = (overtaken \ {p}) \cup HeldBy(r)
        /\ pc' = [pc EXCEPT ![p] = "running"] /\ todo' = todo
    BY <1>2 DEF Claim, Claimable, Goto, Typed
  <2>2. \A q \in Dispatcher : Current(q)' = Current(q)
    BY <1>1, <2>1 DEF Current
  <2>3. \A q \in Dispatcher : q # p => (Works(q)' <=> Works(q))
    BY <2>1 DEF Typed
  <2>4. \A q \in Dispatcher : q \in HeldBy(r) <=> Works(q) /\ Current(q) = r
    BY DEF HeldBy
  <2> HIDE DEF r
  <2>5. ASSUME NEW q \in Dispatcher, Works(q)'
        PROVE  /\ token'[Current(q)] = q <=> q \notin overtaken'
               /\ Current(q) \notin shaken => lease'[Current(q)] = "live"
                                             /\ token'[Current(q)] = q
    <3>1. CASE q = p
      <4>1. p \notin HeldBy(r)
        BY <1>1, <2>4
      <4>2. Current(q) = r
        BY <3>1 DEF r
      <4>3. QED  BY <2>1, <3>1, <4>1, <4>2 DEF Typed
    <3>2. CASE q # p /\ Current(q) = r
      <4>1. Works(q) /\ q \in HeldBy(r)
        BY <2>3, <2>4, <2>5, <3>2
      <4>2. r \in shaken
        BY <2>1, <3>2, <4>1 DEF Holding
      <4>3. token'[r] = p
        BY <2>1 DEF Typed
      <4>4. QED  BY <2>1, <3>2, <4>1, <4>2, <4>3
    <3>3. CASE q # p /\ Current(q) # r
      <4>1. Works(q) /\ q \notin HeldBy(r)
        BY <2>3, <2>4, <2>5, <3>3
      <4>2. Current(q) \in Row
        BY <4>1 DEF Typed
      <4>3. token'[Current(q)] = token[Current(q)] /\ lease'[Current(q)] = lease[Current(q)]
        BY <2>1, <3>3, <4>2 DEF Typed
      <4>4. QED  BY <2>1, <3>3, <4>1, <4>3 DEF Fenced, Holding
    <3>4. QED  BY <3>1, <3>2, <3>3
  <2>6. QED  BY <1>1, <2>2, <2>5 DEF Fenced, Holding
<1>3. CASE ~Claimable(Current(p))
  <2>1. UNCHANGED <<token, lease, overtaken, pc>> /\ todo' = [todo EXCEPT ![p] = Tail(@)]
    BY <1>3 DEF Claim
  <2>2. \A q \in Dispatcher : q # p => todo'[q] = todo[q]
    BY <2>1, UpdateOne DEF Typed
  <2>3. \A q \in Dispatcher : Works(q)' => Works(q) /\ Current(q)' = Current(q)
    BY <1>1, <2>1, <2>2 DEF Current
  <2>4. QED  BY <1>1, <2>1, <2>3, FencingFrame
<1>4. QED  BY <1>2, <1>3

LEMMA CompleteFenced ==
  ASSUME Typed, Fenced, Holding, NEW p \in Dispatcher, Complete(p)
  PROVE  Fenced' /\ Holding'
<1> DEFINE r == Current(p)
<1>1. /\ UNCHANGED <<org, overtaken, shaken>> /\ pc[p] = "running"
      /\ todo' = [todo EXCEPT ![p] = Tail(@)] /\ pc' = [pc EXCEPT ![p] = "claim"]
  BY DEF Complete, Goto, hist
<1>2. \A q \in Dispatcher : q # p => todo'[q] = todo[q]
  BY <1>1, UpdateOne DEF Typed
<1>3. \A q \in Dispatcher : Works(q)' => q # p /\ Works(q) /\ Current(q)' = Current(q)
  BY <1>1, <1>2 DEF Current, Typed
<1>4. CASE HoldsClaim(p)
  <2>1. /\ token' = [token EXCEPT ![r] = Nobody] /\ lease' = [lease EXCEPT ![r] = "none"]
        /\ token[r] = p
    BY <1>4 DEF Complete, HoldsClaim
  <2>2. r \in Row
    BY <1>1 DEF Typed
  <2> HIDE DEF r
  <2>3. ASSUME NEW q \in Dispatcher, Works(q)'
        PROVE  /\ token'[Current(q)] = q <=> q \notin overtaken
               /\ Current(q) \notin shaken => lease'[Current(q)] = "live"
                                             /\ token'[Current(q)] = q
    <3>1. q # p /\ Works(q)
      BY <1>3, <2>3
    <3>2. CASE Current(q) = r
      <4>1. q \in overtaken /\ r \in shaken
        BY <2>1, <3>1, <3>2 DEF Fenced, Holding
      <4>2. token'[r] = Nobody /\ Nobody # q
        BY <2>1, <2>2 DEF Typed
      <4>3. QED  BY <3>2, <4>1, <4>2
    <3>3. CASE Current(q) # r
      <4>1. Current(q) \in Row
        BY <3>1 DEF Typed
      <4>2. token'[Current(q)] = token[Current(q)] /\ lease'[Current(q)] = lease[Current(q)]
        BY <2>1, <3>3, <4>1 DEF Typed
      <4>3. QED  BY <3>1, <4>2 DEF Fenced, Holding
    <3>4. QED  BY <3>2, <3>3
  <2>4. QED  BY <1>1, <1>3, <2>3 DEF Fenced, Holding
<1>5. CASE ~HoldsClaim(p)
  <2>1. UNCHANGED <<token, lease>>
    BY <1>5 DEF Complete
  <2>2. QED  BY <1>1, <1>3, <2>1, FencingFrame
<1>6. QED  BY <1>4, <1>5

\* The dispatchers whose rows an activation wipes are overtaken.
LEMMA FinishActivationFenced ==
  ASSUME Typed, DraftSound, Fenced, Holding, FinishActivation
  PROVE  Fenced' /\ Holding'
<1>1. /\ token' = [r \in Row |-> IF r \in draft.wiped THEN Nobody ELSE token[r]]
      /\ lease' = [r \in Row |-> IF r \in draft.wiped THEN "none" ELSE lease[r]]
      /\ overtaken' = overtaken \cup UNION {HeldBy(r) : r \in draft.wiped}
      /\ shaken' = shaken \cup draft.wiped
      /\ UNCHANGED pass
  BY DEF FinishActivation
<1>2. \A q \in Dispatcher : (Works(q)' <=> Works(q)) /\ Current(q)' = Current(q)
  BY <1>1 DEF pass, Current
<1>3. ASSUME NEW q \in Dispatcher, Works(q)
      PROVE  /\ token'[Current(q)] = q <=> q \notin overtaken'
             /\ Current(q) \notin shaken' => lease'[Current(q)] = "live"
                                            /\ token'[Current(q)] = q
  <2>1. Current(q) \in Row
    BY <1>3 DEF Typed
  <2>2. q \in UNION {HeldBy(r) : r \in draft.wiped} <=> Current(q) \in draft.wiped
    BY <1>3 DEF HeldBy
  <2>3. CASE Current(q) \in draft.wiped
    BY <1>1, <2>1, <2>2, <2>3
  <2>4. CASE Current(q) \notin draft.wiped
    <3>1. token'[Current(q)] = token[Current(q)] /\ lease'[Current(q)] = lease[Current(q)]
      BY <1>1, <2>1, <2>4
    <3>2. QED  BY <1>1, <1>3, <2>2, <2>4, <3>1 DEF Fenced, Holding
  <2>5. QED  BY <2>3, <2>4
<1>4. QED  BY <1>2, <1>3 DEF Fenced, Holding

LEMMA FencingStep ==
  Typed /\ DraftSound /\ Fenced /\ Holding /\ [Next]_vars => Fenced' /\ Holding'
<1> SUFFICES ASSUME Typed, DraftSound, Fenced, Holding, [Next]_vars PROVE Fenced' /\ Holding'
  OBVIOUS
<1>1. CASE UNCHANGED vars
  BY <1>1, FencingFrame DEF vars, table, pass, hist, Current
<1>2. ASSUME NEW o \in Org, NEW wanted \in SUBSET Key, NEW on \in BOOLEAN,
             NEW saw \in BOOLEAN, BeginActivation(o, wanted, on, saw)
      PROVE  Fenced' /\ Holding'
  BY <1>2, FencingFrame DEF BeginActivation, table, pass, hist, Current
<1>3. QED
  BY <1>1, <1>2, TimeFenced, MoveFenced, ClaimFenced, CompleteFenced,
     FinishActivationFenced DEF Next, PassStep

-----------------------------------------------------------------------------
(* Scheduling.                                                             *)

\* Only the end of an activation can take a row's time away, and it takes it
\* from the rows that it removes or that it disables; unless it was misled, enabled is
\* then as the rows are.
LEMMA ScheduledStep ==
  Typed /\ DraftSound /\ ActiveIsScheduled /\ [Next]_vars => ActiveIsScheduled'
<1> SUFFICES ASSUME Typed, DraftSound, ActiveIsScheduled, [Next]_vars
             PROVE  ActiveIsScheduled'
  OBVIOUS
<1>1. CASE FinishActivation
  <2>1. /\ enabled' = [enabled EXCEPT ![draft.org] = Switched(enabled[draft.org])]
        /\ misled' = IF enabled'[draft.org] = draft.on THEN misled \ {draft.org}
                     ELSE misled \cup {draft.org}
        /\ active' = (active \ draft.removed) \cup draft.added
        /\ next' = [r \in Row |-> IF r \in draft.scheduled THEN "past"
                                  ELSE IF r \in draft.unscheduled THEN "null" ELSE next[r]]
        /\ draft # NoDraft
    BY <1>1 DEF FinishActivation
  <2> SUFFICES ASSUME NEW r \in active', enabled'[r[1]], r[1] \notin misled' PROVE next'[r] # "null"
    BY DEF ActiveIsScheduled
  <2>2. r \in Row /\ r[1] \in Org
    BY <2>1 DEF DraftSound, Typed, Row
  <2>3. CASE r[1] = draft.org
    <3>1. draft.on
      BY <2>1, <2>3
    <3>2. r \in draft.scheduled \/ (next[r] # "null" /\ r \notin draft.unscheduled)
      BY <2>1, <2>3, <3>1 DEF DraftSound
    <3>3. QED  BY <2>1, <2>2, <3>2
  <2>4. CASE r[1] # draft.org
    <3>1. r \notin draft.removed \cup draft.added \cup draft.wiped
                  \cup draft.scheduled \cup draft.unscheduled
      BY <2>1, <2>4 DEF DraftSound
    <3>2. r \in active /\ enabled[r[1]] /\ r[1] \notin misled
      BY <2>1, <2>2, <2>4, <3>1 DEF Typed
    <3>3. QED  BY <2>1, <2>2, <3>1, <3>2 DEF ActiveIsScheduled
  <2>5. QED  BY <2>3, <2>4
<1>2. CASE ~FinishActivation
  <2>1. UNCHANGED <<enabled, active, misled>>
    BY <1>2 DEF Next, PassStep, BecomesDue, LeaseExpires, LeaseOverruns, StartPass, EnterOrg,
       LeaveOrg, Claim, Complete, Cut, BeginActivation, vars, table, hist
  <2>2. \A r \in Row : next[r] # "null" => next'[r] # "null"
    <3>1. ASSUME NEW p \in Dispatcher, Complete(p)
          PROVE  \A r \in Row : next[r] # "null" => next'[r] # "null"
      BY <3>1 DEF Complete, Typed
    <3>2. ASSUME NEW o \in Org, NEW k \in Key, BecomesDue(o, k)
          PROVE  \A r \in Row : next[r] # "null" => next'[r] # "null"
      BY <3>2 DEF BecomesDue, Typed
    <3>3. QED
      BY <1>2, <3>1, <3>2 DEF Next, PassStep, LeaseExpires, LeaseOverruns, StartPass,
         EnterOrg, LeaveOrg, Claim, Cut, BeginActivation, vars, table
  <2>3. QED  BY <2>1, <2>2 DEF ActiveIsScheduled, Typed
<1>3. QED  BY <1>1, <1>2

-----------------------------------------------------------------------------
(* The budgets of a pass.                                                  *)

\* What a pass may have claimed when it is through with n organizations.
Quota(n) == PerOrg * n

\* A pass in phase c at organization o, with the rows t to claim and h claims made.
InBudget(c, o, t, h) ==
  /\ o \in 1 .. Orgs + 1 /\ h \in 0 .. MaxSources
  /\ t \in Seq(Key) /\ Len(t) <= PerOrg
  /\ c \in {"idle", "orgs"} => h <= Quota(o - 1) /\ t = <<>>
  /\ c = "idle" => h = 0 /\ o = 1
  /\ c = "claim" => o <= Orgs /\ h + Len(t) <= MaxSources /\ h + Len(t) <= Quota(o)
  /\ c = "running" => /\ o <= Orgs /\ t # <<>>
                      /\ h + Len(t) - 1 <= MaxSources /\ h + Len(t) - 1 <= Quota(o)

Paced == \A p \in Dispatcher : InBudget(pc[p], org[p], todo[p], handled[p])

LEMMA QuotaGrows ==
  /\ \A n \in Int : /\ Quota(n) \in Int /\ Quota(n) = Quota(n - 1) + PerOrg
                    /\ Quota(n + 1 - 1) = Quota(n)
  /\ Quota(0) = 0
  BY DEF Quota

LEMMA Emptied == <<>> \in Seq(Key) /\ Len(<<>>) = 0
  OBVIOUS

LEMMA Ended == InBudget("idle", 1, <<>>, 0)
  BY Emptied, QuotaGrows DEF InBudget

LEMMA Started ==
  ASSUME NEW o, NEW t, NEW h, InBudget("idle", o, t, h)
  PROVE  InBudget("orgs", o, t, h)
  BY DEF InBudget

\* In every phase the claims made so far fit in what the organizations up to the
\* current one allow.
LEMMA WithinQuota ==
  ASSUME NEW c \in Phases, NEW o, NEW t, NEW h, InBudget(c, o, t, h)
  PROVE  h <= Quota(o)
<1>1. o \in 1 .. Orgs + 1 /\ h \in 0 .. MaxSources /\ t \in Seq(Key)
  BY DEF InBudget
<1>2. Len(t) \in Nat /\ (t # <<>> => Len(t) >= 1)
  BY <1>1, LenProperties, EmptySeq
<1>3. Quota(o) \in Int /\ Quota(o - 1) \in Int /\ Quota(o) = Quota(o - 1) + PerOrg
  <2>1. o \in Int /\ o - 1 \in Int
    BY <1>1
  <2>2. QED  BY <2>1, QuotaGrows
<1>4. CASE c \in {"idle", "orgs"}
  <2>1. h <= Quota(o - 1)
    BY <1>4 DEF InBudget
  <2>2. QED  BY <1>1, <1>3, <2>1
<1>5. CASE c = "claim"
  <2>1. h + Len(t) <= Quota(o)
    BY <1>5 DEF InBudget
  <2>2. QED  BY <1>1, <1>2, <1>3, <2>1
<1>6. CASE c = "running"
  <2>1. t # <<>> /\ h + Len(t) - 1 <= Quota(o)
    BY <1>6 DEF InBudget
  <2>2. QED  BY <1>1, <1>2, <1>3, <2>1
<1>7. QED  BY <1>4, <1>5, <1>6

\* A pass that goes on to the next organization.
LEMMA Turned ==
  ASSUME NEW c \in Phases \ {"idle"}, NEW o, NEW t, NEW h, InBudget(c, o, t, h), o <= Orgs
  PROVE  InBudget("orgs", o + 1, <<>>, h)
<1>1. o \in 1 .. Orgs + 1 /\ h \in 0 .. MaxSources
  BY DEF InBudget
<1>2. h <= Quota(o)
  BY WithinQuota
<1>3. Quota(o + 1 - 1) = Quota(o) /\ o + 1 \in 1 .. Orgs + 1
  BY <1>1, QuotaGrows
<1>4. QED  BY <1>1, <1>2, <1>3, Emptied DEF InBudget

\* A pass takes no more rows than it has left.
LEMMA Cropped ==
  ASSUME NEW s \in Seq(Key), NEW n \in Nat \ {0}
  PROVE  AtMost(n, s) \in Seq(Key) /\ Len(AtMost(n, s)) <= n
<1>1. Len(s) \in Nat /\ DOMAIN s = 1 .. Len(s)
  BY LenProperties
<1>2. CASE Len(s) <= n
  BY <1>2 DEF AtMost
<1>3. CASE ~(Len(s) <= n)
  <2>1. n \in 1 .. Len(s) + 1 /\ 1 \in 1 .. Len(s) + 1 /\ n <= Len(s)
    BY <1>1, <1>3
  <2>2. SubSeq(s, 1, n) \in Seq(Key) /\ Len(SubSeq(s, 1, n)) = n
    BY <1>1, <2>1, SubSeqProperties
  <2>3. QED  BY <1>3, <2>2 DEF AtMost
<1>4. QED  BY <1>2, <1>3

\* The next organization's rows fit in what is left of both budgets.
LEMMA Entered ==
  ASSUME NEW o, NEW t, NEW h, InBudget("orgs", o, t, h), o <= Orgs, ~(h >= MaxSources),
         NEW s \in Seq(Key)
  PROVE  InBudget("claim", o, AtMost(Least(MaxSources - h, PerOrg), s), h)
<1> DEFINE n == Least(MaxSources - h, PerOrg)
           u == AtMost(n, s)
<1>1. o \in 1 .. Orgs + 1 /\ h \in 0 .. MaxSources /\ h <= Quota(o - 1)
  BY DEF InBudget
<1>2. n \in Nat \ {0} /\ n <= MaxSources - h /\ n <= PerOrg
  BY <1>1 DEF Least
<1> HIDE DEF n
<1>3. u \in Seq(Key) /\ Len(u) <= n
  BY <1>2, Cropped
<1> HIDE DEF u
<1>4. Len(u) \in Nat /\ Len(u) <= PerOrg /\ h + Len(u) <= MaxSources
  BY <1>1, <1>2, <1>3, LenProperties
<1>5. h + Len(u) <= Quota(o)
  <2>1. Quota(o - 1) \in Int /\ Quota(o) = Quota(o - 1) + PerOrg
    <3>1. o \in Int /\ o - 1 \in Int
      BY <1>1
    <3>2. QED  BY <3>1, QuotaGrows
  <2>2. QED  BY <1>1, <1>4, <2>1
<1>6. InBudget("claim", o, u, h)
  BY <1>1, <1>3, <1>4, <1>5 DEF InBudget
<1>7. QED  BY <1>6 DEF u, n

LEMMA Claimed ==
  ASSUME NEW o, NEW t, NEW h, InBudget("claim", o, t, h), t # <<>>
  PROVE  InBudget("running", o, t, h + 1)
<1>1. Len(t) \in Nat /\ Len(t) >= 1
  BY LenProperties, EmptySeq DEF InBudget
<1>2. Quota(o) \in Int
  BY QuotaGrows DEF InBudget
<1>3. QED  BY <1>1, <1>2 DEF InBudget

LEMMA Dropped ==
  ASSUME NEW c \in {"claim", "running"}, NEW o, NEW t, NEW h, InBudget(c, o, t, h), t # <<>>
  PROVE  InBudget("claim", o, Tail(t), h)
<1>1. t \in Seq(Key) /\ Len(t) \in Nat
  BY LenProperties DEF InBudget
<1>2. Tail(t) \in Seq(Key) /\ Len(Tail(t)) = Len(t) - 1
  BY <1>1, HeadTailProperties
<1>3. Quota(o) \in Int
  BY QuotaGrows DEF InBudget
<1>4. QED  BY <1>1, <1>2, <1>3 DEF InBudget

\* A dispatcher moves, the others stay.
MovesTo(p, c, o, t, h) ==
  /\ pc'[p] = c /\ org'[p] = o /\ todo'[p] = t /\ handled'[p] = h
  /\ \A q \in Dispatcher : q # p => /\ pc'[q] = pc[q] /\ org'[q] = org[q]
                                    /\ todo'[q] = todo[q] /\ handled'[q] = handled[q]

LEMMA PacedMove ==
  ASSUME Paced, NEW p \in Dispatcher, NEW c, NEW o, NEW t, NEW h, InBudget(c, o, t, h),
         MovesTo(p, c, o, t, h)
  PROVE  Paced'
<1> SUFFICES ASSUME NEW q \in Dispatcher
             PROVE  InBudget(pc'[q], org'[q], todo'[q], handled'[q])
  BY DEF Paced, InBudget
<1>1. CASE q = p
  BY <1>1 DEF MovesTo
<1>2. CASE q # p
  BY <1>2 DEF MovesTo, Paced
<1>3. QED  BY <1>1, <1>2

LEMMA EndPassMoves ==
  ASSUME Typed, NEW p \in Dispatcher, EndPass(p)
  PROVE  MovesTo(p, "idle", 1, <<>>, 0)
  BY UpdateOne DEF EndPass, Goto, Typed, MovesTo

LEMMA NextOrgMoves ==
  ASSUME Typed, NEW p \in Dispatcher, NextOrg(p)
  PROVE  MovesTo(p, "orgs", org[p] + 1, <<>>, handled[p])
  BY UpdateOne DEF NextOrg, Goto, Typed, MovesTo

\* Each organization's queue lists its rows that are past, each once.
Queues ==
  /\ due \in [Org -> Seq(Key)]
  /\ \A o \in Org : /\ Distinct(due[o])
                    /\ Elements(due[o]) = {k \in Key : next[<<o, k>>] = "past"}

LEMMA DueKeysListed ==
  ASSUME Queues, NEW o \in Org PROVE DueKeys(o) \in Seq(Key)
<1> DEFINE I == {i \in DOMAIN due[o] : Claimable(<<o, due[o][i]>>)}
           Y == {k \in Key : next[<<o, k>>] = "null" /\ Claimable(<<o, k>>)}
<1>1. due[o] \in Seq(Key) /\ I \in SUBSET DOMAIN due[o]
  BY DEF Queues
<1>2. Y \in SUBSET Key
  OBVIOUS
<1>3. DueKeys(o) = Sifted(due[o], I) \o Sifted([k \in Key |-> k], Y)
  BY DEF DueKeys
<1> HIDE DEF I, Y
<1>4. Sifted(due[o], I) \in Seq(Key)
  BY <1>1, SiftedIs
<1>5. Sifted([k \in Key |-> k], Y) \in Seq(Key)
  BY <1>2, Requeued
<1>6. QED  BY <1>3, <1>4, <1>5, Joined

LEMMA EnterOrgPaced ==
  ASSUME Typed, Queues, Paced, NEW p \in Dispatcher, EnterOrg(p)
  PROVE  Paced'
<1>1. InBudget("orgs", org[p], todo[p], handled[p]) /\ org[p] \in 1 .. Orgs + 1
  BY DEF EnterOrg, Paced, InBudget
<1>2. CASE EndPass(p)
  BY <1>2, Ended, EndPassMoves, PacedMove
<1>3. CASE NextOrg(p) /\ org[p] <= Orgs
  <2>1. InBudget("orgs", org[p] + 1, <<>>, handled[p])
    BY <1>1, <1>3, Turned
  <2>2. MovesTo(p, "orgs", org[p] + 1, <<>>, handled[p])
    BY <1>3, NextOrgMoves
  <2>3. QED  BY <2>1, <2>2, PacedMove
<1>4. CASE /\ org[p] <= Orgs /\ ~(handled[p] >= MaxSources)
           /\ todo' = [todo EXCEPT ![p] = AtMost(Remaining(p), DueKeys(org[p]))]
           /\ Goto(p, "claim") /\ UNCHANGED <<org, handled>>
  <2> DEFINE t == AtMost(Least(MaxSources - handled[p], PerOrg), DueKeys(org[p]))
  <2>1. org[p] \in Org
    BY <1>1, <1>4
  <2>2. DueKeys(org[p]) \in Seq(Key)
    BY <2>1, DueKeysListed
  <2>3. InBudget("claim", org[p], t, handled[p])
    BY <1>1, <1>4, <2>2, Entered
  <2>4. todo' = [todo EXCEPT ![p] = t]
    BY <1>4 DEF Remaining
  <2> HIDE DEF t
  <2>5. MovesTo(p, "claim", org[p], t, handled[p])
    BY <1>4, <2>4, UpdateOne DEF Goto, Typed, MovesTo
  <2>6. QED  BY <2>3, <2>5, PacedMove
<1>5. QED
  <2>1. org[p] > Orgs \/ org[p] <= Orgs
    BY <1>1
  <2>2. ~(org[p] > Orgs) => org[p] <= Orgs
    BY <2>1
  <2>3. QED  BY <1>2, <1>3, <1>4, <2>2 DEF EnterOrg

LEMMA ClaimPaced ==
  ASSUME Typed, Paced, NEW p \in Dispatcher, Claim(p)
  PROVE  Paced'
<1>1. InBudget("claim", org[p], todo[p], handled[p]) /\ todo[p] # <<>>
  BY DEF Claim, Paced
<1>2. CASE Claimable(Current(p))
  <2>1. InBudget("running", org[p], todo[p], handled[p] + 1)
    BY <1>1, Claimed
  <2>2. /\ handled' = [handled EXCEPT ![p] = @ + 1] /\ Goto(p, "running")
        /\ UNCHANGED <<todo, org>>
    BY <1>2 DEF Claim
  <2>3. MovesTo(p, "running", org[p], todo[p], handled[p] + 1)
    BY <2>2 DEF Goto, Typed, MovesTo
  <2>4. QED  BY <2>1, <2>3, PacedMove
<1>3. CASE ~Claimable(Current(p))
  <2>1. InBudget("claim", org[p], Tail(todo[p]), handled[p])
    BY <1>1, Dropped
  <2>2. /\ todo' = [todo EXCEPT ![p] = Tail(todo[p])] /\ pc[p] = "claim"
        /\ UNCHANGED <<pc, org, handled>>
    BY <1>3 DEF Claim
  <2>3. MovesTo(p, "claim", org[p], Tail(todo[p]), handled[p])
    BY <2>2, UpdateOne DEF Typed, MovesTo
  <2>4. QED  BY <2>1, <2>3, PacedMove
<1>4. QED  BY <1>2, <1>3

LEMMA CompletePaced ==
  ASSUME Typed, Paced, NEW p \in Dispatcher, Complete(p)
  PROVE  Paced'
<1>1. InBudget("running", org[p], todo[p], handled[p])
  BY DEF Complete, Paced
<1>2. todo[p] # <<>>
  BY <1>1 DEF InBudget
<1>3. InBudget("claim", org[p], Tail(todo[p]), handled[p])
  BY <1>1, <1>2, Dropped
<1>4. /\ todo' = [todo EXCEPT ![p] = Tail(todo[p])] /\ Goto(p, "claim")
      /\ UNCHANGED <<org, handled>>
  BY DEF Complete
<1>5. MovesTo(p, "claim", org[p], Tail(todo[p]), handled[p])
  BY <1>4, UpdateOne DEF Goto, Typed, MovesTo
<1>6. QED  BY <1>3, <1>5, PacedMove

LEMMA TurnPaced ==
  ASSUME Typed, Paced, NEW p \in Dispatcher, pc[p] \in {"claim", "running"}, NextOrg(p)
  PROVE  Paced'
<1>1. InBudget(pc[p], org[p], todo[p], handled[p])
  BY DEF Paced
<1>2. org[p] <= Orgs /\ pc[p] \in Phases \ {"idle"}
  BY <1>1 DEF InBudget
<1>3. InBudget("orgs", org[p] + 1, <<>>, handled[p])
  BY <1>1, <1>2, Turned
<1>4. MovesTo(p, "orgs", org[p] + 1, <<>>, handled[p])
  BY NextOrgMoves
<1>5. QED  BY <1>3, <1>4, PacedMove

LEMMA StartPassPaced ==
  ASSUME Typed, Paced, NEW p \in Dispatcher, StartPass(p)
  PROVE  Paced'
<1>1. InBudget("orgs", org[p], todo[p], handled[p])
  BY Started DEF StartPass, Paced
<1>2. MovesTo(p, "orgs", org[p], todo[p], handled[p])
  BY DEF StartPass, Goto, Typed, MovesTo
<1>3. QED  BY <1>1, <1>2, PacedMove

LEMMA PacedStep == Typed /\ Queues /\ Paced /\ [Next]_vars => Paced'
<1> SUFFICES ASSUME Typed, Queues, Paced, [Next]_vars PROVE Paced'
  OBVIOUS
<1>1. CASE UNCHANGED pass
  BY <1>1 DEF pass, Paced, InBudget
<1>2. ASSUME NEW p \in Dispatcher, LeaveOrg(p) PROVE Paced'
  BY <1>2, TurnPaced DEF LeaveOrg
<1>3. ASSUME NEW p \in Dispatcher, Cut(p) PROVE Paced'
  <2>1. CASE EndPass(p)
    BY <2>1, Ended, EndPassMoves, PacedMove
  <2>2. CASE pc[p] \in {"claim", "running"} /\ NextOrg(p)
    BY <2>2, TurnPaced
  <2>3. QED  BY <1>3, <2>1, <2>2 DEF Cut
<1>4. QED
  <2>1. CASE UNCHANGED vars
    BY <1>1, <2>1 DEF vars
  <2>2. CASE \E p \in Dispatcher : PassStep(p) \/ Cut(p)
    BY <1>2, <1>3, <2>2, StartPassPaced, EnterOrgPaced, ClaimPaced, CompletePaced DEF PassStep
  <2>3. CASE \/ \E o \in Org, k \in Key : BecomesDue(o, k)
             \/ \E r \in Row : LeaseExpires(r) \/ LeaseOverruns(r)
             \/ \E o \in Org, wanted \in SUBSET Key, on, saw \in BOOLEAN : BeginActivation(o, wanted, on, saw)
             \/ FinishActivation
    <3>1. UNCHANGED pass
      BY <2>3 DEF BecomesDue, LeaseExpires, LeaseOverruns, BeginActivation, FinishActivation
    <3>2. QED  BY <1>1, <3>1
  <2>4. QED  BY <2>1, <2>2, <2>3 DEF Next

-----------------------------------------------------------------------------
(* The queues.                                                             *)

\* One organization's queue moves with its rows.
LEMMA QueueMoves ==
  ASSUME Queues, NEW o \in Org, NEW s \in Seq(Key), Distinct(s),
         due' = [due EXCEPT ![o] = s],
         Elements(s) = {k \in Key : next'[<<o, k>>] = "past"},
         \A q \in Org, k \in Key : q # o => (next'[<<q, k>>] = "past" <=> next[<<q, k>>] = "past")
  PROVE  Queues'
<1>1. due' \in [Org -> Seq(Key)]
  BY DEF Queues
<1>2. ASSUME NEW q \in Org
      PROVE  Distinct(due'[q]) /\ Elements(due'[q]) = {k \in Key : next'[<<q, k>>] = "past"}
  <2>1. CASE q = o
    <3>1. due'[q] = s
      BY <2>1 DEF Queues
    <3>2. QED  BY <2>1, <3>1
  <2>2. CASE q # o
    <3>1. due'[q] = due[q]
      BY <2>2 DEF Queues
    <3>2. \A k \in Key : next'[<<q, k>>] = "past" <=> next[<<q, k>>] = "past"
      BY <2>2
    <3>3. Distinct(due[q]) /\ Elements(due[q]) = {k \in Key : next[<<q, k>>] = "past"}
      BY DEF Queues
    <3>4. {k \in Key : next'[<<q, k>>] = "past"} = {k \in Key : next[<<q, k>>] = "past"}
      BY <3>2
    <3>5. QED  BY <3>1, <3>3, <3>4
  <2>3. QED  BY <2>1, <2>2
<1>3. QED  BY <1>1, <1>2 DEF Queues, Distinct, Elements

LEMMA QueuesStay ==
  ASSUME Queues, due' = due, next' = next PROVE Queues'
  BY DEF Queues, Distinct, Elements

LEMMA BecomesDueQueues ==
  ASSUME Typed, Queues, NEW o \in Org, NEW k \in Key, BecomesDue(o, k)
  PROVE  Queues'
<1>1. /\ next[<<o, k>>] = "later" /\ next' = [next EXCEPT ![<<o, k>>] = "past"]
      /\ due' = [due EXCEPT ![o] = Append(due[o], k)] /\ next \in [Row -> Times]
  BY DEF BecomesDue, Typed
<1>2. /\ due[o] \in Seq(Key) /\ Distinct(due[o])
      /\ Elements(due[o]) = {j \in Key : next[<<o, j>>] = "past"}
  BY DEF Queues
<1> DEFINE s == Append(due[o], k)
<1>3. /\ s \in Seq(Key) /\ Elements(s) = Elements(due[o]) \cup {k}
      /\ Distinct(due[o]) /\ k \notin Elements(due[o]) => Distinct(s)
  BY <1>2, Queued
<1>4. k \notin Elements(due[o])
  BY <1>1, <1>2
<1>5. \A q \in Org, j \in Key :
        next'[<<q, j>>] = IF q = o /\ j = k THEN "past" ELSE next[<<q, j>>]
  BY <1>1 DEF Row
<1>6. Elements(s) = {j \in Key : next'[<<o, j>>] = "past"}
  BY <1>2, <1>3, <1>5
<1>7. due' = [due EXCEPT ![o] = s]
  BY <1>1
<1> HIDE DEF s
<1>8. QED  BY <1>2, <1>3, <1>4, <1>5, <1>6, <1>7, QueueMoves

LEMMA CompleteQueues ==
  ASSUME Typed, Queues, NEW p \in Dispatcher, Complete(p)
  PROVE  Queues'
<1>1. Current(p) \in Row
  BY DEF Complete, Typed
<1>2. PICK o \in Org, k \in Key : Current(p) = <<o, k>>
  BY <1>1 DEF Row
<1>3. CASE UNCHANGED <<next, due>>
  BY <1>3, QueuesStay
<1>4. CASE /\ next' = [next EXCEPT ![<<o, k>>] = "later"]
           /\ due' = [due EXCEPT ![o] = Without(due[o], k)]
  <2> DEFINE I == {i \in DOMAIN due[o] : due[o][i] # k}
             s == Sifted(due[o], I)
  <2>1. /\ due[o] \in Seq(Key) /\ Distinct(due[o])
        /\ Elements(due[o]) = {j \in Key : next[<<o, j>>] = "past"}
    BY DEF Queues
  <2>2. I \in SUBSET DOMAIN due[o] /\ {due[o][i] : i \in I} = Elements(due[o]) \ {k}
    BY DEF Elements
  <2>3. due' = [due EXCEPT ![o] = s]
    BY <1>4 DEF Without
  <2> HIDE DEF I
  <2>4. /\ s \in Seq(Key) /\ Elements(s) = {due[o][i] : i \in I}
        /\ Distinct(due[o]) => Distinct(s)
    BY <2>1, <2>2, SiftedIs
  <2> HIDE DEF s
  <2>5. \A q \in Org, j \in Key :
          next'[<<q, j>>] = IF q = o /\ j = k THEN "later" ELSE next[<<q, j>>]
    BY <1>4 DEF Typed, Row
  <2>6. Elements(s) = {j \in Key : next'[<<o, j>>] = "past"}
    BY <2>1, <2>2, <2>4, <2>5
  <2>7. QED  BY <2>1, <2>3, <2>4, <2>5, <2>6, QueueMoves
<1>5. QED
  <2>1. <<o, k>>[1] = o /\ <<o, k>>[2] = k
    OBVIOUS
  <2>2. QED  BY <1>2, <1>3, <1>4, <2>1 DEF Complete

\* An activation takes the rows it reschedules out of the queue and puts those it
\* wants now behind.
LEMMA FinishActivationQueues ==
  ASSUME Typed, DraftSound, Queues, FinishActivation
  PROVE  Queues'
<1> DEFINE o == draft.org
           moved == draft.scheduled \cup draft.unscheduled
           I == {i \in DOMAIN due[o] : <<o, due[o][i]>> \notin moved}
           Y == {k \in Key : <<o, k>> \in draft.scheduled}
           kept == Sifted(due[o], I)
           new == Sifted([k \in Key |-> k], Y)
<1>1. /\ due' = [due EXCEPT ![o] = kept \o new]
      /\ next' = [r \in Row |-> IF r \in draft.scheduled THEN "past"
                                ELSE IF r \in draft.unscheduled THEN "null" ELSE next[r]]
      /\ draft # NoDraft
  BY DEF FinishActivation
<1>2. o \in Org /\ \A r \in moved : r[1] = o
  BY <1>1 DEF DraftSound
<1>3. /\ due[o] \in Seq(Key) /\ Distinct(due[o])
      /\ Elements(due[o]) = {k \in Key : next[<<o, k>>] = "past"}
  BY <1>2 DEF Queues
<1>4. I \in SUBSET DOMAIN due[o] /\ Y \in SUBSET Key
      /\ {due[o][i] : i \in I} = {k \in Elements(due[o]) : <<o, k>> \notin moved}
  BY DEF Elements
<1>5. \A q \in Org, k \in Key :
        next'[<<q, k>>] = IF <<q, k>> \in draft.scheduled THEN "past"
                          ELSE IF <<q, k>> \in draft.unscheduled THEN "null" ELSE next[<<q, k>>]
  BY <1>1 DEF Row
<1>6. \A q \in Org, k \in Key : q # o => <<q, k>> \notin moved
  <2>1. \A q, k : <<q, k>>[1] = q
    OBVIOUS
  <2>2. QED  BY <1>2, <2>1
<1>7. Elements(due[o]) \subseteq Key
  BY <1>3
<1>8. /\ kept \in Seq(Key) /\ Elements(kept) = {due[o][i] : i \in I} /\ Distinct(kept)
  <2> HIDE DEF I, o
  <2>1. /\ Sifted(due[o], I) \in Seq(Key) /\ Elements(Sifted(due[o], I)) = {due[o][i] : i \in I}
        /\ Distinct(due[o]) => Distinct(Sifted(due[o], I))
    BY <1>3, <1>4, SiftedIs
  <2>2. QED  BY <1>3, <2>1
<1>9. new \in Seq(Key) /\ Elements(new) = Y /\ Distinct(new)
  <2> HIDE DEF Y
  <2>1. QED  BY <1>4, Requeued
<1> HIDE DEF kept, new
<1>10. Elements(kept) \cap Elements(new) = {}
  BY <1>4, <1>8, <1>9
<1>11. /\ kept \o new \in Seq(Key) /\ Elements(kept \o new) = Elements(kept) \cup Elements(new)
       /\ Distinct(kept \o new)
  <2>1. kept \in Seq(Key) /\ Distinct(kept) /\ new \in Seq(Key) /\ Distinct(new)
    BY <1>8, <1>9
  <2>2. /\ kept \o new \in Seq(Key)
        /\ Elements(kept \o new) = Elements(kept) \cup Elements(new)
        /\ Distinct(kept) /\ Distinct(new) /\ Elements(kept) \cap Elements(new) = {}
             => Distinct(kept \o new)
    BY <2>1, Joined
  <2>3. QED  BY <1>10, <2>1, <2>2
<1>12. Elements(kept \o new) = {k \in Key : next'[<<o, k>>] = "past"}
  <2>1. Elements(kept) = {k \in Key : next[<<o, k>>] = "past" /\ <<o, k>> \notin moved}
    <3> HIDE DEF I, moved
    <3>1. QED  BY <1>3, <1>4, <1>8
  <2>2. \A k \in Key : next'[<<o, k>>] = "past" <=>
          (next[<<o, k>>] = "past" /\ <<o, k>> \notin moved) \/ k \in Y
    BY <1>2, <1>5
  <2>3. Elements(kept \o new) = Elements(kept) \cup Y
    BY <1>9, <1>11
  <2> HIDE DEF moved, o
  <2>4. Y \subseteq Key
    OBVIOUS
  <2> HIDE DEF Y
  <2>5. QED  BY <2>1, <2>2, <2>3, <2>4
<1>13. \A q \in Org, k \in Key :
         q # o => (next'[<<q, k>>] = "past" <=> next[<<q, k>>] = "past")
  BY <1>5, <1>6
<1> HIDE DEF o
<1>14. QED  BY <1>1, <1>2, <1>11, <1>12, <1>13, QueueMoves

LEMMA QueuesStep == Typed /\ DraftSound /\ Queues /\ [Next]_vars => Queues'
<1> SUFFICES ASSUME Typed, DraftSound, Queues, [Next]_vars PROVE Queues'
  OBVIOUS
<1>1. CASE UNCHANGED <<next, due>>
  BY <1>1, QueuesStay
<1>2. CASE ~UNCHANGED <<next, due>>
  <2>1. \/ \E o \in Org, k \in Key : BecomesDue(o, k)
        \/ \E p \in Dispatcher : Complete(p)
        \/ FinishActivation
    BY <1>2 DEF Next, PassStep, LeaseExpires, LeaseOverruns, StartPass, EnterOrg, LeaveOrg,
       Claim, Cut, BeginActivation, vars, table
  <2>2. QED  BY <2>1, BecomesDueQueues, CompleteQueues, FinishActivationQueues
<1>3. QED  BY <1>1, <1>2

-----------------------------------------------------------------------------
(* Leases and bounds.                                                      *)

\* A row has a token as long as it has a lease; the bounded events stay within
\* their bounds.
Leased == \A r \in Row : lease[r] = "none" <=> token[r] = Nobody
Bounded ==
  cuts \in 0 .. MaxCuts /\ overruns \in 0 .. MaxOverruns /\ activations \in 0 .. MaxActivations

LEMMA LeasedStep == Typed /\ Leased /\ [Next]_vars => Leased'
<1> SUFFICES ASSUME Typed, Leased, [Next]_vars PROVE Leased'
  OBVIOUS
<1>1. CASE UNCHANGED <<token, lease>>
  BY <1>1 DEF Leased
<1>2. ASSUME NEW r \in Row, LeaseExpires(r) \/ LeaseOverruns(r) PROVE Leased'
  BY <1>2 DEF LeaseExpires, LeaseOverruns, Leased, Typed
<1>3. ASSUME NEW p \in Dispatcher, Claim(p), Claimable(Current(p)) PROVE Leased'
  <2>1. p # Nobody
    OBVIOUS
  <2>2. token' = [token EXCEPT ![Current(p)] = p] /\ lease' = [lease EXCEPT ![Current(p)] = "live"]
    BY <1>3 DEF Claim
  <2>3. QED  BY <2>1, <2>2 DEF Leased, Typed
<1>4. ASSUME NEW p \in Dispatcher, Complete(p), HoldsClaim(p) PROVE Leased'
  <2>1. token' = [token EXCEPT ![Current(p)] = Nobody] /\ lease' = [lease EXCEPT ![Current(p)] = "none"]
    BY <1>4 DEF Complete
  <2>2. QED  BY <2>1 DEF Leased, Typed
<1>5. CASE FinishActivation
  <2>1. /\ token' = [r \in Row |-> IF r \in draft.wiped THEN Nobody ELSE token[r]]
        /\ lease' = [r \in Row |-> IF r \in draft.wiped THEN "none" ELSE lease[r]]
    BY <1>5 DEF FinishActivation
  <2>2. QED  BY <2>1 DEF Leased
<1>6. CASE ~UNCHANGED <<token, lease>>
  <2>1. \/ \E r \in Row : LeaseExpires(r) \/ LeaseOverruns(r)
        \/ \E p \in Dispatcher : Claim(p) /\ Claimable(Current(p))
        \/ \E p \in Dispatcher : Complete(p) /\ HoldsClaim(p)
        \/ FinishActivation
    BY <1>6 DEF Next, PassStep, BecomesDue, StartPass, EnterOrg, LeaveOrg, Claim, Complete,
       Cut, BeginActivation, vars, table
  <2>2. QED  BY <1>2, <1>3, <1>4, <1>5, <2>1
<1>7. QED  BY <1>1, <1>6

LEMMA BoundedStep == Bounded /\ [Next]_vars => Bounded'
<1> SUFFICES ASSUME Bounded, [Next]_vars PROVE Bounded'
  OBVIOUS
<1>1. CASE UNCHANGED bounds
  BY <1>1 DEF Bounded, bounds
<1>2. CASE ~UNCHANGED bounds
  <2>1. \/ \E r \in Row : LeaseOverruns(r)
        \/ \E p \in Dispatcher : Cut(p)
        \/ \E o \in Org, wanted \in SUBSET Key, on, saw \in BOOLEAN : BeginActivation(o, wanted, on, saw)
    BY <1>2 DEF Next, PassStep, BecomesDue, LeaseExpires, StartPass, EnterOrg, LeaveOrg, Claim,
       Complete, FinishActivation, vars
  <2>2. QED  BY <2>1 DEF LeaseOverruns, Cut, BeginActivation, Bounded
<1>3. QED  BY <1>1, <1>2

LEMMA InitPaced == Init => Queues /\ Paced /\ Leased /\ Bounded
<1> SUFFICES ASSUME Init PROVE Queues /\ Paced /\ Leased /\ Bounded
  OBVIOUS
<1>1. Queues
  <2> DEFINE s == [k \in Key |-> k]
  <2>1. s \in [1 .. Keys -> Key] /\ Keys \in Nat
    OBVIOUS
  <2>2. Distinct(s) /\ Elements(s) = Key
    BY DEF Distinct, Elements
  <2>3. /\ due = [o \in Org |-> IF enabled[o] THEN s ELSE << >>]
        /\ \A o \in Org, k \in Key : next[<<o, k>>] = IF enabled[o] THEN "past" ELSE "null"
    BY DEF Init, Row
  <2> HIDE DEF s
  <2>4. s \in Seq(Key) /\ << >> \in Seq(Key)
    BY <2>1
  <2>5. Distinct(<< >>) /\ Elements(<< >>) = {}
    BY DEF Distinct, Elements
  <2>6. ASSUME NEW o \in Org
        PROVE  /\ due[o] \in Seq(Key) /\ Distinct(due[o])
               /\ Elements(due[o]) = {k \in Key : next[<<o, k>>] = "past"}
    <3>1. CASE enabled[o]
      BY <2>2, <2>3, <2>4, <3>1
    <3>2. CASE ~enabled[o]
      BY <2>3, <2>4, <2>5, <3>2
    <3>3. QED  BY <3>1, <3>2
  <2>7. due \in [Org -> Seq(Key)]
    <3>1. due = [o \in Org |-> due[o]]
      BY <2>3
    <3>2. QED  BY <2>6, <3>1
  <2>8. QED  BY <2>6, <2>7 DEF Queues
<1>2. Paced
  BY Ended DEF Init, Paced
<1>3. Leased /\ Bounded
  BY DEF Init, Leased, Bounded
<1>4. QED  BY <1>1, <1>2, <1>3

-----------------------------------------------------------------------------
(* The theorems.                                                           *)

\* What every reachable state satisfies.
IInv ==
  /\ Typed /\ DraftSound
  /\ Fenced /\ Holding
  /\ ActiveIsScheduled
  /\ Queues /\ Paced
  /\ Leased /\ Bounded

\* The inductive invariant holds in every behaviour.
THEOREM InvariantHolds == Spec => []IInv
<1>1. Init => IInv
  <2>1. Init => Fenced /\ Holding /\ ActiveIsScheduled
    BY DEF Init, Fenced, Holding, ActiveIsScheduled
  <2>2. QED  BY <2>1, InitTyped, InitPaced DEF IInv
<1>2. IInv /\ [Next]_vars => IInv'
  BY TypedStep, FencingStep, ScheduledStep, QueuesStep, PacedStep, LeasedStep, BoundedStep
  DEF IInv
<1>3. QED  BY <1>1, <1>2, PTL DEF Spec

\* Columns stay in their domains and a pass within its budgets; each organization's
\* queue lists the rows that are past, each once (run_due_ingestions).
THEOREM TypeCorrect == Spec => []TypeOK
<1>1. IInv => TypeOK
  <2> SUFFICES ASSUME IInv PROVE TypeOK
    OBVIOUS
  <2>1. /\ enabled \in [Org -> BOOLEAN] /\ active \subseteq Row /\ shaken \subseteq Row
        /\ next \in [Row -> Times] /\ token \in [Row -> Dispatcher \cup {Nobody}]
        /\ lease \in [Row -> Leases] /\ pc \in [Dispatcher -> Phases]
        /\ overtaken \subseteq Dispatcher /\ misled \subseteq Org
        /\ \A o \in Org : enabled[o] \in seen[o] /\ seen[o] \subseteq BOOLEAN
        /\ org \in [Dispatcher -> Int] /\ handled \in [Dispatcher -> Int]
    BY DEF IInv, Typed
  <2>2. /\ \A o \in Org : {due[o][i] : i \in DOMAIN due[o]} = {k \in Key : next[<<o, k>>] = "past"}
        /\ \A o \in Org : \A i, j \in DOMAIN due[o] : due[o][i] = due[o][j] => i = j
    BY DEF IInv, Queues, Elements, Distinct
  <2>3. \A p \in Dispatcher : InBudget(pc[p], org[p], todo[p], handled[p])
    BY DEF IInv, Paced
  <2>4. org \in [Dispatcher -> 1 .. Orgs + 1] /\ handled \in [Dispatcher -> 0 .. MaxSources]
    BY <2>1, <2>3 DEF InBudget
  <2>5. ASSUME NEW p \in Dispatcher
        PROVE  /\ Len(todo[p]) <= PerOrg
               /\ handled[p] <= PerOrg * org[p]
               /\ Works(p) => todo[p] # <<>>
    <3>1. InBudget(pc[p], org[p], todo[p], handled[p])
      BY <2>3
    <3>2. Len(todo[p]) <= PerOrg /\ (Works(p) => todo[p] # <<>>)
      BY <3>1 DEF InBudget
    <3>3. handled[p] <= Quota(org[p])
      BY <2>1, <3>1, WithinQuota
    <3>4. QED  BY <3>2, <3>3 DEF Quota
  <2>6. /\ \A r \in Row : lease[r] = "none" <=> token[r] = Nobody
        /\ cuts \in 0 .. MaxCuts /\ overruns \in 0 .. MaxOverruns
        /\ activations \in 0 .. MaxActivations
    BY DEF IInv, Leased, Bounded
  <2>7. QED  BY <2>1, <2>2, <2>4, <2>5, <2>6 DEF TypeOK
<1>2. QED  BY <1>1, InvariantHolds, PTL

\* Two dispatchers run the same row only if the lease of the first was outlasted or
\* an activation wiped it (claim_due_sources, complete_claim).
THEOREM OneDispatcherPerRow == Spec => []OneHolder
<1>1. IInv => OneHolder
  BY DEF IInv, Holding, OneHolder
<1>2. QED  BY <1>1, InvariantHolds, PTL

\* No overlap of activations, claims and completions leaves an active row of an
\* enabled organization without a next run, except while the organization's last
\* activation left enabled other than it was asked, having loaded it before another
\* changed it (activate_ingestion_onboarding).
THEOREM NoRowIsForgotten == Spec => []ActiveIsScheduled
<1>1. IInv => ActiveIsScheduled
  BY DEF IInv
<1>2. QED  BY <1>1, InvariantHolds, PTL

\* The completion of a claim that was replaced or wiped changes nothing of the row:
\* the token alone is enough to fence it off.
THEOREM StaleCompletionChangesNothing == Spec => StaleCompletionIsVoid
<1>1. IInv /\ [Next]_vars =>
        [\A p \in overtaken : (Works(p) /\ Complete(p)) => UNCHANGED table]_vars
  <2> SUFFICES ASSUME IInv, NEW p \in overtaken, Works(p), Complete(p)
               PROVE  UNCHANGED table
    OBVIOUS
  <2>1. p \in Dispatcher
    BY DEF IInv, Typed
  <2>2. ~HoldsClaim(p)
    BY <2>1 DEF IInv, Fenced, HoldsClaim
  <2>3. QED  BY <2>2 DEF Complete, table
<1>2. QED  BY <1>1, InvariantHolds, PTL DEF Spec, StaleCompletionIsVoid
=============================================================================
