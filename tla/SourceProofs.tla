---------------------------- MODULE SourceProofs ----------------------------
(***************************************************************************)
(* What OffsetPaging promises, for lists, pages and runs of any size, and  *)
(* what Timeline promises, for any contents, mappings, polls and merges.   *)
(***************************************************************************)
EXTENDS OffsetPaging, Timeline, FiniteSetTheorems, SequenceTheorems, WellFoundedInduction, TLAPS

(***************************************************************************)
(* Lists, and the entries before and behind an offset                      *)
(***************************************************************************)
Ahead(l, o) == {l[i] : i \in o + 1 .. Len(l)}
Behind(l, o) == {l[i] : i \in {j \in 1 .. Len(l) : j <= o}}

\* e is listed before f.
Precedes(l, e, f) == \E i, j \in 1 .. Len(l) : i < j /\ l[i] = e /\ l[j] = f

LEMMA InsertedAt ==
  ASSUME NEW S, NEW l \in Seq(S), NEW e \in S, NEW i \in 1 .. Len(l) + 1
  PROVE  /\ InsertAt(l, i, e) \in Seq(S)
         /\ Len(InsertAt(l, i, e)) = Len(l) + 1
         /\ \A j \in 1 .. Len(l) + 1 :
              InsertAt(l, i, e)[j] = IF j < i THEN l[j] ELSE IF j = i THEN e ELSE l[j - 1]
<1> DEFINE a == SubSeq(l, 1, i - 1)
           b == SubSeq(l, i, Len(l))
<1>1. Len(l) \in Nat /\ l \in [1 .. Len(l) -> S] /\ i \in Nat
  BY LenProperties
<1>2. /\ a \in Seq(S) /\ Len(a) = i - 1
      /\ \A j \in 1 .. i - 1 : a[j] = l[j]
  <2>1. \A j \in 1 .. i - 1 : l[j] \in S
    BY <1>1
  <2>2. 1 \in Int /\ i - 1 \in Int
    BY <1>1
  <2>3. /\ SubSeq(l, 1, i - 1) \in Seq(S)
        /\ Len(SubSeq(l, 1, i - 1)) = IF 1 <= i - 1 THEN i - 1 - 1 + 1 ELSE 0
        /\ \A j \in 1 .. i - 1 - 1 + 1 : SubSeq(l, 1, i - 1)[j] = l[1 + j - 1]
    BY <2>1, <2>2, SubSeqProperties
  <2> QED BY <2>3, <1>1
<1>3. /\ b \in Seq(S) /\ Len(b) = Len(l) - i + 1
      /\ \A j \in 1 .. Len(l) - i + 1 : b[j] = l[i + j - 1]
  <2>1. \A j \in i .. Len(l) : l[j] \in S
    BY <1>1
  <2>2. i \in Int /\ Len(l) \in Int
    BY <1>1
  <2>3. /\ SubSeq(l, i, Len(l)) \in Seq(S)
        /\ Len(SubSeq(l, i, Len(l))) = IF i <= Len(l) THEN Len(l) - i + 1 ELSE 0
        /\ \A j \in 1 .. Len(l) - i + 1 : SubSeq(l, i, Len(l))[j] = l[i + j - 1]
    BY <2>1, <2>2, SubSeqProperties
  <2> QED BY <2>3, <1>1
<1> HIDE DEF a, b
<1>4. <<e>> \in Seq(S) /\ Len(<<e>>) = 1 /\ <<e>>[1] = e
  OBVIOUS
<1>5. /\ a \o <<e>> \in Seq(S) /\ Len(a \o <<e>>) = i
      /\ \A j \in 1 .. i : (a \o <<e>>)[j] = IF j < i THEN a[j] ELSE e
  <2>1. /\ a \o <<e>> \in Seq(S)
        /\ Len(a \o <<e>>) = Len(a) + Len(<<e>>)
        /\ \A j \in 1 .. Len(a) + Len(<<e>>) :
             (a \o <<e>>)[j] = IF j <= Len(a) THEN a[j] ELSE <<e>>[j - Len(a)]
    BY <1>2, <1>4, ConcatProperties
  <2> QED BY <2>1, <1>1, <1>2, <1>4
<1> DEFINE c == a \o <<e>>
<1> HIDE DEF c
<1>6. /\ c \o b \in Seq(S)
      /\ Len(c \o b) = i + Len(b)
      /\ \A j \in 1 .. i + Len(b) : (c \o b)[j] = IF j <= i THEN c[j] ELSE b[j - i]
  <2>1. c \in Seq(S) /\ Len(c) = i
    BY <1>5 DEF c
  <2>2. /\ c \o b \in Seq(S)
        /\ Len(c \o b) = Len(c) + Len(b)
        /\ \A j \in 1 .. Len(c) + Len(b) : (c \o b)[j] = IF j <= Len(c) THEN c[j] ELSE b[j - Len(c)]
    BY <2>1, <1>3, ConcatProperties
  <2> QED BY <2>1, <2>2
<1>7. InsertAt(l, i, e) = c \o b
  BY DEF InsertAt, a, b, c
<1>8. i + Len(b) = Len(l) + 1
  BY <1>1, <1>3
<1>9. ASSUME NEW j \in 1 .. Len(l) + 1
      PROVE  InsertAt(l, i, e)[j] = IF j < i THEN l[j] ELSE IF j = i THEN e ELSE l[j - 1]
  <2>1. InsertAt(l, i, e)[j] = IF j <= i THEN c[j] ELSE b[j - i]
    BY <1>6, <1>7, <1>8
  <2>2. CASE j <= i
    <3>1. j \in 1 .. i
      BY <1>1, <2>2
    <3>2. InsertAt(l, i, e)[j] = IF j < i THEN a[j] ELSE e
      BY <1>5, <2>1, <2>2, <3>1 DEF c
    <3>3. j < i => a[j] = l[j]
      BY <1>1, <1>2
    <3> QED BY <1>1, <2>2, <3>2, <3>3
  <2>3. CASE j > i
    <3>1. j - i \in 1 .. Len(l) - i + 1
      BY <1>1, <2>3
    <3>2. b[j - i] = l[i + (j - i) - 1]
      BY <1>3, <3>1
    <3>3. i + (j - i) - 1 = j - 1
      BY <1>1
    <3> QED BY <1>1, <2>1, <2>3, <3>2, <3>3
  <2> QED BY <1>1, <2>2, <2>3
<1> QED
  BY <1>6, <1>7, <1>8, <1>9

LEMMA Removed ==
  ASSUME NEW S, NEW l \in Seq(S), NEW i \in 1 .. Len(l)
  PROVE  /\ RemoveAt(l, i) \in Seq(S)
         /\ Len(RemoveAt(l, i)) = Len(l) - 1
         /\ \A j \in 1 .. Len(l) - 1 :
              RemoveAt(l, i)[j] = IF j < i THEN l[j] ELSE l[j + 1]
<1> DEFINE a == SubSeq(l, 1, i - 1)
           b == SubSeq(l, i + 1, Len(l))
<1>1. Len(l) \in Nat /\ l \in [1 .. Len(l) -> S] /\ i \in Nat
  BY LenProperties
<1>2. /\ a \in Seq(S) /\ Len(a) = i - 1
      /\ \A j \in 1 .. i - 1 : a[j] = l[j]
  <2>1. \A j \in 1 .. i - 1 : l[j] \in S
    BY <1>1
  <2>2. 1 \in Int /\ i - 1 \in Int
    BY <1>1
  <2>3. /\ SubSeq(l, 1, i - 1) \in Seq(S)
        /\ Len(SubSeq(l, 1, i - 1)) = IF 1 <= i - 1 THEN i - 1 - 1 + 1 ELSE 0
        /\ \A j \in 1 .. i - 1 - 1 + 1 : SubSeq(l, 1, i - 1)[j] = l[1 + j - 1]
    BY <2>1, <2>2, SubSeqProperties
  <2> QED BY <2>3, <1>1
<1>3. /\ b \in Seq(S) /\ Len(b) = Len(l) - i
      /\ \A j \in 1 .. Len(l) - i : b[j] = l[i + j]
  <2>1. \A j \in i + 1 .. Len(l) : l[j] \in S
    BY <1>1
  <2>2. i + 1 \in Int /\ Len(l) \in Int
    BY <1>1
  <2>3. /\ SubSeq(l, i + 1, Len(l)) \in Seq(S)
        /\ Len(SubSeq(l, i + 1, Len(l))) = IF i + 1 <= Len(l) THEN Len(l) - (i + 1) + 1 ELSE 0
        /\ \A j \in 1 .. Len(l) - (i + 1) + 1 : SubSeq(l, i + 1, Len(l))[j] = l[i + 1 + j - 1]
    BY <2>1, <2>2, SubSeqProperties
  <2>4. Len(b) = IF i + 1 <= Len(l) THEN Len(l) - (i + 1) + 1 ELSE 0
    BY <2>3
  <2>5. Len(b) = Len(l) - i
    <3>1. \A k \in Nat : i <= k => (IF i + 1 <= k THEN k - (i + 1) + 1 ELSE 0) = k - i
      BY <1>1
    <3>2. i <= Len(l) /\ Len(l) \in Nat
      BY <1>1
    <3>3. (IF i + 1 <= Len(l) THEN Len(l) - (i + 1) + 1 ELSE 0) = Len(l) - i
      BY <3>1, <3>2
    <3> HIDE DEF b
    <3> QED BY <2>4, <3>3
  <2>6. ASSUME NEW j \in 1 .. Len(l) - i PROVE b[j] = l[i + j]
    <3>1. j \in 1 .. Len(l) - (i + 1) + 1 /\ i + 1 + j - 1 = i + j
      BY <1>1
    <3> QED BY <2>3, <3>1
  <2> QED BY <2>3, <2>5, <2>6
<1> HIDE DEF a, b
<1>4. /\ a \o b \in Seq(S)
      /\ Len(a \o b) = Len(a) + Len(b)
      /\ \A j \in 1 .. Len(a) + Len(b) :
           (a \o b)[j] = IF j <= Len(a) THEN a[j] ELSE b[j - Len(a)]
  BY <1>2, <1>3, ConcatProperties
<1>5. RemoveAt(l, i) = a \o b
  BY DEF RemoveAt, a, b
<1>6. Len(a) + Len(b) = Len(l) - 1
  BY <1>1, <1>2, <1>3
<1>7. ASSUME NEW j \in 1 .. Len(l) - 1
      PROVE  RemoveAt(l, i)[j] = IF j < i THEN l[j] ELSE l[j + 1]
  <2>1. RemoveAt(l, i)[j] = IF j <= Len(a) THEN a[j] ELSE b[j - Len(a)]
    BY <1>4, <1>5, <1>6
  <2>2. CASE j < i
    BY <1>1, <1>2, <2>1, <2>2
  <2>3. CASE j >= i
    <3>1. j - Len(a) \in 1 .. Len(l) - i
      BY <1>1, <1>2, <2>3
    <3>2. b[j - Len(a)] = l[i + (j - Len(a))]
      BY <1>3, <3>1
    <3>3. i + (j - Len(a)) = j + 1
      BY <1>1, <1>2
    <3> QED BY <1>1, <1>2, <2>1, <2>3, <3>2, <3>3
  <2> QED BY <1>1, <2>2, <2>3
<1> QED
  BY <1>4, <1>5, <1>6, <1>7

\* An insertion moves entries back, never in front of an offset, and keeps
\* the order of the others.
LEMMA InsertionShifts ==
  ASSUME NEW S, NEW l \in Seq(S), NEW e \in S \ ToSet(l), NEW i \in 1 .. Len(l) + 1,
         NEW o \in Nat, IsInjective(l)
  PROVE  /\ InsertAt(l, i, e) \in Seq(S) /\ IsInjective(InsertAt(l, i, e))
         /\ ToSet(InsertAt(l, i, e)) = ToSet(l) \cup {e}
         /\ Ahead(l, o) \subseteq Ahead(InsertAt(l, i, e), o)
         /\ \A f, g : Precedes(l, f, g) => Precedes(InsertAt(l, i, e), f, g)
<1> DEFINE m == InsertAt(l, i, e)
<1>1. /\ m \in Seq(S) /\ Len(m) = Len(l) + 1
      /\ \A j \in 1 .. Len(l) + 1 :
           m[j] = IF j < i THEN l[j] ELSE IF j = i THEN e ELSE l[j - 1]
  <2>1. e \in S
    OBVIOUS
  <2>2. /\ InsertAt(l, i, e) \in Seq(S) /\ Len(InsertAt(l, i, e)) = Len(l) + 1
        /\ \A j \in 1 .. Len(l) + 1 :
             InsertAt(l, i, e)[j] = IF j < i THEN l[j] ELSE IF j = i THEN e ELSE l[j - 1]
    BY <2>1, InsertedAt, SMTT(60)
  <2> QED BY <2>2
<1> HIDE DEF m
<1>2. /\ Len(l) \in Nat /\ DOMAIN l = 1 .. Len(l) /\ DOMAIN m = 1 .. Len(m)
      /\ \A j \in 1 .. Len(l) : l[j] # e
  BY <1>1, LenProperties DEF ToSet
<1>3. \A j \in 1 .. Len(l) : \E k \in 1 .. Len(m) : k >= j /\ m[k] = l[j] /\ (k = IF j < i THEN j ELSE j + 1)
  BY <1>1, <1>2
<1>4. IsInjective(m)
  <2> SUFFICES ASSUME NEW j \in 1 .. Len(m), NEW k \in 1 .. Len(m), j < k PROVE m[j] # m[k]
    BY <1>1, <1>2 DEF IsInjective
  <2>1. \A p, q \in 1 .. Len(l) : p # q => l[p] # l[q]
    BY <1>2 DEF IsInjective
  <2>2. m[j] = IF j < i THEN l[j] ELSE IF j = i THEN e ELSE l[j - 1]
    BY <1>1
  <2>3. m[k] = IF k < i THEN l[k] ELSE IF k = i THEN e ELSE l[k - 1]
    BY <1>1
  <2>4. CASE k < i
    BY <1>1, <1>2, <2>1, <2>2, <2>3, <2>4
  <2>5. CASE k = i
    BY <1>1, <1>2, <2>1, <2>2, <2>3, <2>5
  <2>6. CASE k > i
    <3>1. k - 1 \in 1 .. Len(l) /\ m[k] = l[k - 1]
      BY <1>1, <1>2, <2>3, <2>6
    <3>2. CASE j < i
      BY <1>1, <1>2, <2>1, <2>2, <2>6, <3>1, <3>2
    <3>3. CASE j = i
      BY <1>2, <2>2, <3>1, <3>3
    <3>4. CASE j > i
      <4>1. j - 1 \in 1 .. Len(l) /\ m[j] = l[j - 1] /\ j - 1 # k - 1
        BY <1>1, <1>2, <2>2, <3>4
      <4> QED BY <2>1, <3>1, <4>1
    <3> QED BY <3>2, <3>3, <3>4
  <2> QED BY <2>4, <2>5, <2>6
<1>5. ToSet(m) = ToSet(l) \cup {e}
  <2>1. \A j \in 1 .. Len(m) : m[j] \in {l[k] : k \in 1 .. Len(l)} \cup {e}
    <3> SUFFICES ASSUME NEW j \in 1 .. Len(m) PROVE m[j] \in {l[k] : k \in 1 .. Len(l)} \cup {e}
      OBVIOUS
    <3>1. m[j] = IF j < i THEN l[j] ELSE IF j = i THEN e ELSE l[j - 1]
      BY <1>1
    <3>2. CASE j < i
      <4>1. j \in 1 .. Len(l)
        BY <1>2, <3>2
      <4> QED BY <3>1, <3>2, <4>1
    <3>3. CASE j = i
      BY <3>1, <3>3
    <3>4. CASE j > i
      <4>1. j - 1 \in 1 .. Len(l) /\ m[j] = l[j - 1]
        BY <1>1, <1>2, <3>1, <3>4
      <4> QED BY <4>1
    <3> QED BY <3>2, <3>3, <3>4
  <2>4. ToSet(m) \subseteq ToSet(l) \cup {e}
    BY <1>2, <2>1 DEF ToSet
  <2>2. ToSet(l) \subseteq ToSet(m)
    BY <1>3, <1>2 DEF ToSet
  <2>3. e \in ToSet(m)
    BY <1>1, <1>2 DEF ToSet
  <2> QED BY <2>2, <2>3, <2>4
<1>6. Ahead(l, o) \subseteq Ahead(m, o)
  BY <1>1, <1>2, <1>3 DEF Ahead
<1>7. \A f, g : Precedes(l, f, g) => Precedes(m, f, g)
  <2> SUFFICES ASSUME NEW f, NEW g, Precedes(l, f, g) PROVE Precedes(m, f, g)
    OBVIOUS
  <2>1. PICK j, k \in 1 .. Len(l) : j < k /\ l[j] = f /\ l[k] = g
    BY DEF Precedes
  <2>2. PICK j1 \in 1 .. Len(m) : m[j1] = l[j] /\ (j1 = IF j < i THEN j ELSE j + 1)
    BY <1>3
  <2>3. PICK k1 \in 1 .. Len(m) : m[k1] = l[k] /\ (k1 = IF k < i THEN k ELSE k + 1)
    BY <1>3
  <2>4. j1 < k1
    BY <2>1, <2>2, <2>3
  <2> QED BY <2>1, <2>2, <2>3, <2>4 DEF Precedes
<1> QED
  BY <1>1, <1>4, <1>5, <1>6, <1>7 DEF m

\* A withdrawal behind the offset costs nothing; one before it lets one entry
\* slip in front of the offset.
LEMMA WithdrawalShifts ==
  ASSUME NEW S, NEW l \in Seq(S), NEW i \in DOMAIN l, NEW o \in Nat, IsInjective(l)
  PROVE  /\ RemoveAt(l, i) \in Seq(S) /\ IsInjective(RemoveAt(l, i))
         /\ ToSet(RemoveAt(l, i)) = ToSet(l) \ {l[i]}
         /\ i > o => Ahead(l, o) \ {l[i]} \subseteq Ahead(RemoveAt(l, i), o)
         /\ Ahead(l, o) \ {l[i]} \subseteq Ahead(RemoveAt(l, i), o) \cup {l[o + 1]}
         /\ \A f, g : Precedes(l, f, g) /\ f # l[i] /\ g # l[i] => Precedes(RemoveAt(l, i), f, g)
<1> DEFINE m == RemoveAt(l, i)
<1>0. DOMAIN l = 1 .. Len(l)
  BY LenProperties
<1>1. /\ m \in Seq(S) /\ Len(m) = Len(l) - 1
      /\ \A j \in 1 .. Len(l) - 1 : m[j] = IF j < i THEN l[j] ELSE l[j + 1]
  BY <1>0, Removed
<1> HIDE DEF m
<1>2. /\ Len(l) \in Nat /\ DOMAIN m = 1 .. Len(m)
  BY <1>1, LenProperties
<1>3. \A j \in 1 .. Len(l) : j # i =>
        \E k \in 1 .. Len(m) : m[k] = l[j] /\ (k = IF j < i THEN j ELSE j - 1)
  <2> SUFFICES ASSUME NEW j \in 1 .. Len(l), j # i
               PROVE  \E k \in 1 .. Len(m) : m[k] = l[j] /\ (k = IF j < i THEN j ELSE j - 1)
    OBVIOUS
  <2> DEFINE k == IF j < i THEN j ELSE j - 1
  <2>1. k \in 1 .. Len(m)
    BY <1>0, <1>1, <1>2
  <2>2. m[k] = l[j]
    BY <1>0, <1>1, <1>2, <2>1
  <2> QED BY <2>1, <2>2
<1>4. IsInjective(m)
  <2> SUFFICES ASSUME NEW j \in 1 .. Len(m), NEW k \in 1 .. Len(m), m[j] = m[k] PROVE j = k
    BY <1>2 DEF IsInjective
  <2> DEFINE a == IF j < i THEN j ELSE j + 1
             b == IF k < i THEN k ELSE k + 1
  <2>1. a \in 1 .. Len(l) /\ b \in 1 .. Len(l) /\ (a = b => j = k)
    BY <1>0, <1>1, <1>2
  <2>2. m[j] = l[a] /\ m[k] = l[b]
    BY <1>1
  <2> HIDE DEF a, b
  <2> QED BY <1>0, <2>1, <2>2 DEF IsInjective
<1>5. ToSet(m) = ToSet(l) \ {l[i]}
  <2>1. ToSet(m) \subseteq ToSet(l) \ {l[i]}
    BY <1>0, <1>1, <1>2 DEF ToSet, IsInjective
  <2>2. ToSet(l) \ {l[i]} \subseteq ToSet(m)
    BY <1>0, <1>3, <1>2 DEF ToSet
  <2> QED BY <2>1, <2>2
<1>6. i > o => Ahead(l, o) \ {l[i]} \subseteq Ahead(m, o)
  <2> SUFFICES ASSUME i > o, NEW x \in Ahead(l, o), x # l[i] PROVE x \in Ahead(m, o)
    OBVIOUS
  <2>1. PICK j \in o + 1 .. Len(l) : l[j] = x
    BY DEF Ahead
  <2>2. j \in 1 .. Len(l) /\ j # i
    BY <1>2, <2>1
  <2>3. PICK k \in 1 .. Len(m) : m[k] = l[j] /\ (k = IF j < i THEN j ELSE j - 1)
    BY <2>1, <2>2, <1>3
  <2>4. k \in o + 1 .. Len(m)
    BY <2>2, <2>3, <1>0, <1>2
  <2> QED BY <2>1, <2>3, <2>4 DEF Ahead
<1>7. Ahead(l, o) \ {l[i]} \subseteq Ahead(m, o) \cup {l[o + 1]}
  <2> SUFFICES ASSUME NEW x \in Ahead(l, o), x # l[i], x # l[o + 1] PROVE x \in Ahead(m, o)
    OBVIOUS
  <2>1. PICK j \in o + 1 .. Len(l) : l[j] = x
    BY DEF Ahead
  <2>2. j \in 1 .. Len(l) /\ j # i /\ j > o + 1
    BY <1>2, <2>1
  <2>3. PICK k \in 1 .. Len(m) : m[k] = l[j] /\ (k = IF j < i THEN j ELSE j - 1)
    BY <2>1, <2>2, <1>3
  <2>4. k \in o + 1 .. Len(m)
    BY <2>2, <2>3, <1>0, <1>2
  <2> QED BY <2>1, <2>3, <2>4 DEF Ahead
<1>8. \A f, g : Precedes(l, f, g) /\ f # l[i] /\ g # l[i] => Precedes(m, f, g)
  <2> SUFFICES ASSUME NEW f, NEW g, Precedes(l, f, g), f # l[i], g # l[i] PROVE Precedes(m, f, g)
    OBVIOUS
  <2>1. PICK j, k \in 1 .. Len(l) : j < k /\ l[j] = f /\ l[k] = g
    BY DEF Precedes
  <2>2. PICK j1 \in 1 .. Len(m) : m[j1] = l[j] /\ (j1 = IF j < i THEN j ELSE j - 1)
    BY <1>3, <2>1
  <2>3. PICK k1 \in 1 .. Len(m) : m[k1] = l[k] /\ (k1 = IF k < i THEN k ELSE k - 1)
    BY <1>3, <2>1
  <2>4. j1 < k1
    BY <2>1, <2>2, <2>3, <1>0
  <2> QED BY <2>1, <2>2, <2>3, <2>4 DEF Precedes
<1> QED
  BY <1>1, <1>4, <1>5, <1>6, <1>7, <1>8 DEF m

LEMMA Sliced ==
  ASSUME NEW S, NEW l \in Seq(S), NEW o \in Nat, NEW n \in Nat
  PROVE  /\ Slice(l, o, n) \in Seq(S)
         /\ Len(Slice(l, o, n)) = IF o >= Len(l) THEN 0 ELSE IF o + n < Len(l) THEN n ELSE Len(l) - o
         /\ \A j \in 1 .. Len(Slice(l, o, n)) : Slice(l, o, n)[j] = l[o + j]
<1> DEFINE end == IF o + n < Len(l) THEN o + n ELSE Len(l)
<1>1. Len(l) \in Nat /\ l \in [1 .. Len(l) -> S]
  BY LenProperties
<1>2. \A j \in o + 1 .. end : l[j] \in S
  BY <1>1
<1>3. o + 1 \in Int /\ end \in Int
  BY <1>1
<1>4. Slice(l, o, n) = SubSeq(l, o + 1, end)
  BY DEF Slice
<1> HIDE DEF end
<1>5. /\ SubSeq(l, o + 1, end) \in Seq(S)
      /\ Len(SubSeq(l, o + 1, end)) = IF o + 1 <= end THEN end - (o + 1) + 1 ELSE 0
      /\ \A j \in 1 .. end - (o + 1) + 1 : SubSeq(l, o + 1, end)[j] = l[o + 1 + j - 1]
  BY <1>2, <1>3, SubSeqProperties
<1> QED
  BY <1>1, <1>4, <1>5 DEF end

\* A page and what lies behind it are all that lay ahead.
LEMMA PageIsWhatIsNext ==
  ASSUME NEW S, NEW l \in Seq(S), NEW o \in Nat, NEW n \in Nat, NEW p, p = Slice(l, o, n)
  PROVE  /\ p \in Seq(S) /\ Len(p) \in Nat /\ ToSet(p) \subseteq ToSet(l)
         /\ Ahead(l, o) \subseteq ToSet(p) \cup Ahead(l, o + Len(p))
         /\ o + Len(p) >= Len(l) => Ahead(l, o + Len(p)) = {}
         /\ Len(p) <= n
         /\ Len(p) < n => o + Len(p) >= Len(l)
         /\ o < Len(l) /\ n > 0 => Len(p) > 0
<1>1. Len(l) \in Nat /\ DOMAIN l = 1 .. Len(l)
  BY LenProperties
<1>2. /\ p \in Seq(S)
      /\ Len(p) = IF o >= Len(l) THEN 0 ELSE IF o + n < Len(l) THEN n ELSE Len(l) - o
      /\ \A j \in 1 .. Len(p) : p[j] = l[o + j]
  BY Sliced
<1>3. Len(p) \in Nat /\ DOMAIN p = 1 .. Len(p)
  BY <1>2, LenProperties
<1>4. ToSet(p) \subseteq ToSet(l)
  <2> SUFFICES ASSUME NEW x \in ToSet(p) PROVE x \in ToSet(l)
    OBVIOUS
  <2>1. PICK j \in 1 .. Len(p) : x = p[j]
    BY <1>3 DEF ToSet
  <2>2. \A k, q \in Nat : (q = IF o >= k THEN 0 ELSE IF o + n < k THEN n ELSE k - o)
                            => \A h \in 1 .. q : o + h \in 1 .. k
    OBVIOUS
  <2>3. o + j \in 1 .. Len(l)
    BY <1>1, <1>2, <1>3, <2>1, <2>2, Zenon
  <2> QED BY <2>1, <2>3, <1>1, <1>2 DEF ToSet
<1>5. Ahead(l, o) \subseteq ToSet(p) \cup Ahead(l, o + Len(p))
  <2> SUFFICES ASSUME NEW x \in Ahead(l, o), x \notin Ahead(l, o + Len(p)) PROVE x \in ToSet(p)
    OBVIOUS
  <2>1. PICK j \in o + 1 .. Len(l) : x = l[j]
    BY DEF Ahead
  <2>2. j - o \in 1 .. Len(p)
    BY <2>1, <1>1, <1>3 DEF Ahead
  <2>3. p[j - o] = l[o + (j - o)]
    BY <2>2, <1>2, Zenon
  <2>4. o + (j - o) = j
    BY <2>1, <1>1
  <2>5. p[j - o] = x
    BY <2>1, <2>3, <2>4, Zenon
  <2> QED BY <2>2, <2>5, <1>3 DEF ToSet
<1>6. o + Len(p) >= Len(l) => Ahead(l, o + Len(p)) = {}
  BY <1>1, <1>3 DEF Ahead
<1>7. /\ Len(p) <= n
      /\ Len(p) < n => o + Len(p) >= Len(l)
      /\ o < Len(l) /\ n > 0 => Len(p) > 0
  <2>1. \A k, q \in Nat : (q = IF o >= k THEN 0 ELSE IF o + n < k THEN n ELSE k - o)
                            => q <= n /\ (q < n => o + q >= k) /\ (o < k /\ n > 0 => q > 0)
    OBVIOUS
  <2> QED BY <1>1, <1>2, <1>3, <2>1, Zenon
<1>8. p \in Seq(S)
  BY <1>2
<1> QED
  BY <1>3, <1>4, <1>5, <1>6, <1>7, <1>8

(***************************************************************************)
(* Counting                                                                *)
(***************************************************************************)
LEMMA Fewer ==
  ASSUME NEW T, IsFiniteSet(T), NEW S, S \subseteq T, NEW n \in Nat, Cardinality(T) <= n
  PROVE  IsFiniteSet(S) /\ Cardinality(S) \in Nat /\ Cardinality(S) <= n
<1>1. S \in SUBSET T
  OBVIOUS
<1>2. IsFiniteSet(S) /\ Cardinality(S) <= Cardinality(T)
  BY <1>1, FS_Subset
<1>3. Cardinality(S) \in Nat /\ Cardinality(T) \in Nat
  BY <1>2, FS_CardinalityType
<1> QED
  BY <1>2, <1>3

LEMMA OneMore ==
  ASSUME NEW T, IsFiniteSet(T), NEW x, NEW S, S \subseteq T \cup {x},
         NEW n \in Nat, Cardinality(T) <= n
  PROVE  IsFiniteSet(S) /\ Cardinality(S) \in Nat /\ Cardinality(S) <= n + 1
<1>1. /\ IsFiniteSet(T \cup {x})
      /\ Cardinality(T \cup {x}) = IF x \in T THEN Cardinality(T) ELSE Cardinality(T) + 1
  BY FS_AddElement
<1>2. Cardinality(T) \in Nat
  BY FS_CardinalityType
<1>3. Cardinality(T \cup {x}) <= n + 1
  BY <1>1, <1>2
<1> QED
  BY <1>1, <1>3, Fewer

\* An injective list has as many entries before an offset as the offset says.
LEMMA BehindCounted ==
  ASSUME NEW S, NEW l \in Seq(S), IsInjective(l), NEW o \in Nat
  PROVE  /\ IsFiniteSet(Behind(l, o)) /\ Cardinality(Behind(l, o)) \in Nat
         /\ Cardinality(Behind(l, o)) <= o
         /\ o <= Len(l) => Cardinality(Behind(l, o)) = o
<1> DEFINE D == {j \in 1 .. Len(l) : j <= o}
           f == [j \in D |-> l[j]]
<1>1. Len(l) \in Nat /\ DOMAIN l = 1 .. Len(l)
  BY LenProperties
<1>2. PICK n \in Nat : D = 1 .. n /\ n <= o /\ (o <= Len(l) => n = o)
  <2>1. CASE o <= Len(l)
    <3>1. D = 1 .. o
      BY <1>1, <2>1
    <3> QED BY <3>1
  <2>2. CASE o > Len(l)
    <3>1. D = 1 .. Len(l)
      BY <1>1, <2>2
    <3> QED BY <1>1, <2>2, <3>1
  <2> QED BY <1>1, <2>1, <2>2
<1>3. IsFiniteSet(1 .. n) /\ Cardinality(1 .. n) = n
  <2>1. 1 \in Int /\ n \in Int
    OBVIOUS
  <2>2. /\ IsFiniteSet(1 .. n)
        /\ Cardinality(1 .. n) = IF 1 > n THEN 0 ELSE n - 1 + 1
    BY <2>1, FS_Interval
  <2> QED BY <2>2
<1>4. f \in Surjection(D, Behind(l, o)) /\ f \in Injection(D, Behind(l, o))
  <2>1. f \in [D -> Behind(l, o)]
    BY DEF Behind
  <2>2. \A t \in Behind(l, o) : \E j \in D : f[j] = t
    BY DEF Behind
  <2>3. \A a, b \in D : f[a] = f[b] => a = b
    BY <1>1 DEF IsInjective
  <2> HIDE DEF f, D
  <2>4. DOMAIN f = D
    BY <2>1
  <2> QED BY <2>1, <2>2, <2>3, <2>4 DEF Surjection, Injection, IsInjective
<1> HIDE DEF f, D
<1>5. IsFiniteSet(D) /\ Cardinality(D) = n
  BY <1>2, <1>3
<1>6. /\ IsFiniteSet(Behind(l, o))
      /\ Cardinality(Behind(l, o)) = Cardinality(D)
  BY <1>4, <1>5, FS_Surjection
<1> QED
  BY <1>2, <1>5, <1>6

LEMMA ListFinite ==
  ASSUME NEW S, NEW l \in Seq(S), IsInjective(l)
  PROVE  IsFiniteSet(ToSet(l))
<1>1. Len(l) \in Nat /\ DOMAIN l = 1 .. Len(l)
  BY LenProperties
<1>2. ToSet(l) = Behind(l, Len(l))
  BY <1>1 DEF ToSet, Behind
<1> QED
  BY <1>1, <1>2, BehindCounted

\* The front of a list is what lies before the offset.
LEMMA FrontIsBehind ==
  ASSUME NEW S, NEW l \in Seq(S), NEW o \in Nat, o <= Len(l)
  PROVE  ToSet(Slice(l, 0, o)) = Behind(l, o)
<1> DEFINE p == Slice(l, 0, o)
<1>1. Len(l) \in Nat
  BY LenProperties
<1>2. /\ p \in Seq(S)
      /\ Len(p) = IF 0 >= Len(l) THEN 0 ELSE IF 0 + o < Len(l) THEN o ELSE Len(l) - 0
      /\ \A j \in 1 .. Len(p) : p[j] = l[0 + j]
  <2>1. 0 \in Nat
    OBVIOUS
  <2> QED BY <2>1, Sliced, Zenon
<1> HIDE DEF p
<1>3. Len(p) \in Nat /\ DOMAIN p = 1 .. Len(p)
  BY <1>2, LenProperties
<1>4. \A k, q \in Nat : o <= k /\ (q = IF 0 >= k THEN 0 ELSE IF 0 + o < k THEN o ELSE k - 0) => q = o
  OBVIOUS
<1>5. Len(p) = o
  BY <1>1, <1>2, <1>3, <1>4, Zenon
<1>6. \A j \in 1 .. o : p[j] = l[j]
  BY <1>2, <1>5
<1>7. ToSet(p) = Behind(l, o)
  <2>1. {j \in 1 .. Len(l) : j <= o} = 1 .. o
    BY <1>1
  <2> QED BY <1>3, <1>5, <1>6, <2>1 DEF ToSet, Behind
<1> QED
  BY <1>7 DEF p

\* What a run's own list had ahead of the offset and the publisher's list has
\* not: no more than was withdrawn from before it.  The entries that were
\* ahead cannot all be in front unless others left the places free.
LEMMA KeptInOrder ==
  ASSUME NEW S, NEW l \in Seq(S), NEW c \in Seq(S), IsInjective(l), IsInjective(c),
         NEW n \in Nat, n <= Len(c),
         NEW T, T \subseteq ToSet(l), NEW L, IsFiniteSet(L), T \cap L = {},
         \A e, f : Precedes(c, e, f) /\ e \notin L /\ f \notin L => Precedes(l, e, f)
  PROVE  /\ IsFiniteSet((T \cap Ahead(c, n)) \ Ahead(l, n))
         /\ Cardinality((T \cap Ahead(c, n)) \ Ahead(l, n)) <= Cardinality(L \cap Behind(c, n))
<1> DEFINE K == (T \cap Ahead(c, n)) \ Ahead(l, n)
           W == L \cap Behind(c, n)
           B == Behind(c, n) \ L
<1>1. /\ Len(l) \in Nat /\ DOMAIN l = 1 .. Len(l)
      /\ Len(c) \in Nat /\ DOMAIN c = 1 .. Len(c)
  BY LenProperties
<1>2. /\ IsFiniteSet(Behind(c, n)) /\ Cardinality(Behind(c, n)) = n
      /\ IsFiniteSet(Behind(l, n)) /\ Cardinality(Behind(l, n)) <= n
  BY BehindCounted
<1>3. /\ IsFiniteSet(W) /\ Cardinality(W) \in Nat
      /\ IsFiniteSet(B) /\ Cardinality(B) \in Nat
  <2>1. W \in SUBSET Behind(c, n) /\ B \in SUBSET Behind(c, n)
    OBVIOUS
  <2>2. IsFiniteSet(W) /\ IsFiniteSet(B)
    BY <1>2, <2>1, FS_Subset
  <2> QED BY <2>2, FS_CardinalityType
<1>4. Cardinality(B) + Cardinality(W) = n
  <2>1. B \cup W = Behind(c, n) /\ B \cap W = {}
    OBVIOUS
  <2>2. Cardinality(B \cup W) = Cardinality(B) + Cardinality(W) - Cardinality(B \cap W)
    BY <1>3, FS_Union
  <2>3. Cardinality(B \cap W) = 0
    BY <2>1, FS_EmptySet
  <2>4. Cardinality(B \cup W) = n
    BY <1>2, <2>1
  <2> HIDE DEF B, W
  <2> QED BY <1>3, <2>2, <2>3, <2>4
<1>5. K \subseteq Behind(l, n)
  <2> SUFFICES ASSUME NEW y \in K PROVE y \in Behind(l, n)
    OBVIOUS
  <2>1. PICK j \in 1 .. Len(l) : l[j] = y
    BY <1>1 DEF ToSet
  <2>2. j <= n
    BY <1>1, <2>1 DEF Ahead
  <2> QED BY <2>1, <2>2 DEF Behind
<1>6. ASSUME K = {} PROVE IsFiniteSet(K) /\ Cardinality(K) <= Cardinality(W)
  <2> HIDE DEF K, W
  <2>1. IsFiniteSet(K) /\ Cardinality(K) = 0
    BY <1>6, FS_EmptySet
  <2> QED BY <1>3, <2>1
<1>7. ASSUME NEW x \in K PROVE IsFiniteSet(K) /\ Cardinality(K) <= Cardinality(W)
  <2>1. B \subseteq Behind(l, n)
    <3> SUFFICES ASSUME NEW f \in B PROVE f \in Behind(l, n)
      OBVIOUS
    <3>1. PICK i \in 1 .. Len(c) : i <= n /\ c[i] = f
      BY DEF Behind
    <3>2. PICK j \in n + 1 .. Len(c) : c[j] = x
      BY DEF Ahead
    <3>3. Precedes(c, f, x)
      BY <1>1, <3>1, <3>2 DEF Precedes
    <3>4. Precedes(l, f, x)
      BY <3>3
    <3>5. PICK a, b \in 1 .. Len(l) : a < b /\ l[a] = f /\ l[b] = x
      BY <3>4 DEF Precedes
    <3>6. b <= n
      BY <1>1, <3>5 DEF Ahead
    <3> QED BY <3>5, <3>6 DEF Behind
  <2>2. K \cap B = {}
    <3> SUFFICES ASSUME NEW y \in K, y \in B PROVE FALSE
      OBVIOUS
    <3>1. PICK i \in 1 .. Len(c) : i <= n /\ c[i] = y
      BY DEF Behind
    <3>2. PICK j \in n + 1 .. Len(c) : c[j] = y
      BY DEF Ahead
    <3> QED BY <1>1, <3>1, <3>2 DEF IsInjective
  <2>3. K \cup B \in SUBSET Behind(l, n)
    BY <1>5, <2>1
  <2>4. Cardinality(K \cup B) <= Cardinality(Behind(l, n)) /\ IsFiniteSet(K \cup B)
    BY <1>2, <2>3, FS_Subset
  <2>5. IsFiniteSet(K)
    <3>1. K \in SUBSET (K \cup B)
      OBVIOUS
    <3> QED BY <2>4, <3>1, FS_Subset
  <2>6. Cardinality(K \cup B) = Cardinality(K) + Cardinality(B) - Cardinality(K \cap B)
    BY <1>3, <2>5, FS_Union
  <2>7. Cardinality(K \cap B) = 0
    BY <2>2, FS_EmptySet
  <2>8. Cardinality(K) \in Nat /\ Cardinality(K \cup B) \in Nat /\ Cardinality(Behind(l, n)) \in Nat
    BY <1>2, <2>4, <2>5, FS_CardinalityType
  <2> HIDE DEF K, B, W
  <2> QED BY <1>2, <1>3, <1>4, <2>4, <2>5, <2>6, <2>7, <2>8
<1>8. IsFiniteSet(K) /\ Cardinality(K) <= Cardinality(W)
  BY <1>6, <1>7
<1> QED
  BY <1>8

(***************************************************************************)
(* The inductive invariant                                                 *)
(***************************************************************************)
Passes == [got: SUBSET Entries, there: SUBSET Entries, shifted: Nat]

\* The list that the active run's connector slices.
InHand == IF cache = NoList THEN list ELSE cache

\* What a pass has not read and will not come to in this list.
Missed(pass, l, o) == (pass.there \ pass.got) \ Ahead(l, o)

\* Shapes; what was counted happened, and the entries counted are still listed.
SourceTyped ==
  /\ connector \in Connectors
  /\ list \in Seq(Entries) /\ IsInjective(list)
  /\ \A c \in {stored, at} :
       /\ c.offset \in Nat
       /\ c.mark = NoList \/ (connector = "verified" /\ c.mark \in Seq(Entries))
       /\ c = First \/ c.offset > 0
  /\ left \in -1..MaxPages /\ left # 0
  /\ story \in Passes /\ mine \in Passes
  /\ late \subseteq Entries /\ IsFiniteSet(late)
  /\ changes \in 0..MaxChanges /\ trips \in 0..MaxTrips

Tallied ==
  /\ story.shifted <= changes
  /\ mine.shifted + Cardinality(late) <= changes
  /\ story.there \subseteq ToSet(list)
  /\ mine.there \subseteq ToSet(list)

\* A list kept by a connector belongs to a run under way, and the publisher
\* still lists in the same order what it has not withdrawn since.
CacheSound ==
  /\ ~Running => at = First /\ cache = NoList
  /\ cache = NoList => late = {}
  /\ cache # NoList =>
       /\ connector = "cached" /\ cache \in Seq(Entries) /\ IsInjective(cache)
       /\ at.offset > 0 /\ at.offset <= Len(cache)
       /\ mine.there \cap late = {}
       /\ \A e, f : Precedes(cache, e, f) /\ e \notin late /\ f \notin late => Precedes(list, e, f)

\* The pass of the stored checkpoint, in the publisher's list.
StoredSound ==
  /\ stored = First =>
       Cardinality(story.there \ story.got) <= IF connector = "verified" THEN 0 ELSE story.shifted
  /\ stored # First =>
       IF connector = "verified"
         THEN story.there \ story.got \subseteq Ahead(stored.mark, stored.offset)
         ELSE Cardinality(Missed(story, list, stored.offset)) <= story.shifted

\* The pass of the active run, in the list it slices.
RunSound ==
  Running /\ at.offset > 0 =>
    IF connector = "verified"
      THEN mine.there \ mine.got \subseteq Ahead(at.mark, at.offset)
      ELSE Cardinality(Missed(mine, InHand, at.offset)) <= mine.shifted

PagingInv == SourceTyped /\ Tallied /\ CacheSound /\ StoredSound /\ RunSound

LEMMA PagingStarts ==
  PagingInit => PagingInv
<1> SUFFICES ASSUME PagingInit PROVE PagingInv
  OBVIOUS
<1> USE PagingAssumption DEF PagingInit
<1>1. First.offset = 0 /\ First.mark = NoList /\ NoPass.got = {} /\ NoPass.there = {} /\ NoPass.shifted = 0
  BY DEF First, NoPass
<1>2. IsFiniteSet({}) /\ Cardinality({}) = 0
  BY FS_EmptySet
<1>3. NoPass \in Passes
  BY DEF NoPass, Passes
<1>4. SourceTyped
  BY <1>1, <1>2, <1>3 DEF SourceTyped
<1>5. Tallied
  BY <1>1, <1>2 DEF Tallied
<1>6. CacheSound
  BY DEF CacheSound
<1>7. StoredSound
  <2>1. story.there \ story.got = {}
    BY <1>1
  <2>2. Cardinality(story.there \ story.got) = 0
    BY <2>1, <1>2
  <2> QED BY <1>1, <2>2 DEF StoredSound
<1>8. RunSound
  BY DEF RunSound, Running
<1> QED
  BY <1>4, <1>5, <1>6, <1>7, <1>8 DEF PagingInv

\* What a pass may still have missed is finite, as the list is.
LEMMA MissedFinite ==
  ASSUME list \in Seq(Entries), IsInjective(list),
         NEW pass, pass.there \subseteq ToSet(list), NEW S, S \subseteq pass.there
  PROVE  IsFiniteSet(S) /\ Cardinality(S) \in Nat
<1>1. IsFiniteSet(ToSet(list))
  BY ListFinite
<1>2. S \in SUBSET ToSet(list)
  OBVIOUS
<1>3. IsFiniteSet(S)
  BY <1>1, <1>2, FS_Subset
<1> QED
  BY <1>3, FS_CardinalityType

LEMMA InsertKeeps ==
  ASSUME PagingInv, NEW e \in Entries, NEW i \in 1 .. Len(list) + 1, Insert(e, i)
  PROVE  PagingInv'
<1> USE PagingAssumption
<1>1. SourceTyped /\ Tallied /\ CacheSound /\ StoredSound /\ RunSound
  BY DEF PagingInv
<1>2. /\ changes < MaxChanges /\ e \in Entries \ ToSet(list)
      /\ list' = InsertAt(list, i, e)
      /\ changes' = changes + 1
      /\ connector' = connector /\ stored' = stored /\ at' = at /\ cache' = cache /\ left' = left
      /\ story' = story /\ mine' = mine /\ late' = late /\ trips' = trips
  BY DEF Insert
<1>3. list \in Seq(Entries) /\ IsInjective(list)
  BY <1>1 DEF SourceTyped
<1>4. /\ list' \in Seq(Entries) /\ IsInjective(list')
      /\ ToSet(list') = ToSet(list) \cup {e}
      /\ \A f, g : Precedes(list, f, g) => Precedes(list', f, g)
  <2>1. 0 \in Nat
    OBVIOUS
  <2> QED BY <1>2, <1>3, <2>1, InsertionShifts
<1>5. \A o \in Nat : Ahead(list, o) \subseteq Ahead(list', o)
  BY <1>2, <1>3, InsertionShifts
<1>6. SourceTyped'
  BY <1>1, <1>2, <1>4 DEF SourceTyped, First
<1>7. Tallied'
  <2>1. Cardinality(late) \in Nat /\ story.shifted \in Nat /\ mine.shifted \in Nat /\ changes \in Nat
    BY <1>1, FS_CardinalityType DEF SourceTyped, Passes
  <2>2. late' = late /\ Cardinality(late') = Cardinality(late)
    BY <1>2
  <2> QED BY <1>1, <1>2, <1>4, <2>1, <2>2 DEF Tallied
<1>8. CacheSound'
  BY <1>1, <1>2, <1>4 DEF CacheSound, Running, First
<1>9. ASSUME NEW pass, NEW o \in Nat, pass.there \subseteq ToSet(list), NEW n \in Nat,
             Cardinality(Missed(pass, list, o)) <= n
      PROVE  Cardinality(Missed(pass, list', o)) <= n
  <2>1. Missed(pass, list', o) \subseteq Missed(pass, list, o)
    BY <1>5 DEF Missed
  <2>2. IsFiniteSet(Missed(pass, list, o))
    <3>1. Missed(pass, list, o) \subseteq pass.there
      BY DEF Missed
    <3> QED BY <1>3, <1>9, <3>1, MissedFinite
  <2> QED BY <1>9, <2>1, <2>2, Fewer
<1>10. StoredSound'
  <2>1. ASSUME stored # First, connector # "verified"
        PROVE  Cardinality(Missed(story, list', stored.offset)) <= story.shifted
    <3>1. stored.offset \in Nat /\ story.shifted \in Nat /\ story.there \subseteq ToSet(list)
      BY <1>1 DEF SourceTyped, Tallied, Passes
    <3>2. Cardinality(Missed(story, list, stored.offset)) <= story.shifted
      BY <1>1, <2>1 DEF StoredSound
    <3> QED BY <1>9, <3>1, <3>2
  <2> QED BY <1>1, <1>2, <2>1 DEF StoredSound, First
<1>11. RunSound'
  <2>1. ASSUME Running, at.offset > 0, connector # "verified"
        PROVE  Cardinality(Missed(mine, InHand', at.offset)) <= mine.shifted
    <3>1. at.offset \in Nat /\ mine.shifted \in Nat /\ mine.there \subseteq ToSet(list)
      BY <1>1 DEF SourceTyped, Tallied, Passes
    <3>2. Cardinality(Missed(mine, InHand, at.offset)) <= mine.shifted
      BY <1>1, <2>1 DEF RunSound
    <3>3. CASE cache = NoList
      <4>1. InHand = list /\ InHand' = list'
        BY <1>2, <3>3 DEF InHand
      <4>2. Cardinality(Missed(mine, list, at.offset)) <= mine.shifted
        BY <3>2, <4>1
      <4>3. Cardinality(Missed(mine, list', at.offset)) <= mine.shifted
        BY <1>9, <3>1, <4>2
      <4> QED BY <4>1, <4>3
    <3>4. CASE cache # NoList
      <4>1. InHand' = InHand
        BY <1>2, <3>4 DEF InHand
      <4> QED BY <3>2, <4>1
    <3> QED BY <3>3, <3>4
  <2>2. Running' = Running
    BY <1>2 DEF Running
  <2>3. CASE connector = "verified"
    BY <1>1, <1>2, <2>2, <2>3 DEF RunSound
  <2>4. CASE connector # "verified"
    <3>1. ASSUME Running', at'.offset > 0
          PROVE  Cardinality(Missed(mine, InHand, at.offset)') <= mine'.shifted
      <4>1. Missed(mine, InHand, at.offset)' = Missed(mine, InHand', at.offset)
        BY <1>2 DEF Missed
      <4> QED BY <1>2, <2>1, <2>2, <2>4, <3>1, <4>1
    <3> QED BY <1>2, <2>4, <3>1 DEF RunSound
  <2> QED BY <2>3, <2>4
<1> QED
  BY <1>6, <1>7, <1>8, <1>10, <1>11 DEF PagingInv

\* A pass whose entries and count are rewritten.
LEMMA Rewritten ==
  ASSUME NEW pass \in Passes, NEW t, NEW n
  PROVE  [pass EXCEPT !.there = t, !.shifted = n] = [got |-> pass.got, there |-> t, shifted |-> n]
<1>1. PICK g \in SUBSET Entries, h \in SUBSET Entries, k \in Nat :
        pass = [got |-> g, there |-> h, shifted |-> k]
  BY DEF Passes
<1>2. [[got |-> g, there |-> h, shifted |-> k] EXCEPT !.there = t, !.shifted = n]
        = [got |-> g, there |-> t, shifted |-> n]
  <2>1. [[got |-> g, there |-> h, shifted |-> k] EXCEPT !.there = t]
          = [got |-> g, there |-> t, shifted |-> k]
    OBVIOUS
  <2>2. [[got |-> g, there |-> t, shifted |-> k] EXCEPT !.shifted = n]
          = [got |-> g, there |-> t, shifted |-> n]
    OBVIOUS
  <2> QED BY <2>1, <2>2, Zenon
<1>3. pass.got = g
  BY <1>1
<1> QED
  BY <1>1, <1>2, <1>3, Zenon

\* A withdrawal costs a pass nothing, or one entry when it is before the offset.
LEMMA WithdrawalCosts ==
  ASSUME NEW i \in DOMAIN list, list \in Seq(Entries), IsInjective(list),
         NEW pass \in Passes, pass.there \subseteq ToSet(list), NEW o \in Nat,
         Cardinality(Missed(pass, list, o)) <= pass.shifted
  PROVE  Cardinality(Missed(Without(pass, list[i], i <= o), RemoveAt(list, i), o))
           <= Without(pass, list[i], i <= o).shifted
<1> DEFINE after == Without(pass, list[i], i <= o)
           m == RemoveAt(list, i)
<1>1. /\ after.got = pass.got
      /\ after.there = pass.there \ {list[i]}
      /\ after.shifted = IF i <= o THEN pass.shifted + 1 ELSE pass.shifted
  <2>1. after = [got |-> pass.got, there |-> pass.there \ {list[i]},
                 shifted |-> IF i <= o THEN pass.shifted + 1 ELSE pass.shifted]
    BY Rewritten DEF Without
  <2> HIDE DEF after
  <2> QED BY <2>1
<1>2. /\ i > o => Ahead(list, o) \ {list[i]} \subseteq Ahead(m, o)
      /\ Ahead(list, o) \ {list[i]} \subseteq Ahead(m, o) \cup {list[o + 1]}
  BY WithdrawalShifts
<1>3. pass.shifted \in Nat /\ i \in Nat
  <2>1. DOMAIN list = 1 .. Len(list) /\ Len(list) \in Nat
    BY LenProperties
  <2> QED BY <2>1 DEF Passes
<1>4. IsFiniteSet(Missed(pass, list, o))
  <2>1. Missed(pass, list, o) \subseteq pass.there
    BY DEF Missed
  <2> QED BY <2>1, MissedFinite
<1> HIDE DEF after, m
<1>5. CASE i <= o
  <2>1. Missed(after, m, o) \subseteq Missed(pass, list, o) \cup {list[o + 1]}
    BY <1>1, <1>2 DEF Missed
  <2>2. Cardinality(Missed(after, m, o)) <= pass.shifted + 1
    BY <1>3, <1>4, <2>1, OneMore
  <2> QED BY <1>1, <1>5, <2>2 DEF after, m
<1>6. CASE i > o
  <2>1. Missed(after, m, o) \subseteq Missed(pass, list, o)
    BY <1>1, <1>2, <1>6 DEF Missed
  <2>2. Cardinality(Missed(after, m, o)) <= pass.shifted
    BY <1>3, <1>4, <2>1, Fewer
  <2>3. ~(i <= o)
    BY <1>3, <1>6
  <2> QED BY <1>1, <2>2, <2>3 DEF after, m
<1> QED
  BY <1>3, <1>5, <1>6

LEMMA WithdrawKeeps ==
  ASSUME PagingInv, NEW i \in DOMAIN list, Withdraw(i)
  PROVE  PagingInv'
<1> USE PagingAssumption
<1> DEFINE e == list[i]
           front == cache = NoList /\ i <= at.offset
<1>1. SourceTyped /\ Tallied /\ CacheSound /\ StoredSound /\ RunSound
  BY DEF PagingInv
<1>2. /\ changes < MaxChanges
      /\ list' = RemoveAt(list, i)
      /\ story' = Without(story, e, i <= stored.offset)
      /\ mine' = Without(mine, e, front)
      /\ late' = IF cache = NoList THEN late ELSE late \cup {e}
      /\ changes' = changes + 1
      /\ connector' = connector /\ stored' = stored /\ at' = at /\ cache' = cache /\ left' = left
      /\ trips' = trips
  BY DEF Withdraw
<1>3. /\ list \in Seq(Entries) /\ IsInjective(list)
      /\ story \in Passes /\ mine \in Passes
      /\ story.there \subseteq ToSet(list) /\ mine.there \subseteq ToSet(list)
      /\ stored.offset \in Nat /\ at.offset \in Nat
  BY <1>1 DEF SourceTyped, Tallied
<1>4. /\ list' \in Seq(Entries) /\ IsInjective(list')
      /\ ToSet(list') = ToSet(list) \ {e}
      /\ \A f, g : Precedes(list, f, g) /\ f # e /\ g # e => Precedes(list', f, g)
  <2>1. 0 \in Nat
    OBVIOUS
  <2> QED BY <1>2, <1>3, <2>1, WithdrawalShifts
<1>5. e \in Entries
  <2>1. list \in [1 .. Len(list) -> Entries] /\ DOMAIN list = 1 .. Len(list)
    BY <1>3, LenProperties
  <2> QED BY <2>1
<1> HIDE DEF e
<1>6. /\ story' \in Passes /\ story'.got = story.got /\ story'.there = story.there \ {e}
      /\ story'.shifted = IF i <= stored.offset THEN story.shifted + 1 ELSE story.shifted
  <2>1. story' = [got |-> story.got, there |-> story.there \ {e},
                  shifted |-> IF i <= stored.offset THEN story.shifted + 1 ELSE story.shifted]
    BY <1>2, <1>3, Rewritten DEF Without
  <2> QED BY <1>3, <2>1 DEF Passes
<1>7. /\ mine' \in Passes /\ mine'.got = mine.got /\ mine'.there = mine.there \ {e}
      /\ mine'.shifted = IF front THEN mine.shifted + 1 ELSE mine.shifted
  <2>1. mine' = [got |-> mine.got, there |-> mine.there \ {e},
                 shifted |-> IF front THEN mine.shifted + 1 ELSE mine.shifted]
    BY <1>2, <1>3, Rewritten DEF Without
  <2> QED BY <1>3, <2>1 DEF Passes
<1>8. /\ IsFiniteSet(late) /\ Cardinality(late) \in Nat
      /\ IsFiniteSet(late') /\ Cardinality(late') \in Nat
      /\ Cardinality(late') <= Cardinality(late) + 1
      /\ cache = NoList => late' = late
  <2>1. IsFiniteSet(late) /\ Cardinality(late) \in Nat
    BY <1>1, FS_CardinalityType DEF SourceTyped
  <2>2. CASE cache = NoList
    BY <1>2, <2>1, <2>2
  <2>3. CASE cache # NoList
    <3>1. /\ IsFiniteSet(late \cup {e})
          /\ Cardinality(late \cup {e}) = IF e \in late THEN Cardinality(late) ELSE Cardinality(late) + 1
      BY <2>1, FS_AddElement
    <3>2. late' = late \cup {e}
      BY <1>2, <2>3
    <3>3. IsFiniteSet(late') /\ Cardinality(late') = IF e \in late THEN Cardinality(late) ELSE Cardinality(late) + 1
      BY <3>1, <3>2
    <3> QED BY <2>1, <2>3, <3>3
  <2> QED BY <2>2, <2>3
<1>9. SourceTyped'
  <2>1. late' \subseteq Entries
    BY <1>1, <1>2, <1>5 DEF SourceTyped
  <2>2. changes' \in 0..MaxChanges
    BY <1>1, <1>2 DEF SourceTyped
  <2> QED BY <1>1, <1>2, <1>4, <1>6, <1>7, <1>8, <2>1, <2>2 DEF SourceTyped, First
<1>10. Tallied'
  <2>1. story.shifted \in Nat /\ mine.shifted \in Nat /\ changes \in Nat
    BY <1>1, <1>3 DEF SourceTyped, Passes
  <2>2. story'.shifted <= changes'
    BY <1>1, <1>2, <1>6, <2>1 DEF Tallied
  <2>3. mine'.shifted + Cardinality(late') <= changes'
    <3>1. mine.shifted + Cardinality(late) <= changes
      BY <1>1 DEF Tallied
    <3>2. CASE cache = NoList
      <4>1. Cardinality(late') = Cardinality(late)
        BY <1>8, <3>2
      <4>2. mine'.shifted <= mine.shifted + 1 /\ mine'.shifted \in Nat
        BY <1>7, <2>1
      <4> QED BY <1>2, <1>8, <2>1, <3>1, <4>1, <4>2
    <3>3. CASE cache # NoList
      <4>1. mine'.shifted = mine.shifted
        BY <1>7, <3>3
      <4> QED BY <1>2, <1>8, <2>1, <3>1, <4>1
    <3> QED BY <3>2, <3>3
  <2>4. story'.there \subseteq ToSet(list') /\ mine'.there \subseteq ToSet(list')
    BY <1>3, <1>4, <1>6, <1>7
  <2> QED BY <2>2, <2>3, <2>4 DEF Tallied
<1>11. CacheSound'
  <2>1. ~Running' => at' = First /\ cache' = NoList
    BY <1>1, <1>2 DEF CacheSound, Running
  <2>2. cache = NoList => late' = {}
    BY <1>1, <1>8 DEF CacheSound
  <2>3. ASSUME cache # NoList
        PROVE  /\ mine'.there \cap late' = {}
               /\ \A f, g : Precedes(cache, f, g) /\ f \notin late' /\ g \notin late' => Precedes(list', f, g)
    <3>1. late' = late \cup {e}
      BY <1>2, <2>3
    <3>2. mine'.there \cap late' = {}
      BY <1>1, <1>7, <2>3, <3>1 DEF CacheSound
    <3>3. \A f, g : Precedes(cache, f, g) /\ f \notin late /\ g \notin late => Precedes(list, f, g)
      BY <1>1, <2>3 DEF CacheSound
    <3> QED BY <1>4, <3>1, <3>2, <3>3
  <2> QED BY <1>1, <1>2, <2>1, <2>2, <2>3 DEF CacheSound, First
<1>12. StoredSound'
  <2>1. CASE connector = "verified"
    <3>1. story'.there \ story'.got \subseteq story.there \ story.got
      BY <1>6
    <3>2. ASSUME stored = First
          PROVE  Cardinality(story'.there \ story'.got) <= 0
      <4>1. Cardinality(story.there \ story.got) <= 0
        BY <1>1, <2>1, <3>2 DEF StoredSound
      <4>2. IsFiniteSet(story.there \ story.got)
        BY <1>3, MissedFinite
      <4>3. 0 \in Nat
        OBVIOUS
      <4> QED BY <3>1, <4>1, <4>2, <4>3, Fewer
    <3> QED BY <1>1, <1>2, <2>1, <3>1, <3>2 DEF StoredSound, First
  <2>2. CASE connector # "verified"
    <3>1. ASSUME stored = First
          PROVE  Cardinality(story'.there \ story'.got) <= story'.shifted
      <4>1. Cardinality(story.there \ story.got) <= story.shifted
        BY <1>1, <2>2, <3>1 DEF StoredSound
      <4>2. IsFiniteSet(story.there \ story.got) /\ story.shifted \in Nat
        BY <1>3, MissedFinite DEF Passes
      <4>3. story'.there \ story'.got \subseteq story.there \ story.got
        BY <1>6
      <4>4. Cardinality(story'.there \ story'.got) <= story.shifted /\ Cardinality(story'.there \ story'.got) \in Nat
        BY <4>1, <4>2, <4>3, Fewer
      <4>5. story.shifted <= story'.shifted /\ story'.shifted \in Nat
        BY <1>6, <4>2
      <4> QED BY <4>2, <4>4, <4>5
    <3>2. ASSUME stored # First
          PROVE  Cardinality(Missed(story', list', stored.offset)) <= story'.shifted
      <4>1. Cardinality(Missed(story, list, stored.offset)) <= story.shifted
        BY <1>1, <2>2, <3>2 DEF StoredSound
      <4>2. Cardinality(Missed(Without(story, list[i], i <= stored.offset), RemoveAt(list, i), stored.offset))
              <= Without(story, list[i], i <= stored.offset).shifted
        BY <1>3, <4>1, WithdrawalCosts
      <4> QED BY <1>2, <4>2 DEF e
    <3>3. ASSUME stored' # First'
          PROVE  Cardinality(Missed(story, list, stored.offset)') <= story'.shifted
      <4>1. Missed(story, list, stored.offset)' = Missed(story', list', stored.offset)
        BY <1>2 DEF Missed
      <4> QED BY <1>2, <3>2, <3>3, <4>1 DEF First
    <3> QED BY <1>2, <2>2, <3>1, <3>3 DEF StoredSound, First
  <2> QED BY <2>1, <2>2
<1>13. RunSound'
  <2>1. Running' = Running
    BY <1>2 DEF Running
  <2>2. CASE connector = "verified"
    <3>1. mine'.there \ mine'.got \subseteq mine.there \ mine.got
      BY <1>7
    <3> QED BY <1>1, <1>2, <2>1, <2>2, <3>1 DEF RunSound
  <2>3. CASE connector # "verified"
    <3>1. ASSUME Running, at.offset > 0
          PROVE  Cardinality(Missed(mine', InHand', at.offset)) <= mine'.shifted
      <4>1. Cardinality(Missed(mine, InHand, at.offset)) <= mine.shifted
        BY <1>1, <2>3, <3>1 DEF RunSound
      <4>2. CASE cache = NoList
        <5>1. InHand = list /\ InHand' = list'
          BY <1>2, <4>2 DEF InHand
        <5>2. Cardinality(Missed(mine, list, at.offset)) <= mine.shifted
          BY <4>1, <5>1
        <5>3. Cardinality(Missed(Without(mine, list[i], i <= at.offset), RemoveAt(list, i), at.offset))
                <= Without(mine, list[i], i <= at.offset).shifted
          BY <1>3, <5>2, WithdrawalCosts
        <5>4. front = (i <= at.offset)
          BY <4>2
        <5>5. mine' = Without(mine, list[i], i <= at.offset)
          BY <1>2, <5>4 DEF e
        <5> QED BY <1>2, <5>1, <5>3, <5>5
      <4>3. CASE cache # NoList
        <5>1. InHand' = InHand
          BY <1>2, <4>3 DEF InHand
        <5>2. Missed(mine', InHand, at.offset) \subseteq Missed(mine, InHand, at.offset)
          BY <1>7 DEF Missed
        <5>3. Missed(mine, InHand, at.offset) \subseteq mine.there
          BY DEF Missed
        <5>4. IsFiniteSet(Missed(mine, InHand, at.offset))
          BY <1>3, <5>3, MissedFinite
        <5>5. mine.shifted \in Nat /\ mine'.shifted = mine.shifted
          BY <1>3, <1>7, <4>3 DEF Passes
        <5>6. Cardinality(Missed(mine', InHand, at.offset)) <= mine.shifted
          BY <4>1, <5>2, <5>4, <5>5, Fewer
        <5> QED BY <5>1, <5>5, <5>6
      <4> QED BY <4>2, <4>3
    <3>2. ASSUME Running', at'.offset > 0
          PROVE  Cardinality(Missed(mine, InHand, at.offset)') <= mine'.shifted
      <4>1. Missed(mine, InHand, at.offset)' = Missed(mine', InHand', at.offset)
        BY <1>2 DEF Missed
      <4> QED BY <1>2, <2>1, <3>1, <3>2, <4>1
    <3> QED BY <1>2, <2>3, <3>2 DEF RunSound
  <2> QED BY <2>2, <2>3
<1> QED
  BY <1>9, <1>10, <1>11, <1>12, <1>13 DEF PagingInv

\* A run starts where the stored pass is, or forgets it.
LEMMA StartKeeps ==
  ASSUME PagingInv, NEW checkpoint \in {stored, First}, StartRun(checkpoint), trips' \in 0..MaxTrips
  PROVE  PagingInv'
<1> USE PagingAssumption
<1>1. SourceTyped /\ Tallied /\ CacheSound /\ StoredSound /\ RunSound
  BY DEF PagingInv
<1>2. /\ ~Running
      /\ at' = checkpoint /\ left' = MaxPages /\ mine' = story
      /\ connector' = connector /\ list' = list /\ stored' = stored /\ cache' = cache
      /\ story' = story /\ late' = late /\ changes' = changes
  BY DEF StartRun
<1>3. cache = NoList /\ late = {} /\ Running'
  BY <1>1, <1>2 DEF CacheSound, Running
<1>4. First.offset = 0 /\ First.mark = NoList
  BY DEF First
<1>5. SourceTyped'
  BY <1>1, <1>2, <1>4 DEF SourceTyped, First
<1>6. Tallied'
  <2>1. Cardinality(late') = 0
    BY <1>2, <1>3, FS_EmptySet
  <2>2. story.shifted \in Nat /\ changes \in Nat
    BY <1>1 DEF SourceTyped, Passes
  <2> QED BY <1>1, <1>2, <2>1, <2>2 DEF Tallied
<1>7. CacheSound'
  BY <1>1, <1>2, <1>3 DEF CacheSound
<1>8. StoredSound'
  <2>1. Missed(story, list, stored.offset)' = Missed(story, list, stored.offset)
    BY <1>2 DEF Missed
  <2> QED BY <1>1, <1>2, <2>1 DEF StoredSound, First
<1>9. RunSound'
  <2> SUFFICES ASSUME at'.offset > 0
               PROVE  IF connector' = "verified"
                        THEN mine'.there \ mine'.got \subseteq Ahead(at'.mark, at'.offset)
                        ELSE Cardinality(Missed(mine, InHand, at.offset)') <= mine'.shifted
    BY DEF RunSound
  <2>1. at' = stored /\ stored # First
    BY <1>2, <1>4
  <2>2. CASE connector = "verified"
    <3>1. story.there \ story.got \subseteq Ahead(stored.mark, stored.offset)
      BY <1>1, <2>1, <2>2 DEF StoredSound
    <3> QED BY <1>2, <2>1, <2>2, <3>1
  <2>3. CASE connector # "verified"
    <3>1. Cardinality(Missed(story, list, stored.offset)) <= story.shifted
      BY <1>1, <2>1, <2>3 DEF StoredSound
    <3>2. InHand' = list
      BY <1>2, <1>3 DEF InHand
    <3>3. Missed(mine, InHand, at.offset)' = Missed(story, list, stored.offset)
      BY <1>2, <2>1, <3>2 DEF Missed
    <3> QED BY <1>2, <2>3, <3>1, <3>3
  <2> QED BY <2>2, <2>3
<1> QED
  BY <1>5, <1>6, <1>7, <1>8, <1>9 DEF PagingInv

LEMMA FailKeeps ==
  ASSUME PagingInv, FailRun
  PROVE  PagingInv'
<1> USE PagingAssumption
<1>1. SourceTyped /\ Tallied /\ CacheSound /\ StoredSound /\ RunSound
  BY DEF PagingInv
<1>2. /\ left' = -1 /\ at' = First /\ cache' = NoList /\ mine' = NoPass /\ late' = {}
      /\ connector' = connector /\ list' = list /\ stored' = stored
      /\ story' = story /\ changes' = changes
  BY DEF FailRun
<1>3. trips' \in 0..MaxTrips
  <2>1. trips \in 0..MaxTrips
    BY <1>1 DEF SourceTyped
  <2>2. CASE Envelopes = {}
    BY <2>1, <2>2 DEF FailRun
  <2>3. CASE Envelopes # {}
    <3>1. trips < MaxTrips /\ trips' = trips + 1
      BY <2>3 DEF FailRun
    <3> QED BY <2>1, <3>1
  <2> QED BY <2>2, <2>3
<1>4. First.offset = 0 /\ First.mark = NoList /\ NoPass.got = {} /\ NoPass.there = {} /\ NoPass.shifted = 0
  BY DEF First, NoPass
<1>5. IsFiniteSet({}) /\ Cardinality({}) = 0
  BY FS_EmptySet
<1>6. NoPass \in Passes
  BY DEF NoPass, Passes
<1>7. SourceTyped'
  BY <1>1, <1>2, <1>3, <1>4, <1>5, <1>6 DEF SourceTyped, First
<1>8. Tallied'
  <2>1. story.shifted \in Nat /\ changes \in Nat
    BY <1>1 DEF SourceTyped, Passes
  <2>2. Cardinality(late') = 0
    BY <1>2, <1>5
  <2> QED BY <1>1, <1>2, <1>4, <2>1, <2>2 DEF Tallied
<1>9. CacheSound'
  BY <1>2 DEF CacheSound, First
<1>10. StoredSound'
  <2>1. Missed(story, list, stored.offset)' = Missed(story, list, stored.offset)
    BY <1>2 DEF Missed
  <2> QED BY <1>1, <1>2, <2>1 DEF StoredSound, First
<1>11. RunSound'
  BY <1>2 DEF RunSound, Running
<1> QED
  BY <1>7, <1>8, <1>9, <1>10, <1>11 DEF PagingInv

\* A page of any connector: it is what is next in the list in hand, and when
\* there is no more nothing is left ahead.
LEMMA PageOfEnvelope ==
  ASSUME PagingInv, NEW e \in Envelopes
  PROVE  /\ e.page \in Seq(Entries) /\ Len(e.page) \in Nat
         /\ Ahead(InHand, at.offset) \subseteq ToSet(e.page) \cup Ahead(InHand, at.offset + Len(e.page))
         /\ ~e.more => Ahead(InHand, at.offset + Len(e.page)) = {}
         /\ e.more => Len(e.page) > 0
         /\ e.more /\ connector = "cached" => at.offset + Len(e.page) <= Len(InHand)
         /\ connector = "verified" => at.offset = 0 \/ at.mark = list
<1> USE PagingAssumption
<1>1. SourceTyped /\ CacheSound
  BY DEF PagingInv
<1>2. InHand \in Seq(Entries) /\ at.offset \in Nat /\ (connector # "cached" => InHand = list)
  BY <1>1 DEF SourceTyped, CacheSound, InHand
<1>3. Len(InHand) \in Nat
  BY <1>2, LenProperties
<1>4. PICK n \in 1 .. PageSize :
        /\ e.page = Slice(InHand, at.offset, n)
        /\ \/ e.more <=> (at.offset + Len(e.page) < Len(InHand) \/ Len(e.page) = PageSize)
           \/ n = PageSize /\ (e.more <=> Len(e.page) = PageSize)
           \/ e.more <=> at.offset + Len(e.page) < Len(InHand)
        /\ connector = "cached" => (e.more <=> at.offset + Len(e.page) < Len(InHand))
  <2>1. connector \in {"window", "socrata", "listing", "cached", "verified"}
    BY <1>1 DEF SourceTyped
  <2>2. PageSize \in 1 .. PageSize
    OBVIOUS
  <2>3. CASE connector = "window"
    <3>1. Envelopes = Window(InHand, at.offset)
      BY <1>2, <2>3 DEF Envelopes
    <3>2. PICK n \in 1 .. PageSize :
            e = [page |-> Slice(InHand, at.offset, n),
                 more |-> at.offset + Len(Slice(InHand, at.offset, n)) < Len(InHand)
                            \/ Len(Slice(InHand, at.offset, n)) = PageSize]
      BY <3>1 DEF Window
    <3>3. e.page = Slice(InHand, at.offset, n)
      BY <3>2
    <3>4. e.more <=> (at.offset + Len(e.page) < Len(InHand) \/ Len(e.page) = PageSize)
      BY <3>2, <3>3
    <3> QED BY <2>3, <3>3, <3>4
  <2>4. CASE connector = "socrata"
    <3>1. Envelopes = Socrata(InHand, at.offset)
      BY <1>2, <2>4 DEF Envelopes
    <3>2. e = [page |-> Slice(InHand, at.offset, PageSize),
               more |-> Len(Slice(InHand, at.offset, PageSize)) = PageSize]
      BY <3>1 DEF Socrata
    <3>3. e.page = Slice(InHand, at.offset, PageSize)
      BY <3>2
    <3>4. e.more <=> Len(e.page) = PageSize
      BY <3>2, <3>3
    <3> QED BY <2>2, <2>4, <3>3, <3>4
  <2>5. ASSUME Envelopes \subseteq Listing(InHand, at.offset)
        PROVE  /\ e.page = Slice(InHand, at.offset, PageSize)
               /\ e.more <=> at.offset + Len(e.page) < Len(InHand)
    <3>1. e = [page |-> Slice(InHand, at.offset, PageSize),
               more |-> at.offset + Len(Slice(InHand, at.offset, PageSize)) < Len(InHand)]
      BY <2>5 DEF Listing
    <3>2. e.page = Slice(InHand, at.offset, PageSize)
      BY <3>1
    <3>3. e.more <=> at.offset + Len(e.page) < Len(InHand)
      BY <3>1, <3>2
    <3> QED BY <3>2, <3>3
  <2>6. CASE connector \in {"listing", "cached", "verified"}
    <3>1. connector = "listing" => Envelopes = Listing(InHand, at.offset)
      BY <1>2 DEF Envelopes
    <3>2. connector = "cached" => Envelopes = Listing(InHand, at.offset)
      BY DEF Envelopes, Cached, InHand
    <3>3. connector = "verified" => Envelopes = Verified(InHand, at.offset)
      BY <1>2 DEF Envelopes
    <3>4. Verified(InHand, at.offset) \subseteq Listing(InHand, at.offset)
      BY DEF Verified
    <3>5. Envelopes \subseteq Listing(InHand, at.offset)
      BY <2>6, <3>1, <3>2, <3>3, <3>4
    <3>6. /\ e.page = Slice(InHand, at.offset, PageSize)
          /\ e.more <=> at.offset + Len(e.page) < Len(InHand)
      BY <2>5, <3>5
    <3> QED BY <2>2, <3>6
  <2> QED BY <2>1, <2>3, <2>4, <2>6
<1> DEFINE p == e.page
<1>5. n \in Nat /\ n > 0 /\ n <= PageSize
  BY <1>4
<1>6. /\ p \in Seq(Entries) /\ Len(p) \in Nat
      /\ Ahead(InHand, at.offset) \subseteq ToSet(p) \cup Ahead(InHand, at.offset + Len(p))
      /\ at.offset + Len(p) >= Len(InHand) => Ahead(InHand, at.offset + Len(p)) = {}
      /\ Len(p) <= n
      /\ Len(p) < n => at.offset + Len(p) >= Len(InHand)
      /\ at.offset < Len(InHand) /\ n > 0 => Len(p) > 0
  <2> DEFINE l == InHand
             o == at.offset
  <2>1. l \in Seq(Entries) /\ o \in Nat /\ n \in Nat /\ p = Slice(l, o, n)
    BY <1>2, <1>4, <1>5
  <2> HIDE DEF l, o, p
  <2>2. /\ p \in Seq(Entries) /\ Len(p) \in Nat /\ ToSet(p) \subseteq ToSet(l)
        /\ Ahead(l, o) \subseteq ToSet(p) \cup Ahead(l, o + Len(p))
        /\ o + Len(p) >= Len(l) => Ahead(l, o + Len(p)) = {}
        /\ Len(p) <= n
        /\ Len(p) < n => o + Len(p) >= Len(l)
        /\ o < Len(l) /\ n > 0 => Len(p) > 0
    BY <2>1, PageIsWhatIsNext
  <2> QED BY <2>2 DEF l, o
<1> HIDE DEF p
<1>7. ~e.more => at.offset + Len(p) >= Len(InHand)
  <2>1. CASE e.more <=> (at.offset + Len(p) < Len(InHand) \/ Len(p) = PageSize)
    BY <1>2, <1>3, <1>6, <2>1
  <2>2. CASE n = PageSize /\ (e.more <=> Len(p) = PageSize)
    <3>1. Len(p) <= PageSize
      BY <1>5, <1>6
    <3> QED BY <1>6, <2>2, <3>1
  <2>3. CASE e.more <=> at.offset + Len(p) < Len(InHand)
    BY <1>2, <1>3, <1>6, <2>3
  <2> QED BY <1>4, <2>1, <2>2, <2>3 DEF p
<1>8. e.more => Len(p) > 0
  <2>1. at.offset + Len(p) < Len(InHand) => at.offset < Len(InHand)
    BY <1>2, <1>3, <1>6
  <2>2. Len(p) = PageSize => Len(p) > 0
    OBVIOUS
  <2> QED BY <1>4, <1>5, <1>6, <2>1, <2>2 DEF p
<1>9. e.more /\ connector = "cached" => at.offset + Len(p) <= Len(InHand)
  BY <1>2, <1>3, <1>4, <1>6 DEF p
<1>10. connector = "verified" => at.offset = 0 \/ at.mark = list
  BY DEF Envelopes, Verified, Matches
<1> QED
  BY <1>6, <1>7, <1>8, <1>9, <1>10 DEF p

\* The pass after a page has read all that is not ahead of the new offset, but
\* for as many entries as were withdrawn from before it.
LEMMA PassGrows ==
  ASSUME PagingInv, Running, NEW e \in Envelopes
  PROVE  /\ PassWith(e.page) \in Passes
         /\ PassWith(e.page).there \subseteq ToSet(list)
         /\ PassWith(e.page).shifted + Cardinality(late) <= changes
         /\ PassWith(e.page).there \cap late = {}
         /\ connector = "verified" =>
              PassWith(e.page).there \ PassWith(e.page).got \subseteq Ahead(list, at.offset + Len(e.page))
         /\ connector # "verified" =>
              Cardinality(Missed(PassWith(e.page), InHand, at.offset + Len(e.page))) <= PassWith(e.page).shifted
<1> DEFINE p == e.page
           n == at.offset + Len(p)
           P == PassWith(p)
<1>1. SourceTyped /\ Tallied /\ CacheSound /\ RunSound
  BY DEF PagingInv
<1>2. /\ p \in Seq(Entries) /\ Len(p) \in Nat
      /\ Ahead(InHand, at.offset) \subseteq ToSet(p) \cup Ahead(InHand, n)
      /\ connector = "verified" => at.offset = 0 \/ at.mark = list
  BY PageOfEnvelope
<1>3. /\ list \in Seq(Entries) /\ IsInjective(list) /\ at.offset \in Nat /\ mine \in Passes
      /\ changes \in Nat
  BY <1>1 DEF SourceTyped
<1>4. ToSet(p) \subseteq Entries /\ ToSet(list) \subseteq Entries
  <2>1. p \in [1 .. Len(p) -> Entries] /\ DOMAIN p = 1 .. Len(p)
    BY <1>2, LenProperties
  <2>2. list \in [1 .. Len(list) -> Entries] /\ DOMAIN list = 1 .. Len(list)
    BY <1>3, LenProperties
  <2> QED BY <2>1, <2>2 DEF ToSet
<1>5. IsFiniteSet(late) /\ Cardinality(late) \in Nat
  BY <1>1, FS_CardinalityType DEF SourceTyped
<1> HIDE DEF p
<1>6. CASE at.offset = 0
  <2>1. P = [got |-> ToSet(p), there |-> ToSet(list), shifted |-> 0]
    BY <1>6 DEF PassWith
  <2>2. P.got = ToSet(p) /\ P.there = ToSet(list) /\ P.shifted = 0
    BY <2>1
  <2>3. P \in Passes
    BY <1>4, <2>1 DEF Passes
  <2>4. cache = NoList /\ InHand = list /\ late = {}
    BY <1>1, <1>6 DEF CacheSound, InHand
  <2>5. Cardinality(late) = 0
    BY <2>4, FS_EmptySet
  <2>6. ToSet(list) = Ahead(list, 0)
    <3>1. DOMAIN list = 1 .. Len(list)
      BY <1>3, LenProperties
    <3> QED BY <3>1 DEF ToSet, Ahead
  <2>7. P.there \ P.got \subseteq Ahead(list, n)
    BY <1>2, <1>6, <2>2, <2>4, <2>6
  <2>8. Missed(P, InHand, n) = {}
    BY <2>4, <2>7 DEF Missed
  <2>9. Cardinality(Missed(P, InHand, n)) = 0
    BY <2>8, FS_EmptySet
  <2> HIDE DEF P
  <2>10. /\ P \in Passes /\ P.there \subseteq ToSet(list) /\ P.shifted + Cardinality(late) <= changes
         /\ P.there \cap late = {}
    BY <1>3, <2>2, <2>3, <2>4, <2>5
  <2> QED BY <2>2, <2>7, <2>9, <2>10 DEF P, p
<1>7. CASE at.offset # 0
  <2>1. P = [got |-> mine.got \cup ToSet(p), there |-> mine.there, shifted |-> mine.shifted]
    <3>1. PICK g \in SUBSET Entries, h \in SUBSET Entries, k \in Nat :
            mine = [got |-> g, there |-> h, shifted |-> k]
      BY <1>3 DEF Passes
    <3>2. P = [mine EXCEPT !.got = mine.got \cup ToSet(p)]
      BY <1>7 DEF PassWith
    <3>3. mine.got = g /\ mine.there = h /\ mine.shifted = k
      BY <3>1
    <3>4. \A x : [[got |-> g, there |-> h, shifted |-> k] EXCEPT !.got = x]
                   = [got |-> x, there |-> h, shifted |-> k]
      OBVIOUS
    <3> QED BY <3>1, <3>2, <3>3, <3>4, Zenon
  <2>2. P.got = mine.got \cup ToSet(p) /\ P.there = mine.there /\ P.shifted = mine.shifted
    BY <2>1
  <2>3. P \in Passes
    BY <1>3, <1>4, <2>1 DEF Passes
  <2> HIDE DEF P
  <2>4. /\ P.there \subseteq ToSet(list) /\ P.shifted + Cardinality(late) <= changes
    BY <1>1, <2>2 DEF Tallied
  <2>5. P.there \cap late = {}
    BY <1>1, <2>2 DEF CacheSound
  <2>6. at.offset > 0
    BY <1>3, <1>7
  <2>7. ASSUME connector = "verified" PROVE P.there \ P.got \subseteq Ahead(list, n)
    <3>1. InHand = list
      BY <1>1, <2>7 DEF CacheSound, InHand
    <3>2. mine.there \ mine.got \subseteq Ahead(list, at.offset)
      BY <1>1, <1>2, <1>7, <2>6, <2>7 DEF RunSound
    <3> QED BY <1>2, <2>2, <3>1, <3>2
  <2>8. ASSUME connector # "verified" PROVE Cardinality(Missed(P, InHand, n)) <= P.shifted
    <3>1. Cardinality(Missed(mine, InHand, at.offset)) <= mine.shifted
      BY <1>1, <2>6, <2>8 DEF RunSound
    <3>2. Missed(P, InHand, n) \subseteq Missed(mine, InHand, at.offset)
      BY <1>2, <2>2 DEF Missed
    <3>3. Missed(mine, InHand, at.offset) \subseteq mine.there /\ mine.there \subseteq ToSet(list)
      BY <1>1 DEF Missed, Tallied
    <3>4. IsFiniteSet(Missed(mine, InHand, at.offset))
      BY <1>3, <3>3, MissedFinite
    <3>5. mine.shifted \in Nat
      BY <1>3 DEF Passes
    <3> QED BY <2>2, <3>1, <3>2, <3>4, <3>5, Fewer
  <2> QED BY <2>3, <2>4, <2>5, <2>7, <2>8 DEF P, p
<1> QED
  BY <1>6, <1>7

\* What the cache of a run that ends leaves to the next run.
FrontOf(offset) == IF cache = NoList THEN {} ELSE late \cap ToSet(Slice(cache, 0, offset))

LEMMA EndKeeps ==
  ASSUME PagingInv, NEW checkpoint, NEW pass \in Passes, NEW offset,
         EndRun(checkpoint, pass, offset), UNCHANGED <<connector, list, changes, trips>>,
         checkpoint.offset \in Nat,
         checkpoint.mark = NoList \/ (connector = "verified" /\ checkpoint.mark \in Seq(Entries)),
         checkpoint = First \/ checkpoint.offset > 0,
         pass.there \subseteq ToSet(list), pass.shifted + Cardinality(late) <= changes,
         checkpoint = First =>
           Cardinality(pass.there \ pass.got) <= IF connector = "verified" THEN 0 ELSE pass.shifted,
         checkpoint # First =>
           IF connector = "verified"
             THEN pass.there \ pass.got \subseteq Ahead(checkpoint.mark, checkpoint.offset)
             ELSE Cardinality(Missed(pass, list, checkpoint.offset))
                    <= pass.shifted + Cardinality(FrontOf(offset))
  PROVE  PagingInv'
<1> USE PagingAssumption
<1> DEFINE lost == Cardinality(FrontOf(offset))
<1>1. SourceTyped /\ Tallied /\ CacheSound
  BY DEF PagingInv
<1>2. /\ stored' = checkpoint
      /\ left' = -1 /\ at' = First /\ cache' = NoList /\ mine' = NoPass /\ late' = {}
      /\ connector' = connector /\ list' = list /\ changes' = changes /\ trips' = trips
  BY DEF EndRun
<1>3. lost \in Nat /\ lost <= Cardinality(late) /\ Cardinality(late) \in Nat
  <2>1. IsFiniteSet(late) /\ Cardinality(late) \in Nat
    BY <1>1, FS_CardinalityType DEF SourceTyped
  <2>2. FrontOf(offset) \subseteq late
    BY DEF FrontOf
  <2>3. Cardinality(late) <= Cardinality(late)
    BY <2>1
  <2> QED BY <2>1, <2>2, <2>3, Fewer
<1>4. story' = [got |-> pass.got, there |-> pass.there, shifted |-> pass.shifted + lost]
  <2>1. story' = [pass EXCEPT !.shifted = pass.shifted + lost]
    BY DEF EndRun, FrontOf
  <2>2. PICK g \in SUBSET Entries, h \in SUBSET Entries, k \in Nat :
          pass = [got |-> g, there |-> h, shifted |-> k]
    BY DEF Passes
  <2>3. pass.got = g /\ pass.there = h /\ pass.shifted = k
    BY <2>2
  <2>4. \A x : [[got |-> g, there |-> h, shifted |-> k] EXCEPT !.shifted = x]
                 = [got |-> g, there |-> h, shifted |-> x]
    OBVIOUS
  <2> HIDE DEF lost
  <2> QED BY <2>1, <2>2, <2>3, <2>4, Zenon
<1> HIDE DEF lost
<1>5. story'.got = pass.got /\ story'.there = pass.there /\ story'.shifted = pass.shifted + lost
  BY <1>4
<1>6. pass.shifted \in Nat /\ pass.got \subseteq Entries /\ pass.there \subseteq Entries
  BY DEF Passes
<1>7. First.offset = 0 /\ First.mark = NoList /\ NoPass.got = {} /\ NoPass.there = {} /\ NoPass.shifted = 0
  BY DEF First, NoPass
<1>8. IsFiniteSet({}) /\ Cardinality({}) = 0
  BY FS_EmptySet
<1>9. NoPass \in Passes
  BY DEF NoPass, Passes
<1>10. story' \in Passes
  BY <1>3, <1>4, <1>6 DEF Passes
<1>11. SourceTyped'
  BY <1>1, <1>2, <1>7, <1>8, <1>9, <1>10 DEF SourceTyped, First
<1>12. Tallied'
  <2>1. changes \in Nat
    BY <1>1 DEF SourceTyped
  <2>2. Cardinality(late') = 0
    BY <1>2, <1>8
  <2>3. story'.shifted <= changes'
    BY <1>2, <1>3, <1>5, <1>6, <2>1
  <2> QED BY <1>2, <1>5, <1>7, <2>1, <2>2, <2>3 DEF Tallied
<1>13. CacheSound'
  BY <1>2 DEF CacheSound, First
<1>14. IsFiniteSet(pass.there \ pass.got) /\ Cardinality(pass.there \ pass.got) \in Nat
  <2>1. list \in Seq(Entries) /\ IsInjective(list)
    BY <1>1 DEF SourceTyped
  <2> QED BY <2>1, MissedFinite
<1>15. StoredSound'
  <2>1. story'.there \ story'.got = pass.there \ pass.got
    BY <1>5
  <2>2. ASSUME checkpoint = First
        PROVE  Cardinality(story'.there \ story'.got) <= IF connector = "verified" THEN 0 ELSE story'.shifted
    <3>1. Cardinality(story'.there \ story'.got) = Cardinality(pass.there \ pass.got)
      BY <2>1
    <3>2. pass.shifted <= story'.shifted /\ story'.shifted \in Nat
      BY <1>3, <1>5, <1>6
    <3> QED BY <1>6, <1>14, <2>2, <3>1, <3>2
  <2>3. Missed(story, list, stored.offset)' = Missed(pass, list, checkpoint.offset)
    BY <1>2, <1>5 DEF Missed
  <2> QED BY <1>2, <1>5, <2>1, <2>2, <2>3 DEF StoredSound, First, lost
<1>16. RunSound'
  BY <1>2 DEF RunSound, Running
<1> QED
  BY <1>11, <1>12, <1>13, <1>15, <1>16 DEF PagingInv

LEMMA FetchKeeps ==
  ASSUME PagingInv, FetchPage
  PROVE  PagingInv'
<1> USE PagingAssumption
<1>1. SourceTyped /\ Tallied /\ CacheSound /\ StoredSound
  BY DEF PagingInv
<1>2. Running /\ connector' = connector /\ list' = list /\ changes' = changes /\ trips' = trips
  BY DEF FetchPage
<1>3. PICK e \in Envelopes :
        LET next == [offset |-> at.offset + Len(e.page),
                     mark |-> IF connector = "verified" THEN list ELSE NoList]
        IN IF ~e.more THEN EndRun(First, PassWith(e.page), 0)
           ELSE IF left = 1 THEN EndRun(next, PassWith(e.page), next.offset)
           ELSE /\ at' = next /\ left' = left - 1 /\ mine' = PassWith(e.page)
                /\ cache' = IF connector = "cached" /\ cache = NoList THEN list ELSE cache
                /\ UNCHANGED <<stored, story, late>>
  BY DEF FetchPage
<1> DEFINE n == at.offset + Len(e.page)
           m == IF connector = "verified" THEN list ELSE NoList
           next == [offset |-> n, mark |-> m]
           P == PassWith(e.page)
<1>4. /\ e.page \in Seq(Entries) /\ Len(e.page) \in Nat
      /\ ~e.more => Ahead(InHand, n) = {}
      /\ e.more => Len(e.page) > 0
      /\ e.more /\ connector = "cached" => n <= Len(InHand)
  BY PageOfEnvelope
<1>5. /\ P \in Passes /\ P.there \subseteq ToSet(list) /\ P.shifted + Cardinality(late) <= changes
      /\ P.there \cap late = {}
      /\ connector = "verified" => P.there \ P.got \subseteq Ahead(list, n)
      /\ connector # "verified" => Cardinality(Missed(P, InHand, n)) <= P.shifted
  BY <1>2, PassGrows
<1>6. list \in Seq(Entries) /\ IsInjective(list) /\ at.offset \in Nat
  BY <1>1 DEF SourceTyped
<1>7. n \in Nat /\ (e.more => n > 0)
  BY <1>4, <1>6
<1>8. next.offset = n /\ next.mark = m /\ (e.more => next # First)
  BY <1>7 DEF First
<1>9. m = NoList \/ (connector = "verified" /\ m \in Seq(Entries))
  BY <1>6
<1>10. connector # "cached" => InHand = list
  BY <1>1 DEF CacheSound, InHand
<1>11. ~e.more => EndRun(First, P, 0)
  BY <1>3
<1>12. e.more /\ left = 1 => EndRun(next, P, n)
  BY <1>3, <1>8
<1>13. e.more /\ left # 1 =>
         /\ at' = next /\ left' = left - 1 /\ mine' = P
         /\ cache' = IF connector = "cached" /\ cache = NoList THEN list ELSE cache
         /\ stored' = stored /\ story' = story /\ late' = late
  BY <1>3
<1>14. P.shifted \in Nat
  BY <1>5 DEF Passes
<1> HIDE DEF n, m, next, P
<1>15. CASE ~e.more
  <2>1. First.offset = 0 /\ First.mark = NoList
    BY DEF First
  <2>2. Cardinality(P.there \ P.got) <= IF connector = "verified" THEN 0 ELSE P.shifted
    <3>1. CASE connector = "verified"
      <4>1. P.there \ P.got = {}
        BY <1>4, <1>5, <1>10, <1>15, <3>1
      <4>2. Cardinality(P.there \ P.got) = 0
        BY <4>1, FS_EmptySet
      <4> QED BY <3>1, <4>2
    <3>2. CASE connector # "verified"
      <4>1. Missed(P, InHand, n) = P.there \ P.got
        BY <1>4, <1>15 DEF Missed
      <4> QED BY <1>5, <3>2, <4>1
    <3> QED BY <3>1, <3>2
  <2>3. UNCHANGED <<connector, list, changes, trips>>
    BY <1>2
  <2>4. EndRun(First, P, 0)
    BY <1>11, <1>15
  <2>5. PICK c : c = First
    OBVIOUS
  <2>6. PICK z : z = 0
    OBVIOUS
  <2>7. EndRun(c, P, z) /\ c.offset \in Nat /\ c.mark = NoList /\ c = First
    BY <2>1, <2>4, <2>5, <2>6
  <2> QED BY <1>5, <2>2, <2>3, <2>7, EndKeeps
<1>16. CASE e.more /\ left = 1
  <2>1. ASSUME connector # "verified"
        PROVE  Cardinality(Missed(P, list, n)) <= P.shifted + Cardinality(FrontOf(n))
    <3>1. Cardinality(Missed(P, InHand, n)) <= P.shifted
      BY <1>5, <2>1
    <3>2. CASE cache = NoList
      <4>1. FrontOf(n) = {} /\ InHand = list
        BY <3>2 DEF FrontOf, InHand
      <4>2. Cardinality(FrontOf(n)) = 0
        BY <4>1, FS_EmptySet
      <4>3. Cardinality(Missed(P, list, n)) <= P.shifted
        BY <3>1, <4>1
      <4> QED BY <1>14, <4>2, <4>3
    <3>3. CASE cache # NoList
      <4>1. /\ connector = "cached" /\ cache \in Seq(Entries) /\ IsInjective(cache) /\ InHand = cache
            /\ \A f, g : Precedes(cache, f, g) /\ f \notin late /\ g \notin late => Precedes(list, f, g)
        BY <1>1, <3>3 DEF CacheSound, InHand
      <4>2. n <= Len(cache)
        BY <1>4, <1>16, <4>1
      <4>3. IsFiniteSet(late)
        BY <1>1 DEF SourceTyped
      <4> DEFINE K == (P.there \cap Ahead(cache, n)) \ Ahead(list, n)
                 M == Missed(P, cache, n)
      <4>4. IsFiniteSet(K) /\ Cardinality(K) <= Cardinality(late \cap Behind(cache, n))
        BY <1>5, <1>6, <1>7, <4>1, <4>2, <4>3, KeptInOrder
      <4>5. FrontOf(n) = late \cap Behind(cache, n)
        <5>1. ToSet(Slice(cache, 0, n)) = Behind(cache, n)
          BY <1>7, <4>1, <4>2, FrontIsBehind
        <5> QED BY <3>3, <5>1 DEF FrontOf
      <4>6. Missed(P, list, n) \subseteq M \cup K
        BY DEF Missed
      <4>7. IsFiniteSet(M)
        <5>1. M \subseteq P.there
          BY DEF Missed
        <5> QED BY <1>5, <1>6, <5>1, MissedFinite
      <4>8. Cardinality(M) <= P.shifted
        BY <3>1, <4>1
      <4> HIDE DEF K, M
      <4>9. Cardinality(M) \in Nat /\ Cardinality(K) \in Nat
        BY <4>4, <4>7, FS_CardinalityType
      <4>10. IsFiniteSet(M \cup K) /\ Cardinality(M \cup K) <= Cardinality(M) + Cardinality(K)
        <5>1. /\ IsFiniteSet(M \cup K)
              /\ Cardinality(M \cup K) = Cardinality(M) + Cardinality(K) - Cardinality(M \cap K)
          BY <4>4, <4>7, FS_Union
        <5>2. M \cap K \in SUBSET M
          OBVIOUS
        <5>3. Cardinality(M \cap K) \in Nat
          BY <4>7, <5>2, FS_Subset, FS_CardinalityType
        <5> QED BY <4>9, <5>1, <5>3
      <4>11. Cardinality(M) + Cardinality(K) \in Nat
        BY <4>9
      <4>12. /\ Cardinality(Missed(P, list, n)) \in Nat
             /\ Cardinality(Missed(P, list, n)) <= Cardinality(M) + Cardinality(K)
        BY <4>6, <4>10, <4>11, Fewer
      <4>13. Cardinality(FrontOf(n)) \in Nat /\ Cardinality(K) <= Cardinality(FrontOf(n))
        <5>1. FrontOf(n) \in SUBSET late
          BY <4>5
        <5>2. Cardinality(FrontOf(n)) \in Nat
          BY <4>3, <5>1, FS_Subset, FS_CardinalityType
        <5> QED BY <4>4, <4>5, <5>2
      <4> QED BY <1>14, <4>8, <4>9, <4>12, <4>13
    <3> QED BY <3>2, <3>3
  <2>2. connector = "verified" => P.there \ P.got \subseteq Ahead(next.mark, next.offset)
    BY <1>5, <1>8 DEF m
  <2>3. UNCHANGED <<connector, list, changes, trips>>
    BY <1>2
  <2>4. EndRun(next, P, n) /\ next # First /\ next.offset = n
    BY <1>8, <1>12, <1>16
  <2>5. /\ next.offset \in Nat /\ next.offset > 0
        /\ next.mark = NoList \/ (connector = "verified" /\ next.mark \in Seq(Entries))
    BY <1>7, <1>8, <1>9, <1>16
  <2> QED BY <1>5, <2>1, <2>2, <2>3, <2>4, <2>5, EndKeeps
<1>17. CASE e.more /\ left # 1
  <2>1. /\ at' = next /\ left' = left - 1 /\ mine' = P
        /\ cache' = IF connector = "cached" /\ cache = NoList THEN list ELSE cache
        /\ stored' = stored /\ story' = story /\ late' = late
    BY <1>13, <1>17
  <2>2. at'.offset = n /\ at'.mark = m /\ n \in Nat /\ n > 0
    BY <1>7, <1>8, <1>17, <2>1
  <2>3. left \in -1..MaxPages /\ left # 0 /\ left >= 0
    BY <1>1, <1>2 DEF SourceTyped, Running
  <2>4. left' \in -1..MaxPages /\ left' # 0 /\ Running'
    BY <1>17, <2>1, <2>3 DEF Running
  <2>5. SourceTyped'
    BY <1>1, <1>2, <1>5, <1>9, <2>1, <2>2, <2>4 DEF SourceTyped, First
  <2>6. Tallied'
    BY <1>1, <1>2, <1>5, <2>1 DEF Tallied
  <2>7. InHand' = InHand
    BY <1>2, <2>1, PagingAssumption, <1>6 DEF InHand
  <2>8. CacheSound'
    <3>1. cache = NoList => late = {}
      BY <1>1 DEF CacheSound
    <3>2. CASE cache' = NoList
      <4>1. cache = NoList
        BY <1>6, <2>1, <3>2
      <4> QED BY <2>1, <2>4, <3>1, <3>2, <4>1 DEF CacheSound
    <3>3. CASE cache' # NoList
      <4>1. cache' = InHand
        BY <2>1, <3>3 DEF InHand
      <4>2. connector = "cached"
        BY <1>1, <2>1, <3>3 DEF CacheSound
      <4>3. n <= Len(InHand)
        BY <1>4, <1>17, <4>2
      <4>4. InHand \in Seq(Entries) /\ IsInjective(InHand)
        BY <1>1, <1>6 DEF CacheSound, InHand
      <4>5. \A f, g : Precedes(InHand, f, g) /\ f \notin late /\ g \notin late => Precedes(list, f, g)
        BY <1>1 DEF CacheSound, InHand
      <4>6. mine'.there \cap late' = {}
        BY <1>5, <2>1
      <4> QED BY <1>2, <2>1, <2>2, <2>4, <3>3, <4>1, <4>2, <4>3, <4>4, <4>5, <4>6 DEF CacheSound
    <3> QED BY <3>2, <3>3
  <2>9. StoredSound'
    <3>1. Missed(story, list, stored.offset)' = Missed(story, list, stored.offset)
      BY <1>2, <2>1 DEF Missed
    <3> QED BY <1>1, <1>2, <2>1, <3>1 DEF StoredSound, First
  <2>10. RunSound'
    <3>1. Missed(mine, InHand, at.offset)' = Missed(P, InHand, n)
      BY <2>1, <2>2, <2>7 DEF Missed
    <3>2. CASE connector = "verified"
      BY <1>2, <1>5, <2>1, <2>2, <3>2 DEF RunSound, m
    <3>3. CASE connector # "verified"
      BY <1>2, <1>5, <2>1, <3>1, <3>3 DEF RunSound
    <3> QED BY <3>2, <3>3
  <2> QED BY <2>5, <2>6, <2>8, <2>9, <2>10 DEF PagingInv
<1> QED
  BY <1>15, <1>16, <1>17

LEMMA PagingSteps ==
  PagingInv /\ [PagingNext]_pagingVars => PagingInv'
<1> SUFFICES ASSUME PagingInv, [PagingNext]_pagingVars PROVE PagingInv'
  OBVIOUS
<1>1. ASSUME NEW e \in Entries, NEW i \in 1 .. Len(list) + 1, Insert(e, i) PROVE PagingInv'
  BY <1>1, InsertKeeps
<1>2. ASSUME NEW i \in DOMAIN list, Withdraw(i) PROVE PagingInv'
  BY <1>2, WithdrawKeeps
<1>3. trips \in 0..MaxTrips
  BY DEF PagingInv, SourceTyped
<1>4. CASE Resume
  <2>1. StartRun(stored) /\ trips' = trips
    BY <1>4 DEF Resume
  <2> QED BY <1>3, <2>1, StartKeeps
<1>5. CASE StartOver
  <2>1. StartRun(First) /\ trips < MaxTrips /\ trips' = trips + 1
    BY <1>5 DEF StartOver
  <2>2. trips' \in 0..MaxTrips
    BY <1>3, <2>1, PagingAssumption
  <2> QED BY <2>1, <2>2, StartKeeps
<1>6. CASE FetchPage
  BY <1>6, FetchKeeps
<1>7. CASE FailRun
  BY <1>7, FailKeeps
<1>8. CASE UNCHANGED pagingVars
  <2>1. /\ connector' = connector /\ list' = list /\ stored' = stored /\ at' = at /\ cache' = cache
        /\ left' = left /\ story' = story /\ mine' = mine /\ late' = late
        /\ changes' = changes /\ trips' = trips
    BY <1>8 DEF pagingVars
  <2>2. SourceTyped' /\ Tallied'
    BY <2>1 DEF PagingInv, SourceTyped, Tallied
  <2>3. CacheSound' /\ StoredSound'
    BY <2>1 DEF PagingInv, CacheSound, StoredSound, Running, Missed, Ahead, First, Precedes
  <2>4. RunSound'
    BY <2>1 DEF PagingInv, RunSound, Running, InHand, Missed, Ahead, Precedes
  <2> QED BY <2>2, <2>3, <2>4 DEF PagingInv
<1> QED
  BY <1>1, <1>2, <1>4, <1>5, <1>6, <1>7, <1>8 DEF PagingNext

LEMMA PagingHolds ==
  PagingSpec => []PagingInv
BY PagingStarts, PagingSteps, PTL DEF PagingSpec

(***************************************************************************)
(* The theorems                                                            *)
(***************************************************************************)
\* Lists, checkpoints, caches and histories have the shapes the code gives them:
\* the type invariant of OffsetPaging.
THEOREM PagesTyped == PagingSpec => []PagingTypeOK
<1>1. PagingInv => PagingTypeOK
  <2> SUFFICES ASSUME PagingInv PROVE PagingTypeOK
    OBVIOUS
  <2>1. SourceTyped /\ Tallied /\ CacheSound
    BY DEF PagingInv
  <2>2. Cardinality(late) \in Nat
    BY <2>1, FS_CardinalityType DEF SourceTyped
  <2>3. story.shifted \in 0..MaxChanges /\ mine.shifted \in 0..MaxChanges
    BY <2>1, <2>2, PagingAssumption DEF SourceTyped, Tallied, Passes
  <2>4. {story, mine} \subseteq [got: SUBSET Entries, there: SUBSET Entries, shifted: 0..MaxChanges]
    BY <2>1, <2>3 DEF SourceTyped, Passes
  <2>5. cache = NoList \/ cache \in Seq(Entries)
    BY <2>1 DEF CacheSound
  <2> QED BY <2>1, <2>4, <2>5 DEF PagingTypeOK, SourceTyped, CacheSound
<1> QED
  BY <1>1, PagingHolds, PTL

\* A pass that is over has passed over no more entries than were withdrawn from
\* before its offset, and a verified CSV none: for lists and pages of any size,
\* any number of runs, failures and changes, and each of the five ways of paging.
THEOREM NothingElsePassedOver == PagingSpec => []PassedOverOnlyByWithdrawals
<1>1. PagingInv => PassedOverOnlyByWithdrawals
  BY DEF PagingInv, StoredSound, PassedOverOnlyByWithdrawals
<1> QED
  BY <1>1, PagingHolds, PTL

(***************************************************************************)
(* Timeline: Ranks                                                         *)
(***************************************************************************)

\* Indices that are not empty have a last one.
LEMMA HasNewest ==
  ASSUME NEW n \in Nat, NEW S \in SUBSET (1 .. n), S # {}
  PROVE  \E x \in S : Newest(S, x)
<1> DEFINE R == OpToRel(<, Nat)
           T == {k \in Nat : n - k \in S}
<1>1. IsWellFoundedOn(R, Nat)
  BY NatLessThanWellFounded
<1>2. \A x, y \in Nat : x < y => <<x, y>> \in R
  BY DEF OpToRel
<1>3. T \in SUBSET Nat /\ T # {}
  <2>1. PICK x \in S : TRUE
    OBVIOUS
  <2>2. n - x \in Nat /\ n - (n - x) = x
    BY <2>1
  <2>3. n - x \in T
    BY <2>1, <2>2
  <2> QED BY <2>3
<1> HIDE DEF R
<1>4. PICK k \in T : \A y \in T : <<y, k>> \notin R
  <2> HIDE DEF T
  <2> QED BY <1>1, <1>3, WFMin
<1>5. n - k \in S /\ k \in Nat
  BY <1>4
<1>6. \A y \in S : y <= n - k
  <2> SUFFICES ASSUME NEW y \in S, y > n - k PROVE FALSE
    BY <1>5
  <2>1. n - y \in Nat /\ n - (n - y) = y /\ n - y < k
    BY <1>5
  <2>2. n - y \in T
    BY <2>1
  <2> QED BY <1>2, <1>4, <1>5, <2>1, <2>2
<1> QED BY <1>5, <1>6 DEF Newest

LEMMA Ranked ==
  ASSUME NEW S \in SUBSET Nat, IsFiniteSet(S), NEW x
  PROVE  /\ Cardinality(S) \in Nat
         /\ Rank(S, x) \in Nat /\ Rank(S, x) <= Cardinality(S)
         /\ Newest(S, x) => Rank(S, x) = Cardinality(S)
<1>1. {j \in S : j <= x} \in SUBSET S
  OBVIOUS
<1>2. /\ IsFiniteSet({j \in S : j <= x})
      /\ Cardinality({j \in S : j <= x}) <= Cardinality(S)
  BY <1>1, FS_Subset
<1>3. Cardinality(S) \in Nat /\ Cardinality({j \in S : j <= x}) \in Nat
  BY <1>2, FS_CardinalityType
<1>4. Newest(S, x) => {j \in S : j <= x} = S
  BY DEF Newest
<1> QED
  BY <1>2, <1>3, <1>4 DEF Rank

\* What comes after all others has the next rank, and they keep theirs.
LEMMA NextRank ==
  ASSUME NEW S \in SUBSET Nat, IsFiniteSet(S), NEW x \in Nat, \A j \in S : j < x
  PROVE  /\ IsFiniteSet(S \cup {x}) /\ Cardinality(S \cup {x}) = Cardinality(S) + 1
         /\ Rank(S \cup {x}, x) = Cardinality(S) + 1
         /\ \A j \in S : Rank(S \cup {x}, j) = Rank(S, j)
<1>1. x \notin S
  OBVIOUS
<1>2. IsFiniteSet(S \cup {x}) /\ Cardinality(S \cup {x}) = Cardinality(S) + 1
  BY <1>1, FS_AddElement
<1>3. {j \in S \cup {x} : j <= x} = S \cup {x}
  <2>1. \A j \in S \cup {x} : j <= x
    OBVIOUS
  <2> QED BY <2>1
<1>4. ASSUME NEW j \in S PROVE {k \in S \cup {x} : k <= j} = {k \in S : k <= j}
  OBVIOUS
<1> QED
  BY <1>2, <1>3, <1>4 DEF Rank

\* The n-th of these observations says the n-th of these contents.
Says(obs, S, s, T) ==
  /\ Cardinality(S) = Cardinality(T)
  /\ \A i \in S, k \in T : Rank(S, i) = Rank(T, k) => <<obs[i].raw, obs[i].entity>> = s[k]

LEMMA SaysOn ==
  ASSUME NEW obs, NEW S, NEW s, NEW T, Says(obs, S, s, T), NEW obs2, NEW s2,
         \A i \in S : obs2[i] = obs[i], \A k \in T : s2[k] = s[k]
  PROVE  Says(obs2, S, s2, T)
  BY DEF Says

LEMMA SaysLast ==
  ASSUME NEW obs, NEW S \in SUBSET Nat, IsFiniteSet(S), NEW s, NEW T \in SUBSET Nat, IsFiniteSet(T),
         Says(obs, S, s, T), NEW i, Newest(S, i), NEW k, Newest(T, k)
  PROVE  <<obs[i].raw, obs[i].entity>> = s[k]
<1>1. Rank(S, i) = Cardinality(S) /\ Rank(T, k) = Cardinality(T)
  BY Ranked
<1>2. i \in S /\ k \in T
  BY DEF Newest
<1> QED
  BY <1>1, <1>2 DEF Says

LEMMA SaysMore ==
  ASSUME NEW obs, NEW S \in SUBSET Nat, IsFiniteSet(S), NEW s, NEW T \in SUBSET Nat, IsFiniteSet(T),
         Says(obs, S, s, T), NEW x \in Nat, \A j \in S : j < x, NEW y \in Nat, \A j \in T : j < y,
         NEW obs2, \A i \in S : obs2[i] = obs[i], NEW s2, \A k \in T : s2[k] = s[k],
         <<obs2[x].raw, obs2[x].entity>> = s2[y]
  PROVE  Says(obs2, S \cup {x}, s2, T \cup {y})
<1>1. /\ Cardinality(S \cup {x}) = Cardinality(S) + 1
      /\ Rank(S \cup {x}, x) = Cardinality(S) + 1
      /\ \A j \in S : Rank(S \cup {x}, j) = Rank(S, j)
  BY NextRank
<1>2. /\ Cardinality(T \cup {y}) = Cardinality(T) + 1
      /\ Rank(T \cup {y}, y) = Cardinality(T) + 1
      /\ \A j \in T : Rank(T \cup {y}, j) = Rank(T, j)
  BY NextRank
<1>3. /\ Cardinality(S) \in Nat
      /\ \A j \in S : Rank(S, j) \in Nat /\ Rank(S, j) <= Cardinality(S)
  BY Ranked
<1>4. /\ Cardinality(T) \in Nat
      /\ \A j \in T : Rank(T, j) \in Nat /\ Rank(T, j) <= Cardinality(T)
  BY Ranked
<1>5. Cardinality(S) = Cardinality(T)
  BY DEF Says
<1>6. ASSUME NEW i \in S \cup {x}, NEW k \in T \cup {y}, Rank(S \cup {x}, i) = Rank(T \cup {y}, k)
      PROVE  <<obs2[i].raw, obs2[i].entity>> = s2[k]
  <2>1. CASE i \in S /\ k \in T
    BY <1>1, <1>2, <1>6, <2>1 DEF Says
  <2>2. CASE i = x /\ k = y
    BY <2>2
  <2>3. CASE i = x /\ k \in T
    BY <1>1, <1>2, <1>4, <1>5, <1>6, <2>3
  <2>4. CASE i \in S /\ k = y
    BY <1>1, <1>2, <1>3, <1>5, <1>6, <2>4
  <2> QED BY <2>1, <2>2, <2>3, <2>4
<1> QED
  BY <1>1, <1>2, <1>5, <1>6 DEF Says

(***************************************************************************)
(* Timeline: One field of one poll                                         *)
(***************************************************************************)

Observations == [field: Field, method: Methods, raw: Contents, entity: 0 .. MaxMerges]

LEMMA SeriesLatest ==
  ASSUME NEW obs \in Seq(Observations), NEW f, NEW m, NEW c
  PROVE  /\ Series(obs, f, m) \in SUBSET (1 .. Len(obs)) /\ IsFiniteSet(Series(obs, f, m))
         /\ Series(obs, f, m) = {} => Latest(obs, f, m, c) = 0
         /\ Series(obs, f, m) # {} => Newest(Series(obs, f, m), Latest(obs, f, m, c))
<1> DEFINE S == Series(obs, f, m)
<1>1. Len(obs) \in Nat /\ DOMAIN obs = 1 .. Len(obs)
  BY LenProperties
<1>2. S \in SUBSET (1 .. Len(obs))
  BY <1>1 DEF Series
<1>3. IsFiniteSet(S)
  <2>1. IsFiniteSet(1 .. Len(obs))
    BY <1>1, FS_Interval
  <2> QED BY <1>2, <2>1, FS_Subset
<1>4. S = {} => Latest(obs, f, m, c) = 0
  BY DEF Latest
<1>5. S # {} => Newest(S, Latest(obs, f, m, c))
  <2> HAVE S # {}
  <2>1. \E x \in S : Newest(S, x)
    <3> HIDE DEF S
    <3> QED BY <1>1, <1>2, HasNewest
  <2>2. Latest(obs, f, m, c) = CHOOSE i \in S : \A j \in S : j <= i
    BY DEF Latest
  <2> HIDE DEF S
  <2> QED BY <2>1, <2>2 DEF Newest
<1> QED
  BY <1>2, <1>3, <1>4, <1>5

\* A poll appends an observation of the field.
Speaks(obs, f, m, c) ==
  \/ Series(obs, f, m) = {} /\ Value(c, f) # NoValue
  \/ Series(obs, f, m) # {} /\ obs[Latest(obs, f, m, c)] # Observation(f, m, c)

\* Observe keeps the observations there are and the other series, and adds at
\* most one.
LEMMA ObserveAdds ==
  ASSUME NEW obs \in Seq(Observations), NEW f \in Field, NEW m \in Methods, NEW c \in Contents,
         entity \in 0 .. MaxMerges
  PROVE  /\ Observe(obs, f, m, c) \in Seq(Observations)
         /\ \A i \in 1 .. Len(obs) : i \in 1 .. Len(Observe(obs, f, m, c))
                                    /\ Observe(obs, f, m, c)[i] = obs[i]
         /\ \A g \in Field, n \in Methods : g # f \/ n # m =>
              Series(Observe(obs, f, m, c), g, n) = Series(obs, g, n)
         /\ ~Speaks(obs, f, m, c) => Observe(obs, f, m, c) = obs
         /\ Speaks(obs, f, m, c) =>
              /\ Series(Observe(obs, f, m, c), f, m) = Series(obs, f, m) \cup {Len(obs) + 1}
              /\ Observe(obs, f, m, c)[Len(obs) + 1] = Observation(f, m, c)
<1> DEFINE obs2 == Observe(obs, f, m, c)
           S == Series(obs, f, m)
           new == Speaks(obs, f, m, c)
           o == Observation(f, m, c)
           latest == Latest(obs, f, m, c)
<1>1. Len(obs) \in Nat /\ DOMAIN obs = 1 .. Len(obs)
  BY LenProperties
<1>2. /\ S \in SUBSET (1 .. Len(obs))
      /\ S = {} => latest = 0
      /\ S # {} => latest # 0
  <2>1. /\ S \in SUBSET (1 .. Len(obs))
        /\ S = {} => latest = 0
        /\ S # {} => Newest(S, latest)
    BY SeriesLatest
  <2> HIDE DEF S, latest
  <2> QED BY <2>1, <1>1 DEF Newest
<1>3. obs2 = CASE latest = 0 /\ Value(c, f) = NoValue -> obs
               [] latest # 0 /\ obs[latest] = o -> obs
               [] OTHER -> Append(obs, o)
  BY DEF Observe
<1>4. new <=> ~(latest = 0 /\ Value(c, f) = NoValue) /\ ~(latest # 0 /\ obs[latest] = o)
  <2>1. new <=> (S = {} /\ Value(c, f) # NoValue) \/ (S # {} /\ obs[latest] # o)
    BY DEF Speaks
  <2> HIDE DEF S, latest, o, new
  <2> QED BY <1>2, <2>1
<1>5. ~new => obs2 = obs
  <2> HIDE DEF obs2, new, latest, o
  <2> QED BY <1>3, <1>4
<1>6. new => obs2 = Append(obs, o)
  <2> HIDE DEF obs2, new, latest, o
  <2> QED BY <1>3, <1>4
<1>7. o \in Observations /\ o.field = f /\ o.method = m
  BY DEF Observation, Observations
<1>8. CASE ~new
  <2>1. obs2 = obs
    BY <1>5, <1>8
  <2>2. /\ obs2 \in Seq(Observations)
        /\ \A i \in 1 .. Len(obs) : i \in 1 .. Len(obs2) /\ obs2[i] = obs[i]
        /\ \A g \in Field, n \in Methods : Series(obs2, g, n) = Series(obs, g, n)
    <3> HIDE DEF obs2
    <3> QED BY <2>1
  <2> QED BY <1>8, <2>1, <2>2, Zenon
<1>9. CASE new
  <2>1. obs2 = Append(obs, o)
    BY <1>6, <1>9
  <2>2. /\ obs2 \in Seq(Observations) /\ Len(obs2) = Len(obs) + 1
        /\ \A i \in 1 .. Len(obs) : obs2[i] = obs[i]
        /\ obs2[Len(obs) + 1] = o
    <3> HIDE DEF o
    <3> QED BY <2>1, <1>7, AppendProperties
  <2> HIDE DEF obs2, o
  <2>3. DOMAIN obs2 = 1 .. Len(obs) + 1
    BY <2>2, LenProperties
  <2>4. \A g \in Field, n \in Methods : g # f \/ n # m => Series(obs2, g, n) = Series(obs, g, n)
    BY <1>1, <1>7, <2>2, <2>3 DEF Series
  <2>5. Series(obs2, f, m) = S \cup {Len(obs) + 1}
    BY <1>1, <1>7, <2>2, <2>3 DEF Series
  <2>6. \A i \in 1 .. Len(obs) : i \in 1 .. Len(obs2)
    BY <1>1, <2>2
  <2> QED BY <1>9, <2>2, <2>4, <2>5, <2>6, Zenon DEF o, obs2
<1> QED BY <1>8, <1>9

LEMMA ObserveKeeps ==
  ASSUME NEW obs \in Seq(Observations), NEW f \in Field, NEW m \in Methods, NEW c \in Contents,
         entity \in 0 .. MaxMerges, NEW obs2, obs2 = Observe(obs, f, m, c)
  PROVE  /\ \A k \in 1 .. Len(obs) : obs2[k] = obs[k]
         /\ \A g \in Field, n \in Methods :
              g # f \/ n # m => Series(obs2, g, n) = Series(obs, g, n)
  BY ObserveAdds

\* From the first value on.
LEMMA SinceFirst ==
  ASSUME NEW s \in Seq(Contents \X Nat), NEW f
  PROVE  /\ Since(s, f) \in SUBSET (1 .. Len(s)) /\ IsFiniteSet(Since(s, f))
         /\ Since(s, f) = {} => \A j \in 1 .. Len(s) : Value(s[j][1], f) = NoValue
         /\ Since(s, f) # {} => Newest(Since(s, f), Len(s))
<1>1. Len(s) \in Nat /\ DOMAIN s = 1 .. Len(s)
  BY LenProperties
<1>2. Since(s, f) \in SUBSET (1 .. Len(s))
  BY <1>1 DEF Since
<1>3. IsFiniteSet(Since(s, f))
  <2>1. IsFiniteSet(1 .. Len(s))
    BY <1>1, FS_Interval
  <2> QED BY <1>2, <2>1, FS_Subset
<1>4. ASSUME Since(s, f) = {}, NEW j \in 1 .. Len(s) PROVE Value(s[j][1], f) = NoValue
  <2>1. j \in 1 .. j
    BY <1>1
  <2>2. ~\E i \in 1 .. j : Value(s[i][1], f) # NoValue
    BY <1>1, <1>4 DEF Since
  <2> QED BY <2>1, <2>2
<1>5. ASSUME Since(s, f) # {} PROVE Newest(Since(s, f), Len(s))
  <2>1. PICK k \in 1 .. Len(s) : \E j \in 1 .. k : Value(s[j][1], f) # NoValue
    BY <1>1, <1>5 DEF Since
  <2>2. PICK j \in 1 .. k : Value(s[j][1], f) # NoValue
    BY <2>1
  <2>3. j \in 1 .. Len(s) /\ Len(s) \in 1 .. Len(s)
    BY <1>1, <2>1, <2>2
  <2>4. Len(s) \in Since(s, f)
    BY <1>1, <2>2, <2>3 DEF Since
  <2>5. \A i \in Since(s, f) : i <= Len(s)
    BY <1>1, <1>2
  <2> QED BY <2>4, <2>5 DEF Newest
<1> QED
  BY <1>2, <1>3, <1>4, <1>5

LEMMA SinceMore ==
  ASSUME NEW s \in Seq(Contents \X Nat), NEW e \in Contents \X Nat, NEW f
  PROVE  /\ Append(s, e) \in Seq(Contents \X Nat)
         /\ \A k \in 1 .. Len(s) : Append(s, e)[k] = s[k]
         /\ Append(s, e)[Len(s) + 1] = e
         /\ Since(s, f) = {} /\ Value(e[1], f) = NoValue => Since(Append(s, e), f) = {}
         /\ Since(s, f) # {} \/ Value(e[1], f) # NoValue =>
              Since(Append(s, e), f) = Since(s, f) \cup {Len(s) + 1}
<1> DEFINE t == Append(s, e)
<1>1. Len(s) \in Nat /\ DOMAIN s = 1 .. Len(s)
  BY LenProperties
<1>2. /\ t \in Seq(Contents \X Nat) /\ Len(t) = Len(s) + 1
      /\ \A k \in 1 .. Len(s) : t[k] = s[k]
      /\ t[Len(s) + 1] = e
  <2> DEFINE E == Contents \X Nat
  <2>1. s \in Seq(E) /\ e \in E
    OBVIOUS
  <2> HIDE DEF E
  <2>2. /\ Append(s, e) \in Seq(E) /\ Len(Append(s, e)) = Len(s) + 1
        /\ \A k \in 1 .. Len(s) : Append(s, e)[k] = s[k]
        /\ Append(s, e)[Len(s) + 1] = e
    BY <2>1, AppendProperties, SMTT(60)
  <2> QED BY <2>2, Zenon DEF E
<1> HIDE DEF t
<1>3. DOMAIN t = 1 .. Len(s) + 1
  BY <1>2, LenProperties
<1>4. ASSUME NEW k \in 1 .. Len(s) PROVE k \in Since(t, f) <=> k \in Since(s, f)
  <2>1. \A j \in 1 .. k : j \in 1 .. Len(s)
    BY <1>1
  <2>2. \A j \in 1 .. k : t[j] = s[j]
    BY <1>2, <2>1
  <2> QED BY <1>1, <1>3, <2>2 DEF Since
<1>5. Len(s) + 1 \in Since(t, f) <=> (Since(s, f) # {} \/ Value(e[1], f) # NoValue)
  <2>1. Len(s) + 1 \in Since(t, f) <=> \E j \in 1 .. Len(s) + 1 : Value(t[j][1], f) # NoValue
    BY <1>1, <1>3 DEF Since
  <2>2. (\E j \in 1 .. Len(s) + 1 : Value(t[j][1], f) # NoValue) <=>
          ((\E j \in 1 .. Len(s) : Value(s[j][1], f) # NoValue) \/ Value(e[1], f) # NoValue)
    <3>1. \A j : j \in 1 .. Len(s) + 1 <=> j \in 1 .. Len(s) \/ j = Len(s) + 1
      BY <1>1
    <3>2. \A j \in 1 .. Len(s) : Value(t[j][1], f) = Value(s[j][1], f)
      BY <1>2
    <3>3. Value(t[Len(s) + 1][1], f) = Value(e[1], f)
      BY <1>2
    <3> QED BY <3>1, <3>2, <3>3, Zenon
  <2>3. (\E j \in 1 .. Len(s) : Value(s[j][1], f) # NoValue) <=> Since(s, f) # {}
    <3>1. ASSUME NEW j \in 1 .. Len(s), Value(s[j][1], f) # NoValue PROVE Since(s, f) # {}
      BY <3>1, SinceFirst
    <3>2. ASSUME NEW k \in Since(s, f) PROVE \E j \in 1 .. Len(s) : Value(s[j][1], f) # NoValue
      <4>1. PICK j \in 1 .. k : Value(s[j][1], f) # NoValue
        BY DEF Since
      <4>2. k \in 1 .. Len(s)
        BY <1>1 DEF Since
      <4>3. j \in 1 .. Len(s)
        BY <1>1, <4>1, <4>2
      <4> QED BY <4>1, <4>3
    <3> QED BY <3>1, <3>2
  <2> QED BY <2>1, <2>2, <2>3
<1>6. Since(t, f) \subseteq 1 .. Len(s) + 1 /\ Since(s, f) \subseteq 1 .. Len(s)
  BY <1>1, <1>3 DEF Since
<1>7. Since(t, f) \ {Len(s) + 1} = Since(s, f)
  BY <1>1, <1>4, <1>6
<1> QED
  BY <1>2, <1>5, <1>7 DEF t

\* The history of one field under the mapping that is polled.
LEMMA FieldHistory ==
  ASSUME NEW obs \in Seq(Observations), NEW f \in Field, NEW m \in Methods, NEW c \in Contents,
         entity \in 0 .. MaxMerges, NEW s \in Seq(Contents \X Nat), NEW s2,
         s2 = IF s # <<>> /\ Last(s) = <<c, entity>> THEN s ELSE Append(s, <<c, entity>>),
         Says(obs, Series(obs, f, m), s, Since(s, f))
  PROVE  Says(Observe(obs, f, m, c), Series(Observe(obs, f, m, c), f, m), s2, Since(s2, f))
<1> DEFINE S == Series(obs, f, m)
           T == Since(s, f)
           obs2 == Observe(obs, f, m, c)
           latest == Latest(obs, f, m, c)
           e == <<c, entity>>
<1>1. /\ S \in SUBSET (1 .. Len(obs)) /\ IsFiniteSet(S)
      /\ S # {} => Newest(S, latest)
  BY SeriesLatest
<1>2. /\ T \in SUBSET (1 .. Len(s)) /\ IsFiniteSet(T)
      /\ T = {} => \A j \in 1 .. Len(s) : Value(s[j][1], f) = NoValue
      /\ T # {} => Newest(T, Len(s))
  BY SinceFirst
<1>3. /\ Len(obs) \in Nat /\ DOMAIN obs = 1 .. Len(obs)
      /\ Len(s) \in Nat /\ DOMAIN s = 1 .. Len(s)
      /\ s # <<>> => Len(s) > 0 /\ Last(s) = s[Len(s)]
  BY LenProperties, EmptySeq DEF Last
<1>4. S = {} <=> T = {}
  <2>1. Cardinality(S) = Cardinality(T)
    BY DEF Says
  <2> HIDE DEF S, T
  <2> QED BY <1>1, <1>2, <2>1, FS_EmptySet
<1>5. S # {} => <<obs[latest].raw, obs[latest].entity>> = s[Len(s)]
  <2> HAVE S # {}
  <2>1. Newest(S, latest) /\ Newest(T, Len(s))
    BY <1>1, <1>2, <1>4
  <2>2. S \in SUBSET Nat /\ T \in SUBSET Nat /\ Says(obs, S, s, T)
    BY <1>1, <1>2, <1>3
  <2> DEFINE k == Len(s)
  <2>3. Newest(T, k)
    BY <2>1
  <2> HIDE DEF S, T, latest, k
  <2>4. S \in SUBSET Nat
    BY <2>2
  <2>5. T \in SUBSET Nat
    BY <2>2
  <2>6. IsFiniteSet(S)
    BY <1>1
  <2>7. IsFiniteSet(T)
    BY <1>2
  <2>8. Says(obs, S, s, T)
    BY <2>2
  <2>9. Newest(S, latest)
    BY <2>1
  <2>10. <<obs[latest].raw, obs[latest].entity>> = s[k]
    BY <2>4, <2>5, <2>6, <2>7, <2>8, <2>9, <2>3, SaysLast, SMTT(60)
  <2> QED BY <2>10 DEF k
<1>6. S # {} => (obs[latest] = Observation(f, m, c) <=> s[Len(s)] = e)
  <2> HAVE S # {}
  <2>1. latest \in S
    BY <1>1 DEF Newest
  <2>2. obs[latest] \in Observations /\ obs[latest].field = f /\ obs[latest].method = m
    BY <1>3, <2>1 DEF Series
  <2>3. obs[latest] = [field |-> obs[latest].field, method |-> obs[latest].method,
                       raw |-> obs[latest].raw, entity |-> obs[latest].entity]
    <3> HIDE DEF latest
    <3> QED BY <2>2 DEF Observations
  <2> HIDE DEF latest
  <2> QED BY <1>5, <2>2, <2>3 DEF Observation
<1>7. /\ \A i \in 1 .. Len(obs) : obs2[i] = obs[i]
      /\ ~Speaks(obs, f, m, c) => obs2 = obs
      /\ Speaks(obs, f, m, c) => /\ Series(obs2, f, m) = S \cup {Len(obs) + 1}
                                 /\ obs2[Len(obs) + 1] = Observation(f, m, c)
  BY ObserveAdds
<1>8. Speaks(obs, f, m, c) <=> (S = {} /\ Value(c, f) # NoValue) \/ (S # {} /\ s[Len(s)] # e)
  BY <1>6 DEF Speaks
<1>9. S # {} => s # <<>>
  <2>1. s = <<>> => Len(s) = 0
    BY <1>3, EmptySeq
  <2> HIDE DEF S, T
  <2> QED BY <1>2, <1>4, <2>1, <1>3
<1>10. CASE s # <<>> /\ Last(s) = e
  <2>1. s2 = s /\ s[Len(s)] = e /\ Len(s) \in 1 .. Len(s)
    BY <1>3, <1>10
  <2>2. S = {} => Value(c, f) = NoValue
    BY <1>2, <1>4, <2>1
  <2>3. obs2 = obs
    BY <1>7, <1>8, <2>1, <2>2
  <2> QED BY <2>1, <2>3
<1>11. CASE ~(s # <<>> /\ Last(s) = e)
  <2>1. s2 = Append(s, e) /\ (s # <<>> => s[Len(s)] # e)
    BY <1>3, <1>11
  <2>2. e \in Contents \X Nat /\ e[1] = c
    OBVIOUS
  <2>3. /\ \A k \in 1 .. Len(s) : s2[k] = s[k]
        /\ s2[Len(s) + 1] = e
        /\ T = {} /\ Value(c, f) = NoValue => Since(s2, f) = {}
        /\ T # {} \/ Value(c, f) # NoValue => Since(s2, f) = T \cup {Len(s) + 1}
    <3> HIDE DEF e
    <3>1. /\ \A k \in 1 .. Len(s) : Append(s, e)[k] = s[k]
          /\ Append(s, e)[Len(s) + 1] = e
          /\ T = {} /\ Value(e[1], f) = NoValue => Since(Append(s, e), f) = {}
          /\ T # {} \/ Value(e[1], f) # NoValue => Since(Append(s, e), f) = T \cup {Len(s) + 1}
      <4>1. e \in Contents \X Nat
        BY <2>2
      <4> QED BY <4>1, SinceMore
    <3> HIDE DEF T
    <3> QED BY <2>1, <2>2, <3>1
  <2>4. Speaks(obs, f, m, c) <=> (T # {} \/ Value(c, f) # NoValue)
    BY <1>4, <1>8, <1>9, <2>1
  <2>5. CASE ~Speaks(obs, f, m, c)
    <3>1. obs2 = obs /\ T = {} /\ S = {} /\ Since(s2, f) = {}
      BY <1>4, <1>7, <2>3, <2>4, <2>5
    <3>2. Says(obs, {}, s2, {})
      BY DEF Says
    <3>3. Series(obs2, f, m) = {}
      BY <3>1
    <3> HIDE DEF obs2
    <3> QED BY <3>1, <3>2, <3>3 DEF obs2
  <2>6. CASE Speaks(obs, f, m, c)
    <3>1. Series(obs2, f, m) = S \cup {Len(obs) + 1} /\ Since(s2, f) = T \cup {Len(s) + 1}
      BY <1>7, <2>3, <2>4, <2>6
    <3>2. <<obs2[Len(obs) + 1].raw, obs2[Len(obs) + 1].entity>> = s2[Len(s) + 1]
      BY <1>7, <2>3, <2>6 DEF Observation
    <3>3. /\ S \in SUBSET Nat /\ T \in SUBSET Nat /\ Says(obs, S, s, T)
          /\ Len(obs) + 1 \in Nat /\ Len(s) + 1 \in Nat
          /\ \A j \in S : j < Len(obs) + 1 /\ obs2[j] = obs[j]
          /\ \A j \in T : j < Len(s) + 1 /\ s2[j] = s[j]
      BY <1>1, <1>2, <1>3, <1>7, <2>3
    <3> DEFINE x == Len(obs) + 1
               y == Len(s) + 1
    <3>4. x \in Nat
      BY <3>3
    <3>5. y \in Nat
      BY <3>3
    <3>6. <<obs2[x].raw, obs2[x].entity>> = s2[y]
      BY <3>2
    <3>7. \A j \in S : j < x
      BY <3>3
    <3>8. \A j \in S : obs2[j] = obs[j]
      BY <3>3
    <3>9. \A j \in T : j < y
      BY <3>3
    <3>10. \A j \in T : s2[j] = s[j]
      BY <3>3
    <3> HIDE DEF S, T, obs2, x, y
    <3>11. S \in SUBSET Nat
      BY <3>3
    <3>12. T \in SUBSET Nat
      BY <3>3
    <3>13. Says(obs, S, s, T)
      BY <3>3
    <3>14. IsFiniteSet(S)
      BY <1>1
    <3>15. IsFiniteSet(T)
      BY <1>2
    <3>16. Says(obs2, S \cup {x}, s2, T \cup {y})
      BY <3>4, <3>5, <3>6, <3>7, <3>8, <3>9, <3>10, <3>11, <3>12, <3>13, <3>14, <3>15, SaysMore, ZenonT(60)
    <3> QED BY <3>1, <3>16 DEF obs2, x, y
  <2> QED BY <2>5, <2>6
<1> QED BY <1>10, <1>11

(***************************************************************************)
(* Timeline: Events                                                        *)
(***************************************************************************)

Uttered == {Value(c, f) : c \in Contents, f \in Field}
Tellings == [field: Field, rests: Nat, value: Uttered]

DatesOnce(ev) ==
  \A j, k \in OfField(ev, "date") : ev[j].value = ev[k].value => j = k

StatusesTurn(ev) ==
  \A j, k \in OfField(ev, "status") : j < k /\ ev[j].value = ev[k].value =>
    \E i \in OfField(ev, "status") : j < i /\ i < k

\* An event has the field and the value of its observation.
RestsOnWhatIsSaid(ev, obs) ==
  \A k \in DOMAIN ev : /\ ev[k].rests \in DOMAIN obs
                       /\ obs[ev[k].rests].field = ev[k].field
                       /\ Value(obs[ev[k].rests].raw, ev[k].field) = ev[k].value

\* After a status told under this mapping only later observations of it are told.
Era(ev, obs, m) ==
  \A j, k \in OfField(ev, "status") : j < k /\ obs[ev[j].rests].method = m =>
    obs[ev[k].rests].method = m /\ ev[j].rests < ev[k].rests

Tells(ev, f, i, v) == v # NoValue /\ ~AlreadyTold(ev, f, i, v)

\* What becomes of the events.
Told(ev, f, i, v, ev2) ==
  /\ ev2 \in Seq(Tellings)
  /\ \A k \in 1 .. Len(ev) : ev2[k] = ev[k]
  /\ ~Tells(ev, f, i, v) => ev2 = ev
  /\ Tells(ev, f, i, v) =>
       /\ DOMAIN ev2 = 1 .. Len(ev) + 1
       /\ OfField(ev2, f) = OfField(ev, f) \cup {Len(ev) + 1}
       /\ ev2[Len(ev) + 1] = [field |-> f, rests |-> i, value |-> v]
  /\ \A g \in Field \ {f} : OfField(ev2, g) = OfField(ev, g)

LEMMA TellAdds ==
  ASSUME NEW ev \in Seq(Tellings), NEW f \in Field, NEW i \in Nat, NEW v \in Uttered
  PROVE  Told(ev, f, i, v, Tell(ev, f, i, v))
<1> DEFINE e == [field |-> f, rests |-> i, value |-> v]
           ev2 == Tell(ev, f, i, v)
           new == Tells(ev, f, i, v)
<1>1. Len(ev) \in Nat /\ DOMAIN ev = 1 .. Len(ev)
  BY LenProperties
<1>2. (~new => ev2 = ev) /\ (new => ev2 = Append(ev, e))
  BY DEF Tell, Tells
<1>3. e \in Tellings /\ e.field = f
  BY DEF Tellings
<1>4. CASE ~new
  <2>1. ev2 = ev
    BY <1>2, <1>4
  <2>2. \A g \in Field : OfField(ev2, g) = OfField(ev, g)
    BY <2>1
  <2> HIDE DEF ev2
  <2> QED BY <1>4, <2>1, <2>2 DEF Told, ev2
<1>5. CASE new
  <2>1. ev2 = Append(ev, e)
    BY <1>2, <1>5
  <2> HIDE DEF ev2, e, new
  <2>2. /\ ev2 \in Seq(Tellings) /\ Len(ev2) = Len(ev) + 1
        /\ \A k \in 1 .. Len(ev) : ev2[k] = ev[k]
        /\ ev2[Len(ev) + 1] = e
    BY <2>1, <1>3, AppendProperties
  <2>3. DOMAIN ev2 = 1 .. Len(ev) + 1
    BY <2>2, LenProperties
  <2>4. \A g \in Field \ {f} : OfField(ev2, g) = OfField(ev, g)
    BY <1>1, <1>3, <2>2, <2>3 DEF OfField
  <2>5. OfField(ev2, f) = OfField(ev, f) \cup {Len(ev) + 1}
    BY <1>1, <1>3, <2>2, <2>3 DEF OfField
  <2>6. /\ ev2 \in Seq(Tellings)
        /\ \A k \in 1 .. Len(ev) : ev2[k] = ev[k]
        /\ new
        /\ DOMAIN ev2 = 1 .. Len(ev) + 1
        /\ OfField(ev2, f) = OfField(ev, f) \cup {Len(ev) + 1}
        /\ ev2[Len(ev) + 1] = e
        /\ \A g \in Field \ {f} : OfField(ev2, g) = OfField(ev, g)
    BY <1>5, <2>2, <2>3, <2>4, <2>5
  <2> QED BY <2>6, Zenon DEF Told, ev2, e, new
<1> QED BY <1>4, <1>5

LEMMA FieldIndices ==
  ASSUME NEW ev \in Seq(Tellings), NEW f
  PROVE  /\ OfField(ev, f) \in SUBSET (1 .. Len(ev)) /\ Len(ev) \in Nat
         /\ OfField(ev, f) # {} => \E k : Newest(OfField(ev, f), k)
<1>1. Len(ev) \in Nat /\ DOMAIN ev = 1 .. Len(ev)
  BY LenProperties
<1>2. OfField(ev, f) \in SUBSET (1 .. Len(ev))
  BY <1>1 DEF OfField
<1> QED
  BY <1>1, <1>2, HasNewest

\* A date is told once, and a status not twice running.
LEMMA TellOnce ==
  ASSUME NEW ev \in Seq(Tellings), NEW f \in Field, NEW i \in Nat, NEW v \in Uttered,
         DatesOnce(ev), StatusesTurn(ev)
  PROVE  DatesOnce(Tell(ev, f, i, v)) /\ StatusesTurn(Tell(ev, f, i, v))
<1> DEFINE ev2 == Tell(ev, f, i, v)
           x == Len(ev) + 1
<1>1. /\ \A k \in 1 .. Len(ev) : ev2[k] = ev[k]
      /\ ~Tells(ev, f, i, v) => ev2 = ev
      /\ Tells(ev, f, i, v) => /\ OfField(ev2, f) = OfField(ev, f) \cup {x}
                               /\ ev2[x].value = v
      /\ \A g \in Field \ {f} : OfField(ev2, g) = OfField(ev, g)
  <2>1. Told(ev, f, i, v, ev2)
    BY TellAdds
  <2> HIDE DEF ev2
  <2> QED BY <2>1 DEF Told
<1> HIDE DEF ev2
<1>2. /\ Len(ev) \in Nat
      /\ OfField(ev, "date") \in SUBSET (1 .. Len(ev))
      /\ OfField(ev, "status") \in SUBSET (1 .. Len(ev))
  BY FieldIndices
<1>3. \A g : OfField(ev, g) \subseteq 1 .. Len(ev)
  BY FieldIndices
<1>4. CASE ~Tells(ev, f, i, v)
  BY <1>1, <1>4 DEF ev2
<1>5. CASE Tells(ev, f, i, v) /\ f = "date"
  <2>1. \A k \in OfField(ev, "date") : ev[k].value # v
    BY <1>5 DEF Tells, AlreadyTold
  <2>2. OfField(ev2, "status") = OfField(ev, "status") /\ OfField(ev2, "date") = OfField(ev, "date") \cup {x}
    BY <1>1, <1>5 DEF Field
  <2>3. DatesOnce(ev2)
    <3> SUFFICES ASSUME NEW j \in OfField(ev2, "date"), NEW k \in OfField(ev2, "date"),
                        ev2[j].value = ev2[k].value
                 PROVE  j = k
      BY DEF DatesOnce
    <3>1. CASE j \in OfField(ev, "date") /\ k \in OfField(ev, "date")
      BY <1>1, <1>2, <3>1 DEF DatesOnce
    <3>2. CASE j = x /\ k = x
      BY <3>2
    <3>3. CASE j = x /\ k \in OfField(ev, "date")
      BY <1>1, <1>2, <1>5, <2>1, <3>3
    <3>4. CASE j \in OfField(ev, "date") /\ k = x
      BY <1>1, <1>2, <1>5, <2>1, <3>4
    <3> QED BY <2>2, <3>1, <3>2, <3>3, <3>4
  <2>4. StatusesTurn(ev2)
    BY <1>1, <1>2, <2>2 DEF StatusesTurn
  <2> QED BY <2>3, <2>4 DEF ev2
<1>6. CASE Tells(ev, f, i, v) /\ f = "status"
  <2> DEFINE S == OfField(ev, "status")
  <2>1. \A k : Newest(S, k) => ev[k].value # v
    BY <1>6 DEF Tells, AlreadyTold, Newest
  <2>2. OfField(ev2, "date") = OfField(ev, "date") /\ OfField(ev2, "status") = S \cup {x}
    BY <1>1, <1>6 DEF Field
  <2>3. DatesOnce(ev2)
    BY <1>1, <1>2, <2>2 DEF DatesOnce
  <2>4. StatusesTurn(ev2)
    <3> SUFFICES ASSUME NEW j \in OfField(ev2, "status"), NEW k \in OfField(ev2, "status"),
                        j < k, ev2[j].value = ev2[k].value
                 PROVE  \E n \in OfField(ev2, "status") : j < n /\ n < k
      BY DEF StatusesTurn
    <3>1. j \in S
      BY <1>2, <2>2
    <3>2. CASE k \in S
      <4>1. ev[j].value = ev[k].value
        BY <1>1, <1>2, <3>1, <3>2
      <4>2. \E n \in S : j < n /\ n < k
        BY <3>1, <3>2, <4>1 DEF StatusesTurn
      <4> QED BY <2>2, <4>2
    <3>3. CASE k = x
      <4>1. PICK n : Newest(S, n)
        BY <3>1, FieldIndices
      <4>2. n \in S /\ j <= n /\ ev[n].value # v
        BY <2>1, <3>1, <4>1 DEF Newest
      <4>3. ev[j].value = v
        BY <1>1, <1>2, <1>6, <3>1, <3>3
      <4>4. j < n /\ n < k
        BY <1>2, <3>1, <3>3, <4>2, <4>3
      <4> QED BY <2>2, <4>2, <4>4
    <3> QED BY <2>2, <3>2, <3>3
  <2> QED BY <2>3, <2>4 DEF ev2
<1> QED BY <1>4, <1>5, <1>6 DEF Field

\* What a poll says, its observation carries.
LEMMA RestsOnTheNewest ==
  ASSUME NEW obs \in Seq(Observations), NEW f \in Field, NEW m \in Methods, NEW c \in Contents,
         entity \in 0 .. MaxMerges
  PROVE  /\ Rests(obs, f, m, c) \in Nat
         /\ Value(c, f) # NoValue =>
              /\ Newest(Series(Observe(obs, f, m, c), f, m), Rests(obs, f, m, c))
              /\ Observe(obs, f, m, c)[Rests(obs, f, m, c)].raw = c
<1> DEFINE obs2 == Observe(obs, f, m, c)
           i == Rests(obs, f, m, c)
           S == Series(obs, f, m)
           S2 == Series(obs2, f, m)
<1>1. /\ obs2 \in Seq(Observations)
      /\ ~Speaks(obs, f, m, c) => obs2 = obs
      /\ Speaks(obs, f, m, c) => /\ S2 = S \cup {Len(obs) + 1}
                                 /\ obs2[Len(obs) + 1] = Observation(f, m, c)
  BY ObserveAdds
<1>2. /\ S \in SUBSET (1 .. Len(obs)) /\ Len(obs) \in Nat
      /\ S # {} => Newest(S, Latest(obs, f, m, c))
  BY SeriesLatest, LenProperties
<1>3. /\ S2 \in SUBSET (1 .. Len(obs2)) /\ Len(obs2) \in Nat
      /\ S2 = {} => i = 0
      /\ S2 # {} => Newest(S2, i)
  <2>1. obs2 \in Seq(Observations)
    BY <1>1
  <2>2. i = Latest(obs2, f, m, c)
    BY DEF Rests
  <2> HIDE DEF obs2
  <2>3. /\ Series(obs2, f, m) \in SUBSET (1 .. Len(obs2))
        /\ Series(obs2, f, m) = {} => Latest(obs2, f, m, c) = 0
        /\ Series(obs2, f, m) # {} => Newest(Series(obs2, f, m), Latest(obs2, f, m, c))
    BY <2>1, SeriesLatest
  <2> HIDE DEF i
  <2> QED BY <2>1, <2>2, <2>3, LenProperties
<1>4. i \in Nat
  <2> HIDE DEF S2, i, obs2
  <2>1. CASE S2 = {}
    BY <1>3, <2>1
  <2>2. CASE S2 # {}
    <3>1. i \in S2
      BY <1>3, <2>2 DEF Newest
    <3>2. i \in 1 .. Len(obs2)
      BY <1>3, <3>1
    <3> QED BY <3>2
  <2> QED BY <2>1, <2>2
<1>5. ASSUME Value(c, f) # NoValue PROVE Newest(S2, i) /\ obs2[i].raw = c
  <2>1. CASE Speaks(obs, f, m, c)
    <3>1. S2 = S \cup {Len(obs) + 1} /\ obs2[Len(obs) + 1].raw = c
      BY <1>1, <2>1 DEF Observation
    <3> HIDE DEF S, S2, i, obs2
    <3>2. Newest(S2, i)
      BY <1>3, <3>1
    <3>3. i = Len(obs) + 1
      BY <1>2, <3>1, <3>2 DEF Newest
    <3> QED BY <3>1, <3>2, <3>3
  <2>2. CASE ~Speaks(obs, f, m, c)
    <3>1. obs2 = obs
      BY <1>1, <2>2
    <3>2. S # {} /\ obs[Latest(obs, f, m, c)].raw = c
      BY <1>5, <2>2 DEF Speaks, Observation
    <3>3. i = Latest(obs, f, m, c) /\ S2 = S
      BY <3>1 DEF Rests
    <3> HIDE DEF obs2, i, S, S2
    <3> QED BY <1>2, <3>1, <3>2, <3>3
  <2> QED BY <2>1, <2>2
<1> QED BY <1>4, <1>5

LEMMA DateIsTold ==
  ASSUME NEW ev \in Seq(Tellings), NEW i \in Nat, NEW v \in Uttered, v # NoValue,
         \A k \in OfField(ev, "date") : ev[k].rests = i => ev[k].value = v
  PROVE  \E k \in OfField(Tell(ev, "date", i, v), "date") : Tell(ev, "date", i, v)[k].value = v
<1> DEFINE ev2 == Tell(ev, "date", i, v)
<1>1. Told(ev, "date", i, v, ev2)
  BY TellAdds DEF Field
<1>2. CASE Tells(ev, "date", i, v)
  <2>1. OfField(ev2, "date") = OfField(ev, "date") \cup {Len(ev) + 1} /\ ev2[Len(ev) + 1].value = v
    BY <1>1, <1>2 DEF Told
  <2> HIDE DEF ev2
  <2> QED BY <2>1 DEF ev2
<1>3. CASE ~Tells(ev, "date", i, v)
  <2>1. ev2 = ev
    BY <1>1, <1>3 DEF Told
  <2>2. \E k \in OfField(ev, "date") : ev[k].value = v
    BY <1>3 DEF Tells, AlreadyTold
  <2> QED BY <2>1, <2>2
<1> QED BY <1>2, <1>3

LEMMA StatusIsToldLast ==
  ASSUME NEW ev \in Seq(Tellings), NEW i \in Nat, NEW v \in Uttered, v # NoValue,
         \A k \in OfField(ev, "status") : ev[k].rests = i =>
           ev[k].value = v /\ Newest(OfField(ev, "status"), k)
  PROVE  \E k \in OfField(Tell(ev, "status", i, v), "status") :
           /\ Newest(OfField(Tell(ev, "status", i, v), "status"), k)
           /\ Tell(ev, "status", i, v)[k].value = v
<1> DEFINE ev2 == Tell(ev, "status", i, v)
<1>1. Told(ev, "status", i, v, ev2)
  BY TellAdds DEF Field
<1>2. CASE Tells(ev, "status", i, v)
  <2>1. OfField(ev2, "status") = OfField(ev, "status") \cup {Len(ev) + 1} /\ ev2[Len(ev) + 1].value = v
    BY <1>1, <1>2 DEF Told
  <2>2. OfField(ev, "status") \in SUBSET (1 .. Len(ev)) /\ Len(ev) \in Nat
    BY FieldIndices
  <2> HIDE DEF ev2
  <2>3. Newest(OfField(ev2, "status"), Len(ev) + 1)
    BY <2>1, <2>2 DEF Newest
  <2> QED BY <2>1, <2>3 DEF ev2
<1>3. CASE ~Tells(ev, "status", i, v)
  <2>1. ev2 = ev
    BY <1>1, <1>3 DEF Told
  <2>2. \E k \in OfField(ev, "status") : Newest(OfField(ev, "status"), k) /\ ev[k].value = v
    BY <1>3 DEF Tells, AlreadyTold
  <2> QED BY <2>1, <2>2
<1> QED BY <1>2, <1>3

\* A new event has the value of the observation it rests on.
LEMMA ToldAsObserved ==
  ASSUME NEW obs \in Seq(Observations), NEW f \in Field, NEW m \in Methods, NEW c \in Contents,
         entity \in 0 .. MaxMerges, NEW ev \in Seq(Tellings), RestsOnWhatIsSaid(ev, obs)
  PROVE  RestsOnWhatIsSaid(Tell(ev, f, Rests(obs, f, m, c), Value(c, f)), Observe(obs, f, m, c))
<1> DEFINE obs2 == Observe(obs, f, m, c)
           i == Rests(obs, f, m, c)
           v == Value(c, f)
           ev2 == Tell(ev, f, i, v)
<1>1. /\ obs2 \in Seq(Observations)
      /\ \A k \in 1 .. Len(obs) : k \in 1 .. Len(obs2) /\ obs2[k] = obs[k]
  BY ObserveAdds
<1>2. /\ i \in Nat
      /\ v # NoValue => Newest(Series(obs2, f, m), i) /\ obs2[i].raw = c
  BY RestsOnTheNewest
<1>3. v \in Uttered
  BY DEF Uttered
<1>4. Told(ev, f, i, v, ev2)
  <2> HIDE DEF i, v
  <2> QED BY <1>2, <1>3, TellAdds
<1>5. DOMAIN obs = 1 .. Len(obs) /\ DOMAIN ev = 1 .. Len(ev) /\ Len(ev) \in Nat
  BY LenProperties
<1>6. DOMAIN obs2 = 1 .. Len(obs2)
  BY <1>1, LenProperties
<1> HIDE DEF obs2, i, ev2
<1>7. CASE ~Tells(ev, f, i, v)
  <2>1. ev2 = ev
    BY <1>4, <1>7 DEF Told
  <2>2. RestsOnWhatIsSaid(ev, obs2)
    BY <1>1, <1>5, <1>6 DEF RestsOnWhatIsSaid
  <2> QED BY <2>1, <2>2 DEF ev2, i, obs2
<1>8. CASE Tells(ev, f, i, v)
  <2>1. /\ DOMAIN ev2 = 1 .. Len(ev) + 1
        /\ \A k \in 1 .. Len(ev) : ev2[k] = ev[k]
        /\ ev2[Len(ev) + 1] = [field |-> f, rests |-> i, value |-> v]
    BY <1>4, <1>8 DEF Told
  <2>2. /\ i \in DOMAIN obs2 /\ obs2[i].field = f /\ obs2[i].raw = c
    BY <1>2, <1>8 DEF Tells, Newest, Series
  <2> HIDE DEF v
  <2>3. ASSUME NEW k \in DOMAIN ev2
        PROVE  /\ ev2[k].rests \in DOMAIN obs2
               /\ obs2[ev2[k].rests].field = ev2[k].field
               /\ Value(obs2[ev2[k].rests].raw, ev2[k].field) = ev2[k].value
    <3>1. CASE k \in 1 .. Len(ev)
      <4>1. ev2[k] = ev[k] /\ ev[k].rests \in 1 .. Len(obs)
            /\ obs[ev[k].rests].field = ev[k].field
            /\ Value(obs[ev[k].rests].raw, ev[k].field) = ev[k].value
        BY <1>5, <2>1, <3>1 DEF RestsOnWhatIsSaid
      <4> QED BY <1>1, <1>6, <4>1
    <3>2. CASE k = Len(ev) + 1
      <4>1. ev2[k].rests = i /\ ev2[k].field = f /\ ev2[k].value = v
        BY <2>1, <3>2
      <4> QED BY <2>2, <4>1 DEF v
    <3> QED BY <1>5, <2>1, <3>1, <3>2
  <2>4. RestsOnWhatIsSaid(ev2, obs2)
    BY <2>3 DEF RestsOnWhatIsSaid
  <2> QED BY <2>4 DEF ev2, i, obs2, v
<1> QED BY <1>7, <1>8

\* Under one mapping the statuses are told in the order they were observed, so
\* one that was told of the present observation was told last.
LEMMA EraGoesOn ==
  ASSUME NEW obs \in Seq(Observations), NEW m \in Methods, NEW c \in Contents,
         entity \in 0 .. MaxMerges, NEW ev \in Seq(Tellings), RestsOnWhatIsSaid(ev, obs),
         Era(ev, obs, m), NEW i, i = Rests(obs, "status", m, c),
         NEW obs2, obs2 = Observe(obs, "status", m, c)
  PROVE  /\ Era(Tell(ev, "status", i, c.status), obs2, m)
         /\ c.status # NoValue =>
              \A k \in OfField(ev, "status") : ev[k].rests = i =>
                ev[k].value = c.status /\ Newest(OfField(ev, "status"), k)
<1> DEFINE v == Value(c, "status")
           ev2 == Tell(ev, "status", i, v)
           S == OfField(ev, "status")
           x == Len(ev) + 1
<1>1. v = c.status /\ v \in Uttered /\ "status" \in Field
  BY DEF Value, Uttered, Field
<1>2. /\ obs2 \in Seq(Observations)
      /\ \A k \in 1 .. Len(obs) : k \in 1 .. Len(obs2) /\ obs2[k] = obs[k]
  BY <1>1, ObserveAdds
<1>3. /\ i \in Nat
      /\ v # NoValue => Newest(Series(obs2, "status", m), i) /\ obs2[i].raw = c
  BY <1>1, RestsOnTheNewest
<1>4. Told(ev, "status", i, v, ev2)
  <2> HIDE DEF v
  <2> QED BY <1>1, <1>3, TellAdds
<1>5. DOMAIN obs = 1 .. Len(obs) /\ DOMAIN ev = 1 .. Len(ev) /\ Len(ev) \in Nat
  BY LenProperties
<1>6. DOMAIN obs2 = 1 .. Len(obs2) /\ Len(obs2) \in Nat
  BY <1>2, LenProperties
<1> HIDE DEF ev2
<1>7. S \in SUBSET (1 .. Len(ev))
  BY FieldIndices
<1>8. \A k \in S : /\ ev[k].rests \in 1 .. Len(obs2) /\ obs2[ev[k].rests] = obs[ev[k].rests]
                   /\ obs2[ev[k].rests].field = "status"
                   /\ Value(obs2[ev[k].rests].raw, "status") = ev[k].value
  <2> SUFFICES ASSUME NEW k \in S
               PROVE  /\ ev[k].rests \in 1 .. Len(obs2) /\ obs2[ev[k].rests] = obs[ev[k].rests]
                      /\ obs2[ev[k].rests].field = "status"
                      /\ Value(obs2[ev[k].rests].raw, "status") = ev[k].value
    OBVIOUS
  <2>1. k \in DOMAIN ev /\ ev[k].field = "status"
    BY DEF OfField
  <2>2. /\ ev[k].rests \in 1 .. Len(obs) /\ obs[ev[k].rests].field = "status"
        /\ Value(obs[ev[k].rests].raw, "status") = ev[k].value
    BY <1>5, <2>1 DEF RestsOnWhatIsSaid
  <2> QED BY <1>2, <2>2
<1>9. Era(ev, obs2, m)
  BY <1>8 DEF Era
<1>10. ASSUME v # NoValue, NEW k \in S, obs2[ev[k].rests].method = m PROVE ev[k].rests <= i
  <2>1. ev[k].rests \in Series(obs2, "status", m)
    BY <1>6, <1>8, <1>10 DEF Series
  <2> QED BY <1>3, <1>10, <2>1 DEF Newest
<1>11. ASSUME v # NoValue, NEW k \in S, ev[k].rests = i PROVE ev[k].value = v /\ Newest(S, k)
  <2>1. obs2[i].raw = c /\ obs2[i].method = m
    BY <1>3, <1>11 DEF Newest, Series
  <2>2. ev[k].value = v
    BY <1>8, <1>11, <2>1
  <2>3. ASSUME NEW j \in S PROVE j <= k
    <3> SUFFICES ASSUME k < j PROVE FALSE
      BY <1>5, <1>7
    <3>1. obs2[ev[j].rests].method = m /\ i < ev[j].rests
      BY <1>9, <1>11, <2>1 DEF Era
    <3>2. ev[j].rests <= i /\ ev[j].rests \in Nat
      BY <1>8, <1>10, <1>11, <3>1
    <3> QED BY <1>3, <3>1, <3>2
  <2> QED BY <2>2, <2>3 DEF Newest
<1>12. Era(ev2, obs2, m)
  <2>1. CASE ~Tells(ev, "status", i, v)
    <3>1. ev2 = ev
      BY <1>4, <2>1 DEF Told
    <3> QED BY <1>9, <3>1
  <2>2. CASE Tells(ev, "status", i, v)
    <3>1. /\ OfField(ev2, "status") = S \cup {x}
          /\ \A k \in 1 .. Len(ev) : ev2[k] = ev[k]
          /\ ev2[x] = [field |-> "status", rests |-> i, value |-> v]
      BY <1>4, <2>2 DEF Told
    <3>2. v # NoValue /\ \A k \in S : ev[k].rests # i
      BY <2>2 DEF Tells, AlreadyTold
    <3>3. obs2[i].method = m
      BY <1>3, <3>2 DEF Newest, Series
    <3>4. ev2[x].rests = i
      BY <3>1
    <3> SUFFICES ASSUME NEW j \in OfField(ev2, "status"), NEW k \in OfField(ev2, "status"),
                        j < k, obs2[ev2[j].rests].method = m
                 PROVE  obs2[ev2[k].rests].method = m /\ ev2[j].rests < ev2[k].rests
      BY DEF Era
    <3>5. j \in S /\ ev2[j] = ev[j]
      BY <1>5, <1>7, <3>1
    <3>6. CASE k \in S
      <4>1. ev2[k] = ev[k]
        BY <1>7, <3>1, <3>6
      <4> QED BY <1>9, <3>5, <3>6, <4>1 DEF Era
    <3>7. CASE k = x
      <4>1. ev[j].rests <= i /\ ev[j].rests # i
        BY <1>10, <3>2, <3>5
      <4>2. ev[j].rests \in Nat
        BY <1>8, <3>5
      <4> QED BY <1>3, <3>3, <3>4, <3>5, <3>7, <4>1, <4>2
    <3> QED BY <3>1, <3>6, <3>7
  <2> QED BY <2>1, <2>2
<1> QED BY <1>1, <1>11, <1>12 DEF ev2

(***************************************************************************)
(* Timeline: The invariant                                                 *)
(***************************************************************************)

TimelineTyped ==
  /\ observed \in Seq(Observations)
  /\ told \in Seq(Tellings)
  /\ said \in [Methods -> Seq(Contents \X Nat)]
  /\ entity \in 0 .. MaxMerges
  /\ saidLast # NoValue => saidLast \in Contents \X Methods
  /\ cameBack \in BOOLEAN
  /\ polls \in 0 .. MaxPolls

HistoryKept ==
  \A f \in Field, m \in Methods :
    Says(observed, Series(observed, f, m), said[m], Since(said[m], f))

PresentTold ==
  saidLast # NoValue =>
    /\ saidLast[1].date # NoValue =>
         \E k \in OfField(told, "date") : told[k].value = saidLast[1].date
    /\ saidLast[1].status # NoValue /\ ~cameBack =>
         \E k \in OfField(told, "status") :
           Newest(OfField(told, "status"), k) /\ told[k].value = saidLast[1].status

TimelineInv ==
  /\ TimelineTyped
  /\ RestsOnWhatIsSaid(told, observed)
  /\ HistoryKept
  /\ DatesOnce(told) /\ StatusesTurn(told) /\ PresentTold
  /\ ~cameBack => Era(told, observed, saidLast[2])

LEMMA TimelineStarts == TimelineInit => TimelineInv
<1> SUFFICES ASSUME TimelineInit PROVE TimelineInv
  OBVIOUS
<1>1. observed = <<>> /\ told = <<>> /\ said = [m \in Methods |-> <<>>]
      /\ saidLast = NoValue /\ cameBack = FALSE /\ entity = 0 /\ polls = 0
  BY DEF TimelineInit
<1>2. /\ <<>> \in Seq(Observations) /\ <<>> \in Seq(Tellings) /\ <<>> \in Seq(Contents \X Nat)
      /\ DOMAIN <<>> = {}
  BY EmptySeq
<1>3. TimelineTyped
  <2>1. observed \in Seq(Observations) /\ told \in Seq(Tellings)
    BY <1>1, <1>2
  <2>2. said \in [Methods -> Seq(Contents \X Nat)]
    BY <1>1, <1>2
  <2>3. entity \in 0 .. MaxMerges /\ polls \in 0 .. MaxPolls
    BY <1>1, TimelineAssumption
  <2>4. cameBack \in BOOLEAN /\ saidLast = NoValue
    BY <1>1
  <2> QED BY <2>1, <2>2, <2>3, <2>4 DEF TimelineTyped
<1>4. \A f : OfField(told, f) = {}
  BY <1>1, <1>2 DEF OfField
<1>5. HistoryKept
  <2> SUFFICES ASSUME NEW f \in Field, NEW m \in Methods
               PROVE  Says(observed, Series(observed, f, m), said[m], Since(said[m], f))
    BY DEF HistoryKept
  <2>1. Series(observed, f, m) = {} /\ Since(said[m], f) = {}
    BY <1>1, <1>2 DEF Series, Since
  <2> QED BY <2>1 DEF Says
<1>6. RestsOnWhatIsSaid(told, observed)
  BY <1>1, <1>2 DEF RestsOnWhatIsSaid
<1> QED
  BY <1>1, <1>3, <1>4, <1>5, <1>6 DEF TimelineInv, DatesOnce, StatusesTurn, PresentTold, Era

\* What a poll does to observations and events: the status, then the date.
LEMMA PollParts ==
  ASSUME TimelineInv, NEW c \in Contents, NEW m \in Methods, Poll(c, m)
  PROVE  \E obs1, ev1, i, j :
           /\ obs1 = Observe(observed, "status", m, c) /\ obs1 \in Seq(Observations)
           /\ observed' = Observe(obs1, "date", m, c) /\ observed' \in Seq(Observations)
           /\ i = Rests(observed, "status", m, c) /\ i \in Nat
           /\ j = Rests(obs1, "date", m, c) /\ j \in Nat
           /\ ev1 = Tell(told, "status", i, c.status) /\ ev1 \in Seq(Tellings)
           /\ told' = Tell(ev1, "date", j, c.date) /\ told' \in Seq(Tellings)
           /\ RestsOnWhatIsSaid(ev1, obs1)
           /\ RestsOnWhatIsSaid(told', observed')
           /\ DatesOnce(ev1) /\ StatusesTurn(ev1) /\ DatesOnce(told') /\ StatusesTurn(told')
<1> DEFINE obs1 == Observe(observed, "status", m, c)
           obs2 == Observe(obs1, "date", m, c)
           i == Rests(observed, "status", m, c)
           j == Rests(obs1, "date", m, c)
           ev1 == Tell(told, "status", i, c.status)
           ev2 == Tell(ev1, "date", j, c.date)
<1>1. /\ observed \in Seq(Observations) /\ told \in Seq(Tellings) /\ entity \in 0 .. MaxMerges
      /\ RestsOnWhatIsSaid(told, observed) /\ DatesOnce(told) /\ StatusesTurn(told)
  BY DEF TimelineInv, TimelineTyped
<1>2. observed' = obs2 /\ told' = ev2
  BY DEF Poll
<1>3. /\ "status" \in Field /\ "date" \in Field
      /\ c.status = Value(c, "status") /\ c.date = Value(c, "date")
      /\ c.status \in Uttered /\ c.date \in Uttered
  <2>1. "status" \in Field /\ "date" \in Field
        /\ c.status = Value(c, "status") /\ c.date = Value(c, "date")
    BY DEF Value, Field
  <2> QED BY <2>1 DEF Uttered
<1>4. obs1 \in Seq(Observations)
  BY <1>1, <1>3, ObserveAdds
<1>5. obs2 \in Seq(Observations)
  <2> HIDE DEF obs1
  <2> QED BY <1>1, <1>3, <1>4, ObserveAdds
<1>6. i \in Nat
  BY <1>1, <1>3, RestsOnTheNewest
<1>7. j \in Nat
  <2> HIDE DEF obs1
  <2> QED BY <1>1, <1>3, <1>4, RestsOnTheNewest
<1>8. RestsOnWhatIsSaid(ev1, obs1)
  <2>1. RestsOnWhatIsSaid(Tell(told, "status", Rests(observed, "status", m, c), Value(c, "status")),
                          Observe(observed, "status", m, c))
    BY <1>1, <1>3, ToldAsObserved
  <2> QED BY <1>3, <2>1
<1>9. ev1 \in Seq(Tellings) /\ DatesOnce(ev1) /\ StatusesTurn(ev1)
  <2> HIDE DEF i
  <2>1. Told(told, "status", i, c.status, ev1)
    BY <1>1, <1>3, <1>6, TellAdds
  <2> QED BY <1>1, <1>3, <1>6, <2>1, TellOnce DEF Told
<1> HIDE DEF obs1, ev1
<1>10. ev2 \in Seq(Tellings) /\ DatesOnce(ev2) /\ StatusesTurn(ev2)
  <2> HIDE DEF j
  <2>1. Told(ev1, "date", j, c.date, ev2)
    BY <1>3, <1>7, <1>9, TellAdds
  <2> QED BY <1>3, <1>7, <1>9, <2>1, TellOnce DEF Told
<1>11. RestsOnWhatIsSaid(ev2, obs2)
  <2>1. RestsOnWhatIsSaid(Tell(ev1, "date", Rests(obs1, "date", m, c), Value(c, "date")),
                          Observe(obs1, "date", m, c))
    BY <1>1, <1>3, <1>4, <1>8, <1>9, ToldAsObserved
  <2> QED BY <1>3, <2>1
<1>12. obs1 = Observe(observed, "status", m, c) /\ ev1 = Tell(told, "status", i, c.status)
  BY DEF obs1, ev1
<1> HIDE DEF obs2, i, j, ev2
<1>13. /\ obs2 = Observe(obs1, "date", m, c) /\ i = Rests(observed, "status", m, c)
       /\ j = Rests(obs1, "date", m, c) /\ ev2 = Tell(ev1, "date", j, c.date)
  BY DEF obs2, i, j, ev2
<1> QED
  BY <1>2, <1>4, <1>5, <1>6, <1>7, <1>8, <1>9, <1>10, <1>11, <1>12, <1>13, Zenon

LEMMA PollKeepsHistory ==
  ASSUME TimelineInv, NEW c \in Contents, NEW m \in Methods, Poll(c, m)
  PROVE  HistoryKept' /\ said' \in [Methods -> Seq(Contents \X Nat)]
<1>1. PICK obs1 : /\ obs1 = Observe(observed, "status", m, c) /\ obs1 \in Seq(Observations)
                  /\ observed' = Observe(obs1, "date", m, c) /\ observed' \in Seq(Observations)
  BY PollParts, ZenonT(60)
<1>2. /\ observed \in Seq(Observations) /\ entity \in 0 .. MaxMerges
      /\ said \in [Methods -> Seq(Contents \X Nat)]
      /\ "status" \in Field /\ "date" \in Field /\ Field = {"status", "date"}
  BY DEF TimelineInv, TimelineTyped, Field
<1> DEFINE t == IF said[m] # <<>> /\ Last(said[m]) = <<c, entity>> THEN said[m]
                ELSE Append(said[m], <<c, entity>>)
<1>3. said' = [said EXCEPT ![m] = t]
  BY <1>2 DEF Poll
<1>4. t \in Seq(Contents \X Nat)
  <2>1. <<c, entity>> \in Contents \X Nat
    BY <1>2, TimelineAssumption
  <2> QED BY <1>2, <2>1, AppendProperties
<1>5. /\ \A k \in 1 .. Len(observed) : obs1[k] = observed[k]
      /\ \A g \in Field, n \in Methods :
           g # "status" \/ n # m => Series(obs1, g, n) = Series(observed, g, n)
  <2>1. observed \in Seq(Observations) /\ entity \in 0 .. MaxMerges /\ "status" \in Field
    BY <1>2
  <2>2. obs1 = Observe(observed, "status", m, c)
    BY <1>1
  <2> QED BY <2>1, <2>2, ObserveKeeps
<1>6. /\ \A k \in 1 .. Len(obs1) : observed'[k] = obs1[k]
      /\ \A g \in Field, n \in Methods :
           g # "date" \/ n # m => Series(observed', g, n) = Series(obs1, g, n)
  <2>1. obs1 \in Seq(Observations) /\ entity \in 0 .. MaxMerges /\ "date" \in Field
    BY <1>1, <1>2
  <2>2. observed' = Observe(obs1, "date", m, c)
    BY <1>1
  <2> QED BY <2>1, <2>2, ObserveKeeps
<1> HIDE DEF t
<1>7. said'[m] = t /\ \A n \in Methods : n # m => said'[n] = said[n]
  BY <1>2, <1>3
<1>8. ASSUME NEW f \in Field, NEW n \in Methods
      PROVE  Says(observed', Series(observed', f, n), said'[n], Since(said'[n], f))
  <2>1. Says(observed, Series(observed, f, n), said[n], Since(said[n], f))
    BY DEF TimelineInv, HistoryKept
  <2>2. \A k \in Series(observed, f, n) : obs1[k] = observed[k]
    BY <1>2, <1>5, SeriesLatest
  <2>3. \A k \in Series(obs1, f, n) : observed'[k] = obs1[k]
    BY <1>1, <1>6, SeriesLatest
  <2>4. CASE n # m
    <3>1. Series(observed', f, n) = Series(observed, f, n) /\ Series(obs1, f, n) = Series(observed, f, n)
      BY <1>5, <1>6, <2>4
    <3>2. \A k \in Series(observed, f, n) : observed'[k] = observed[k]
      BY <2>2, <2>3, <3>1
    <3>3. Says(observed', Series(observed, f, n), said[n], Since(said[n], f))
      BY <2>1, <3>2 DEF Says
    <3> QED BY <1>7, <2>4, <3>1, <3>3
  <2>5. CASE n = m /\ f = "status"
    <3>1. Says(Observe(observed, f, m, c), Series(Observe(observed, f, m, c), f, m), t, Since(t, f))
      <4>1. said[m] \in Seq(Contents \X Nat)
        BY <1>2
      <4>2. Says(observed, Series(observed, f, m), said[m], Since(said[m], f))
        BY <2>1, <2>5
      <4> QED BY <1>2, <4>1, <4>2, FieldHistory DEF t
    <3>2. Says(obs1, Series(obs1, f, m), t, Since(t, f))
      BY <1>1, <2>5, <3>1
    <3>3. Series(observed', f, m) = Series(obs1, f, m)
      BY <1>6, <2>5
    <3>4. Says(observed', Series(obs1, f, m), t, Since(t, f))
      BY <2>3, <2>5, <3>2 DEF Says
    <3> QED BY <1>7, <2>5, <3>3, <3>4
  <2>6. CASE n = m /\ f = "date"
    <3>1. Series(obs1, f, m) = Series(observed, f, m)
      BY <1>5, <2>6
    <3>2. Says(obs1, Series(obs1, f, m), said[m], Since(said[m], f))
      BY <2>1, <2>2, <2>6, <3>1 DEF Says
    <3>3. said[m] \in Seq(Contents \X Nat)
      BY <1>2
    <3>4. obs1 \in Seq(Observations) /\ entity \in 0 .. MaxMerges
      BY <1>1, <1>2
    <3>5. t = IF said[m] # <<>> /\ Last(said[m]) = <<c, entity>> THEN said[m]
              ELSE Append(said[m], <<c, entity>>)
      BY DEF t
    <3>6. Says(Observe(obs1, f, m, c), Series(Observe(obs1, f, m, c), f, m), t, Since(t, f))
      BY <3>2, <3>3, <3>4, <3>5, FieldHistory
    <3>7. observed' = Observe(obs1, f, m, c)
      BY <1>1, <2>6
    <3> QED BY <1>7, <2>6, <3>6, <3>7
  <2> QED BY <1>2, <2>4, <2>5, <2>6
<1>9. said' \in [Methods -> Seq(Contents \X Nat)]
  BY <1>2, <1>3, <1>4
<1> QED BY <1>8, <1>9 DEF HistoryKept

\* A mapping not polled before has told nothing yet.
LEMMA EraBefore ==
  ASSUME TimelineInv, NEW c \in Contents, NEW m \in Methods, Poll(c, m), ~cameBack'
  PROVE  Era(told, observed, m)
<1>1. ~cameBack /\ (said[m] = <<>> \/ saidLast[2] = m)
  BY DEF Poll
<1>2. CASE saidLast[2] = m
  BY <1>1, <1>2 DEF TimelineInv
<1>3. CASE said[m] = <<>>
  <2> DEFINE S == Series(observed, "status", m)
  <2>1. Since(said[m], "status") = {}
    BY <1>3, EmptySeq DEF Since
  <2>2. Cardinality(S) = Cardinality(Since(said[m], "status"))
    BY DEF TimelineInv, HistoryKept, Says, Field
  <2>3. IsFiniteSet(S)
    BY SeriesLatest DEF TimelineInv, TimelineTyped
  <2> HIDE DEF S
  <2>4. S = {}
    BY <2>1, <2>2, <2>3, FS_EmptySet
  <2>5. ASSUME NEW j \in OfField(told, "status") PROVE observed[told[j].rests].method # m
    BY <2>4 DEF S, Series, TimelineInv, RestsOnWhatIsSaid, OfField
  <2> QED BY <2>5 DEF Era
<1> QED BY <1>1, <1>2, <1>3

\* What is told of the date leaves the statuses as they were.
LEMMA EraFramed ==
  ASSUME NEW m, NEW ev, NEW ev2, NEW obs, NEW obs2, Era(ev, obs, m),
         OfField(ev2, "status") = OfField(ev, "status"),
         \A k \in OfField(ev, "status") : ev2[k] = ev[k],
         \A k \in OfField(ev, "status") : obs2[ev[k].rests] = obs[ev[k].rests]
  PROVE  Era(ev2, obs2, m)
  BY DEF Era

LEMMA PollTells ==
  ASSUME TimelineInv, NEW c \in Contents, NEW m \in Methods, Poll(c, m)
  PROVE  PresentTold' /\ (~cameBack' => Era(told', observed', m))
<1>1. PICK obs1, ev1, i, j :
        /\ obs1 = Observe(observed, "status", m, c) /\ obs1 \in Seq(Observations)
        /\ observed' = Observe(obs1, "date", m, c) /\ observed' \in Seq(Observations)
        /\ i = Rests(observed, "status", m, c) /\ i \in Nat
        /\ j = Rests(obs1, "date", m, c) /\ j \in Nat
        /\ ev1 = Tell(told, "status", i, c.status) /\ ev1 \in Seq(Tellings)
        /\ told' = Tell(ev1, "date", j, c.date) /\ told' \in Seq(Tellings)
        /\ RestsOnWhatIsSaid(ev1, obs1)
        /\ RestsOnWhatIsSaid(told', observed')
  BY PollParts, ZenonT(60)
<1>2. /\ observed \in Seq(Observations) /\ told \in Seq(Tellings) /\ entity \in 0 .. MaxMerges
      /\ RestsOnWhatIsSaid(told, observed)
  BY DEF TimelineInv, TimelineTyped
<1>3. /\ "status" \in Field /\ "date" \in Field
      /\ c.status = Value(c, "status") /\ c.date = Value(c, "date")
      /\ c.status \in Uttered /\ c.date \in Uttered
  <2>1. "status" \in Field /\ "date" \in Field
        /\ c.status = Value(c, "status") /\ c.date = Value(c, "date")
    BY DEF Value, Field
  <2> QED BY <2>1 DEF Uttered
<1>4. saidLast' = <<c, m>>
  BY DEF Poll
<1>5. DOMAIN obs1 = 1 .. Len(obs1) /\ DOMAIN ev1 = 1 .. Len(ev1)
  BY <1>1, LenProperties
<1>6. Told(ev1, "date", j, c.date, told')
  BY <1>1, <1>3, TellAdds
<1>7. /\ OfField(told', "status") = OfField(ev1, "status")
      /\ \A k \in OfField(ev1, "status") : told'[k] = ev1[k]
  <2>1. OfField(told', "status") = OfField(ev1, "status")
    BY <1>3, <1>6 DEF Told
  <2>2. \A k \in 1 .. Len(ev1) : told'[k] = ev1[k]
    BY <1>6 DEF Told
  <2> QED BY <1>5, <2>1, <2>2 DEF OfField
<1>8. \A k \in 1 .. Len(obs1) : observed'[k] = obs1[k]
  <2>1. obs1 \in Seq(Observations) /\ entity \in 0 .. MaxMerges /\ "date" \in Field
    BY <1>1, <1>2, <1>3
  <2>2. observed' = Observe(obs1, "date", m, c)
    BY <1>1
  <2> QED BY <2>1, <2>2, ObserveKeeps
<1>9. ASSUME c.date # NoValue
      PROVE  \E k \in OfField(told', "date") : told'[k].value = c.date
  <2>1. observed'[j].raw = c
    BY <1>1, <1>2, <1>3, <1>9, RestsOnTheNewest
  <2>2. \A k \in DOMAIN ev1 : ev1[k].rests \in 1 .. Len(obs1)
                             /\ Value(obs1[ev1[k].rests].raw, ev1[k].field) = ev1[k].value
    BY <1>1, <1>5 DEF RestsOnWhatIsSaid
  <2>3. \A k \in OfField(ev1, "date") : ev1[k].rests = j => ev1[k].value = c.date
    BY <1>3, <1>8, <2>1, <2>2 DEF OfField
  <2>4. \E k \in OfField(Tell(ev1, "date", j, c.date), "date") :
          Tell(ev1, "date", j, c.date)[k].value = c.date
    <3>1. ev1 \in Seq(Tellings) /\ j \in Nat /\ c.date \in Uttered
      BY <1>1, <1>3
    <3> QED BY <1>9, <2>3, <3>1, DateIsTold
  <2> QED BY <1>1, <2>4
<1>10. ASSUME ~cameBack' PROVE Era(told', observed', m)
  <2>1. Era(told, observed, m)
    BY <1>10, EraBefore
  <2>2. Era(Tell(told, "status", i, c.status), obs1, m)
    <3>1. obs1 = Observe(observed, "status", m, c) /\ i = Rests(observed, "status", m, c)
      BY <1>1
    <3> QED BY <1>2, <2>1, <3>1, EraGoesOn
  <2>3. \A k \in OfField(ev1, "status") : observed'[ev1[k].rests] = obs1[ev1[k].rests]
    BY <1>1, <1>5, <1>8 DEF RestsOnWhatIsSaid, OfField
  <2>4. Era(ev1, obs1, m)
    BY <1>1, <2>2
  <2> QED BY <1>7, <2>3, <2>4, EraFramed
<1>11. ASSUME ~cameBack', c.status # NoValue
       PROVE  \E k \in OfField(told', "status") :
                Newest(OfField(told', "status"), k) /\ told'[k].value = c.status
  <2>1. Era(told, observed, m)
    BY <1>11, EraBefore
  <2>2. \A k \in OfField(told, "status") : told[k].rests = i =>
          told[k].value = c.status /\ Newest(OfField(told, "status"), k)
    <3>1. obs1 = Observe(observed, "status", m, c) /\ i = Rests(observed, "status", m, c)
      BY <1>1
    <3> QED BY <1>2, <1>11, <2>1, <3>1, EraGoesOn
  <2>3. \E k \in OfField(Tell(told, "status", i, c.status), "status") :
          /\ Newest(OfField(Tell(told, "status", i, c.status), "status"), k)
          /\ Tell(told, "status", i, c.status)[k].value = c.status
    <3>1. told \in Seq(Tellings) /\ i \in Nat /\ c.status \in Uttered
      BY <1>1, <1>2, <1>3
    <3> QED BY <1>11, <2>2, <3>1, StatusIsToldLast
  <2>4. PICK k \in OfField(ev1, "status") : Newest(OfField(ev1, "status"), k) /\ ev1[k].value = c.status
    BY <1>1, <2>3
  <2> QED BY <1>7, <2>4
<1>12. PresentTold'
  <2>1. saidLast'[1] = c
    BY <1>4
  <2> QED BY <1>9, <1>11, <2>1 DEF PresentTold
<1> QED BY <1>10, <1>12

LEMMA PollKeeps ==
  ASSUME TimelineInv, NEW c \in Contents, NEW m \in Methods, Poll(c, m)
  PROVE  TimelineInv'
<1>1. /\ observed' \in Seq(Observations) /\ told' \in Seq(Tellings)
      /\ RestsOnWhatIsSaid(told', observed') /\ DatesOnce(told') /\ StatusesTurn(told')
  BY PollParts, ZenonT(60)
<1>2. HistoryKept' /\ said' \in [Methods -> Seq(Contents \X Nat)]
  BY PollKeepsHistory
<1>3. PresentTold' /\ (~cameBack' => Era(told', observed', m))
  BY PollTells
<1>4. /\ entity' = entity /\ saidLast' = <<c, m>> /\ polls' = polls + 1 /\ polls < MaxPolls
      /\ cameBack' = (cameBack \/ (said[m] # <<>> /\ saidLast[2] # m))
  BY DEF Poll
<1>5. entity \in 0 .. MaxMerges /\ cameBack \in BOOLEAN /\ polls \in 0 .. MaxPolls
  BY DEF TimelineInv, TimelineTyped
<1>6. polls' \in 0 .. MaxPolls
  BY <1>4, <1>5, TimelineAssumption
<1>7. cameBack' \in BOOLEAN
  BY <1>4, <1>5, Zenon
<1>8. saidLast' \in Contents \X Methods /\ saidLast'[2] = m
  BY <1>4
<1>9. TimelineTyped'
  BY <1>1, <1>2, <1>4, <1>5, <1>6, <1>7, <1>8 DEF TimelineTyped
<1> QED
  BY <1>1, <1>2, <1>3, <1>8, <1>9 DEF TimelineInv

\* A merge changes neither what was observed nor what was told.
LEMMA MergeKeeps == TimelineInv /\ MergeEntity => TimelineInv'
<1> SUFFICES ASSUME TimelineInv, MergeEntity PROVE TimelineInv'
  OBVIOUS
<1>1. entity' \in 0 .. MaxMerges
  BY TimelineAssumption DEF MergeEntity, TimelineInv, TimelineTyped
<1>2. UNCHANGED <<observed, told, saidLast, cameBack, said, polls>>
  BY DEF MergeEntity
<1>3. TimelineTyped'
  BY <1>1, <1>2 DEF TimelineInv, TimelineTyped
<1>4. HistoryKept' /\ PresentTold'
  BY <1>2 DEF TimelineInv, HistoryKept, PresentTold
<1> QED
  BY <1>2, <1>3, <1>4 DEF TimelineInv

LEMMA TimelineSteps == TimelineInv /\ [TimelineNext]_timelineVars => TimelineInv'
<1> SUFFICES ASSUME TimelineInv, [TimelineNext]_timelineVars PROVE TimelineInv'
  OBVIOUS
<1>1. ASSUME NEW c \in Contents, NEW m \in Methods, Poll(c, m) PROVE TimelineInv'
  BY <1>1, PollKeeps
<1>2. CASE MergeEntity
  BY <1>2, MergeKeeps
<1>3. CASE UNCHANGED timelineVars
  <2>1. UNCHANGED <<observed, told, entity, saidLast, cameBack, said, polls>>
    BY <1>3 DEF timelineVars
  <2>2. TimelineTyped'
    BY <2>1 DEF TimelineInv, TimelineTyped
  <2>3. HistoryKept' /\ PresentTold'
    BY <2>1 DEF TimelineInv, HistoryKept, PresentTold
  <2> QED BY <2>1, <2>2, <2>3 DEF TimelineInv
<1> QED BY <1>1, <1>2, <1>3 DEF TimelineNext

LEMMA TimelineHolds == TimelineSpec => []TimelineInv
<1>1. TimelineInit => TimelineInv
  BY TimelineStarts
<1>2. TimelineInv /\ [TimelineNext]_timelineVars => TimelineInv'
  BY TimelineSteps
<1> QED BY <1>1, <1>2, PTL DEF TimelineSpec

\* Observations and events have the shapes the code gives them, and an event
\* has the value of the observation it rests on (record_observation,
\* record_event).
THEOREM TimelineTyping == TimelineSpec => []TimelineTypeOK
<1>1. ASSUME TimelineInv PROVE TimelineTypeOK
  <2>1. observed \in Seq([field: Field, method: Methods, raw: Contents, entity: 0..MaxMerges])
    BY <1>1 DEF TimelineInv, TimelineTyped, Observations
  <2>2. ASSUME NEW k \in DOMAIN told PROVE told[k].field \in Field
    <3>1. told[k] \in Tellings
      BY <1>1, LenProperties DEF TimelineInv, TimelineTyped
    <3> QED BY <3>1 DEF Tellings
  <2>3. \A k \in DOMAIN told : told[k].rests \in DOMAIN observed
                             /\ told[k].value = Value(observed[told[k].rests].raw, told[k].field)
    BY <1>1 DEF TimelineInv, RestsOnWhatIsSaid
  <2>4. /\ entity \in 0..MaxMerges /\ (saidLast # NoValue => saidLast \in Contents \X Methods)
        /\ cameBack \in BOOLEAN /\ polls \in 0..MaxPolls
    BY <1>1 DEF TimelineInv, TimelineTyped
  <2> QED BY <2>1, <2>2, <2>3, <2>4 DEF TimelineTypeOK
<1> QED BY <1>1, TimelineHolds, PTL

\* However many polls, contents and mappings, each series of observations says
\* what was polled with its mapping, in that order, from the first value on and
\* without repeats (_already_observed, project_record_observations).
THEOREM SeriesAreTheHistory == TimelineSpec => []TimelineIsTheHistory
<1>1. TimelineInv => TimelineIsTheHistory
  BY DEF TimelineInv, HistoryKept, Says, TimelineIsTheHistory
<1> QED BY <1>1, TimelineHolds, PTL

\* No date is told twice and no status twice running; the present date is told,
\* and the present status told last unless an earlier mapping came back
\* (_already_observed_event).
THEOREM EventsFollow == TimelineSpec => []EventsFollowTheRecord
<1>1. TimelineInv => EventsFollowTheRecord
  BY DEF TimelineInv, DatesOnce, StatusesTurn, PresentTold, EventsFollowTheRecord
<1> QED BY <1>1, TimelineHolds, PTL
=============================================================================
