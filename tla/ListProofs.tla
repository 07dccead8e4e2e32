----------------------------- MODULE ListProofs ------------------------------
(***************************************************************************)
(* Proofs about the components that keep a list of what has come: History, *)
(* and those that ListParts puts side by side, for any number of threads,  *)
(* phones, clips, files and toasts and any limits.  The list is what takes *)
(* the work: retain and filter keep the entries at a set of places, in     *)
(* their order, and all that the commands, the windows and the frames do   *)
(* to a list is to retain, to insert and to truncate.                      *)
(***************************************************************************)
EXTENDS History, ListParts, FiniteSetTheorems, SequenceTheorems, WellFoundedInduction, TLAPS

------------------------------------------------------------------------------
(* Places *)

\* Ranks grow by one at each place of the set and nowhere else.
LEMMA RankStep ==
  ASSUME NEW S \in SUBSET Nat, NEW i \in Nat
  PROVE  /\ Rank(S, i) \in Nat
         /\ Rank(S, i + 1) = IF i + 1 \in S THEN Rank(S, i) + 1 ELSE Rank(S, i)
<1>1. IsFiniteSet(1 .. i)
  BY FS_Interval
<1>2. IsFiniteSet(S \cap 1 .. i)
  BY <1>1, FS_Subset
<1>3. Cardinality(S \cap 1 .. i) \in Nat
  BY <1>2, FS_CardinalityType
<1>4. CASE i + 1 \in S
  <2>1. S \cap 1 .. i + 1 = (S \cap 1 .. i) \cup {i + 1}
    BY <1>4
  <2>2. i + 1 \notin S \cap 1 .. i
    OBVIOUS
  <2> QED BY <1>2, <1>3, <1>4, <2>1, <2>2, FS_AddElement DEF Rank
<1>5. CASE i + 1 \notin S
  <2>1. S \cap 1 .. i + 1 = S \cap 1 .. i
    BY <1>5
  <2> QED BY <1>3, <1>5, <2>1 DEF Rank
<1> QED BY <1>4, <1>5

\* A set of numbers that is not empty has a least one.
LEMMA Least ==
  ASSUME NEW T \in SUBSET Nat, T # {}
  PROVE  \E m \in T : \A k \in T : m <= k
<1>1. IsWellFoundedOn(OpToRel(<, Nat), Nat)
  BY NatLessThanWellFounded
<1>2. PICK m \in T : \A k \in T : <<k, m>> \notin OpToRel(<, Nat)
  BY <1>1, WFMin
<1>3. \A k \in T : m <= k
  <2>1. \A k \in T : ~(k < m)
    BY <1>2 DEF OpToRel
  <2> QED BY <2>1
<1> QED BY <1>3

\* Min, of the library, finds it.
LEMMA MinLeast ==
  ASSUME NEW T \in SUBSET Nat, T # {}
  PROVE  Min(T) \in T /\ \A k \in T : Min(T) <= k
BY Least DEF Min

\* Ranks do not fall.
LEMMA RankMonotone ==
  ASSUME NEW S \in SUBSET Nat, NEW i \in Nat, NEW j \in Nat, i <= j
  PROVE  Rank(S, i) <= Rank(S, j)
<1>1. IsFiniteSet(S \cap 1 .. j)
  <2>1. IsFiniteSet(1 .. j)
    BY FS_Interval
  <2> QED BY <2>1, FS_Subset
<1>2. S \cap 1 .. i \in SUBSET (S \cap 1 .. j)
  OBVIOUS
<1> QED BY <1>1, <1>2, FS_Subset DEF Rank

\* A place of the set has a higher rank than those before it.
LEMMA RankRises ==
  ASSUME NEW S \in SUBSET Nat, NEW i \in Nat, NEW j \in S, i < j
  PROVE  Rank(S, i) < Rank(S, j)
<1>1. j - 1 \in Nat /\ i <= j - 1 /\ (j - 1) + 1 = j
  OBVIOUS
<1>2. Rank(S, j) = Rank(S, j - 1) + 1 /\ Rank(S, j - 1) \in Nat
  BY <1>1, RankStep
<1>3. Rank(S, i) <= Rank(S, j - 1) /\ Rank(S, i) \in Nat
  BY <1>1, RankMonotone, RankStep
<1> QED BY <1>2, <1>3

\* The place of each rank.
Place(S, k) == CHOOSE i \in S : Rank(S, i) = k

\* The place of each rank is in the set and has that rank.
LEMMA PlaceOfRank ==
  ASSUME NEW n \in Nat, NEW S \in SUBSET (1 .. n), NEW k \in 1 .. Cardinality(S)
  PROVE  Place(S, k) \in S /\ Rank(S, Place(S, k)) = k
<1> DEFINE T == {i \in Nat : Rank(S, i) >= k}
<1>1. S \in SUBSET Nat /\ IsFiniteSet(S) /\ Cardinality(S) \in Nat
  <2>1. IsFiniteSet(1 .. n)
    BY FS_Interval
  <2>2. IsFiniteSet(S)
    BY <2>1, FS_Subset
  <2> QED BY <2>2, FS_CardinalityType
<1>2. n \in T
  <2>1. S \cap 1 .. n = S
    OBVIOUS
  <2> QED BY <1>1, <2>1 DEF Rank
<1>3. PICK m \in T : \A i \in T : m <= i
  <2>1. T \in SUBSET Nat /\ T # {}
    BY <1>2
  <2> HIDE DEF T
  <2> QED BY <2>1, Least
<1>4. m # 0
  <2>1. S \cap 1 .. 0 = {}
    OBVIOUS
  <2>2. Rank(S, 0) = 0
    BY <2>1, FS_EmptySet DEF Rank
  <2> QED BY <1>1, <1>3, <2>2
<1>5. m - 1 \in Nat /\ (m - 1) + 1 = m /\ m - 1 \notin T
  BY <1>3, <1>4
<1>6. /\ Rank(S, m - 1) \in Nat /\ ~(Rank(S, m - 1) >= k)
      /\ Rank(S, m) = IF m \in S THEN Rank(S, m - 1) + 1 ELSE Rank(S, m - 1)
  <2>1. /\ Rank(S, m - 1) \in Nat
        /\ Rank(S, (m - 1) + 1) =
             IF (m - 1) + 1 \in S THEN Rank(S, m - 1) + 1 ELSE Rank(S, m - 1)
    BY <1>1, <1>5, RankStep
  <2> QED BY <1>5, <2>1
<1>7. m \in S /\ Rank(S, m) = k
  BY <1>1, <1>3, <1>6
<1> QED BY <1>7 DEF Place

------------------------------------------------------------------------------
(* Lists *)

\* The entries that are retained are those at the places, each once.
LEMMA Retained ==
  ASSUME NEW X, NEW q \in Seq(X), NEW S \in SUBSET (DOMAIN q)
  PROVE  /\ Cardinality(S) \in 0 .. Len(q)
         /\ Retain(q, S) \in Seq(X) /\ Len(Retain(q, S)) = Cardinality(S)
         /\ \A k \in 1 .. Cardinality(S) : /\ Place(S, k) \in S
                                           /\ Retain(q, S)[k] = q[Place(S, k)]
         /\ \A j, k \in 1 .. Cardinality(S) : Place(S, j) = Place(S, k) => j = k
         /\ \A i \in S : \E k \in 1 .. Cardinality(S) : Place(S, k) = i
<1> DEFINE n == Len(q)
           c == Cardinality(S)
           r == Retain(q, S)
<1>1. n \in Nat /\ S \in SUBSET (1 .. n) /\ S \in SUBSET Nat
  OBVIOUS
<1> HIDE DEF n
<1>2. c \in Nat /\ c <= n /\ IsFiniteSet(S)
  <2>1. IsFiniteSet(1 .. n) /\ Cardinality(1 .. n) = n
    BY <1>1, FS_Interval
  <2>2. IsFiniteSet(S) /\ c <= n
    BY <1>1, <2>1, FS_Subset
  <2> QED BY <2>2, FS_CardinalityType
<1> HIDE DEF c
<1>3. \A k \in 1 .. c : Place(S, k) \in S /\ Rank(S, Place(S, k)) = k
  BY <1>1, PlaceOfRank DEF c
<1>4. r = [k \in 1 .. c |-> q[Place(S, k)]]
  BY DEF Retain, Place, c
<1> HIDE DEF r
<1>5. \A k \in 1 .. c : q[Place(S, k)] \in X
  BY <1>1, <1>3 DEF n
<1>6. r \in Seq(X) /\ Len(r) = c /\ \A k \in 1 .. c : r[k] = q[Place(S, k)]
  <2>1. r \in [1 .. c -> X]
    BY <1>4, <1>5
  <2> QED BY <1>2, <1>4, <2>1
<1>7. ASSUME NEW i \in S PROVE \E k \in 1 .. c : Place(S, k) = i
  <2>1. i \in Nat /\ 1 <= i /\ i <= n
    BY <1>1
  <2>2. Rank(S, 0) = 0
    <3>1. S \cap 1 .. 0 = {}
      OBVIOUS
    <3> QED BY <3>1, FS_EmptySet DEF Rank
  <2>3. Rank(S, n) = c
    <3>1. S \cap 1 .. n = S
      BY <1>1
    <3> QED BY <3>1 DEF Rank, c
  <2>4. Rank(S, i) \in 1 .. c
    <3>1. Rank(S, 0) < Rank(S, i)
      BY <1>1, <2>1, RankRises
    <3>2. Rank(S, i) <= Rank(S, n) /\ Rank(S, i) \in Nat
      BY <1>1, <2>1, RankMonotone, RankStep
    <3> QED BY <1>2, <2>2, <2>3, <3>1, <3>2
  <2> DEFINE j == Place(S, Rank(S, i))
  <2>5. j \in S /\ Rank(S, j) = Rank(S, i) /\ j \in Nat
    BY <1>1, <1>3, <2>4
  <2> HIDE DEF j
  <2>6. ~(i < j)
    BY <1>1, <2>1, <2>4, <2>5, RankRises
  <2>7. ~(j < i)
    BY <1>1, <2>1, <2>4, <2>5, RankRises
  <2>8. j = i
    BY <2>1, <2>5, <2>6, <2>7
  <2> QED BY <2>4, <2>8 DEF j
<1>8. \A j, k \in 1 .. c : Place(S, j) = Place(S, k) => j = k
  BY <1>3
<1> QED BY <1>2, <1>3, <1>6, <1>7, <1>8 DEF c, n, r

\* What is retained keeps its order.
LEMMA RetainedOrder ==
  ASSUME NEW X, NEW q \in Seq(X), NEW S \in SUBSET (DOMAIN q),
         NEW j \in 1 .. Cardinality(S), NEW k \in 1 .. Cardinality(S), j < k
  PROVE  Place(S, j) < Place(S, k)
<1>1. Len(q) \in Nat /\ S \in SUBSET (1 .. Len(q)) /\ S \in SUBSET Nat
  OBVIOUS
<1>2. /\ Place(S, j) \in S /\ Rank(S, Place(S, j)) = j
      /\ Place(S, k) \in S /\ Rank(S, Place(S, k)) = k
  BY <1>1, PlaceOfRank
<1>3. Place(S, j) \in Nat /\ Place(S, k) \in Nat
  BY <1>1, <1>2
<1>4. ASSUME Place(S, k) <= Place(S, j) PROVE FALSE
  <2>1. Rank(S, Place(S, k)) <= Rank(S, Place(S, j))
    BY <1>1, <1>3, <1>4, RankMonotone
  <2>2. j \in Nat /\ k \in Nat /\ k <= j
    <3>1. Cardinality(S) \in 0 .. Len(q)
      BY Retained
    <3> QED BY <1>2, <2>1, <3>1
  <2> QED BY <2>2
<1> QED BY <1>3, <1>4

\* Entry by entry, and two by two.
LEMMA RetainedSteps ==
  ASSUME NEW X, NEW q \in Seq(X), NEW S \in SUBSET (DOMAIN q)
  PROVE  /\ Retain(q, S) \in Seq(X)
         /\ \A i \in DOMAIN Retain(q, S) : \E c \in S : Retain(q, S)[i] = q[c]
         /\ \A i, j \in DOMAIN Retain(q, S) : i < j =>
              \E c, d \in S : c < d /\ Retain(q, S)[i] = q[c] /\ Retain(q, S)[j] = q[d]
<1> DEFINE r == Retain(q, S)
           n == Cardinality(S)
<1>1. r \in Seq(X) /\ Len(r) = n
  BY Retained
<1>2. DOMAIN r = 1 .. n
  BY <1>1
<1>3. \A k \in 1 .. n : Place(S, k) \in S /\ r[k] = q[Place(S, k)]
  BY Retained
<1>4. \A j, k \in 1 .. n : j < k => Place(S, j) < Place(S, k)
  BY RetainedOrder
<1> HIDE DEF r, n
<1>5. ASSUME NEW i \in DOMAIN r PROVE \E c \in S : r[i] = q[c]
  BY <1>2, <1>3
<1>6. ASSUME NEW i \in DOMAIN r, NEW j \in DOMAIN r, i < j
      PROVE  \E c, d \in S : c < d /\ r[i] = q[c] /\ r[j] = q[d]
  <2>1. Place(S, i) \in S /\ Place(S, j) \in S /\ Place(S, i) < Place(S, j)
    BY <1>2, <1>3, <1>4, <1>6
  <2> QED BY <1>2, <1>3, <2>1
<1> QED BY <1>1, <1>5, <1>6 DEF r

\* What is retained is what stood at the places.
LEMMA RetainedSet ==
  ASSUME NEW X, NEW q \in Seq(X), NEW S \in SUBSET (DOMAIN q)
  PROVE  ToSet(Retain(q, S)) = {q[i] : i \in S}
<1> DEFINE r == Retain(q, S)
           c == Cardinality(S)
<1>1. /\ r \in Seq(X) /\ DOMAIN r = 1 .. c
      /\ \A k \in 1 .. c : Place(S, k) \in S /\ r[k] = q[Place(S, k)]
      /\ \A i \in S : \E k \in 1 .. c : Place(S, k) = i
  <2>1. r \in Seq(X) /\ Len(r) = c
    BY Retained
  <2>2. DOMAIN r = 1 .. c
    BY <2>1
  <2> QED BY <2>1, <2>2, Retained
<1> HIDE DEF r, c
<1>2. ASSUME NEW k \in 1 .. c PROVE r[k] \in {q[i] : i \in S}
  BY <1>1
<1>3. ASSUME NEW i \in S PROVE \E k \in DOMAIN r : r[k] = q[i]
  BY <1>1
<1> QED BY <1>1, <1>2, <1>3 DEF ToSet, r

\* A function on the first k numbers is a sequence.
LEMMA IndexedIsSeq ==
  ASSUME NEW X, NEW k \in Nat, NEW e \in [1 .. k -> X]
  PROVE  e \in Seq(X) /\ Len(e) = k /\ DOMAIN e = 1 .. k
OBVIOUS

\* An insertion moves the entries from its place on down by one.
LEMMA Inserted ==
  ASSUME NEW X, NEW q \in Seq(X), NEW p \in 1 .. Len(q) + 1, NEW e \in X
  PROVE  /\ InsertAt(q, p, e) \in Seq(X)
         /\ Len(InsertAt(q, p, e)) = Len(q) + 1
         /\ InsertAt(q, p, e)[p] = e
         /\ \A j \in 1 .. Len(q) : InsertAt(q, p, e)[IF j < p THEN j ELSE j + 1] = q[j]
         /\ \A j \in 1 .. Len(q) + 1 :
              j # p => InsertAt(q, p, e)[j] = q[IF j < p THEN j ELSE j - 1]
<1> DEFINE n == Len(q)
           a == SubSeq(q, 1, p - 1)
           b == SubSeq(q, p, n)
           r == InsertAt(q, p, e)
<1>1. n \in Nat /\ p \in Nat /\ 1 <= p /\ p <= n + 1 /\ \A j \in 1 .. n : q[j] \in X
  OBVIOUS
<1> HIDE DEF n
<1>2. a \in Seq(X) /\ Len(a) = p - 1 /\ \A j \in 1 .. p - 1 : a[j] = q[j]
  <2>1. \A j \in 1 .. p - 1 : q[j] \in X
    BY <1>1
  <2>2. 1 \in Int /\ p - 1 \in Int /\ (p - 1) - 1 + 1 = p - 1
    BY <1>1
  <2>3. /\ a \in Seq(X) /\ Len(a) = IF 1 <= p - 1 THEN (p - 1) - 1 + 1 ELSE 0
        /\ \A j \in 1 .. (p - 1) - 1 + 1 : a[j] = q[1 + j - 1]
    BY <2>1, <2>2, SubSeqProperties
  <2> HIDE DEF a
  <2> QED BY <1>1, <2>2, <2>3
<1>3. b \in Seq(X) /\ Len(b) = n - p + 1 /\ \A j \in 1 .. n - p + 1 : b[j] = q[p + j - 1]
  <2>1. \A j \in p .. n : q[j] \in X
    BY <1>1
  <2>2. p \in Int /\ n \in Int
    BY <1>1
  <2>3. /\ b \in Seq(X) /\ Len(b) = IF p <= n THEN n - p + 1 ELSE 0
        /\ \A j \in 1 .. n - p + 1 : b[j] = q[p + j - 1]
    BY <2>1, <2>2, SubSeqProperties
  <2> HIDE DEF b
  <2> QED BY <1>1, <2>3
<1> DEFINE c == a \o <<e>>
<1>4. r = c \o b
  BY DEF InsertAt, n
<1> HIDE DEF a, b, r
<1>5. /\ c \in Seq(X) /\ Len(c) = p
      /\ \A j \in 1 .. p - 1 : c[j] = a[j]
      /\ c[p] = e
  <2> DEFINE one == <<e>>
  <2>1. one \in Seq(X) /\ Len(one) = 1 /\ one[1] = e
    OBVIOUS
  <2> HIDE DEF one
  <2>2. /\ a \o one \in Seq(X) /\ Len(a \o one) = Len(a) + Len(one)
        /\ \A j \in 1 .. Len(a) + Len(one) :
             (a \o one)[j] = IF j <= Len(a) THEN a[j] ELSE one[j - Len(a)]
    BY <1>2, <2>1, ConcatProperties
  <2>3. c = a \o one
    BY DEF one
  <2> HIDE DEF c
  <2>4. Len(c) = p /\ Len(a) + Len(one) = p
    BY <1>1, <1>2, <2>1, <2>2, <2>3
  <2>5. \A j \in 1 .. p - 1 : c[j] = a[j]
    BY <1>1, <1>2, <2>2, <2>3, <2>4
  <2>6. c[p] = e
    <3>1. p \in 1 .. p /\ ~(p <= p - 1) /\ p - (p - 1) = 1
      BY <1>1
    <3> QED BY <1>2, <2>1, <2>2, <2>3, <2>4, <3>1
  <2> QED BY <2>2, <2>3, <2>4, <2>5, <2>6
<1> HIDE DEF c
<1>6. /\ r \in Seq(X) /\ Len(r) = n + 1
      /\ \A j \in 1 .. n + 1 : r[j] = IF j <= p THEN c[j] ELSE b[j - p]
  <2>1. /\ c \o b \in Seq(X) /\ Len(c \o b) = Len(c) + Len(b)
        /\ \A j \in 1 .. Len(c) + Len(b) : (c \o b)[j] = IF j <= Len(c) THEN c[j] ELSE b[j - Len(c)]
    BY <1>3, <1>5, ConcatProperties, ZenonT(60)
  <2>2. Len(c) + Len(b) = n + 1 /\ Len(c) = p
    BY <1>1, <1>3, <1>5
  <2> QED BY <1>4, <2>1, <2>2
<1>7. r[p] = e
  BY <1>1, <1>5, <1>6
<1>8. ASSUME NEW j \in 1 .. n + 1, j # p PROVE r[j] = q[IF j < p THEN j ELSE j - 1]
  <2>1. CASE j < p
    BY <1>1, <1>2, <1>5, <1>6, <2>1
  <2>2. CASE j > p
    <3>1. r[j] = b[j - p]
      BY <1>1, <1>6, <2>2
    <3>2. j - p \in 1 .. n - p + 1 /\ p + (j - p) - 1 = j - 1
      BY <1>1, <2>2
    <3>3. b[j - p] = q[p + (j - p) - 1]
      BY <1>3, <3>2
    <3> QED BY <1>1, <2>2, <3>1, <3>2, <3>3, SMTT(60)
  <2> QED BY <1>1, <1>8, <2>1, <2>2
<1>9. ASSUME NEW j \in 1 .. n PROVE r[IF j < p THEN j ELSE j + 1] = q[j]
  <2>1. CASE j < p
    <3>1. j \in 1 .. n + 1 /\ j # p
      BY <1>1, <2>1
    <3> QED BY <1>8, <2>1, <3>1
  <2>2. CASE ~(j < p)
    <3>1. j + 1 \in 1 .. n + 1 /\ j + 1 # p /\ ~(j + 1 < p) /\ (j + 1) - 1 = j
      BY <1>1, <2>2
    <3> QED BY <1>8, <2>2, <3>1
  <2> QED BY <2>1, <2>2
<1> QED BY <1>6, <1>7, <1>8, <1>9 DEF n, r

\* What is inserted joins the items, and takes none away.
LEMMA InsertedSet ==
  ASSUME NEW X, NEW q \in Seq(X), NEW p \in 1 .. Len(q) + 1, NEW e \in X
  PROVE  ToSet(InsertAt(q, p, e)) = ToSet(q) \cup {e}
<1> DEFINE n == Len(q)
           r == InsertAt(q, p, e)
<1>1. /\ n \in Nat /\ p \in 1 .. n + 1 /\ DOMAIN q = 1 .. n /\ DOMAIN r = 1 .. n + 1
      /\ r[p] = e
      /\ \A j \in 1 .. n : r[IF j < p THEN j ELSE j + 1] = q[j]
      /\ \A j \in 1 .. n + 1 : j # p => r[j] = q[IF j < p THEN j ELSE j - 1]
  <2>1. r \in Seq(X) /\ Len(r) = n + 1
    <3>1. InsertAt(q, p, e) \in Seq(X) /\ Len(InsertAt(q, p, e)) = Len(q) + 1
      BY ONLY q \in Seq(X), p \in 1 .. Len(q) + 1, e \in X, Inserted
    <3> QED BY <3>1
  <2>2. DOMAIN r = 1 .. n + 1
    BY <2>1
  <2>3. n \in Nat /\ p \in 1 .. n + 1 /\ DOMAIN q = 1 .. n
    OBVIOUS
  <2>4. /\ r[p] = e
        /\ \A j \in 1 .. n : r[IF j < p THEN j ELSE j + 1] = q[j]
        /\ \A j \in 1 .. n + 1 : j # p => r[j] = q[IF j < p THEN j ELSE j - 1]
    BY Inserted
  <2> HIDE DEF n, r
  <2> QED BY <2>2, <2>3, <2>4
<1> HIDE DEF n, r
<1>2. ASSUME NEW j \in 1 .. n + 1, j # p PROVE r[j] \in ToSet(q)
  <2> DEFINE i == IF j < p THEN j ELSE j - 1
  <2>1. i \in 1 .. n /\ r[j] = q[i]
    BY <1>1, <1>2
  <2> QED BY <1>1, <2>1 DEF ToSet
<1>3. ASSUME NEW j \in 1 .. n PROVE q[j] \in ToSet(r)
  <2> DEFINE i == IF j < p THEN j ELSE j + 1
  <2>1. i \in 1 .. n + 1 /\ r[i] = q[j]
    BY <1>1
  <2> QED BY <1>1, <2>1 DEF ToSet
<1>4. ToSet(r) \subseteq ToSet(q) \cup {e}
  <2> SUFFICES ASSUME NEW j \in 1 .. n + 1 PROVE r[j] \in ToSet(q) \cup {e}
    BY <1>1 DEF ToSet
  <2> QED BY <1>1, <1>2
<1>5. ToSet(q) \subseteq ToSet(r)
  BY <1>1, <1>3 DEF ToSet
<1>6. e \in ToSet(r)
  BY <1>1 DEF ToSet
<1> QED BY <1>4, <1>5, <1>6 DEF r

\* Each clip once.
Once(q) == \A i, j \in DOMAIN q : i # j => q[i].id # q[j].id /\ q[i].text # q[j].text

\* What is retained of a list without repetitions has none.
LEMMA RetainedOnce ==
  ASSUME NEW q \in Seq(Entries), NEW S \in SUBSET (DOMAIN q), Once(q)
  PROVE  Once(Retain(q, S))
<1> DEFINE r == Retain(q, S)
           c == Cardinality(S)
<1>1. DOMAIN r = 1 .. c
  <2>1. r \in Seq(Entries) /\ Len(r) = c
    BY Retained
  <2> QED BY <2>1
<1>2. /\ \A k \in 1 .. c : Place(S, k) \in S /\ r[k] = q[Place(S, k)]
      /\ \A j, k \in 1 .. c : Place(S, j) = Place(S, k) => j = k
  BY Retained
<1> HIDE DEF r, c
<1> SUFFICES ASSUME NEW j \in 1 .. c, NEW k \in 1 .. c, j # k
             PROVE  r[j].id # r[k].id /\ r[j].text # r[k].text
  BY <1>1 DEF Once, r
<1>3. Place(S, j) \in DOMAIN q /\ Place(S, k) \in DOMAIN q /\ Place(S, j) # Place(S, k)
  BY <1>2
<1> QED BY <1>2, <1>3 DEF Once

\* Nor has a list into which an item is inserted that it had not.
LEMMA InsertedOnce ==
  ASSUME NEW q \in Seq(Entries), NEW p \in 1 .. Len(q) + 1, NEW e \in Entries, Once(q),
         \A x \in ToSet(q) : x.id # e.id /\ x.text # e.text
  PROVE  Once(InsertAt(q, p, e))
<1> DEFINE n == Len(q)
           r == InsertAt(q, p, e)
           At(j) == IF j < p THEN j ELSE j - 1
<1>1. n \in Nat /\ p \in 1 .. n + 1 /\ DOMAIN q = 1 .. n
  OBVIOUS
<1>2. DOMAIN r = 1 .. n + 1
  <2>1. r \in Seq(Entries) /\ Len(r) = n + 1
    BY Inserted
  <2> QED BY <2>1
<1>3. r[p] = e /\ \A j \in 1 .. n + 1 : j # p => r[j] = q[At(j)]
  BY Inserted
<1> HIDE DEF n, r
<1>4. \A j \in 1 .. n + 1 : j # p => At(j) \in DOMAIN q
  BY <1>1
<1>5. \A j, k \in 1 .. n + 1 : j # p /\ k # p /\ j # k => At(j) # At(k)
  BY <1>1
<1>6. \A i \in DOMAIN q : q[i].id # e.id /\ q[i].text # e.text
  BY DEF ToSet
<1> HIDE DEF At
<1> SUFFICES ASSUME NEW j \in 1 .. n + 1, NEW k \in 1 .. n + 1, j # k
             PROVE  r[j].id # r[k].id /\ r[j].text # r[k].text
  BY <1>2 DEF Once, r
<1>7. CASE j = p
  BY <1>3, <1>4, <1>6, <1>7
<1>8. CASE k = p
  BY <1>3, <1>4, <1>6, <1>8
<1>9. CASE j # p /\ k # p
  BY <1>3, <1>4, <1>5, <1>9 DEF Once
<1> QED BY <1>7, <1>8, <1>9

\* What truncate leaves.
LEMMA Truncated ==
  ASSUME NEW X, NEW q \in Seq(X), NEW m \in 0 .. Len(q)
  PROVE  /\ SubSeq(q, 1, m) \in Seq(X) /\ Len(SubSeq(q, 1, m)) = m
         /\ \A i \in 1 .. m : SubSeq(q, 1, m)[i] = q[i]
<1> DEFINE r == SubSeq(q, 1, m)
<1>1. 1 \in Int /\ m \in Int /\ m - 1 + 1 = m /\ \A i \in 1 .. m : q[i] \in X
  OBVIOUS
<1>2. /\ r \in Seq(X) /\ Len(r) = IF 1 <= m THEN m - 1 + 1 ELSE 0
      /\ \A i \in 1 .. m - 1 + 1 : r[i] = q[1 + i - 1]
  BY <1>1, SubSeqProperties
<1> HIDE DEF r
<1>3. \A i \in 1 .. m : 1 + i - 1 = i
  OBVIOUS
<1>4. Len(r) = m /\ \A i \in 1 .. m : r[i] = q[i]
  BY <1>1, <1>2, <1>3
<1> QED BY <1>2, <1>4 DEF r

\* What a list that is cut to n entries has when one is put on top.
LEMMA Topped ==
  ASSUME NEW X, NEW q \in Seq(X), NEW e \in X, NEW n \in Nat
  PROVE  LET all == <<e>> \o q
             top == SubSeq(all, 1, IF Len(all) > n THEN n ELSE Len(all))
         IN  /\ top \in Seq(X)
             /\ Len(top) = IF Len(q) + 1 > n THEN n ELSE Len(q) + 1
             /\ \A k \in 1 .. Len(top) : top[k] = IF k = 1 THEN e ELSE q[k - 1]
<1> DEFINE all == <<e>> \o q
           m == IF Len(all) > n THEN n ELSE Len(all)
           top == SubSeq(all, 1, m)
           one == <<e>>
<1>1. one \in Seq(X) /\ Len(one) = 1 /\ one[1] = e
  OBVIOUS
<1>2. /\ all \in Seq(X) /\ Len(all) = Len(q) + 1
      /\ \A k \in 1 .. Len(q) + 1 : all[k] = IF k = 1 THEN e ELSE q[k - 1]
  <2> HIDE DEF one
  <2>1. all = one \o q
    BY DEF one
  <2>2. /\ one \o q \in Seq(X) /\ Len(one \o q) = Len(one) + Len(q)
        /\ \A k \in 1 .. Len(one) + Len(q) :
             (one \o q)[k] = IF k <= Len(one) THEN one[k] ELSE q[k - Len(one)]
    BY <1>1, ConcatProperties
  <2> HIDE DEF all
  <2>3. Len(q) \in Nat
    OBVIOUS
  <2> QED BY <1>1, <2>1, <2>2, <2>3
<1> HIDE DEF all, one
<1>3. m \in 0 .. Len(all) /\ m = IF Len(q) + 1 > n THEN n ELSE Len(q) + 1
  BY <1>2
<1> HIDE DEF m
<1>4. top \in Seq(X) /\ Len(top) = m /\ \A k \in 1 .. m : top[k] = all[k]
  BY <1>2, <1>3, Truncated
<1> HIDE DEF top
<1>5. \A k \in 1 .. Len(top) : top[k] = IF k = 1 THEN e ELSE q[k - 1]
  BY <1>2, <1>3, <1>4
<1> QED BY <1>3, <1>4, <1>5 DEF top, m, all

\* What is taken from a queue, and what is left.
LEMMA Taken ==
  ASSUME NEW S, NEW q \in Seq(S), q # <<>>
  PROVE  /\ Head(q) \in S /\ Head(q) = q[1] /\ 1 \in DOMAIN q
         /\ Tail(q) \in Seq(S)
         /\ \A k \in DOMAIN Tail(q) : k + 1 \in DOMAIN q /\ Tail(q)[k] = q[k + 1]
         /\ \A k \in DOMAIN q : k # 1 => k - 1 \in DOMAIN Tail(q) /\ q[k] = Tail(q)[k - 1]
<1>1. /\ Len(q) \in Nat \ {0} /\ DOMAIN q = 1 .. Len(q) /\ Head(q) = q[1]
      /\ Tail(q) \in Seq(S) /\ Len(Tail(q)) = Len(q) - 1
      /\ DOMAIN Tail(q) = 1 .. Len(Tail(q))
      /\ \A k \in 1 .. Len(q) - 1 : Tail(q)[k] = q[k + 1]
  BY HeadTailProperties
<1>2. 1 \in DOMAIN q /\ q[1] \in S
  BY <1>1
<1>3. \A k \in DOMAIN Tail(q) : k \in 1 .. Len(q) - 1 /\ k + 1 \in DOMAIN q
  BY <1>1
<1>4. \A k \in DOMAIN q : k # 1 => k - 1 \in DOMAIN Tail(q) /\ (k - 1) + 1 = k
  BY <1>1
<1> QED BY <1>1, <1>2, <1>3, <1>4

\* What is added to a queue comes last.
LEMMA Added ==
  ASSUME NEW S, NEW q \in Seq(S), NEW e \in S
  PROVE  /\ Append(q, e) \in Seq(S)
         /\ DOMAIN Append(q, e) = DOMAIN q \cup {Len(q) + 1}
         /\ Append(q, e)[Len(q) + 1] = e
         /\ \A k \in DOMAIN q : Append(q, e)[k] = q[k] /\ k < Len(q) + 1
<1>1. /\ Append(q, e) \in Seq(S) /\ Len(Append(q, e)) = Len(q) + 1
      /\ DOMAIN q = 1 .. Len(q) /\ DOMAIN Append(q, e) = 1 .. Len(Append(q, e))
      /\ Len(q) \in Nat
      /\ \A k \in 1 .. Len(q) : Append(q, e)[k] = q[k]
      /\ Append(q, e)[Len(q) + 1] = e
  BY AppendProperties
<1> QED BY <1>1

------------------------------------------------------------------------------
(* What is left of a list, and in which order *)

\* f goes through the m places of S, in their order.
Counts(f, m, S) ==
  /\ f \in [1 .. m -> S]
  /\ \A i, j \in 1 .. m : i < j => f[i] < f[j]
  /\ \A x \in S : \E i \in 1 .. m : f[i] = x

Alike(f, m, g, n) == m = n /\ \A k \in 1 .. m : f[k] = g[k]

\* Two counts of the same places are one.
LEMMA SameOrder ==
  ASSUME NEW S \in SUBSET Nat, NEW m \in Nat, NEW n \in Nat, NEW f, NEW g,
         Counts(f, m, S), Counts(g, n, S)
  PROVE  Alike(f, m, g, n)
<1>0. /\ f \in [1 .. m -> S] /\ g \in [1 .. n -> S]
      /\ \A i, j \in 1 .. m : i < j => f[i] < f[j]
      /\ \A i, j \in 1 .. n : i < j => g[i] < g[j]
      /\ \A x \in S : \E i \in 1 .. m : f[i] = x
      /\ \A x \in S : \E i \in 1 .. n : g[i] = x
  BY DEF Counts
<1> DEFINE T == {k \in Nat : k \in 1 .. m /\ k \in 1 .. n /\ f[k] # g[k]}
<1>1. /\ \A k \in 1 .. m : f[k] \in S /\ f[k] \in Nat
      /\ \A k \in 1 .. n : g[k] \in S /\ g[k] \in Nat
  BY <1>0
<1>2. T = {}
  <2> SUFFICES ASSUME T # {} PROVE FALSE
    OBVIOUS
  <2>1. PICK k \in T : \A l \in T : k <= l
    <3> HIDE DEF T
    <3>1. T \in SUBSET Nat
      BY DEF T
    <3> QED BY <3>1, Least
  <2>2. k \in 1 .. m /\ k \in 1 .. n /\ f[k] # g[k]
    OBVIOUS
  <2>3. \A j \in 1 .. k - 1 : f[j] = g[j]
    <3>1. ASSUME NEW j \in 1 .. k - 1, f[j] # g[j] PROVE FALSE
      <4>1. j \in T /\ j < k
        BY <2>2, <3>1
      <4> QED BY <2>1, <2>2, <4>1
    <3> QED BY <3>1
  <2>4. CASE f[k] < g[k]
    <3>1. PICK j \in 1 .. n : g[j] = f[k]
      BY <1>0, <1>1, <2>2
    <3>2. j < k
      <4>1. ~(k < j) /\ j # k
        BY <1>0, <1>1, <2>2, <2>4, <3>1, SMTT(60)
      <4> QED BY <2>2, <4>1
    <3>3. f[j] = f[k] /\ f[j] < f[k]
      BY <1>0, <2>2, <2>3, <3>1, <3>2
    <3> QED BY <1>1, <2>2, <3>3
  <2>5. CASE g[k] < f[k]
    <3>1. PICK j \in 1 .. m : f[j] = g[k]
      BY <1>0, <1>1, <2>2
    <3>2. j < k
      <4>1. ~(k < j) /\ j # k
        BY <1>0, <1>1, <2>2, <2>5, <3>1, SMTT(60)
      <4> QED BY <2>2, <4>1
    <3>3. g[j] = g[k] /\ g[j] < g[k]
      BY <1>0, <2>2, <2>3, <3>1, <3>2
    <3> QED BY <1>1, <2>2, <3>3
  <2> QED BY <1>1, <2>2, <2>4, <2>5
<1>3. \A k \in 1 .. m : k \in 1 .. n => f[k] = g[k]
  BY <1>2
<1> HIDE DEF T
<1>4. ~(m < n)
  <2> SUFFICES ASSUME m < n PROVE FALSE
    OBVIOUS
  <2>1. m + 1 \in 1 .. n
    OBVIOUS
  <2>2. PICK j \in 1 .. m : f[j] = g[m + 1]
    BY <1>0, <1>1, <2>1
  <2>3. g[j] = g[m + 1] /\ j \in 1 .. n /\ j < m + 1
    BY <1>3, <2>2
  <2> QED BY <1>0, <1>1, <2>1, <2>3
<1>5. ~(n < m)
  <2> SUFFICES ASSUME n < m PROVE FALSE
    OBVIOUS
  <2>1. n + 1 \in 1 .. m
    OBVIOUS
  <2>2. PICK j \in 1 .. n : g[j] = f[n + 1]
    BY <1>0, <1>1, <2>1
  <2>3. f[j] = f[n + 1] /\ j \in 1 .. m /\ j < n + 1
    BY <1>3, <2>2
  <2> QED BY <1>0, <1>1, <2>1, <2>3
<1> QED BY <1>3, <1>4, <1>5 DEF Alike

\* What is retained, by any count of the places in their order.
LEMMA RetainedAs ==
  ASSUME NEW X, NEW q \in Seq(X), NEW S \in SUBSET (DOMAIN q), NEW m \in Nat,
         NEW f, Counts(f, m, S)
  PROVE  /\ Cardinality(S) = m /\ Retain(q, S) = [k \in 1 .. m |-> q[f[k]]]
         /\ \A k \in 1 .. m : Place(S, k) = f[k]
<1> DEFINE c == Cardinality(S)
           g == [k \in 1 .. c |-> Place(S, k)]
           r == Retain(q, S)
<1>1. /\ c \in Nat /\ r \in Seq(X) /\ Len(r) = c
      /\ \A k \in 1 .. c : Place(S, k) \in S /\ r[k] = q[Place(S, k)]
      /\ \A i \in S : \E k \in 1 .. c : Place(S, k) = i
  <2>1. c \in 0 .. Len(q) /\ Len(q) \in Nat
    BY Retained
  <2> QED BY <2>1, Retained
<1>2. \A j, k \in 1 .. c : j < k => Place(S, j) < Place(S, k)
  BY RetainedOrder
<1>3. S \in SUBSET Nat
  OBVIOUS
<1> HIDE DEF c, r
<1>4. g \in [1 .. c -> S] /\ \A k \in 1 .. c : g[k] = Place(S, k)
  BY <1>1
<1> HIDE DEF g
<1>5. Counts(g, c, S)
  BY <1>1, <1>2, <1>4 DEF Counts
<1>6. m = c /\ \A k \in 1 .. m : f[k] = g[k]
  <2>1. c \in Nat
    BY <1>1
  <2>2. Alike(f, m, g, c)
    BY <1>3, <1>5, <2>1, SameOrder
  <2> QED BY <2>2 DEF Alike
<1>7. r = [k \in 1 .. m |-> q[f[k]]]
  <2>1. r = [k \in 1 .. c |-> r[k]]
    BY <1>1
  <2> QED BY <1>1, <1>4, <1>6, <2>1
<1> QED BY <1>4, <1>6, <1>7 DEF c, r

\* All of a list is the list.
LEMMA RetainedAll ==
  ASSUME NEW X, NEW q \in Seq(X)
  PROVE  Retain(q, DOMAIN q) = q
<1> DEFINE n == Len(q)
           f == [k \in 1 .. n |-> k]
           S == DOMAIN q
<1>1. n \in Nat /\ S = 1 .. n /\ q = [k \in 1 .. n |-> q[k]]
  OBVIOUS
<1>2. f \in [1 .. n -> S] /\ \A k \in 1 .. n : f[k] = k
  BY <1>1
<1> HIDE DEF n, f
<1>3. Counts(f, n, S)
  BY <1>1, <1>2 DEF Counts
<1>4. Retain(q, S) = [k \in 1 .. n |-> q[f[k]]]
  <2>1. S \in SUBSET DOMAIN q
    OBVIOUS
  <2> HIDE DEF S
  <2>2. n \in Nat
    BY <1>1
  <2> QED BY <1>3, <2>1, <2>2, RetainedAs
<1> QED BY <1>1, <1>2, <1>4

\* To retain of what was retained is to retain at once.
LEMMA RetainedTwice ==
  ASSUME NEW X, NEW q \in Seq(X), NEW S \in SUBSET (DOMAIN q),
         NEW T \in SUBSET (DOMAIN Retain(q, S))
  PROVE  Retain(Retain(q, S), T) = Retain(q, {Place(S, k) : k \in T})
<1> DEFINE r == Retain(q, S)
           c == Cardinality(S)
           m == Cardinality(T)
           U == {Place(S, k) : k \in T}
           f == [k \in 1 .. m |-> Place(S, Place(T, k))]
<1>1. /\ r \in Seq(X) /\ DOMAIN r = 1 .. c
      /\ \A k \in 1 .. c : Place(S, k) \in S /\ r[k] = q[Place(S, k)]
  <2>1. r \in Seq(X) /\ Len(r) = c
    BY Retained
  <2> QED BY <2>1, Retained
<1>2. \A j, k \in 1 .. c : j < k => Place(S, j) < Place(S, k)
  BY RetainedOrder
<1> HIDE DEF r, c
<1>3. T \in SUBSET DOMAIN r
  BY DEF r
<1>4. /\ m \in Nat /\ Retain(r, T) \in Seq(X) /\ Len(Retain(r, T)) = m
      /\ \A k \in 1 .. m : Place(T, k) \in T /\ Retain(r, T)[k] = r[Place(T, k)]
      /\ \A i \in T : \E k \in 1 .. m : Place(T, k) = i
  <2>1. m \in 0 .. Len(r)
    BY <1>1, <1>3, Retained
  <2>2. Retain(r, T) \in Seq(X) /\ Len(Retain(r, T)) = m
    BY <1>1, <1>3, Retained
  <2>3. \A k \in 1 .. m : Place(T, k) \in T /\ Retain(r, T)[k] = r[Place(T, k)]
    <3>1. \A k \in 1 .. m : Place(T, k) \in T
      <4> HIDE DEF m
      <4> QED BY <1>1, <1>3, Retained DEF m
    <3>2. \A k \in 1 .. m : Retain(r, T)[k] = r[Place(T, k)]
      BY Zenon DEF Retain, Place
    <3> QED BY <3>1, <3>2
  <2>4. \A i \in T : \E k \in 1 .. m : Place(T, k) = i
    BY <1>1, <1>3, Retained
  <2>5. m \in Nat
    BY <1>1, <2>1
  <2> QED BY <2>2, <2>3, <2>4, <2>5
<1>5. \A j, k \in 1 .. m : j < k => Place(T, j) < Place(T, k)
  BY <1>1, <1>3, RetainedOrder
<1> HIDE DEF m
<1>6. U \in SUBSET DOMAIN q
  BY <1>1, <1>3
<1>7. f \in [1 .. m -> U] /\ \A k \in 1 .. m : f[k] = Place(S, Place(T, k))
  BY <1>4
<1>8. \A x \in U : \E i \in 1 .. m : f[i] = x
  BY <1>4, <1>7
<1> HIDE DEF f, U
<1>9. \A i, j \in 1 .. m : i < j => f[i] < f[j]
  BY <1>1, <1>2, <1>3, <1>4, <1>5, <1>7
<1>10. Counts(f, m, U)
  BY <1>7, <1>8, <1>9 DEF Counts
<1>11. Retain(q, U) = [k \in 1 .. m |-> q[f[k]]]
  BY <1>4, <1>6, <1>10, RetainedAs
<1>12. Retain(r, T) = [k \in 1 .. m |-> Retain(r, T)[k]]
  BY <1>4
<1>13. \A k \in 1 .. m : Retain(r, T)[k] = q[f[k]]
  BY <1>1, <1>3, <1>4, <1>7
<1> QED BY <1>11, <1>12, <1>13 DEF r, U

\* A list that has its chosen entries first is these and then the rest.
LEMMA RetainedSplit ==
  ASSUME NEW X, NEW q \in Seq(X), NEW p \in 0 .. Len(q)
  PROVE  Retain(q, 1 .. p) \o Retain(q, p + 1 .. Len(q)) = q
<1> DEFINE n == Len(q)
           S == 1 .. p
           T == p + 1 .. n
           f == [k \in 1 .. p |-> k]
           g == [k \in 1 .. n - p |-> p + k]
           a == Retain(q, S)
           b == Retain(q, T)
<1>1. n \in Nat /\ p \in Nat /\ p <= n /\ DOMAIN q = 1 .. n /\ n - p \in Nat
  OBVIOUS
<1>2. S \in SUBSET DOMAIN q /\ T \in SUBSET DOMAIN q
  BY <1>1
<1>3. f \in [1 .. p -> S] /\ \A k \in 1 .. p : f[k] = k
  OBVIOUS
<1>4. g \in [1 .. n - p -> T] /\ \A k \in 1 .. n - p : g[k] = p + k
  <2>1. \A k \in 1 .. n - p : p + k \in T
    BY <1>1
  <2> QED BY <2>1
<1> HIDE DEF f, g, n
<1>5. Counts(f, p, S)
  BY <1>3 DEF Counts
<1>6. Counts(g, n - p, T)
  <2>1. \A i, j \in 1 .. n - p : i < j => g[i] < g[j]
    BY <1>1, <1>4
  <2>2. ASSUME NEW x \in T PROVE \E i \in 1 .. n - p : g[i] = x
    <3>1. x - p \in 1 .. n - p /\ p + (x - p) = x
      BY <1>1
    <3> QED BY <1>4, <3>1
  <2> QED BY <1>4, <2>1, <2>2 DEF Counts
<1> HIDE DEF S, T
<1>7. a = [k \in 1 .. p |-> q[f[k]]]
  BY <1>1, <1>2, <1>5, RetainedAs
<1>8. b = [k \in 1 .. n - p |-> q[g[k]]]
  BY <1>1, <1>2, <1>6, RetainedAs
<1>9. a \in Seq(X) /\ b \in Seq(X)
  BY <1>2, Retained
<1> HIDE DEF a, b
<1>10. Len(a) = p /\ Len(b) = n - p
  BY <1>1, <1>7, <1>8, <1>9
<1>11. /\ a \o b \in Seq(X) /\ Len(a \o b) = n
       /\ \A i \in 1 .. n : (a \o b)[i] = IF i <= p THEN a[i] ELSE b[i - p]
  <2>1. /\ a \o b \in Seq(X) /\ Len(a \o b) = Len(a) + Len(b)
        /\ \A i \in 1 .. Len(a) + Len(b) :
             (a \o b)[i] = IF i <= Len(a) THEN a[i] ELSE b[i - Len(a)]
    BY <1>9, ConcatProperties
  <2>2. Len(a) + Len(b) = n
    BY <1>1, <1>10
  <2> QED BY <1>10, <2>1, <2>2
<1>12. \A i \in 1 .. n : (a \o b)[i] = q[i]
  <2>1. ASSUME NEW i \in 1 .. n PROVE (a \o b)[i] = q[i]
    <3>1. CASE i <= p
      <4>1. i \in 1 .. p
        BY <3>1
      <4> QED BY <1>3, <1>7, <1>11, <3>1, <4>1
    <3>2. CASE ~(i <= p)
      <4>1. i - p \in 1 .. n - p /\ p + (i - p) = i
        BY <1>1, <3>2
      <4> QED BY <1>4, <1>8, <1>11, <3>2, <4>1
    <3> QED BY <3>1, <3>2
  <2> QED BY <2>1
<1>13. a \o b = q
  <2>1. q \in Seq(X) /\ Len(q) = n
    BY DEF n
  <2> DEFINE ab == a \o b
  <2>2. ab \in Seq(X) /\ Len(ab) = n /\ \A i \in 1 .. n : ab[i] = q[i]
    BY <1>11, <1>12
  <2> HIDE DEF ab
  <2>3. ab = q
    BY <2>1, <2>2
  <2> QED BY <2>3 DEF ab
<1> QED BY <1>13 DEF a, b, S, T, n

\* Chosen and not chosen, no entry is lost.
LEMMA RetainedParts ==
  ASSUME NEW X, NEW q \in Seq(X), NEW S \in SUBSET (DOMAIN q)
  PROVE  Len(Retain(q, S)) + Len(Retain(q, DOMAIN q \ S)) = Len(q)
<1> DEFINE T == DOMAIN q \ S
           n == Len(q)
<1>1. n \in Nat /\ DOMAIN q = 1 .. n
  OBVIOUS
<1> HIDE DEF n
<1>2. IsFiniteSet(1 .. n) /\ Cardinality(1 .. n) = n
  <2>1. 1 \in Int /\ n \in Int
    BY <1>1
  <2>2. Cardinality(1 .. n) = IF 1 > n THEN 0 ELSE n - 1 + 1
    BY <2>1, FS_Interval
  <2>3. IsFiniteSet(1 .. n)
    BY <2>1, FS_Interval
  <2> QED BY <1>1, <2>2, <2>3
<1>3. IsFiniteSet(S) /\ IsFiniteSet(T)
  BY <1>1, <1>2, FS_Subset
<1>4. S \cap T = {} /\ S \cup T = 1 .. n
  BY <1>1
<1>5. Cardinality(S) \in Nat /\ Cardinality(T) \in Nat
  BY <1>3, FS_CardinalityType
<1> HIDE DEF T
<1>6. Cardinality(S) + Cardinality(T) = n
  <2>1. Cardinality(S \cup T) = Cardinality(S) + Cardinality(T) - Cardinality(S \cap T)
    BY <1>3, FS_Union
  <2>2. Cardinality({}) = 0
    BY FS_EmptySet
  <2>3. Cardinality(S \cap T) = 0
    BY <1>4, <2>2, Zenon
  <2>4. Cardinality(S \cup T) = n
    BY <1>2, <1>4, Zenon
  <2> QED BY <1>5, <2>1, <2>3, <2>4
<1>7. Len(Retain(q, S)) = Cardinality(S) /\ Len(Retain(q, T)) = Cardinality(T)
  BY Retained DEF T
<1> QED BY <1>6, <1>7 DEF T, n

------------------------------------------------------------------------------
(* record and the commands *)

\* A new entry goes to a place of the list, or behind it.
LEMMA InsertPositionTyping ==
  ASSUME NEW q \in Seq(Entries)
  PROVE  InsertPosition(q) \in 1 .. Len(q) + 1
<1>1. CASE Unpinned(q) = {}
  BY <1>1 DEF InsertPosition
<1>2. CASE Unpinned(q) # {}
  <2>1. Unpinned(q) \in SUBSET (1 .. Len(q))
    BY DEF Unpinned
  <2>2. Min(Unpinned(q)) \in Unpinned(q)
    <3>1. Unpinned(q) \in SUBSET Nat
      BY <2>1
    <3> QED BY <1>2, <3>1, MinLeast
  <2> QED BY <1>2, <2>1, <2>2 DEF InsertPosition
<1> QED BY <1>1, <1>2

\* The places that the trimming keeps.
TrimKeeps(q, n) ==
  LET room == n - Cardinality(Pinned(q))
  IN Pinned(q) \cup {i \in Unpinned(q) : Rank(Unpinned(q), i) <= room}

\* They are as many as the limit says, or the pins alone are too many.
LEMMA TrimCounts ==
  ASSUME NEW q \in Seq(Entries), NEW n \in Nat
  PROVE  /\ TrimKeeps(q, n) \in SUBSET (DOMAIN q)
         /\ \/ Cardinality(TrimKeeps(q, n)) <= n
            \/ TrimKeeps(q, n) = Pinned(q)
<1> DEFINE P == Pinned(q)
           U == Unpinned(q)
           room == n - Cardinality(P)
           K == {i \in U : Rank(U, i) <= room}
<1>1. /\ P \in SUBSET (DOMAIN q) /\ U \in SUBSET (DOMAIN q)
      /\ DOMAIN q = 1 .. Len(q) /\ U \in SUBSET Nat
  BY DEF Pinned, Unpinned
<1>2. IsFiniteSet(P) /\ IsFiniteSet(U) /\ Cardinality(P) \in Nat
  <2>1. IsFiniteSet(DOMAIN q)
    <3>1. Len(q) \in Int /\ DOMAIN q = 1 .. Len(q)
      OBVIOUS
    <3>2. IsFiniteSet(1 .. Len(q))
      BY <3>1, FS_Interval
    <3> QED BY <3>1, <3>2
  <2>2. IsFiniteSet(P) /\ IsFiniteSet(U)
    BY <1>1, <2>1, FS_Subset
  <2> QED BY <2>2, FS_CardinalityType
<1> HIDE DEF P, U
<1>3. TrimKeeps(q, n) = P \cup K
  BY DEF TrimKeeps, P, U
<1>4. CASE room <= 0
  <2>1. ASSUME NEW i \in U PROVE ~(Rank(U, i) <= room)
    <3>1. U \cap 1 .. 0 = {}
      OBVIOUS
    <3>2. Rank(U, 0) = 0
      BY <3>1, FS_EmptySet DEF Rank
    <3>3. i \in Nat /\ 0 < i
      BY <1>1
    <3>4. Rank(U, 0) < Rank(U, i) /\ Rank(U, i) \in Nat
      BY <1>1, <3>3, RankRises, RankStep
    <3> QED BY <1>2, <1>4, <3>2, <3>4
  <2>2. K = {}
    BY <2>1
  <2> QED BY <1>1, <1>3, <2>2 DEF P
<1>5. CASE room > 0
  <2>1. room \in Nat
    BY <1>2, <1>5
  <2> HIDE DEF room
  <2>2. \A i \in K : Rank(U, i) \in 1 .. room
    <3> TAKE i \in K
    <3>1. U \cap 1 .. 0 = {}
      OBVIOUS
    <3>2. Rank(U, 0) = 0
      BY <3>1, FS_EmptySet DEF Rank
    <3>3. i \in Nat /\ i \in U /\ 0 < i
      BY <1>1
    <3>4. Rank(U, 0) < Rank(U, i) /\ Rank(U, i) \in Nat
      BY <1>1, <3>3, RankRises, RankStep
    <3> QED BY <2>1, <3>2, <3>4
  <2>3. \A i, j \in K : Rank(U, i) = Rank(U, j) => i = j
    <3> SUFFICES ASSUME NEW i \in K, NEW j \in K, i # j PROVE Rank(U, i) # Rank(U, j)
      OBVIOUS
    <3>1. i \in Nat /\ j \in Nat /\ i \in U /\ j \in U
      BY <1>1
    <3>2. Rank(U, i) \in Nat /\ Rank(U, j) \in Nat
      BY <1>1, <3>1, RankStep
    <3>3. CASE i < j
      BY <1>1, <3>1, <3>2, <3>3, RankRises
    <3>4. CASE j < i
      BY <1>1, <3>1, <3>2, <3>4, RankRises
    <3> QED BY <3>1, <3>3, <3>4
  <2> DEFINE f == [i \in K |-> Rank(U, i)]
  <2>4. f \in Injection(K, 1 .. room)
    BY <2>2, <2>3 DEF Injection, IsInjective
  <2>5. IsFiniteSet(1 .. room) /\ Cardinality(1 .. room) = room
    BY <2>1, FS_Interval
  <2>6. IsFiniteSet(K) /\ Cardinality(K) <= room
    <3> HIDE DEF f, K
    <3> QED BY <2>4, <2>5, FS_Injection
  <2>7. P \cap K = {}
    BY DEF P, U, Unpinned
  <2>8. Cardinality(P \cup K) = Cardinality(P) + Cardinality(K)
    <3>1. Cardinality(P \cup K) = Cardinality(P) + Cardinality(K) - Cardinality({})
      BY <1>2, <2>6, <2>7, FS_Union, ZenonT(60)
    <3> QED BY <1>2, <2>6, <3>1, FS_EmptySet, FS_CardinalityType
  <2>9. Cardinality(P \cup K) <= n
    <3>1. Cardinality(K) \in Nat
      BY <2>6, FS_CardinalityType
    <3> HIDE DEF K
    <3> QED BY <1>2, <2>1, <2>6, <2>8, <3>1 DEF room
  <2> QED BY <1>1, <1>3, <2>9
<1> QED BY <1>2, <1>4, <1>5

\* What the trimming does to a list.
LEMMA Trimmed ==
  ASSUME NEW q \in Seq(Entries), NEW n \in Nat
  PROVE  /\ Trim(q, n) \in Seq(Entries)
         /\ ToSet(Trim(q, n)) \subseteq ToSet(q)
         /\ \A x \in ToSet(q) : x.pinned => x \in ToSet(Trim(q, n))
         /\ Once(q) => Once(Trim(q, n))
         /\ Len(Trim(q, n)) <= n \/ Len(Trim(q, n)) = Cardinality(Pinned(q))
<1> DEFINE S == TrimKeeps(q, n)
<1>1. /\ S \in SUBSET (DOMAIN q) /\ Pinned(q) \subseteq S
      /\ Cardinality(S) <= n \/ S = Pinned(q)
  BY TrimCounts DEF TrimKeeps
<1>2. Trim(q, n) = Retain(q, S)
  BY DEF Trim, TrimKeeps
<1> HIDE DEF S
<1>3. Trim(q, n) \in Seq(Entries) /\ Len(Trim(q, n)) = Cardinality(S)
  BY <1>1, <1>2, Retained
<1>4. ToSet(Trim(q, n)) = {q[i] : i \in S}
  BY <1>1, <1>2, RetainedSet
<1>5. ToSet(Trim(q, n)) \subseteq ToSet(q)
  BY <1>1, <1>4 DEF ToSet
<1>6. ASSUME NEW x \in ToSet(q), x.pinned PROVE x \in ToSet(Trim(q, n))
  <2>1. PICK i \in DOMAIN q : q[i] = x
    BY DEF ToSet
  <2>2. i \in S
    BY <1>1, <1>6, <2>1 DEF Pinned
  <2> QED BY <1>4, <2>1, <2>2
<1>7. Once(q) => Once(Trim(q, n))
  BY <1>1, <1>2, RetainedOnce
<1> QED BY <1>1, <1>3, <1>5, <1>6, <1>7

\* A list that is inserted into has no more pins than it had entries.
LEMMA FewPins ==
  ASSUME NEW q \in Seq(Entries), NEW p \in 1 .. Len(q) + 1, NEW e \in Entries, ~e.pinned
  PROVE  /\ Cardinality(Pinned(InsertAt(q, p, e))) \in Nat
         /\ Cardinality(Pinned(InsertAt(q, p, e))) <= Len(q)
<1> DEFINE n == Len(q)
           r == InsertAt(q, p, e)
           D == 1 .. n + 1
<1>1. r \in Seq(Entries) /\ Len(r) = n + 1 /\ r[p] = e
  BY Inserted
<1>2. DOMAIN r = D /\ n \in Nat /\ p \in D
  BY <1>1
<1>3. IsFiniteSet(D) /\ Cardinality(D) = n + 1
  BY <1>2, FS_Interval
<1> HIDE DEF r, D, n
<1>4. IsFiniteSet(D \ {p}) /\ Cardinality(D \ {p}) = n
  <2>1. Cardinality(D \ {p}) = Cardinality(D) - 1 /\ IsFiniteSet(D \ {p})
    BY <1>2, <1>3, FS_RemoveElement
  <2> QED BY <1>2, <1>3, <2>1
<1>5. Pinned(r) \in SUBSET (D \ {p})
  BY <1>1, <1>2 DEF Pinned
<1>6. IsFiniteSet(Pinned(r)) /\ Cardinality(Pinned(r)) <= n
  BY <1>4, <1>5, FS_Subset
<1> QED BY <1>6, FS_CardinalityType DEF n, r

\* What record does to a list: an older copy of the clip goes, the clip is in or
\* trimmed away, the rest of the pins stay, and the list has at most the limit's
\* entries, or no more than it had.
LEMMA RecordedSound ==
  ASSUME NEW q \in Seq(Entries), NEW new \in Entries, ~new.pinned, NEW n \in Nat
  PROVE  /\ Recorded(q, new, n) \in Seq(Entries)
         /\ ToSet(Recorded(q, new, n)) \subseteq ToSet(q) \cup {new}
         /\ \A x \in ToSet(q) : x.pinned /\ x.id # new.id /\ x.text # new.text
              => x \in ToSet(Recorded(q, new, n))
         /\ Once(q) => Once(Recorded(q, new, n))
         /\ Len(Recorded(q, new, n)) <= n \/ Len(Recorded(q, new, n)) <= Len(q)
<1> DEFINE S == {i \in DOMAIN q : q[i].id # new.id /\ q[i].text # new.text}
           others == Others(q, new)
           p == InsertPosition(others)
           r == InsertAt(others, p, new)
<1>1. others = Retain(q, S) /\ S \in SUBSET (DOMAIN q)
  BY DEF Others
<1>2. Recorded(q, new, n) = Trim(r, n)
  BY DEF Recorded
<1>3. ToSet(q) = {q[i] : i \in DOMAIN q}
  BY DEF ToSet
<1> HIDE DEF others, S
<1>4. /\ others \in Seq(Entries) /\ Len(others) \in 0 .. Len(q)
      /\ Len(others) \in Nat /\ Len(q) \in Nat
  <2>1. others \in Seq(Entries) /\ Len(others) = Cardinality(S) /\ Cardinality(S) \in 0 .. Len(q)
    BY <1>1, Retained
  <2> QED BY <2>1
<1>5. ToSet(others) = {q[i] : i \in S}
  BY <1>1, RetainedSet
<1>6. \A x \in ToSet(others) : x.id # new.id /\ x.text # new.text /\ x \in ToSet(q)
  BY <1>3, <1>5 DEF S
<1>7. \A x \in ToSet(q) : x.id # new.id /\ x.text # new.text => x \in ToSet(others)
  BY <1>3, <1>5 DEF S
<1>8. p \in 1 .. Len(others) + 1
  BY <1>4, InsertPositionTyping
<1> HIDE DEF p
<1>9. r \in Seq(Entries) /\ ToSet(r) = ToSet(others) \cup {new}
  BY <1>4, <1>8, Inserted, InsertedSet
<1>10. Once(q) => Once(r)
  <2>1. Once(q) => Once(others)
    BY <1>1, RetainedOnce
  <2> QED BY <1>4, <1>6, <1>8, <2>1, InsertedOnce
<1>11. Cardinality(Pinned(r)) \in Nat /\ Cardinality(Pinned(r)) <= Len(others)
  BY <1>4, <1>8, FewPins
<1> HIDE DEF r
<1>12. /\ Trim(r, n) \in Seq(Entries) /\ ToSet(Trim(r, n)) \subseteq ToSet(r)
       /\ \A x \in ToSet(r) : x.pinned => x \in ToSet(Trim(r, n))
       /\ Once(r) => Once(Trim(r, n))
       /\ Len(Trim(r, n)) <= n \/ Len(Trim(r, n)) = Cardinality(Pinned(r))
  BY <1>9, Trimmed
<1>13. Len(Trim(r, n)) <= n \/ Len(Trim(r, n)) <= Len(q)
  BY <1>4, <1>11, <1>12
<1> QED BY <1>2, <1>6, <1>7, <1>9, <1>10, <1>12, <1>13

\* What is left without an entry.
LEMMA WithoutSound ==
  ASSUME NEW q \in Seq(Entries), NEW id
  PROVE  /\ Without(q, id) \in Seq(Entries) /\ Len(Without(q, id)) <= Len(q)
         /\ \A x \in ToSet(Without(q, id)) : x \in ToSet(q) /\ x.id # id
         /\ Once(q) => Once(Without(q, id))
<1> DEFINE S == {i \in DOMAIN q : q[i].id # id}
<1>1. Without(q, id) = Retain(q, S) /\ S \in SUBSET (DOMAIN q)
  BY DEF Without
<1>2. ToSet(Without(q, id)) = {q[i] : i \in S}
  BY <1>1, RetainedSet
<1>3. /\ Retain(q, S) \in Seq(Entries) /\ Len(Retain(q, S)) = Cardinality(S)
      /\ Cardinality(S) \in 0 .. Len(q)
  BY <1>1, Retained
<1>4. Without(q, id) \in Seq(Entries) /\ Len(Without(q, id)) <= Len(q)
  <2> HIDE DEF S
  <2> QED BY <1>1, <1>3
<1> QED BY <1>1, <1>2, <1>4, RetainedOnce DEF ToSet

\* A pin or an unpin moves an entry and marks it.
LEMMA MovedSound ==
  ASSUME NEW q \in Seq(Entries), NEW id, NEW b \in BOOLEAN
  PROVE  /\ Moved(q, id, b) \in Seq(Entries) /\ Len(Moved(q, id, b)) = Len(q)
         /\ \A x \in ToSet(Moved(q, id, b)) : \E y \in ToSet(q) : x.id = y.id
         /\ Once(q) => Once(Moved(q, id, b))
<1> DEFINE places == {i \in DOMAIN q : q[i].id = id}
           i == Position(q, id)
<1>1. CASE places = {}
  <2>1. i = 0
    BY <1>1 DEF Position
  <2>2. Moved(q, id, b) = q
    BY <2>1 DEF Moved
  <2> QED BY <2>2
<1>2. CASE places # {}
  <2> DEFINE S == DOMAIN q \ {i}
             others == Retain(q, S)
             p == IF b THEN 1 ELSE InsertPosition(others)
             e == [q[i] EXCEPT !.pinned = b]
  <2>1. i \in DOMAIN q /\ DOMAIN q = 1 .. Len(q) /\ Len(q) \in Nat
    <3>1. places \in SUBSET Nat
      OBVIOUS
    <3>2. i = Min(places)
      BY <1>2 DEF Position
    <3>3. Min(places) \in places
      BY <1>2, <3>1, MinLeast
    <3> QED BY <3>2, <3>3
  <2>2. Moved(q, id, b) = InsertAt(others, p, e)
    <3>1. i # 0
      BY <2>1
    <3> QED BY <3>1 DEF Moved
  <2> HIDE DEF i
  <2>3. S \in SUBSET (DOMAIN q) /\ Cardinality(S) = Len(q) - 1
    <3> DEFINE n == Len(q)
    <3>1. n \in Nat /\ i \in 1 .. n /\ DOMAIN q = 1 .. n
      BY <2>1
    <3> HIDE DEF n
    <3>2. IsFiniteSet(1 .. n) /\ Cardinality(1 .. n) = n
      BY <3>1, FS_Interval
    <3>3. Cardinality((1 .. n) \ {i}) = n - 1
      BY <3>1, <3>2, FS_RemoveElement, ZenonT(60)
    <3> QED BY <3>1, <3>3 DEF n
  <2> HIDE DEF S
  <2>4. others \in Seq(Entries) /\ Len(others) = Cardinality(S) /\ ToSet(others) = {q[j] : j \in S}
    BY <2>3, Retained, RetainedSet
  <2> HIDE DEF others
  <2>5. e \in Entries /\ e.id = q[i].id /\ e.text = q[i].text
    <3>1. q[i] \in Entries
      BY <2>1
    <3> QED BY <3>1 DEF Entries
  <2> HIDE DEF e
  <2>6. p \in 1 .. Len(others) + 1
    BY <2>1, <2>3, <2>4, InsertPositionTyping
  <2> HIDE DEF p
  <2>7. /\ Moved(q, id, b) \in Seq(Entries) /\ Len(Moved(q, id, b)) = Len(q)
        /\ ToSet(Moved(q, id, b)) = ToSet(others) \cup {e}
    <3>1. /\ InsertAt(others, p, e) \in Seq(Entries)
          /\ Len(InsertAt(others, p, e)) = Len(others) + 1
          /\ ToSet(InsertAt(others, p, e)) = ToSet(others) \cup {e}
      BY <2>4, <2>5, <2>6, Inserted, InsertedSet
    <3> QED BY <2>1, <2>2, <2>3, <2>4, <3>1
  <2>8. \A x \in ToSet(Moved(q, id, b)) : \E y \in ToSet(q) : x.id = y.id
    BY <2>1, <2>3, <2>4, <2>5, <2>7 DEF ToSet
  <2>9. ASSUME Once(q) PROVE Once(Moved(q, id, b))
    <3>1. Once(others)
      BY <2>3, <2>9, RetainedOnce DEF others
    <3>2. \A x \in ToSet(others) : x.id # e.id /\ x.text # e.text
      BY <2>1, <2>4, <2>5, <2>9 DEF Once, S
    <3> QED BY <2>2, <2>4, <2>5, <2>6, <3>1, <3>2, InsertedOnce
  <2> QED BY <2>7, <2>8, <2>9
<1> QED BY <1>1, <1>2

------------------------------------------------------------------------------
(* The list is sound *)

Busy(r) == recording[r] # NotRecording
Recordings == [id : 1 .. MaxRecords, entry : Entries, limit : Limits]

\* What the threads that record hold, and how many clips there were.
Books ==
  /\ records \in 0 .. MaxRecords
  /\ recording \in [Recorder -> {NotRecording} \cup Recordings]
  /\ \A r \in Recorder :
       Busy(r) => /\ recording[r].entry.id = recording[r].id /\ ~recording[r].entry.pinned
                  /\ recording[r].id <= records

\* The file is as sound as the list, for a restart turns one into the other.
SoundInv == TypeOK /\ Books /\ Once(history) /\ Once(disk) /\ NeverOutgrown

\* A thread that records has read a limit and made an entry.
LEMMA BusyTyping ==
  ASSUME Books, NEW r \in Recorder, Busy(r)
  PROVE  /\ recording[r] \in Recordings
         /\ recording[r].entry \in Entries /\ recording[r].entry.id = recording[r].id
         /\ ~recording[r].entry.pinned
         /\ recording[r].limit \in Limits /\ recording[r].id \in 1 .. records
BY DEF Books, Busy, Recordings

\* Between its two locks a thread holds a recording or none.
LEMMA ReadLimitBooks ==
  ASSUME Books, TypeOK, NEW r \in Recorder, NEW t \in Text, ReadLimit(r, t)
  PROVE  /\ Books'
         /\ recording'[r].id = records + 1 /\ Busy(r)'
         /\ \A o \in Recorder \ {r} : recording'[o] = recording[o]
<1> DEFINE new == [id |-> records + 1, entry |-> Entry(records + 1, t), limit |-> limit]
<1>1. /\ records < MaxRecords /\ records' = records + 1
      /\ recording' = [recording EXCEPT ![r] = new]
  BY DEF ReadLimit
<1>2. records \in Nat /\ records' \in 0 .. MaxRecords /\ records + 1 \in 1 .. MaxRecords
  BY <1>1, HistoryAssumption DEF Books
<1>3. /\ Entry(records + 1, t) \in Entries
      /\ Entry(records + 1, t).id = records + 1 /\ ~Entry(records + 1, t).pinned
  BY <1>2 DEF Entry, Entries
<1>4. /\ new \in Recordings /\ new # NotRecording /\ new.id = records + 1
      /\ new.entry = Entry(records + 1, t)
  <2>1. new \in Recordings /\ new.id = records + 1 /\ new.entry = Entry(records + 1, t)
    BY <1>2, <1>3 DEF Recordings, TypeOK
  <2>2. NotRecording.id = 0
    BY DEF NotRecording
  <2> HIDE DEF new
  <2> QED BY <1>2, <2>1, <2>2
<1> HIDE DEF new
<1>5. recording' \in [Recorder -> {NotRecording} \cup Recordings]
  BY <1>1, <1>4 DEF Books
<1>6. recording'[r] = new /\ \A o \in Recorder \ {r} : recording'[o] = recording[o]
  BY <1>1 DEF Books
<1>7. ASSUME NEW o \in Recorder, Busy(o)'
      PROVE  /\ recording'[o].entry.id = recording'[o].id /\ ~recording'[o].entry.pinned
             /\ recording'[o].id <= records'
  <2>1. CASE o = r
    BY <1>1, <1>2, <1>3, <1>4, <1>6, <2>1
  <2>2. CASE o # r
    <3>1. Busy(o) /\ recording'[o] = recording[o]
      BY <1>6, <1>7, <2>2 DEF Busy
    <3>2. /\ recording[o].entry.id = recording[o].id /\ ~recording[o].entry.pinned
          /\ recording[o].id \in 1 .. records
      BY <3>1, BusyTyping
    <3> QED BY <1>1, <1>2, <3>1, <3>2
  <2> QED BY <2>1, <2>2
<1> QED BY <1>2, <1>4, <1>5, <1>6, <1>7 DEF Books, Busy

\* A thread that is done, or that a restart ends, leaves nothing behind.
LEMMA DoneBooks ==
  ASSUME Books, records' = records, NEW R \in SUBSET Recorder,
         recording' = [r \in Recorder |-> IF r \in R THEN NotRecording ELSE recording[r]]
  PROVE  Books'
<1>1. recording' \in [Recorder -> {NotRecording} \cup Recordings]
  BY DEF Books
<1>2. ASSUME NEW r \in Recorder, Busy(r)'
      PROVE  Busy(r) /\ recording'[r] = recording[r]
  BY <1>2 DEF Busy
<1> QED BY <1>1, <1>2 DEF Books

\* A step leaves everything sound when it leaves the list so and the file is
\* what it was or what the list is now.
LEMMA SoundStep ==
  ASSUME SoundInv, Books',
         history' \in Seq(Entries), Once(history'), Len(history') <= MaxLimit,
         disk' = disk \/ disk' = history',
         limit' \in Limits, savedLimit' \in Limits,
         ui' \in {"", "persist", "truncate"}, unsaved' \in BOOLEAN,
         deleted' \cup deleting' \subseteq 1 .. MaxRecords
  PROVE  SoundInv'
<1>1. disk' \in Seq(Entries) /\ Once(disk') /\ Len(disk') <= MaxLimit
  BY DEF SoundInv, TypeOK, NeverOutgrown
<1>2. \A r \in Recorder : recording'[r] # NotRecording =>
        recording'[r].entry \in Entries /\ recording'[r].limit \in Limits
  BY DEF Books, Recordings
<1>3. TypeOK'
  BY <1>1, <1>2 DEF TypeOK, Limits, Entries
<1> QED BY <1>1, <1>3 DEF SoundInv, NeverOutgrown

\* The same when the list is saved, or should have been.
LEMMA SoundSave ==
  ASSUME SoundInv, NEW gone \in SUBSET (1 .. MaxRecords), NEW written \in BOOLEAN,
         Save(history', gone, written)
  PROVE  /\ disk' = disk \/ disk' = history'
         /\ unsaved' \in BOOLEAN
         /\ deleted' \cup deleting' \subseteq 1 .. MaxRecords
BY DEF Save, SoundInv, TypeOK

\* The limit that a window asks for is brought into its range.
LEMMA ClampedTyping ==
  ASSUME NEW n \in Requests
  PROVE  Clamped(n) \in Limits
BY HistoryAssumption DEF Clamped, Limits

\* What is assumed of the limits.
LEMMA LimitsTyping ==
  /\ MaxLimit \in Nat /\ MaxRecords \in Nat /\ DefaultLimit \in Limits
  /\ \A n \in Limits : n \in Nat /\ n <= MaxLimit
BY HistoryAssumption DEF Limits

\* The list and the file are sound and the books right whatever is recorded,
\* pinned, deleted, truncated or loaded.
THEOREM StaysSound == Spec => []SoundInv
<1>1. Init => SoundInv
  <2> SUFFICES ASSUME Init PROVE SoundInv
    OBVIOUS
  <2>1. history = <<>> /\ disk = <<>> /\ MaxLimit \in Nat /\ DefaultLimit \in Limits
    BY LimitsTyping DEF Init
  <2>2. /\ recording \in [Recorder -> {NotRecording} \cup Recordings]
        /\ \A r \in Recorder : recording[r] = NotRecording
    BY DEF Init
  <2>3. Books
    <3>1. records \in 0 .. MaxRecords
      <4>1. records = 0
        BY DEF Init
      <4>2. MaxRecords \in Nat
        BY LimitsTyping
      <4> QED BY <4>1, <4>2
    <3> QED BY <2>2, <3>1 DEF Books, Busy
  <2>5. <<>> \in Seq(Entries)
    OBVIOUS
  <2>6. TypeOK
    BY <2>1, <2>2, <2>5 DEF Init, TypeOK
  <2>4. Once(history) /\ Once(disk) /\ NeverOutgrown
    BY <2>1 DEF Once, NeverOutgrown
  <2> QED BY <2>3, <2>4, <2>6 DEF SoundInv
<1>2. SoundInv /\ [Next]_vars => SoundInv'
  <2> SUFFICES ASSUME SoundInv, [Next]_vars PROVE SoundInv'
    OBVIOUS
  <2> USE DEF limits, ghosts, bounds
  <2>1. /\ Books /\ TypeOK /\ Once(history) /\ Once(disk)
        /\ history \in Seq(Entries) /\ disk \in Seq(Entries)
        /\ Len(history) <= MaxLimit /\ Len(disk) <= MaxLimit
        /\ limit \in Limits /\ savedLimit \in Limits
        /\ ui \in {"", "persist", "truncate"} /\ unsaved \in BOOLEAN
        /\ deleted \cup deleting \subseteq 1 .. MaxRecords
    BY DEF SoundInv, TypeOK, NeverOutgrown
  <2>12. /\ Len(history) \in Nat /\ Len(history) <= MaxLimit /\ MaxLimit \in Nat
         /\ limit \in Nat /\ MaxRecords \in Nat /\ records \in 0 .. MaxRecords
    <3>1. history \in Seq(Entries) /\ limit \in Limits
      BY <2>1
    <3>2. Len(history) \in Nat
      BY <3>1
    <3>3. limit \in Nat /\ MaxLimit \in Nat /\ MaxRecords \in Nat
      BY <3>1, LimitsTyping
    <3>4. records \in 0 .. MaxRecords
      BY <2>1 DEF Books
    <3> QED BY <2>1, <3>2, <3>3, <3>4
  <2>2. ASSUME UNCHANGED <<recording, records>> PROVE Books'
    BY <2>1, <2>2 DEF Books, Busy
  <2>3. ASSUME NEW r \in Recorder, NEW t \in Text, ReadLimit(r, t) PROVE SoundInv'
    <3>1. Books'
      BY <2>1, <2>3, ReadLimitBooks
    <3>2. UNCHANGED <<history, limits, ui, disk, ghosts>>
      BY <2>3 DEF ReadLimit
    <3> QED BY <2>1, <3>1, <3>2, SoundStep
  <2>4. ASSUME NEW r \in Recorder, NEW written \in BOOLEAN, Record(r, written) PROVE SoundInv'
    <3> DEFINE new == recording[r].entry
               n == recording[r].limit
    <3>1. /\ history' = Recorded(history, new, n) /\ Save(history', deleting, written)
          /\ recording' = [recording EXCEPT ![r] = NotRecording] /\ Busy(r)
          /\ UNCHANGED <<limits, ui, records>>
      BY <2>4 DEF Record, Busy
    <3>2. new \in Entries /\ ~new.pinned /\ n \in Limits
      BY <2>1, <3>1, BusyTyping
    <3> HIDE DEF new, n
    <3>3. /\ history' \in Seq(Entries) /\ Once(history')
          /\ Len(history') <= n \/ Len(history') <= Len(history)
      <4>1. history \in Seq(Entries) /\ Once(history)
        BY <2>1
      <4>2. n \in Nat
        BY <3>2, LimitsTyping
      <4> QED BY <3>1, <3>2, <4>1, <4>2, RecordedSound
    <3>4. Len(history') <= MaxLimit
      <4>1. Len(history') \in Nat /\ n \in Nat /\ n <= MaxLimit
        BY <3>2, <3>3, LimitsTyping
      <4> QED BY <2>12, <3>3, <4>1
    <3>5. Books'
      <4>1. recording' = [o \in Recorder |-> IF o \in {r} THEN NotRecording ELSE recording[o]]
        BY <2>1, <3>1 DEF Books
      <4> QED BY <2>1, <3>1, <4>1, DoneBooks
    <3>6. deleting \in SUBSET (1 .. MaxRecords)
      BY <2>1
    <3> QED BY <2>1, <3>1, <3>3, <3>4, <3>5, <3>6, SoundSave, SoundStep
  <2>5. ASSUME NEW id \in 1 .. records, Edit(id) PROVE SoundInv'
    <3>1. CASE PinEntry(id) \/ UnpinEntry(id)
      <4>1. /\ \E b \in BOOLEAN : history' = Moved(history, id, b)
            /\ ui' = "persist"
            /\ UNCHANGED <<limits, recording, disk, ghosts, records>>
        BY <3>1 DEF PinEntry, UnpinEntry
      <4>2. history' \in Seq(Entries) /\ Once(history') /\ Len(history') = Len(history)
        BY <2>1, <4>1, MovedSound, ZenonT(60)
      <4> QED BY <2>1, <2>2, <4>1, <4>2, SoundStep
    <3>2. CASE DeleteEntry(id)
      <4>1. /\ history' = Without(history, id) /\ deleting' = deleting \cup {id}
            /\ ui' = "persist"
            /\ UNCHANGED <<limits, recording, disk, unsaved, deleted, records>>
        BY <3>2 DEF DeleteEntry
      <4>2. history' \in Seq(Entries) /\ Once(history') /\ Len(history') <= Len(history)
        BY <2>1, <4>1, WithoutSound
      <4>3. id \in 1 .. MaxRecords
        BY <2>12
      <4>4. Len(history') <= MaxLimit
        <5>1. Len(history') \in Nat
          BY <4>2
        <5> QED BY <2>12, <4>2, <5>1
      <4> QED BY <2>1, <2>2, <4>1, <4>2, <4>3, <4>4, SoundStep
    <3> QED BY <2>5, <3>1, <3>2 DEF Edit
  <2>6. ASSUME NEW written \in BOOLEAN, Persist(written) PROVE SoundInv'
    <3>1. /\ ui' = "" /\ Save(history', deleting, written)
          /\ UNCHANGED <<history, limits, recording, records>>
      BY <2>6 DEF Persist
    <3>2. deleting \in SUBSET (1 .. MaxRecords)
      BY <2>1
    <3> QED BY <2>1, <2>2, <3>1, <3>2, SoundSave, SoundStep
  <2>7. ASSUME NEW written \in BOOLEAN, ClearHistory(written) PROVE SoundInv'
    <3> DEFINE gone == deleting \cup {history[i].id : i \in DOMAIN history}
    <3>1. /\ history' = <<>> /\ Save(history', gone, written)
          /\ UNCHANGED <<limits, recording, ui, records>>
      BY <2>7 DEF ClearHistory
    <3>2. gone \in SUBSET (1 .. MaxRecords)
      <4>1. \A i \in DOMAIN history : history[i] \in Entries
        <5>1. history \in Seq(Entries)
          BY <2>1
        <5> QED BY <5>1
      <4> QED BY <2>1, <4>1 DEF Entries
    <3> HIDE DEF gone
    <3>3. history' \in Seq(Entries) /\ Once(history') /\ Len(history') <= MaxLimit
      BY <2>12, <3>1 DEF Once
    <3> QED BY <2>1, <2>2, <3>1, <3>2, <3>3, SoundSave, SoundStep
  <2>8. ASSUME NEW n \in Requests, NEW saved \in BOOLEAN, SetHistoryLimit(n, saved)
        PROVE  SoundInv'
    <3>1. /\ limit' \in Limits /\ savedLimit' \in {savedLimit, limit'}
          /\ ui' \in {ui, "truncate"}
          /\ UNCHANGED <<history, recording, disk, ghosts, records>>
      BY <2>8, ClampedTyping DEF SetHistoryLimit
    <3> QED BY <2>1, <2>2, <3>1, SoundStep
  <2>9. CASE Truncate
    <3> DEFINE m == IF Len(history) < limit THEN Len(history) ELSE limit
    <3>1. /\ history' = SubSeq(history, 1, m) /\ ui' = "" /\ unsaved' \in BOOLEAN
          /\ UNCHANGED <<limits, recording, disk, deleted, deleting, records>>
      BY <2>1, <2>9 DEF Truncate
    <3>2. m \in 0 .. Len(history)
      BY <2>12
    <3> HIDE DEF m
    <3>3. /\ history' \in Seq(Entries) /\ Len(history') = m
          /\ \A i \in 1 .. m : history'[i] = history[i]
      BY <2>1, <3>1, <3>2, Truncated
    <3>4. Once(history')
      <4>1. DOMAIN history' = 1 .. m
        BY <3>2, <3>3
      <4>2. 1 .. m \subseteq DOMAIN history
        <5>1. history \in Seq(Entries)
          BY <2>1
        <5> QED BY <3>2, <5>1
      <4> QED BY <2>1, <3>3, <4>1, <4>2, ZenonT(60) DEF Once
    <3>5. Len(history') <= MaxLimit
      BY <2>12, <3>2, <3>3
    <3> QED BY <2>1, <2>2, <3>1, <3>3, <3>4, <3>5, SoundStep
  <2>10. CASE Restart \/ RestartTorn
    <3>1. /\ recording' = [r \in Recorder |-> NotRecording]
          /\ ui' = "" /\ unsaved' = FALSE /\ deleting' = {} /\ limit' = savedLimit
          /\ UNCHANGED <<savedLimit, deleted, records>>
          /\ \/ history' = disk /\ disk' = disk
             \/ history' = <<>> /\ disk' = <<>>
      BY <2>10 DEF Restart, RestartTorn
    <3>2. Books'
      <4>1. recording' = [o \in Recorder |-> IF o \in Recorder THEN NotRecording ELSE recording[o]]
        BY <3>1
      <4> QED BY <2>1, <3>1, <4>1, DoneBooks
    <3>3. history' \in Seq(Entries) /\ Once(history') /\ Len(history') <= MaxLimit
      <4>1. CASE history' = disk
        BY <2>1, <4>1
      <4>2. CASE history' = <<>>
        BY <2>12, <4>2 DEF Once
      <4> QED BY <3>1, <4>1, <4>2
    <3> QED BY <2>1, <3>1, <3>2, <3>3, SoundStep
  <2>11. CASE UNCHANGED vars
    <3>1. UNCHANGED <<history, limits, recording, ui, disk, ghosts, records>>
      BY <2>11 DEF vars
    <3> QED BY <2>1, <2>2, <3>1, SoundStep
  <2> QED BY <2>3, <2>4, <2>5, <2>6, <2>7, <2>8, <2>9, <2>10, <2>11 DEF Next
<1> QED BY <1>1, <1>2, PTL DEF Spec

\* The history holds each clip once and never more than the largest limit, pins
\* included (App::record and the commands of lib.rs).
THEOREM ListStaysSound == Spec => []ListSound
<1>1. SoundInv => ListSound
  BY DEF SoundInv, ListSound, OnePerClip, Once
<1> QED BY <1>1, StaysSound, PTL

------------------------------------------------------------------------------
(* The file follows the list *)

Ids(q) == {x.id : x \in ToSet(q)}
Gone == deleted \cup deleting

\* What a thread is about to add is new: its id is of no entry that is listed, no
\* entry that was deleted and no entry another thread is about to add.
Fresh ==
  /\ Ids(history) \cup Ids(disk) \cup Gone \subseteq 1 .. records
  /\ \A r \in Recorder : Busy(r) => recording[r].id \notin Ids(history) \cup Gone
  /\ \A r, s \in Recorder : Busy(r) /\ Busy(s) /\ r # s => recording[r].id # recording[s].id

\* What was deleted is gone from the list, and from the file once it was saved.
GoneStays == Ids(history) \cap Gone = {} /\ Ids(disk) \cap deleted = {}

\* A command that has nothing left to save, and no save that failed, leaves the
\* list in the file.
Saved == ui # "persist" /\ ~unsaved => disk = history

FollowsInv == Fresh /\ GoneStays /\ Saved

\* A thread that has just read the limit takes an id nothing has.
LEMMA ReadLimitFollows ==
  ASSUME SoundInv, FollowsInv, NEW r \in Recorder, NEW t \in Text, ReadLimit(r, t)
  PROVE  FollowsInv'
<1> DEFINE H == Ids(history) \cup Ids(disk) \cup Gone
<1>1. /\ UNCHANGED <<history, ui, disk, unsaved, deleted, deleting>> /\ records' = records + 1
      /\ Ids(history)' = Ids(history) /\ Ids(disk)' = Ids(disk) /\ Gone' = Gone
  BY DEF ReadLimit, ghosts, Ids, Gone
<1>2. GoneStays' /\ Saved'
  BY <1>1 DEF FollowsInv, GoneStays, Saved
<1>3. /\ Books /\ records \in Nat
      /\ recording'[r].id = records + 1
      /\ \A o \in Recorder \ {r} : recording'[o] = recording[o]
  <2>1. Books /\ TypeOK
    BY DEF SoundInv
  <2>2. records \in Nat
    BY <2>1 DEF Books
  <2> QED BY <2>1, <2>2, ReadLimitBooks
<1>4. H \subseteq 1 .. records
  BY DEF FollowsInv, Fresh
<1>5. \A o \in Recorder \ {r} : Busy(o) => recording[o].id \in 1 .. records
  BY <1>3, BusyTyping
<1>6. records + 1 \notin 1 .. records /\ 1 .. records \subseteq 1 .. records + 1
  BY <1>3
<1>7. \A o \in Recorder \ {r} : Busy(o)' => Busy(o) /\ recording'[o].id = recording[o].id
  BY <1>3 DEF Busy
<1>8. Ids(history)' \cup Ids(disk)' \cup Gone' \subseteq 1 .. records'
  BY <1>1, <1>4, <1>6
<1>9. ASSUME NEW o \in Recorder, Busy(o)'
      PROVE  recording'[o].id \notin (Ids(history) \cup Gone)'
  BY <1>1, <1>3, <1>4, <1>6, <1>7, <1>9 DEF FollowsInv, Fresh
<1>10. ASSUME NEW o \in Recorder, NEW s \in Recorder, Busy(o)', Busy(s)', o # s
       PROVE  recording'[o].id # recording'[s].id
  <2>1. CASE o = r
    BY <1>3, <1>5, <1>6, <1>7, <1>10, <2>1
  <2>2. CASE s = r
    BY <1>3, <1>5, <1>6, <1>7, <1>10, <2>2
  <2>3. CASE o # r /\ s # r
    BY <1>7, <1>10, <2>3 DEF FollowsInv, Fresh
  <2> QED BY <2>1, <2>2, <2>3
<1>11. Fresh'
  BY <1>8, <1>9, <1>10 DEF Fresh
<1> QED BY <1>2, <1>11 DEF FollowsInv

\* A step keeps the file behind the list when the list gets no entry but one that
\* was new and when what it deletes is new to nobody and no longer listed.
LEMMA FollowsStep ==
  ASSUME FollowsInv, UNCHANGED records, Saved',
         NEW N,
         \A x \in N : x \in 1 .. records /\ x \notin Gone,
         Ids(history') \subseteq Ids(history) \cup N,
         Ids(disk') \subseteq Ids(disk) \cup Ids(history'),
         \A r \in Recorder : Busy(r)' => /\ Busy(r) /\ recording'[r] = recording[r]
                                         /\ recording[r].id \notin N,
         NEW D \in SUBSET (1 .. records), D \cap Ids(history') = {},
         \A r \in Recorder : Busy(r)' => recording[r].id \notin D,
         deleted' \cup deleting' \subseteq Gone \cup D,
         Ids(disk') \cap deleted' = {}
  PROVE  FollowsInv'
<1>1. Ids(history)' = Ids(history') /\ Ids(disk)' = Ids(disk') /\ Gone' = deleted' \cup deleting'
  BY DEF Ids, Gone
<1>2. Ids(history') \cap Gone' = {}
  BY <1>1 DEF FollowsInv, GoneStays
<1>3. Ids(history)' \cup Ids(disk)' \cup Gone' \subseteq 1 .. records'
  BY <1>1 DEF FollowsInv, Fresh
<1>4. \A r \in Recorder : Busy(r)' => recording'[r].id \notin (Ids(history) \cup Gone)'
  BY <1>1 DEF FollowsInv, Fresh
<1>5. \A r, s \in Recorder : Busy(r)' /\ Busy(s)' /\ r # s => recording'[r].id # recording'[s].id
  BY DEF FollowsInv, Fresh
<1>6. Fresh'
  BY <1>3, <1>4, <1>5 DEF Fresh
<1> QED BY <1>1, <1>2, <1>6 DEF FollowsInv, GoneStays

\* A save, done or failed, of a list from which all that goes is gone.
LEMMA FollowsSave ==
  ASSUME FollowsInv, NEW gone, NEW written \in BOOLEAN, Save(history', gone, written),
         Ids(history') \cap (deleted \cup gone) = {}
  PROVE  /\ Saved'
         /\ Ids(disk') \subseteq Ids(disk) \cup Ids(history')
         /\ deleted' \cup deleting' \subseteq deleted \cup gone
         /\ Ids(disk') \cap deleted' = {}
<1>1. CASE /\ disk' = history' /\ unsaved' = FALSE
           /\ deleted' = deleted \cup gone /\ deleting' = {}
  BY <1>1 DEF Saved
<1>2. CASE /\ unsaved' = TRUE /\ deleting' = gone /\ UNCHANGED <<disk, deleted>>
  BY <1>2 DEF Saved, FollowsInv, GoneStays
<1> QED BY <1>1, <1>2 DEF Save

\* What the list's operators leave are entries that were there, or the new one.
LEMMA IdsOf ==
  ASSUME NEW q \in Seq(Entries)
  PROVE  /\ \A id : \A b \in BOOLEAN : Ids(Moved(q, id, b)) \subseteq Ids(q)
         /\ \A id : Ids(Without(q, id)) \subseteq Ids(q) \ {id}
         /\ \A new \in Entries, n \in Nat :
              ~new.pinned => Ids(Recorded(q, new, n)) \subseteq Ids(q) \cup {new.id}
         /\ Ids(<<>>) = {}
         /\ \A i \in DOMAIN q : q[i].id \in Ids(q)
<1>1. ASSUME NEW id, NEW b \in BOOLEAN PROVE Ids(Moved(q, id, b)) \subseteq Ids(q)
  <2>1. \A x \in ToSet(Moved(q, id, b)) : \E y \in ToSet(q) : x.id = y.id
    BY MovedSound
  <2> QED BY <2>1 DEF Ids
<1>2. ASSUME NEW id PROVE Ids(Without(q, id)) \subseteq Ids(q) \ {id}
  <2>1. \A x \in ToSet(Without(q, id)) : x \in ToSet(q) /\ x.id # id
    BY WithoutSound
  <2> QED BY <2>1 DEF Ids
<1>3. ASSUME NEW new \in Entries, NEW n \in Nat, ~new.pinned
      PROVE  Ids(Recorded(q, new, n)) \subseteq Ids(q) \cup {new.id}
  <2>1. ToSet(Recorded(q, new, n)) \subseteq ToSet(q) \cup {new}
    BY <1>3, RecordedSound
  <2> QED BY <2>1 DEF Ids
<1>4. Ids(<<>>) = {} /\ \A i \in DOMAIN q : q[i].id \in Ids(q)
  BY DEF Ids, ToSet
<1> QED BY <1>1, <1>2, <1>3, <1>4

\* Whatever is recorded, edited, saved or loaded, ids stay new, what is gone stays
\* gone and the file is the list unless something is left to save.
THEOREM StaysFollowed == Spec => []FollowsInv
<1>1. Init => FollowsInv
  <2> SUFFICES ASSUME Init PROVE FollowsInv
    OBVIOUS
  <2>1. Ids(history) = {} /\ Ids(disk) = {} /\ Gone = {} /\ disk = history
    <3>1. history = <<>> /\ disk = <<>> /\ Gone = {}
      BY DEF Init, Gone
    <3>2. <<>> \in Seq(Entries)
      OBVIOUS
    <3> QED BY <3>1, <3>2, IdsOf
  <2>2. \A r \in Recorder : ~Busy(r)
    BY DEF Init, Busy
  <2> QED BY <2>1, <2>2 DEF FollowsInv, Fresh, GoneStays, Saved
<1>2. SoundInv /\ FollowsInv /\ [Next]_vars => FollowsInv'
  <2> SUFFICES ASSUME SoundInv, FollowsInv, [Next]_vars PROVE FollowsInv'
    OBVIOUS
  <2> USE DEF limits, ghosts, bounds
  <2>1. Books /\ history \in Seq(Entries) /\ disk \in Seq(Entries) /\ limit \in Limits
    BY DEF SoundInv, TypeOK
  <2>2. Ids(history) \cap Gone = {} /\ Ids(disk) \cap deleted = {} /\ deleted \subseteq Gone
    BY DEF FollowsInv, GoneStays, Gone
  <2>3. ASSUME NEW r \in Recorder, NEW t \in Text, ReadLimit(r, t) PROVE FollowsInv'
    BY <2>3, ReadLimitFollows
  <2>4. ASSUME NEW r \in Recorder, NEW written \in BOOLEAN, Record(r, written) PROVE FollowsInv'
    <3> DEFINE new == recording[r].entry
               n == recording[r].limit
               id == recording[r].id
    <3>1. /\ history' = Recorded(history, new, n) /\ Save(history', deleting, written)
          /\ recording' = [recording EXCEPT ![r] = NotRecording] /\ Busy(r)
          /\ UNCHANGED records
      BY <2>4 DEF Record, Busy
    <3>2. new \in Entries /\ ~new.pinned /\ n \in Limits /\ new.id = id /\ id \in 1 .. records
      BY <2>1, <3>1, BusyTyping
    <3>3. n \in Nat
      BY <3>2, LimitsTyping
    <3>4. id \notin Gone
      BY <3>1 DEF FollowsInv, Fresh
    <3>5. \A o \in Recorder : Busy(o)' => /\ Busy(o) /\ recording'[o] = recording[o]
                                          /\ recording[o].id \notin {id}
      <4>1. ASSUME NEW o \in Recorder, Busy(o)' PROVE o # r /\ recording'[o] = recording[o]
        BY <2>1, <3>1, <4>1 DEF Busy, Books
      <4>2. ASSUME NEW o \in Recorder, Busy(o)' PROVE Busy(o)
        BY <4>1, <4>2 DEF Busy
      <4> QED BY <3>1, <4>1, <4>2 DEF FollowsInv, Fresh
    <3> HIDE DEF new, n, id
    <3>6. Ids(history') \subseteq Ids(history) \cup {id}
      BY <2>1, <3>1, <3>2, <3>3, IdsOf
    <3>7. Ids(history') \cap (deleted \cup deleting) = {}
      BY <2>2, <3>4, <3>6 DEF Gone
    <3>8. /\ Saved' /\ Ids(disk') \subseteq Ids(disk) \cup Ids(history')
          /\ deleted' \cup deleting' \subseteq Gone /\ Ids(disk') \cap deleted' = {}
      BY <3>1, <3>7, FollowsSave DEF Gone
    <3> QED BY <3>1, <3>2, <3>4, <3>5, <3>6, <3>8, FollowsStep, ZenonT(60)
  <2>5. ASSUME NEW id \in 1 .. records, Edit(id) PROVE FollowsInv'
    <3>1. \A r \in Recorder : recording[r].id # id
      BY <2>5 DEF Edit
    <3>2. CASE PinEntry(id) \/ UnpinEntry(id)
      <4>1. /\ \E b \in BOOLEAN : history' = Moved(history, id, b)
            /\ ui' = "persist" /\ UNCHANGED <<recording, disk, ghosts, records>>
        BY <3>2 DEF PinEntry, UnpinEntry
      <4>2. Ids(history') \subseteq Ids(history)
        BY <2>1, <4>1, IdsOf
      <4>3. Saved' /\ \A r \in Recorder : Busy(r)' => Busy(r)
        BY <4>1 DEF Saved, Busy
      <4> QED BY <2>2, <4>1, <4>2, <4>3, FollowsStep DEF Gone
    <3>3. CASE DeleteEntry(id)
      <4>1. /\ history' = Without(history, id) /\ deleting' = deleting \cup {id}
            /\ ui' = "persist" /\ UNCHANGED <<recording, disk, deleted, records>>
        BY <3>3 DEF DeleteEntry
      <4>2. Ids(history') \subseteq Ids(history) \ {id}
        BY <2>1, <4>1, IdsOf
      <4>3. Saved' /\ \A r \in Recorder : Busy(r)' => Busy(r)
        BY <4>1 DEF Saved, Busy
      <4> QED BY <2>2, <3>1, <4>1, <4>2, <4>3, FollowsStep DEF Gone
    <3> QED BY <2>5, <3>2, <3>3 DEF Edit
  <2>6. ASSUME NEW written \in BOOLEAN, Persist(written) PROVE FollowsInv'
    <3>1. /\ Save(history', deleting, written)
          /\ UNCHANGED <<history, recording, records>>
      BY <2>6 DEF Persist
    <3>2. Ids(history') \cap (deleted \cup deleting) = {}
      BY <2>2, <3>1 DEF Gone
    <3>3. /\ Saved' /\ Ids(disk') \subseteq Ids(disk) \cup Ids(history')
          /\ deleted' \cup deleting' \subseteq Gone /\ Ids(disk') \cap deleted' = {}
      BY <3>1, <3>2, FollowsSave DEF Gone
    <3>4. \A r \in Recorder : Busy(r)' => Busy(r)
      BY <3>1 DEF Busy
    <3> QED BY <3>1, <3>3, <3>4, FollowsStep
  <2>7. ASSUME NEW written \in BOOLEAN, ClearHistory(written) PROVE FollowsInv'
    <3> DEFINE D == {history[i].id : i \in DOMAIN history}
    <3>1. /\ history' = <<>> /\ Save(history', deleting \cup D, written)
          /\ UNCHANGED <<recording, records>>
      BY <2>7 DEF ClearHistory
    <3>2. D \subseteq Ids(history)
      BY <2>1, IdsOf
    <3> HIDE DEF D
    <3>3. Ids(history') = {}
      BY <2>1, <3>1, IdsOf
    <3>4. /\ Saved' /\ Ids(disk') \subseteq Ids(disk) \cup Ids(history')
          /\ deleted' \cup deleting' \subseteq Gone \cup D /\ Ids(disk') \cap deleted' = {}
      BY <3>1, <3>3, FollowsSave DEF Gone
    <3>5. D \in SUBSET (1 .. records) /\ \A r \in Recorder : Busy(r) => recording[r].id \notin D
      BY <3>2 DEF FollowsInv, Fresh
    <3>6. \A r \in Recorder : Busy(r)' => Busy(r)
      BY <3>1 DEF Busy
    <3> QED BY <3>1, <3>3, <3>4, <3>5, <3>6, FollowsStep
  <2>8. ASSUME NEW n \in Requests, NEW saved \in BOOLEAN, SetHistoryLimit(n, saved)
        PROVE  FollowsInv'
    <3>1. ui = "" /\ UNCHANGED <<history, recording, disk, ghosts, records>>
      BY <2>8 DEF SetHistoryLimit, Command
    <3>2. Saved' /\ \A r \in Recorder : Busy(r)' => Busy(r)
      BY <3>1 DEF Saved, FollowsInv, Busy
    <3> QED BY <2>2, <3>1, <3>2, FollowsStep DEF Gone
  <2>9. CASE Truncate
    <3> DEFINE m == IF Len(history) < limit THEN Len(history) ELSE limit
    <3>1. /\ history' = SubSeq(history, 1, m) /\ ui = "truncate"
          /\ unsaved' = (unsaved \/ Len(history) > limit)
          /\ UNCHANGED <<recording, disk, deleted, deleting, records>>
      BY <2>9 DEF Truncate
    <3>2. Len(history) \in Nat /\ limit \in Nat
      <4>1. limit \in Nat
        BY <2>1, LimitsTyping
      <4> QED BY <2>1, <4>1
    <3>3. m \in 0 .. Len(history)
      BY <3>2
    <3>4. Len(history) <= limit => m = Len(history)
      BY <3>2
    <3> HIDE DEF m
    <3>5. /\ history' \in Seq(Entries) /\ Len(history') = m
          /\ \A i \in 1 .. m : history'[i] = history[i]
      BY <2>1, <3>1, <3>3, Truncated
    <3>6. Ids(history') \subseteq Ids(history)
      <4>1. DOMAIN history' = 1 .. m
        BY <3>5
      <4>2. 1 .. m \subseteq DOMAIN history
        BY <2>1, <3>3
      <4> QED BY <3>5, <4>1, <4>2 DEF Ids, ToSet
    <3>7. m = Len(history) => history' = history
      BY <2>1, <3>1, SubSeqFull
    <3>8. Saved'
      <4>1. ASSUME ~unsaved' PROVE disk' = history'
        <5>1. ~unsaved /\ ~(Len(history) > limit)
          BY <3>1, <4>1
        <5>2. disk = history
          BY <3>1, <5>1 DEF Saved, FollowsInv
        <5>3. history' = history
          BY <3>2, <3>4, <3>7, <5>1
        <5> QED BY <3>1, <5>2, <5>3
      <4> QED BY <4>1 DEF Saved
    <3>9. \A r \in Recorder : Busy(r)' => Busy(r)
      BY <3>1 DEF Busy
    <3> QED BY <2>2, <3>1, <3>6, <3>8, <3>9, FollowsStep DEF Gone
  <2>10. CASE Restart \/ RestartTorn
    <3>1. /\ recording' = [r \in Recorder |-> NotRecording]
          /\ deleting' = {} /\ UNCHANGED <<deleted, records>>
          /\ history' = disk' /\ disk' \in {disk, <<>>}
      BY <2>10 DEF Restart, RestartTorn
    <3>2. \A r \in Recorder : ~Busy(r)'
      BY <3>1 DEF Busy
    <3>3. Ids(disk)' \subseteq Ids(disk) /\ Ids(history)' = Ids(disk)' /\ Gone' = deleted
      <4>1. Ids(disk') \subseteq Ids(disk)
        BY <2>1, <3>1, IdsOf
      <4>2. Ids(disk)' = Ids(disk') /\ Ids(history)' = Ids(history')
        BY DEF Ids
      <4> QED BY <3>1, <4>1, <4>2 DEF Gone
    <3>4. Fresh'
      BY <2>2, <3>1, <3>2, <3>3 DEF Fresh, FollowsInv
    <3>5. GoneStays' /\ Saved'
      BY <2>2, <3>1, <3>3 DEF GoneStays, Saved
    <3> QED BY <3>4, <3>5 DEF FollowsInv
  <2>11. CASE UNCHANGED vars
    BY <2>11 DEF vars, FollowsInv, Fresh, GoneStays, Saved, Busy, Gone, Ids
  <2> QED BY <2>3, <2>4, <2>5, <2>6, <2>7, <2>8, <2>9, <2>10, <2>11 DEF Next
<1> QED BY <1>1, <1>2, StaysSound, PTL DEF Spec

\* The file follows the list: between commands it holds what the windows show,
\* unless the list was truncated or a save failed since, and what was deleted stays
\* away (record, persist_history, delete_entry and HistoryStore of lib.rs).
THEOREM FileFollowsList == Spec => []FileFollows
<1>1. SoundInv /\ FollowsInv => FileFollows
  <2> SUFFICES ASSUME SoundInv, FollowsInv PROVE FileFollows
    OBVIOUS
  <2>1. \A i \in DOMAIN history : history[i].id \in Ids(history)
    <3>1. history \in Seq(Entries)
      BY DEF SoundInv, TypeOK
    <3> QED BY <3>1, IdsOf
  <2>2. DeletedForGood
    BY <2>1 DEF FollowsInv, GoneStays, Gone, DeletedForGood
  <2>3. SavedUnlessTruncated
    BY DEF FollowsInv, Saved, SavedUnlessTruncated
  <2> QED BY <2>2, <2>3 DEF FileFollows
<1> QED BY <1>1, StaysSound, StaysFollowed, PTL

\* The user's commands and the restarts are counted.
Counted == commands \in Nat /\ crashes \in Nat

\* The counters stay numbers.
LEMMA CountsHold == Spec => []Counted
<1>1. Init => Counted
  <2>1. Init => commands = 0 /\ crashes = 0
    BY DEF Init
  <2> QED BY <2>1 DEF Counted
<1>2. Counted /\ [Next]_vars => Counted'
  <2>1. ASSUME [Next]_vars
        PROVE  /\ commands' = commands \/ commands' = commands + 1
               /\ crashes' = crashes \/ crashes' = crashes + 1
    BY <2>1 DEF Next, vars, limits, ghosts, bounds, Command, ReadLimit, Record, Save, Persist,
                ClearHistory, SetHistoryLimit, Edit, PinEntry, UnpinEntry, DeleteEntry, Truncate,
                Restart, RestartTorn
  <2> QED BY <2>1 DEF Counted
<1> QED BY <1>1, <1>2, PTL DEF Spec

\* A record keeps the pins, but for that of an entry with the text it adds.
LEMMA RecordKeepsPins ==
  ASSUME SoundInv, FollowsInv, NEW r \in Recorder, NEW written \in BOOLEAN, Record(r, written),
         NEW id, HasPin(id)
  PROVE  HasPin(id)' \/ Recopied(id)
<1> DEFINE new == recording[r].entry
           n == recording[r].limit
<1>1. Books /\ history \in Seq(Entries)
  BY DEF SoundInv, TypeOK
<1>2. /\ history' = Recorded(history, new, n) /\ Busy(r)
      /\ recording' = [recording EXCEPT ![r] = NotRecording]
  BY DEF Record, Busy
<1>3. new \in Entries /\ ~new.pinned /\ new.id = recording[r].id /\ n \in Limits
  BY <1>1, <1>2, BusyTyping
<1>4. n \in Nat
  BY <1>3, LimitsTyping
<1>5. recording'[r] = NotRecording
  BY <1>1, <1>2 DEF Books
<1>6. PICK i \in DOMAIN history : history[i].pinned /\ history[i].id = id
  BY DEF HasPin, Pinned
<1>7. CASE history[i].text = new.text
  BY <1>2, <1>5, <1>6, <1>7 DEF Recopied, Busy
<1>8. CASE history[i].text # new.text
  <2> DEFINE x == history[i]
  <2>1. x \in ToSet(history)
    BY DEF ToSet
  <2>2. x.id # new.id
    <3>1. new.id \notin Ids(history)
      BY <1>2, <1>3 DEF FollowsInv, Fresh
    <3> QED BY <2>1, <3>1 DEF Ids
  <2>3. x.pinned /\ x.id = id /\ x.text # new.text
    BY <1>6, <1>8
  <2> HIDE DEF x, new, n
  <2>4. x \in ToSet(history')
    BY <1>1, <1>2, <1>3, <1>4, <2>1, <2>2, <2>3, RecordedSound
  <2> QED BY <2>3, <2>4 DEF HasPin, Pinned, ToSet
<1> QED BY <1>7, <1>8

\* A pin is lost only to the user, to a copy of the same text or to a restart, never
\* to other clips, however many are recorded and whatever limit a record had read
\* (the trimming of App::record).
THEOREM PinsAreKept == Spec => PinsKept
<1> DEFINE Kept == \A id \in 1 .. MaxRecords :
                     HasPin(id) => \/ HasPin(id)' \/ Recopied(id)
                                   \/ commands' # commands \/ Truncate \/ crashes' # crashes
<1>1. SoundInv /\ FollowsInv /\ Counted /\ [Next]_vars => [Kept]_vars
  <2> SUFFICES ASSUME SoundInv, FollowsInv, Counted, Next, NEW id, HasPin(id),
                      commands' = commands, crashes' = crashes, ~Truncate
               PROVE  HasPin(id)' \/ Recopied(id)
    BY DEF Kept
  <2>1. ASSUME history' = history PROVE HasPin(id)'
    BY <2>1 DEF HasPin, Pinned
  <2>2. ~Command
    <3>1. commands \in Nat
      BY DEF Counted
    <3>2. commands + 1 # commands
      BY <3>1
    <3> QED BY <3>2 DEF Command
  <2>3. ASSUME NEW r \in Recorder, NEW t \in Text, ReadLimit(r, t) PROVE HasPin(id)'
    BY <2>1, <2>3 DEF ReadLimit
  <2>4. ASSUME NEW r \in Recorder, NEW written \in BOOLEAN, Record(r, written)
        PROVE  HasPin(id)' \/ Recopied(id)
    BY <2>4, RecordKeepsPins
  <2>5. ASSUME NEW written \in BOOLEAN, Persist(written) PROVE HasPin(id)'
    BY <2>1, <2>5 DEF Persist
  <2>6. ~(Restart \/ RestartTorn)
    <3>1. crashes \in Nat
      BY DEF Counted
    <3>2. crashes + 1 # crashes
      BY <3>1
    <3> QED BY <3>2 DEF Restart, RestartTorn
  <2> QED BY <2>2, <2>3, <2>4, <2>5, <2>6
             DEF Next, ClearHistory, SetHistoryLimit, Edit, PinEntry, UnpinEntry, DeleteEntry
<1> QED BY <1>1, StaysSound, StaysFollowed, CountsHold, PTL DEF Spec, PinsKept

------------------------------------------------------------------------------
(* The toasts *)

StackTyping ==
  /\ stale \in Nat /\ run \in {"done", "sizing", "placing"}
  /\ stored \in Stack!Prefs /\ stackKnown \in Stack!Prefs /\ notices \in Seq(Stack!Prefs)
  /\ paused \in BOOLEAN /\ lost \in BOOLEAN /\ stackVisible \in BOOLEAN
  /\ stackLate \in BOOLEAN

\* An empty stack has no run, and no window unless a cancelled run may still show
\* it; a run that places the window uses the corner that it knows.
WindowFollows ==
  /\ stackToasts = <<>> => run = "done"
  /\ stackToasts = <<>> /\ ~stackLate => ~stackVisible /\ stale = 0
  /\ run = "placing" => where = stackKnown.position
  /\ Stack!WindowFollowsStack

StackInv ==
  /\ StackTyping
  /\ WindowFollows
  /\ Stack!TimersFollowToasts
  /\ Stack!PauseHasPointer

\* Whatever list is set, its effects make timers, window and pointer follow it.
LEMMA ToastsSet ==
  ASSUME StackInv, NEW q, NEW removals, Stack!SetToasts(q, removals),
         UNCHANGED <<stored, stackKnown, notices>>
  PROVE  StackInv'
<1> USE DEF StackInv
<1>1. /\ stackToasts' = q
      /\ Stack!Placed(q) /\ UNCHANGED where
      /\ stackLate' = (stackLate \/ (q = <<>> /\ stale' > 0))
      /\ Stack!Pointer(q)
      /\ dismissTimers' = Stack!DismissArmed(q, paused')
  BY DEF Stack!SetToasts
<1>2. paused' \in BOOLEAN /\ lost' \in BOOLEAN /\ Stack!PauseHasPointer'
  <2>1. CASE UNCHANGED <<paused, hovered, lost>>
    BY <2>1 DEF Stack!PauseHasPointer, StackTyping
  <2>2. CASE paused' = FALSE /\ UNCHANGED lost
    BY <2>2 DEF Stack!PauseHasPointer, StackTyping
  <2>3. CASE UNCHANGED paused /\ lost' = TRUE
    BY <2>3 DEF Stack!PauseHasPointer, StackTyping
  <2> QED BY <1>1, <2>1, <2>2, <2>3 DEF Stack!Pointer, Stack!pointer
<1>3. stale' \in Nat /\ run' \in {"done", "sizing"}
  BY <1>1 DEF Stack!Placed, Stack!Stale, StackTyping
<1>7. stackVisible' \in BOOLEAN
  BY <1>1 DEF Stack!Placed, StackTyping
<1>4. StackTyping'
  BY <1>1, <1>2, <1>3, <1>7 DEF StackTyping
<1>5. WindowFollows'
  <2>1. CASE q = <<>>
    <3>1. run' = "done" /\ stackVisible' = FALSE /\ stackToasts' = <<>>
      BY <1>1, <2>1 DEF Stack!Placed
    <3>2. ~stackLate' => stale' = 0
      <4>1. ~stackLate' => ~(stale' > 0)
        BY <1>1, <2>1, Zenon
      <4>2. ~(stale' > 0) => stale' = 0
        BY <1>3
      <4> QED BY <4>1, <4>2
    <3> QED BY <3>1, <3>2 DEF WindowFollows, Stack!WindowFollowsStack
  <2>2. CASE q # <<>>
    <3>1. run' = "sizing" /\ stackToasts' # <<>>
      BY <1>1, <2>2 DEF Stack!Placed
    <3> QED BY <3>1 DEF WindowFollows, Stack!WindowFollowsStack
  <2> QED BY <2>1, <2>2
<1>6. Stack!TimersFollowToasts'
  BY <1>1 DEF Stack!DismissArmed, Stack!TimersFollowToasts
<1> QED BY <1>2, <1>4, <1>5, <1>6

\* Timers, window and pointer follow the stack, whatever arrives, is dismissed or
\* is hovered (Toasts.tsx).
LEMMA StackAlone == Stack!Spec => []Stack!ToastsHonest
<1>1. Stack!Init => StackInv
  <2> SUFFICES ASSUME Stack!Init PROVE StackInv
    OBVIOUS
  <2>1. Stack!Live(<<>>) = {}
    BY DEF Stack!Live
  <2>2. StackTyping
    <3>1. /\ paused \in BOOLEAN /\ lost \in BOOLEAN /\ stackVisible \in BOOLEAN
          /\ stackLate \in BOOLEAN
      BY DEF Stack!Init
    <3>2. /\ stale \in Nat /\ run \in {"done", "sizing", "placing"}
          /\ stored \in Stack!Prefs /\ stackKnown \in Stack!Prefs
          /\ notices \in Seq(Stack!Prefs)
      BY DEF Stack!Init
    <3> QED BY <3>1, <3>2 DEF StackTyping
  <2>3. WindowFollows
    BY DEF Stack!Init, WindowFollows, Stack!WindowFollowsStack
  <2>4. Stack!TimersFollowToasts /\ Stack!PauseHasPointer
    BY <2>1 DEF Stack!Init, Stack!TimersFollowToasts, Stack!PauseHasPointer
  <2> QED BY <2>2, <2>3, <2>4 DEF StackInv
<1>2. StackInv /\ [Stack!Next]_(Stack!vars) => StackInv'
  <2> SUFFICES ASSUME StackInv, [Stack!Next]_(Stack!vars) PROVE StackInv'
    OBVIOUS
  <2> USE DEF Stack!timers, Stack!pointer, Stack!window, Stack!prefs, Stack!bounds
  <2>1. CASE Stack!Push
    <3>1. PICK q, r : Stack!SetToasts(q, r)
      BY <2>1 DEF Stack!Push
    <3>2. UNCHANGED <<stored, stackKnown, notices>>
      BY <2>1 DEF Stack!Push
    <3> QED BY <3>1, <3>2, ToastsSet
  <2>2. ASSUME NEW id \in 1 .. MaxArrived, Stack!Dismiss(id) \/ Stack!DismissFires(id)
        PROVE  StackInv'
    <3>1. PICK q, r : Stack!SetToasts(q, r)
      BY <2>2 DEF Stack!Dismiss, Stack!DismissFires
    <3>2. UNCHANGED <<stored, stackKnown, notices>>
      BY <2>2 DEF Stack!Dismiss, Stack!DismissFires
    <3> QED BY <3>1, <3>2, ToastsSet
  <2>3. ASSUME NEW id \in 1 .. MaxArrived, Stack!RemovalFires(id) PROVE StackInv'
    <3>1. PICK q, r : Stack!SetToasts(q, r)
      BY <2>3 DEF Stack!RemovalFires
    <3>2. UNCHANGED <<stored, stackKnown, notices>>
      BY <2>3 DEF Stack!RemovalFires
    <3> QED BY <3>1, <3>2, ToastsSet
  <2>4. ASSUME NEW id \in 1 .. MaxArrived, Stack!MouseEnter(id) PROVE StackInv'
    <3>1. /\ paused' = TRUE /\ hovered' = id /\ lost' = FALSE
          /\ dismissTimers' = {}
          /\ UNCHANGED <<stackToasts, run, stale, stackVisible, where, stackLate,
                         stored, stackKnown, notices>>
      BY <2>4 DEF Stack!MouseEnter, Stack!DismissArmed
    <3>2. id # 0
      OBVIOUS
    <3>3. Stack!TimersFollowToasts' /\ Stack!PauseHasPointer'
      BY <3>1, <3>2 DEF Stack!TimersFollowToasts, Stack!PauseHasPointer
    <3> QED BY <3>1, <3>3 DEF StackInv, StackTyping, WindowFollows, Stack!WindowFollowsStack
  <2>5. CASE Stack!MouseLeave
    <3>1. /\ paused' = FALSE /\ UNCHANGED lost
          /\ dismissTimers' = Stack!Live(stackToasts)
          /\ UNCHANGED <<stackToasts, run, stale, stackVisible, where, stackLate,
                         stored, stackKnown, notices>>
      BY <2>5 DEF Stack!MouseLeave, Stack!DismissArmed
    <3>2. Stack!TimersFollowToasts' /\ Stack!PauseHasPointer'
      BY <3>1 DEF Stack!TimersFollowToasts, Stack!PauseHasPointer, Stack!Live
    <3> QED BY <3>1, <3>2 DEF StackInv, StackTyping, WindowFollows, Stack!WindowFollowsStack
  <2>6. ASSUME UNCHANGED <<stackToasts, dismissTimers, paused, hovered, lost>>
        PROVE  Stack!TimersFollowToasts' /\ Stack!PauseHasPointer'
    BY <2>6 DEF StackInv, Stack!TimersFollowToasts, Stack!PauseHasPointer, Stack!Live
  <2>7. CASE Stack!Resized
    <3>1. StackTyping' /\ WindowFollows'
      BY <2>7 DEF Stack!Resized, StackInv, StackTyping, WindowFollows, Stack!WindowFollowsStack
    <3> QED BY <2>6, <2>7, <3>1 DEF Stack!Resized, StackInv
  <2>8. CASE Stack!Positioned
    <3>1. StackTyping' /\ WindowFollows'
      BY <2>8 DEF Stack!Positioned, StackInv, StackTyping, WindowFollows,
                  Stack!WindowFollowsStack
    <3> QED BY <2>6, <2>8, <3>1 DEF Stack!Positioned, StackInv
  <2>9. CASE Stack!StaleShows
    <3>1. StackTyping' /\ WindowFollows'
      BY <2>9 DEF Stack!StaleShows, StackInv, StackTyping, WindowFollows,
                  Stack!WindowFollowsStack
    <3> QED BY <2>6, <2>9, <3>1 DEF Stack!StaleShows, StackInv
  <2>10. CASE Stack!ChangePrefs
    <3>1. stored' \in Stack!Prefs /\ notices' \in Seq(Stack!Prefs)
      BY <2>10 DEF Stack!ChangePrefs, StackInv, StackTyping
    <3>2. UNCHANGED <<stackToasts, dismissTimers, paused, hovered, lost, run, stale,
                      stackVisible, where, stackLate, stackKnown>>
      BY <2>10 DEF Stack!ChangePrefs
    <3> QED BY <2>6, <3>1, <3>2 DEF StackInv, StackTyping, WindowFollows,
               Stack!WindowFollowsStack
  <2>11. CASE Stack!OnPrefs
    <3>1. /\ stackKnown' \in Stack!Prefs /\ notices' \in Seq(Stack!Prefs)
          /\ UNCHANGED <<stackToasts, dismissTimers, paused, hovered, lost, where,
                         stackLate, stored>>
      BY <2>11 DEF Stack!OnPrefs, Stack!Taken, StackInv, StackTyping
    <3>2. \/ /\ stackKnown'.position = stackKnown.position
             /\ UNCHANGED <<run, stale, stackVisible>>
          \/ /\ Stack!Placed(stackToasts)
      BY <2>11 DEF Stack!OnPrefs
    <3>3. StackTyping' /\ WindowFollows'
      <4>1. CASE /\ UNCHANGED <<run, stale, stackVisible>>
                 /\ stackKnown'.position = stackKnown.position
        BY <3>1, <4>1 DEF StackInv, StackTyping, WindowFollows, Stack!WindowFollowsStack
      <4>2. CASE Stack!Placed(stackToasts)
        <5>1. stale' \in Nat /\ run' \in {"done", "sizing"}
          BY <4>2 DEF Stack!Placed, Stack!Stale, StackInv, StackTyping
        <5>2. CASE stackToasts = <<>>
          <6>1. run = "done" /\ run' = "done" /\ stackVisible' = FALSE /\ stale' = stale
            BY <4>2, <5>2 DEF Stack!Placed, Stack!Stale, StackInv, StackTyping, WindowFollows
          <6>2. StackTyping'
            BY <3>1, <6>1 DEF StackInv, StackTyping
          <6>3. WindowFollows'
            BY <3>1, <5>2, <6>1 DEF StackInv, WindowFollows, Stack!WindowFollowsStack
          <6> QED BY <6>2, <6>3
        <5>3. CASE stackToasts # <<>>
          <6>1. run' = "sizing" /\ stackVisible' = stackVisible /\ stackToasts' # <<>>
            BY <3>1, <4>2, <5>3 DEF Stack!Placed
          <6>2. StackTyping'
            BY <3>1, <5>1, <6>1 DEF StackInv, StackTyping
          <6> QED BY <6>1, <6>2 DEF WindowFollows, Stack!WindowFollowsStack
        <5> QED BY <5>2, <5>3
      <4> QED BY <3>2, <4>1, <4>2
    <3> QED BY <2>6, <3>1, <3>3 DEF StackInv
  <2>12. CASE UNCHANGED Stack!vars
    BY <2>6, <2>12 DEF Stack!vars, StackInv, StackTyping, WindowFollows,
       Stack!WindowFollowsStack
  <2> QED
    BY <2>1, <2>2, <2>3, <2>4, <2>5, <2>7, <2>8, <2>9, <2>10, <2>11, <2>12 DEF Stack!Next
<1>3. StackInv => Stack!ToastsHonest
  BY DEF StackInv, WindowFollows, Stack!ToastsHonest, Stack!HiddenWhenEmpty
<1> QED BY <1>1, <1>2, <1>3, PTL DEF Stack!Spec

------------------------------------------------------------------------------
(* The website's links *)

SiteAssumption == Job \subseteq Site!Platform

\* The page shows no release, or some of the files that a release had got.
PageOf(n, S) == page = Site!Resolved(n, UNION {Site!Files(job) : job \in S})

SiteInv ==
  /\ attached \in Seq(SUBSET Job)
  /\ \/ page = Site!fallback
     \/ \E n \in DOMAIN attached : \E S \in SUBSET attached[n] : PageOf(n, S)
  /\ visitor \in [browser : Site!Browsers \cup {Site!Nobody.browser},
                  current : Site!Platform \cup {Site!Unknown}]
  /\ visitor.current # Site!Unknown => visitor.current = Site!detectPlatform(visitor.browser)

\* Only the job of a platform attaches its installer, and its name fits no other
\* pattern.
LEMMA InstallersApart ==
  ASSUME NEW id \in Site!Platform
  PROVE  /\ Site!MATCHERS(id) = {Site!BUILDS(id)}
         /\ \A job \in Site!Platform : Site!BUILDS(id) \in Site!Files(job) => job = id
<1>1. Site!MATCHERS(id) = {Site!BUILDS(id)}
  BY DEF Site!Platform, Site!MATCHERS, Site!BUILDS
<1>2. ASSUME NEW job \in Site!Platform, Site!BUILDS(id) \in Site!Files(job) PROVE job = id
  BY <1>2 DEF Site!Platform, Site!Files, Site!BUILDS
<1> QED BY <1>1, <1>2

\* The guess is one of the platforms, and right where the browser says enough.
LEMMA GuessFits ==
  ASSUME NEW b \in Site!Browsers \cup {Site!Nobody.browser}
  PROVE  /\ Site!detectPlatform(b) \in Site!Platform
         /\ b.system \in Site!Platform /\ (b.system = "macos-arm" => b.chip)
              => Site!detectPlatform(b) = b.system
<1> USE DEF Site!Browser, Site!Platform, Site!detectPlatform, Site!isAppleSilicon
<1>1. Site!detectPlatform(b) \in Site!Platform
  OBVIOUS
<1>2. CASE b \in {Site!Browser("windows", {"windows"}, "win", touch, FALSE) : touch \in BOOLEAN}
  BY <1>2
<1>3. CASE b \in {Site!Browser("android", {"android", "linux"}, platform, TRUE, FALSE) :
                    platform \in {"linux", "android"}}
  BY <1>3
<1>4. CASE b \in {Site!Browser("macos-intel", {"mac-os-x"}, "mac", FALSE, FALSE),
                  Site!Browser("macos-arm", {"mac-os-x"}, "mac", FALSE, TRUE),
                  Site!Browser("macos-arm", {"mac-os-x"}, "mac", FALSE, FALSE)}
  BY <1>4
<1>5. CASE b \in {Site!Browser("ipad", {"mac-os-x"}, "mac", TRUE, FALSE),
                  Site!Browser("linux", {"linux"}, "linux", FALSE, FALSE),
                  Site!Browser("cros", {}, "cros", FALSE, FALSE),
                  Site!Browser("bsd", {}, "freebsd", FALSE, FALSE)}
  BY <1>5
<1>6. CASE b = Site!Nobody.browser
  BY <1>6 DEF Site!Nobody
<1>7. \/ b \in {Site!Browser("windows", {"windows"}, "win", touch, FALSE) : touch \in BOOLEAN}
      \/ b \in {Site!Browser("android", {"android", "linux"}, platform, TRUE, FALSE) :
                  platform \in {"linux", "android"}}
      \/ b \in {Site!Browser("macos-intel", {"mac-os-x"}, "mac", FALSE, FALSE),
                Site!Browser("macos-arm", {"mac-os-x"}, "mac", FALSE, TRUE),
                Site!Browser("macos-arm", {"mac-os-x"}, "mac", FALSE, FALSE)}
      \/ b \in {Site!Browser("ipad", {"mac-os-x"}, "mac", TRUE, FALSE),
                Site!Browser("linux", {"linux"}, "linux", FALSE, FALSE),
                Site!Browser("cros", {}, "cros", FALSE, FALSE),
                Site!Browser("bsd", {}, "freebsd", FALSE, FALSE)}
      \/ b = Site!Nobody.browser
  <2> HIDE DEF Site!Browser
  <2> QED BY DEF Site!Browsers
<1> QED BY <1>1, <1>2, <1>3, <1>4, <1>5, <1>6, <1>7

\* Links lead to installers of the release that the page names (release.ts,
\* platform.ts, Downloads.tsx).
LEMMA SiteAlone ==
  ASSUME SiteAssumption PROVE Site!Spec => []Site!DownloadsHonest
<1>1. Site!Init => SiteInv
  <2> SUFFICES ASSUME Site!Init PROVE SiteInv
    OBVIOUS
  <2>1. attached \in Seq(SUBSET Job) /\ page = Site!fallback
    BY DEF Site!Init
  <2>2. visitor = Site!Nobody
    BY DEF Site!Init
  <2>3. /\ Site!Nobody \in [browser : {Site!Nobody.browser}, current : {Site!Unknown}]
        /\ Site!Nobody.current = Site!Unknown
    BY DEF Site!Nobody
  <2>4. visitor \in [browser : Site!Browsers \cup {Site!Nobody.browser},
                     current : Site!Platform \cup {Site!Unknown}]
    BY <2>2, <2>3
  <2> QED BY <2>1, <2>2, <2>3, <2>4 DEF SiteInv
<1>2. SiteInv /\ [Site!Next]_(Site!vars) => SiteInv'
  <2> SUFFICES ASSUME SiteInv, [Site!Next]_(Site!vars) PROVE SiteInv'
    OBVIOUS
  <2> DEFINE PageInv == \/ page = Site!fallback
                        \/ \E n \in DOMAIN attached : \E S \in SUBSET attached[n] : PageOf(n, S)
             VisitorInv ==
               /\ visitor \in [browser : Site!Browsers \cup {Site!Nobody.browser},
                               current : Site!Platform \cup {Site!Unknown}]
               /\ visitor.current # Site!Unknown
                    => visitor.current = Site!detectPlatform(visitor.browser)
  <2>0. attached \in Seq(SUBSET Job) /\ PageInv /\ VisitorInv
    BY DEF SiteInv
  <2> SUFFICES attached' \in Seq(SUBSET Job) /\ PageInv' /\ VisitorInv'
    BY DEF SiteInv
  <2>a. ASSUME UNCHANGED visitor PROVE VisitorInv'
    BY <2>0, <2>a
  <2>b. ASSUME UNCHANGED page, DOMAIN attached \subseteq DOMAIN attached',
               \A n \in DOMAIN attached : attached[n] \subseteq attached'[n]
        PROVE  PageInv'
    <3>1. CASE page = Site!fallback
      BY <2>b, <3>1
    <3>2. ASSUME NEW n \in DOMAIN attached, NEW S \in SUBSET attached[n], PageOf(n, S)
          PROVE  PageInv'
      <4>1. n \in DOMAIN attached' /\ S \in SUBSET attached'[n] /\ PageOf(n, S)'
        BY <2>b, <3>2 DEF PageOf
      <4> QED BY <4>1
    <3> QED BY <2>0, <3>1, <3>2
  <2>1. ASSUME NEW job \in Job, Site!Release(job)
        PROVE  attached' \in Seq(SUBSET Job) /\ PageInv' /\ VisitorInv'
    <3>1. attached' = Append(attached, {job}) /\ UNCHANGED <<page, visitor>>
      BY <2>1 DEF Site!Release
    <3>2. /\ attached' \in Seq(SUBSET Job) /\ DOMAIN attached \subseteq DOMAIN attached'
          /\ \A n \in DOMAIN attached : attached[n] \subseteq attached'[n]
      BY <2>0, <3>1
    <3> HIDE DEF PageInv, VisitorInv
    <3> QED BY <2>a, <2>b, <3>1, <3>2
  <2>2. ASSUME NEW job \in Job, NEW n \in DOMAIN attached, Site!Attach(job, n)
        PROVE  attached' \in Seq(SUBSET Job) /\ PageInv' /\ VisitorInv'
    <3>1. attached' = [attached EXCEPT ![n] = @ \cup {job}] /\ UNCHANGED <<page, visitor>>
      BY <2>2 DEF Site!Attach
    <3>2. /\ attached' \in Seq(SUBSET Job) /\ DOMAIN attached \subseteq DOMAIN attached'
          /\ \A k \in DOMAIN attached : attached[k] \subseteq attached'[k]
      BY <2>0, <3>1
    <3> HIDE DEF PageInv, VisitorInv
    <3> QED BY <2>a, <2>b, <3>1, <3>2
  <2>3. CASE Site!Home
    <3>1. /\ page' \in Site!fetchLatestRelease /\ visitor' = Site!Nobody
          /\ UNCHANGED attached
      BY <2>3 DEF Site!Home
    <3>2. PageInv'
      <4>1. CASE page' = Site!fallback
        BY <4>1
      <4>2. CASE page' # Site!fallback
        <5> DEFINE n == Len(attached)
        <5>1. n # 0 /\ page' = Site!Resolved(n, UNION {Site!Files(job) : job \in attached[n]})
          BY <3>1, <4>2 DEF Site!fetchLatestRelease
        <5>2. n \in DOMAIN attached
          BY <2>0, <5>1
        <5>3. PageOf(n, attached[n])'
          BY <3>1, <5>1 DEF PageOf
        <5> QED BY <3>1, <5>2, <5>3
      <4> QED BY <4>1, <4>2
    <3>3. VisitorInv'
      <4>1. /\ Site!Nobody \in [browser : {Site!Nobody.browser}, current : {Site!Unknown}]
            /\ Site!Nobody.current = Site!Unknown
        BY DEF Site!Nobody
      <4> QED BY <3>1, <4>1
    <3> QED BY <2>0, <3>1, <3>2, <3>3
  <2>4. CASE Site!Hydrate
    <3>1. /\ visitor.current = Site!Unknown
          /\ visitor' = [visitor EXCEPT !.current = Site!detectPlatform(visitor.browser)]
          /\ UNCHANGED <<attached, page>>
      BY <2>4 DEF Site!Hydrate
    <3>2. Site!detectPlatform(visitor.browser) \in Site!Platform
      BY <2>0, GuessFits
    <3>3. VisitorInv'
      BY <2>0, <3>1, <3>2
    <3> QED BY <2>0, <2>b, <3>1, <3>3
  <2>5. ASSUME NEW b \in Site!Browsers, Site!Visit(b)
        PROVE  attached' \in Seq(SUBSET Job) /\ PageInv' /\ VisitorInv'
    <3>1. visitor' = [browser |-> b, current |-> Site!Unknown] /\ UNCHANGED <<attached, page>>
      BY <2>5 DEF Site!Visit
    <3>2. VisitorInv'
      BY <3>1
    <3> QED BY <2>0, <2>b, <3>1, <3>2
  <2>6. CASE UNCHANGED Site!vars
    <3>1. UNCHANGED <<attached, page, visitor>>
      BY <2>6 DEF Site!vars
    <3> QED BY <2>0, <2>a, <2>b, <3>1
  <2> HIDE DEF PageInv, VisitorInv
  <2> QED BY <2>1, <2>2, <2>3, <2>4, <2>5, <2>6 DEF Site!Next
<1>3. SiteInv => Site!DownloadsHonest
  <2> SUFFICES ASSUME SiteInv PROVE Site!LinksLead /\ Site!CardsFit
    BY DEF Site!DownloadsHonest
  <2>0. /\ \/ page = Site!fallback
           \/ \E n \in DOMAIN attached : \E S \in SUBSET attached[n] : PageOf(n, S)
        /\ visitor \in [browser : Site!Browsers \cup {Site!Nobody.browser},
                        current : Site!Platform \cup {Site!Unknown}]
        /\ visitor.current # Site!Unknown
             => visitor.current = Site!detectPlatform(visitor.browser)
    BY DEF SiteInv
  <2>1. ASSUME NEW id \in Site!Platform
        PROVE  /\ page.builds[id].role = Site!META(id)
               /\ page.builds[id].href.of = page.version
               /\ page.builds[id].href.files # {}
                    => /\ id \in attached[page.builds[id].href.of]
                       /\ page.builds[id].href.files = {Site!BUILDS(id)}
    <3>1. CASE page = Site!fallback
      BY <3>1 DEF Site!fallback, Site!ResolvedBuild, Site!Link
    <3>2. ASSUME NEW n \in DOMAIN attached, NEW S \in SUBSET attached[n], PageOf(n, S)
          PROVE  /\ page.builds[id].role = Site!META(id)
                 /\ page.builds[id].href.of = page.version
                 /\ page.builds[id].href.files # {}
                      => /\ id \in attached[page.builds[id].href.of]
                         /\ page.builds[id].href.files = {Site!BUILDS(id)}
      <4> DEFINE assets == UNION {Site!Files(job) : job \in S}
      <4>1. /\ page.version = n
            /\ page.builds[id] = Site!ResolvedBuild(id, Site!Link(n, assets \cap Site!MATCHERS(id)))
        BY <3>2 DEF PageOf, Site!Resolved
      <4>2. /\ page.builds[id].role = Site!META(id) /\ page.builds[id].href.of = n
            /\ page.builds[id].href.files = assets \cap Site!MATCHERS(id)
        BY <4>1 DEF Site!ResolvedBuild, Site!Link
      <4>3. Site!MATCHERS(id) = {Site!BUILDS(id)}
        BY InstallersApart
      <4>4. ASSUME Site!BUILDS(id) \in assets PROVE id \in attached[n]
        <5>1. PICK job \in S : Site!BUILDS(id) \in Site!Files(job)
          BY <4>4
        <5>2. attached[n] \subseteq Job /\ job \in Site!Platform
          BY SiteAssumption DEF SiteInv, SiteAssumption
        <5> QED BY <5>1, <5>2, InstallersApart
      <4> HIDE DEF assets
      <4> QED BY <4>1, <4>2, <4>3, <4>4
    <3> QED BY <2>0, <3>1, <3>2
  <2>2. Site!LinksLead
    BY <2>1 DEF Site!LinksLead
  <2>3. Site!pcBuild.role = "host" /\ Site!androidBuild.role = "companion"
    BY <2>0, <2>1 DEF Site!pcBuild, Site!androidBuild, Site!META, Site!Platform, Site!Unknown
  <2>4. visitor.current # Site!Unknown /\ visitor.browser.system \in Site!Platform
          /\ (visitor.browser.system = "macos-arm" => visitor.browser.chip)
          => Site!isCurrent(visitor.browser.system)
    BY <2>0, GuessFits DEF Site!isCurrent
  <2> QED BY <2>2, <2>3, <2>4 DEF Site!CardsFit
<1> QED BY <1>1, <1>2, <1>3, PTL DEF Site!Spec

------------------------------------------------------------------------------
(* The demonstration *)

Typed == Word \cup {Blank, Opening}
Rendered == [text : Typed, busy : BOOLEAN]
Packets == [to : {"phone", "pc"}, kind : {"text", "image", "notification"},
            text : Typed, shown : Typed]
PhoneRows == [id : Int, origin : {"local", "pc", "phone"}]

DemoTyping ==
  /\ pcText \in Typed /\ busy \in BOOLEAN /\ seen \in Rendered
  /\ autoWatch \in BOOLEAN /\ lastSentRef \in Typed
  /\ flights \in Seq(Packets)
  /\ demoClips \in Seq(PhoneRows) /\ marks \in Seq(Int)
  /\ demoCauses \in [pasted : BOOLEAN, overlap : BOOLEAN]
  /\ demoBounds \in [pushes : Nat, typed : Nat, copies : Nat]

\* While no two packets were in the air: busy says whether there is one; a packet
\* to the PC was sent from a page that has not been rendered since, and a page that
\* is not waiting for one shows what the PC has; and an idle watcher has sent what
\* the page shows, or a render is to come.
OneFlight ==
  /\ busy = (flights # <<>>)
  /\ flights # <<>> => Tail(flights) = <<>>
  /\ flights # <<>> /\ Head(flights).to = "pc" => seen.busy
  /\ ~seen.busy => seen.text = pcText
  /\ autoWatch /\ timer = <<>> => seen.busy \/ seen.text \in {Blank, lastSentRef}
  /\ demoCauses.pasted => pcText = lastSentRef

DemoInv ==
  /\ DemoTyping
  /\ timer # <<>> => timer = <<seen>>
  /\ ~demoCauses.overlap => OneFlight
  /\ demoCopied \subseteq ToSet(marks)

\* A packet that starts is the only one, or two were in the air.
LEMMA Flown ==
  ASSUME DemoInv, NEW packet \in Packets, Demo!Fly(packet)
  PROVE  /\ busy' = TRUE /\ flights' \in Seq(Packets) /\ flights' # <<>>
         /\ demoCauses' \in [pasted : BOOLEAN, overlap : BOOLEAN]
         /\ demoCauses'.pasted = demoCauses.pasted
         /\ demoBounds' \in [pushes : Nat, typed : Nat, copies : Nat]
         /\ ~demoCauses'.overlap =>
              ~demoCauses.overlap /\ ~busy /\ Head(flights') = packet /\ Tail(flights') = <<>>
<1>1. /\ busy' = TRUE /\ flights' = Append(flights, packet)
      /\ demoCauses' = [demoCauses EXCEPT !.overlap = @ \/ flights # <<>>]
      /\ demoBounds' = [demoBounds EXCEPT !.pushes = @ + 1]
  BY DEF Demo!Fly
<1>2. /\ flights \in Seq(Packets) /\ demoCauses \in [pasted : BOOLEAN, overlap : BOOLEAN]
      /\ demoBounds \in [pushes : Nat, typed : Nat, copies : Nat]
  BY DEF DemoInv, DemoTyping
<1>3. flights' \in Seq(Packets) /\ flights' # <<>>
  BY <1>1, <1>2
<1>4. demoBounds' \in [pushes : Nat, typed : Nat, copies : Nat]
  BY <1>1, <1>2
<1>5. /\ demoCauses' \in [pasted : BOOLEAN, overlap : BOOLEAN]
      /\ demoCauses'.pasted = demoCauses.pasted
      /\ demoCauses'.overlap = (demoCauses.overlap \/ flights # <<>>)
  BY <1>1, <1>2
<1>6. ASSUME ~demoCauses'.overlap
      PROVE  ~demoCauses.overlap /\ ~busy /\ Head(flights') = packet /\ Tail(flights') = <<>>
  <2>1. ~demoCauses.overlap /\ flights = <<>>
    BY <1>5, <1>6
  <2>2. ~busy
    BY <2>1 DEF DemoInv, OneFlight
  <2>3. Append(<<>>, packet) = <<packet>> /\ Head(<<packet>>) = packet /\ Tail(<<packet>>) = <<>>
    OBVIOUS
  <2> QED BY <1>1, <2>1, <2>2, <2>3
<1> QED BY <1>1, <1>3, <1>4, <1>5, <1>6

\* The list on the phone stays a list.
LEMMA Landed ==
  ASSUME MaxLanded \in Nat, DemoTyping, NEW o \in {"local", "pc", "phone"}
  PROVE  Demo!Added(Demo!Row(demoBounds.pushes - Len(flights) + 1, o)) \in Seq(PhoneRows)
<1> DEFINE row == Demo!Row(demoBounds.pushes - Len(flights) + 1, o)
<1>1. row \in PhoneRows
  <2>1. Len(flights) \in Nat /\ demoBounds.pushes \in Nat
    BY DEF DemoTyping
  <2> QED BY <2>1 DEF Demo!Row, PhoneRows
<1>2. demoClips \in Seq(PhoneRows)
  BY DEF DemoTyping
<1> HIDE DEF row
<1>3. Demo!Added(row) \in Seq(PhoneRows)
  BY <1>1, <1>2, Topped DEF Demo!Added
<1> QED BY <1>3 DEF row

\* What is typed is sent, what is received is not returned, and a tick goes
\* (SyncSimulator.tsx).
LEMMA DemoAlone ==
  ASSUME MaxLanded \in Nat PROVE Demo!Spec => []Demo!SimulatorHonest
<1>1. Demo!Init => DemoInv
  <2> SUFFICES ASSUME Demo!Init PROVE DemoInv
    OBVIOUS
  <2>1. demoClips \in Seq(PhoneRows)
    BY DEF Demo!Init, Demo!Row, PhoneRows
  <2>2. DemoTyping
    <3>1. /\ pcText \in Typed /\ lastSentRef \in Typed /\ flights = <<>> /\ marks = <<>>
      BY DEF Demo!Init, Typed
    <3>4. busy \in BOOLEAN /\ autoWatch \in BOOLEAN
      BY DEF Demo!Init
    <3>5. flights \in Seq(Packets) /\ marks \in Seq(Int)
      BY <3>1
    <3>2. seen \in Rendered
      BY DEF Demo!Init, Demo!Seen, Rendered, Typed
    <3>3. /\ demoCauses \in [pasted : BOOLEAN, overlap : BOOLEAN]
          /\ demoBounds \in [pushes : Nat, typed : Nat, copies : Nat]
      BY DEF Demo!Init
    <3> QED BY <2>1, <3>1, <3>2, <3>3, <3>4, <3>5 DEF DemoTyping
  <2>3. OneFlight
    BY DEF Demo!Init, Demo!Seen, OneFlight
  <2>4. timer = <<seen>> /\ demoCopied = {}
    BY DEF Demo!Init
  <2> QED BY <2>2, <2>3, <2>4 DEF DemoInv
<1>2. DemoInv /\ [Demo!Next]_(Demo!vars) => DemoInv'
  <2> SUFFICES ASSUME DemoInv, [Demo!Next]_(Demo!vars) PROVE DemoInv'
    OBVIOUS
  <2>0. /\ DemoTyping
        /\ timer # <<>> => timer = <<seen>>
        /\ ~demoCauses.overlap => OneFlight
        /\ demoCopied \subseteq ToSet(marks)
    BY DEF DemoInv
  <2>a. /\ seen \in Rendered /\ demoCauses \in [pasted : BOOLEAN, overlap : BOOLEAN]
        /\ demoBounds \in [pushes : Nat, typed : Nat, copies : Nat]
        /\ demoClips \in Seq(PhoneRows) /\ marks \in Seq(Int)
    BY <2>0 DEF DemoTyping
  <2>1. ASSUME NEW t \in Word \cup {Blank}, Demo!Type(t) PROVE DemoInv'
    <3>1. /\ pcText' = t /\ seen' = [seen EXCEPT !.text = t]
          /\ timer' = Demo!Armed(autoWatch, seen')
          /\ demoCauses' = [demoCauses EXCEPT !.pasted = FALSE]
          /\ demoBounds' = [demoBounds EXCEPT !.typed = @ + 1]
          /\ UNCHANGED <<busy, autoWatch, lastSentRef, flights, demoClips, demoCopied, marks>>
      BY <2>1 DEF Demo!Type
    <3>2. /\ seen' \in Rendered /\ seen'.text = t /\ seen'.busy = seen.busy /\ t \in Typed
          /\ demoCauses' \in [pasted : BOOLEAN, overlap : BOOLEAN]
          /\ demoCauses'.overlap = demoCauses.overlap /\ demoCauses'.pasted = FALSE
          /\ demoBounds' \in [pushes : Nat, typed : Nat, copies : Nat]
      <4>1. seen' \in Rendered /\ seen'.text = t /\ seen'.busy = seen.busy /\ t \in Typed
        BY <2>a, <3>1 DEF Rendered, Typed
      <4>2. /\ demoCauses' \in [pasted : BOOLEAN, overlap : BOOLEAN]
            /\ demoCauses'.overlap = demoCauses.overlap /\ demoCauses'.pasted = FALSE
        BY <2>a, <3>1
      <4>3. demoBounds' \in [pushes : Nat, typed : Nat, copies : Nat]
        BY <2>a, <3>1
      <4> QED BY <4>1, <4>2, <4>3
    <3>3. DemoTyping'
      BY <2>0, <3>1, <3>2 DEF DemoTyping
    <3>4. /\ timer' # <<>> => timer' = <<seen'>>
          /\ autoWatch' => timer' # <<>>
      BY <3>1 DEF Demo!Armed
    <3>5. ~demoCauses'.overlap => OneFlight'
      BY <2>0, <3>1, <3>2, <3>4 DEF OneFlight
    <3>6. demoCopied' \subseteq ToSet(marks')
      BY <2>0, <3>1
    <3> QED BY <3>3, <3>4, <3>5, <3>6 DEF DemoInv
  <2>2. CASE Demo!ToggleWatcher
    <3>1. /\ autoWatch' = ~autoWatch /\ timer' = Demo!Armed(autoWatch', seen)
          /\ demoBounds' = [demoBounds EXCEPT !.typed = @ + 1]
          /\ UNCHANGED <<pcText, busy, seen, lastSentRef, flights, demoClips, demoCopied,
                         marks, demoCauses>>
      BY <2>2 DEF Demo!ToggleWatcher
    <3>2. demoBounds' \in [pushes : Nat, typed : Nat, copies : Nat] /\ autoWatch' \in BOOLEAN
      BY <2>0, <3>1, SMTT(60) DEF DemoTyping
    <3>3. DemoTyping'
      BY <2>0, <3>1, <3>2 DEF DemoTyping
    <3>4. /\ timer' # <<>> => timer' = <<seen'>>
          /\ autoWatch' => timer' # <<>>
      BY <3>1 DEF Demo!Armed
    <3>5. ~demoCauses'.overlap => OneFlight'
      BY <2>0, <3>1, <3>4 DEF OneFlight
    <3>6. demoCopied' \subseteq ToSet(marks')
      BY <2>0, <3>1
    <3> QED BY <3>3, <3>4, <3>5, <3>6 DEF DemoInv
  <2>3. CASE Demo!PushToPhone
    <3> DEFINE packet == Demo!Packet("phone", "text", seen.text, seen.text)
    <3>1. /\ ~seen.busy /\ Demo!Fly(packet)
          /\ lastSentRef' = seen.text /\ seen' = [seen EXCEPT !.busy = TRUE]
          /\ timer' = Demo!Armed(autoWatch, seen')
          /\ UNCHANGED <<pcText, autoWatch, demoClips, demoCopied, marks>>
      BY <2>3 DEF Demo!PushToPhone
    <3>2. packet \in Packets /\ packet.to = "phone"
      BY <2>0 DEF Demo!Packet, Packets, DemoTyping, Rendered
    <3> HIDE DEF packet
    <3>3. /\ seen' \in Rendered /\ seen'.busy = TRUE /\ seen'.text = seen.text
          /\ seen.text \in Typed
      BY <2>0, <3>1 DEF DemoTyping, Rendered
    <3>4. /\ busy' = TRUE /\ flights' \in Seq(Packets) /\ flights' # <<>>
          /\ demoCauses' \in [pasted : BOOLEAN, overlap : BOOLEAN]
          /\ demoCauses'.pasted = demoCauses.pasted
          /\ demoBounds' \in [pushes : Nat, typed : Nat, copies : Nat]
          /\ ~demoCauses'.overlap =>
               ~demoCauses.overlap /\ ~busy /\ Head(flights') = packet /\ Tail(flights') = <<>>
      BY <3>1, <3>2, Flown
    <3>5. DemoTyping'
      BY <2>0, <3>1, <3>3, <3>4 DEF DemoTyping
    <3>6. /\ timer' # <<>> => timer' = <<seen'>>
          /\ autoWatch' => timer' # <<>>
      BY <3>1 DEF Demo!Armed
    <3>7. ~demoCauses'.overlap => OneFlight'
      BY <2>0, <3>1, <3>2, <3>3, <3>4, <3>6 DEF OneFlight
    <3>8. demoCopied' \subseteq ToSet(marks')
      BY <2>0, <3>1
    <3> QED BY <3>5, <3>6, <3>7, <3>8 DEF DemoInv
  <2>4. ASSUME NEW kind \in {"text", "image", "notification"}, NEW t \in Word,
               Demo!PushToPc(kind, t)
        PROVE  DemoInv'
    <3> DEFINE packet == Demo!Packet("pc", kind, t, seen.text)
    <3>1. /\ ~seen.busy /\ Demo!Fly(packet)
          /\ seen' = [seen EXCEPT !.busy = TRUE]
          /\ timer' = Demo!Armed(autoWatch, seen')
          /\ UNCHANGED <<pcText, autoWatch, lastSentRef, demoClips, demoCopied, marks>>
      BY <2>4 DEF Demo!PushToPc
    <3>2. packet \in Packets
      BY <2>0 DEF Demo!Packet, Packets, DemoTyping, Rendered, Typed
    <3> HIDE DEF packet
    <3>3. seen' \in Rendered /\ seen'.busy = TRUE /\ seen'.text = seen.text
      BY <2>0, <3>1 DEF DemoTyping, Rendered
    <3>4. /\ busy' = TRUE /\ flights' \in Seq(Packets) /\ flights' # <<>>
          /\ demoCauses' \in [pasted : BOOLEAN, overlap : BOOLEAN]
          /\ demoCauses'.pasted = demoCauses.pasted
          /\ demoBounds' \in [pushes : Nat, typed : Nat, copies : Nat]
          /\ ~demoCauses'.overlap =>
               ~demoCauses.overlap /\ ~busy /\ Head(flights') = packet /\ Tail(flights') = <<>>
      BY <3>1, <3>2, Flown
    <3>5. DemoTyping'
      BY <2>0, <3>1, <3>3, <3>4 DEF DemoTyping
    <3>6. /\ timer' # <<>> => timer' = <<seen'>>
          /\ autoWatch' => timer' # <<>>
      BY <3>1 DEF Demo!Armed
    <3>7. ~demoCauses'.overlap => OneFlight'
      BY <2>0, <3>1, <3>3, <3>4, <3>6 DEF OneFlight
    <3>8. demoCopied' \subseteq ToSet(marks')
      BY <2>0, <3>1
    <3> QED BY <3>5, <3>6, <3>7, <3>8 DEF DemoInv
  <2>5. ASSUME NEW i \in DOMAIN demoClips, Demo!CopyRow(i) PROVE DemoInv'
    <3>1. /\ demoCopied' = {demoClips[i].id} /\ marks' = Append(marks, demoClips[i].id)
          /\ demoBounds' = [demoBounds EXCEPT !.copies = @ + 1]
          /\ UNCHANGED <<pcText, busy, seen, autoWatch, lastSentRef, timer, flights,
                         demoClips, demoCauses>>
      BY <2>5 DEF Demo!CopyRow
    <3>2. demoBounds' \in [pushes : Nat, typed : Nat, copies : Nat]
      <4>1. demoBounds \in [pushes : Nat, typed : Nat, copies : Nat]
        BY <2>a
      <4>2. demoBounds' = [demoBounds EXCEPT !.copies = @ + 1]
        BY <3>1
      <4> QED BY <4>1, <4>2
    <3>3. demoClips[i].id \in Int /\ marks \in Seq(Int)
      <4>1. demoClips \in Seq(PhoneRows) /\ marks \in Seq(Int)
        BY <2>a
      <4>2. demoClips[i] \in PhoneRows
        BY <4>1
      <4> QED BY <4>1, <4>2 DEF PhoneRows
    <3>4. /\ marks' \in Seq(Int) /\ Len(marks) + 1 \in DOMAIN marks'
          /\ marks'[Len(marks) + 1] = demoClips[i].id
      BY <3>1, <3>3, Added
    <3>5. DemoTyping'
      BY <2>0, <3>1, <3>2, <3>4 DEF DemoTyping
    <3>6. demoCopied' \subseteq ToSet(marks')
      BY <3>1, <3>4 DEF ToSet
    <3>7. OneFlight => OneFlight'
      BY <3>1 DEF OneFlight
    <3> QED BY <2>0, <3>1, <3>5, <3>6, <3>7 DEF DemoInv
  <2>6. CASE Demo!WatcherFires
    <3> DEFINE it == timer[1]
               packet == Demo!Packet("phone", "text", it.text, it.text)
    <3>1. /\ timer # <<>> /\ timer' = <<>>
          /\ IF it.text # Blank /\ it.text # lastSentRef /\ ~it.busy
               THEN Demo!Fly(packet) /\ lastSentRef' = it.text
               ELSE UNCHANGED <<busy, flights, demoCauses, demoBounds, lastSentRef>>
          /\ UNCHANGED <<pcText, seen, autoWatch, demoClips, demoCopied, marks>>
      BY <2>6 DEF Demo!WatcherFires
    <3>2. it = seen
      BY <2>0, <3>1
    <3>3. packet \in Packets /\ packet.to = "phone" /\ it.text \in Typed
      BY <2>0, <3>2 DEF Demo!Packet, Packets, DemoTyping, Rendered
    <3> HIDE DEF packet, it
    <3>4. demoCopied' \subseteq ToSet(marks')
      BY <2>0, <3>1
    <3>5. CASE it.text # Blank /\ it.text # lastSentRef /\ ~it.busy
      <4>1. Demo!Fly(packet) /\ lastSentRef' = it.text
        BY <3>1, <3>5
      <4>2. /\ busy' = TRUE /\ flights' \in Seq(Packets) /\ flights' # <<>>
            /\ demoCauses' \in [pasted : BOOLEAN, overlap : BOOLEAN]
            /\ demoCauses'.pasted = demoCauses.pasted
            /\ demoBounds' \in [pushes : Nat, typed : Nat, copies : Nat]
            /\ ~demoCauses'.overlap =>
                 ~demoCauses.overlap /\ ~busy /\ Head(flights') = packet /\ Tail(flights') = <<>>
        BY <3>3, <4>1, Flown
      <4>3. DemoTyping'
        BY <2>0, <3>1, <3>3, <4>1, <4>2 DEF DemoTyping
      <4>4. ~demoCauses'.overlap => OneFlight'
        BY <2>0, <3>1, <3>2, <3>3, <3>5, <4>1, <4>2 DEF OneFlight
      <4> QED BY <3>1, <3>4, <4>3, <4>4 DEF DemoInv
    <3>6. CASE ~(it.text # Blank /\ it.text # lastSentRef /\ ~it.busy)
      <4>1. UNCHANGED <<busy, flights, demoCauses, demoBounds, lastSentRef>>
        BY <3>1, <3>6
      <4>2. DemoTyping'
        BY <2>0, <3>1, <4>1 DEF DemoTyping
      <4>3. ~demoCauses'.overlap => OneFlight'
        BY <2>0, <3>1, <3>2, <3>6, <4>1 DEF OneFlight
      <4> QED BY <3>1, <3>4, <4>2, <4>3 DEF DemoInv
    <3> QED BY <3>5, <3>6
  <2>7. CASE Demo!Land
    <3> DEFINE f == Head(flights)
    <3>1. /\ flights # <<>> /\ flights' = Tail(flights) /\ busy' = FALSE
          /\ IF f.to = "pc" THEN Demo!LandOnPc(f) ELSE Demo!LandOnPhone(f)
          /\ UNCHANGED <<seen, autoWatch, timer, demoCopied, marks, demoBounds>>
      BY <2>7 DEF Demo!Land
    <3>2. f \in Packets /\ flights' \in Seq(Packets)
      <4>1. flights \in Seq(Packets)
        BY <2>0 DEF DemoTyping
      <4> QED BY <3>1, <4>1, Taken
    <3>3. demoCopied' \subseteq ToSet(marks')
      BY <2>0, <3>1
    <3>4. CASE f.to = "pc"
      <4>1. /\ lastSentRef' = f.text
            /\ pcText' = IF f.kind = "text" THEN f.text ELSE f.shown
            /\ demoClips' = Demo!Added(Demo!Row(demoBounds.pushes - Len(flights) + 1, "phone"))
            /\ demoCauses' = [demoCauses EXCEPT !.pasted = f.kind = "text"]
        BY <3>1, <3>4 DEF Demo!LandOnPc
      <4>2. /\ demoCauses' \in [pasted : BOOLEAN, overlap : BOOLEAN]
            /\ demoCauses'.pasted = (f.kind = "text")
            /\ demoCauses'.overlap = demoCauses.overlap
        BY <2>0, <4>1 DEF DemoTyping
      <4>3. lastSentRef' \in Typed /\ pcText' \in Typed
        BY <3>2, <4>1 DEF Packets
      <4>4. demoClips' \in Seq(PhoneRows)
        BY <2>0, <4>1, Landed
      <4>5. DemoTyping'
        BY <2>0, <3>1, <3>2, <4>2, <4>3, <4>4 DEF DemoTyping
      <4>6. ~demoCauses'.overlap => OneFlight'
        <5> HIDE DEF f
        <5>1. ASSUME ~demoCauses'.overlap PROVE OneFlight'
          <6>1. OneFlight
            BY <2>0, <4>2, <5>1
          <6>2. seen.busy /\ flights' = <<>>
            BY <3>1, <3>4, <6>1 DEF OneFlight, f
          <6>3. demoCauses'.pasted => pcText' = lastSentRef'
            BY <4>1, <4>2
          <6> QED BY <3>1, <6>2, <6>3 DEF OneFlight
        <5> QED BY <5>1
      <4> QED BY <2>0, <3>1, <3>3, <4>5, <4>6 DEF DemoInv
    <3>5. CASE f.to # "pc"
      <4>1. /\ demoClips' = Demo!Added(Demo!Row(demoBounds.pushes - Len(flights) + 1, "pc"))
            /\ UNCHANGED <<pcText, lastSentRef, demoCauses>>
        BY <3>1, <3>5 DEF Demo!LandOnPhone
      <4>2. demoClips' \in Seq(PhoneRows)
        BY <2>0, <4>1, Landed
      <4>3. DemoTyping'
        BY <2>0, <3>1, <3>2, <4>1, <4>2 DEF DemoTyping
      <4>4. ~demoCauses'.overlap => OneFlight'
        BY <2>0, <3>1, <4>1 DEF OneFlight
      <4> QED BY <2>0, <3>1, <3>3, <4>3, <4>4 DEF DemoInv
    <3> QED BY <3>4, <3>5
  <2>8. CASE Demo!Render
    <3>1. /\ seen' = [text |-> pcText, busy |-> busy]
          /\ timer' = Demo!Armed(autoWatch, seen') /\ seen # [text |-> pcText, busy |-> busy]
          /\ UNCHANGED <<pcText, busy, autoWatch, lastSentRef, flights, demoClips,
                         demoCopied, marks, demoCauses, demoBounds>>
      BY <2>8 DEF Demo!Render, Demo!Seen
    <3>2. seen' \in Rendered /\ seen'.text = pcText /\ seen'.busy = busy
      BY <2>0, <3>1 DEF DemoTyping, Rendered
    <3>3. DemoTyping'
      BY <2>0, <3>1, <3>2 DEF DemoTyping
    <3>4. /\ timer' # <<>> => timer' = <<seen'>>
          /\ autoWatch' => timer' # <<>>
      BY <3>1 DEF Demo!Armed
    <3>5. ~demoCauses'.overlap => OneFlight'
      BY <2>0, <3>1, <3>2, <3>4 DEF OneFlight
    <3>6. demoCopied' \subseteq ToSet(marks')
      BY <2>0, <3>1
    <3> QED BY <3>3, <3>4, <3>5, <3>6 DEF DemoInv
  <2>9. CASE Demo!MarkExpires
    <3>1. /\ marks # <<>> /\ marks' = Tail(marks) /\ demoCopied' = demoCopied \ {Head(marks)}
          /\ UNCHANGED <<pcText, busy, seen, autoWatch, lastSentRef, timer, flights,
                         demoClips, demoCauses, demoBounds>>
      BY <2>9 DEF Demo!MarkExpires
    <3>2. /\ Head(marks) = marks[1] /\ marks' \in Seq(Int)
          /\ \A k \in DOMAIN marks : k # 1 => k - 1 \in DOMAIN marks' /\ marks[k] = marks'[k - 1]
      <4>1. marks \in Seq(Int)
        BY <2>0 DEF DemoTyping
      <4> QED BY <3>1, <4>1, Taken
    <3>3. demoCopied' \subseteq ToSet(marks')
      <4>1. ASSUME NEW x \in demoCopied' PROVE \E k \in DOMAIN marks' : marks'[k] = x
        <5>1. PICK k \in DOMAIN marks : marks[k] = x
          BY <2>0, <3>1 DEF ToSet
        <5>2. k # 1
          BY <3>1, <3>2, <5>1
        <5> QED BY <3>2, <5>1, <5>2
      <4> QED BY <4>1 DEF ToSet
    <3>4. DemoTyping'
      BY <2>0, <3>1, <3>2 DEF DemoTyping
    <3>5. OneFlight => OneFlight'
      BY <3>1 DEF OneFlight
    <3> QED BY <2>0, <3>1, <3>3, <3>4, <3>5 DEF DemoInv
  <2>10. CASE UNCHANGED Demo!vars
    <3>1. UNCHANGED <<pcText, busy, seen, autoWatch, lastSentRef, timer, flights,
                      demoClips, demoCopied, marks, demoCauses, demoBounds>>
      BY <2>10 DEF Demo!vars
    <3>2. DemoTyping'
      BY <2>0, <3>1 DEF DemoTyping
    <3>3. OneFlight => OneFlight'
      BY <3>1 DEF OneFlight
    <3> QED BY <2>0, <3>1, <3>2, <3>3 DEF DemoInv
  <2>11. ASSUME NEW t \in Word,
                Demo!SendText(t) \/ Demo!SyncScreenshot(t) \/ Demo!MirrorNotification(t)
         PROVE  DemoInv'
    BY <2>4, <2>11 DEF Demo!SendText, Demo!SyncScreenshot, Demo!MirrorNotification
  <2> QED
    BY <2>1, <2>2, <2>3, <2>5, <2>6, <2>7, <2>8, <2>9, <2>10, <2>11 DEF Demo!Next
<1>3. DemoInv => Demo!SimulatorHonest
  <2> SUFFICES ASSUME DemoInv PROVE Demo!SimulatorHonest
    OBVIOUS
  <2>1. Demo!TickGoes
    BY DEF DemoInv, Demo!TickGoes, Demo!Ticked, ToSet
  <2>2. Demo!NoEcho
    BY DEF DemoInv, OneFlight, Demo!NoEcho
  <2>3. Demo!WatcherKeepsUp
    <3> SUFFICES ASSUME autoWatch, timer = <<>>, flights = <<>>,
                        seen = Demo!Seen(pcText, busy), ~demoCauses.overlap
                 PROVE  pcText \in {Blank, lastSentRef}
      BY DEF Demo!WatcherKeepsUp
    <3>1. seen.text = pcText /\ seen.busy = busy
      BY DEF Demo!Seen
    <3> QED BY <3>1 DEF DemoInv, OneFlight
  <2> QED BY <2>1, <2>2, <2>3 DEF Demo!SimulatorHonest
<1> QED BY <1>1, <1>2, <1>3, PTL DEF Demo!Spec

------------------------------------------------------------------------------
(* The notifications of the phones *)

Notes == [key : Key, post : Nat]

MirrorTyping ==
  /\ shade \in [Poster -> [Key -> Nat]]
  /\ mirrorUp \in [Poster -> Seq(Notes)] /\ mirrorDown \in [Poster -> Seq(Key)]
  /\ rows \in Seq(Notes) /\ dismissing \in Seq(Key)
  /\ arrived \in Seq(Notes) /\ dismissed \in [Key -> Nat] /\ posts \in Nat

\* Posts are numbered, and dismissals are of posts that there were.
Numbered ==
  /\ \A i \in DOMAIN arrived : arrived[i].post <= posts
  /\ \A p \in Poster : \A i \in DOMAIN mirrorUp[p] : mirrorUp[p][i].post <= posts
  /\ \A k \in Key : dismissed[k] <= posts

\* A post is in one place, on its way or arrived.
EachOnce ==
  /\ \A a, b \in DOMAIN arrived : arrived[a] = arrived[b] => a = b
  /\ \A p \in Poster : \A i \in DOMAIN mirrorUp[p] :
       /\ \A a \in DOMAIN arrived : mirrorUp[p][i] # arrived[a]
       /\ \A r \in Poster : \A j \in DOMAIN mirrorUp[r] :
            mirrorUp[p][i] = mirrorUp[r][j] => p = r /\ i = j

\* A row shows what arrived last under its key, and rows above arrived later.
LastOfKey ==
  \A i \in DOMAIN rows : \E a \in DOMAIN arrived :
    rows[i] = arrived[a] /\ \A b \in DOMAIN arrived : arrived[b].key = rows[i].key => b <= a
LaterAbove ==
  \A i, j \in DOMAIN rows : i < j =>
    /\ rows[i].key # rows[j].key
    /\ \A a, b \in DOMAIN arrived : rows[i] = arrived[a] /\ rows[j] = arrived[b] => b < a

MirrorInv ==
  /\ MirrorTyping
  /\ Numbered
  /\ EachOnce
  /\ LastOfKey
  /\ LaterAbove
  /\ Mirrored!DismissedEverywhere

\* The mirror's operators on lists are the ones above.
LEMMA MirroredRetain ==
  ASSUME NEW q, NEW S PROVE Mirrored!Retain(q, S) = Retain(q, S)
BY Zenon DEF Mirrored!Retain, Retain, Mirrored!Rank, Rank, Mirrored!Cardinality, Cardinality

\* What is left when the row of a key goes.
LEMMA RowGone ==
  ASSUME MirrorTyping, NEW k \in Key
  PROVE  LET r == Mirrored!Without(k) IN
         /\ r \in Seq(Notes)
         /\ \A i \in DOMAIN r : \E c \in DOMAIN rows : r[i] = rows[c] /\ rows[c].key # k
         /\ \A i, j \in DOMAIN r : i < j =>
              \E c, d \in DOMAIN rows :
                /\ c < d /\ r[i] = rows[c] /\ r[j] = rows[d]
                /\ rows[c].key # k /\ rows[d].key # k
<1> DEFINE S == {i \in DOMAIN rows : rows[i].key # k}
<1>1. Mirrored!Without(k) = Retain(rows, S)
  BY MirroredRetain DEF Mirrored!Without
<1>2. rows \in Seq(Notes) /\ S \in SUBSET (DOMAIN rows)
  BY DEF MirrorTyping
<1> HIDE DEF S
<1>3. /\ Retain(rows, S) \in Seq(Notes)
      /\ \A i \in DOMAIN Retain(rows, S) : \E c \in S : Retain(rows, S)[i] = rows[c]
      /\ \A i, j \in DOMAIN Retain(rows, S) : i < j =>
           \E c, d \in S : c < d /\ Retain(rows, S)[i] = rows[c] /\ Retain(rows, S)[j] = rows[d]
  BY <1>2, RetainedSteps
<1> QED BY <1>1, <1>3 DEF S

\* And when a row comes on top instead.
LEMMA RowListed ==
  ASSUME MaxRows \in Nat, MirrorTyping, NEW n \in Notes
  PROVE  LET r == Mirrored!Listed(n) IN
         /\ r \in Seq(Notes)
         /\ \A i \in DOMAIN r :
              \/ i = 1 /\ r[i] = n
              \/ 1 < i /\ \E c \in DOMAIN rows : r[i] = rows[c] /\ rows[c].key # n.key
         /\ \A i, j \in DOMAIN r : 1 < i /\ i < j =>
              \E c, d \in DOMAIN rows : c < d /\ r[i] = rows[c] /\ r[j] = rows[d]
<1> DEFINE w == Mirrored!Without(n.key)
           r == Mirrored!Listed(n)
<1>1. n.key \in Key
  BY DEF Notes
<1>2. /\ w \in Seq(Notes)
      /\ \A i \in DOMAIN w : \E c \in DOMAIN rows : w[i] = rows[c] /\ rows[c].key # n.key
      /\ \A i, j \in DOMAIN w : i < j =>
           \E c, d \in DOMAIN rows : c < d /\ w[i] = rows[c] /\ w[j] = rows[d]
  BY <1>1, RowGone
<1> HIDE DEF w
<1>3. /\ r \in Seq(Notes)
      /\ Len(r) = IF Len(w) + 1 > MaxRows THEN MaxRows ELSE Len(w) + 1
      /\ \A k \in 1 .. Len(r) : r[k] = IF k = 1 THEN n ELSE w[k - 1]
  BY <1>2, Topped DEF Mirrored!Listed, w
<1> HIDE DEF r
<1>4. /\ DOMAIN r = 1 .. Len(r) /\ DOMAIN w = 1 .. Len(w) /\ Len(w) \in Nat /\ Len(r) \in Nat
      /\ Len(r) <= Len(w) + 1
  BY <1>2, <1>3
<1>5. \A i \in DOMAIN r : i # 1 => i - 1 \in DOMAIN w /\ r[i] = w[i - 1] /\ 1 < i
  BY <1>3, <1>4
<1>6. ASSUME NEW i \in DOMAIN r
      PROVE  \/ i = 1 /\ r[i] = n
             \/ 1 < i /\ \E c \in DOMAIN rows : r[i] = rows[c] /\ rows[c].key # n.key
  BY <1>2, <1>3, <1>4, <1>5
<1>7. ASSUME NEW i \in DOMAIN r, NEW j \in DOMAIN r, 1 < i, i < j
      PROVE  \E c, d \in DOMAIN rows : c < d /\ r[i] = rows[c] /\ r[j] = rows[d]
  <2>1. i # 1 /\ j # 1 /\ i - 1 < j - 1
    BY <1>4, <1>7
  <2>2. i - 1 \in DOMAIN w /\ j - 1 \in DOMAIN w /\ r[i] = w[i - 1] /\ r[j] = w[j - 1]
    BY <1>5, <2>1
  <2> QED BY <1>2, <2>1, <2>2
<1> QED BY <1>3, <1>6, <1>7 DEF r

\* The list shows of each key what arrived last, newest first, and dismissals reach
\* the phones (App.tsx, server.rs).
LEMMA MirroredAlone ==
  ASSUME MaxRows \in Nat PROVE Mirrored!Spec => []Mirrored!MirrorHonest
<1> USE DEF Mirrored!phones, Mirrored!wire, Mirrored!ghosts, Mirrored!bounds
<1>1. Mirrored!Init => MirrorInv
  <2> SUFFICES ASSUME Mirrored!Init PROVE MirrorInv
    OBVIOUS
  <2>1. MirrorTyping
    BY DEF Mirrored!Init, MirrorTyping
  <2>2. Numbered /\ EachOnce /\ LastOfKey /\ LaterAbove
    BY DEF Mirrored!Init, Numbered, EachOnce, LastOfKey, LaterAbove
  <2>3. Mirrored!DismissedEverywhere
    BY DEF Mirrored!Init, Mirrored!DismissedEverywhere
  <2> QED BY <2>1, <2>2, <2>3 DEF MirrorInv
<1>2. MirrorInv /\ [Mirrored!Next]_(Mirrored!vars) => MirrorInv'
  <2> SUFFICES ASSUME MirrorInv, [Mirrored!Next]_(Mirrored!vars) PROVE MirrorInv'
    OBVIOUS
  <2>0. /\ MirrorTyping /\ Numbered /\ EachOnce /\ LastOfKey /\ LaterAbove
        /\ Mirrored!DismissedEverywhere
    BY DEF MirrorInv
  <2>a. ASSUME UNCHANGED <<rows, arrived>> PROVE LastOfKey' /\ LaterAbove'
    BY <2>0, <2>a DEF LastOfKey, LaterAbove
  <2>b. ASSUME UNCHANGED <<mirrorUp, arrived, dismissed, posts>> PROVE Numbered' /\ EachOnce'
    BY <2>0, <2>b DEF Numbered, EachOnce
  <2>c. ASSUME UNCHANGED <<shade, dismissed>>, mirrorMissed \subseteq mirrorMissed',
               \A r \in Poster : \A l \in Key : l \in ToSet(mirrorDown[r]) =>
                 l \in ToSet(mirrorDown'[r]) \/ <<r, shade[r][l]>> \in mirrorMissed'
        PROVE  Mirrored!DismissedEverywhere'
    <3> SUFFICES ASSUME NEW r \in Poster, NEW l \in Key, shade[r][l] \in 1 .. dismissed[l],
                        <<r, shade[r][l]>> \notin mirrorMissed'
                 PROVE  l \in ToSet(mirrorDown'[r])
      BY <2>c DEF Mirrored!DismissedEverywhere, Mirrored!Range, ToSet
    <3>1. <<r, shade[r][l]>> \notin mirrorMissed
      BY <2>c
    <3>2. l \in ToSet(mirrorDown[r])
      BY <2>0, <3>1 DEF Mirrored!DismissedEverywhere, Mirrored!Range, ToSet
    <3> QED BY <2>c, <3>2
  <2>1. ASSUME NEW p \in Poster, NEW k \in Key, Mirrored!Post(p, k) PROVE MirrorInv'
    <3> DEFINE n == [key |-> k, post |-> posts + 1]
    <3>1. /\ posts' = posts + 1 /\ shade' = [shade EXCEPT ![p][k] = posts + 1]
          /\ mirrorUp' = [mirrorUp EXCEPT ![p] = Append(@, n)] \/ UNCHANGED mirrorUp
          /\ UNCHANGED <<mirrorDown, rows, dismissing, arrived, dismissed, mirrorMissed>>
      BY <2>1 DEF Mirrored!Post, Mirrored!Forwarded, Mirrored!sendNotification
    <3>2. n \in Notes /\ n.post = posts + 1 /\ posts + 1 \in Nat
      BY <2>0 DEF Notes, MirrorTyping
    <3> HIDE DEF n
    <3>3. \A r \in Poster : mirrorUp[r] \in Seq(Notes)
      BY <2>0 DEF MirrorTyping
    <3>4. ASSUME NEW r \in Poster
          PROVE  /\ mirrorUp'[r] \in Seq(Notes)
                 /\ DOMAIN mirrorUp[r] \subseteq DOMAIN mirrorUp'[r]
                 /\ \A i \in DOMAIN mirrorUp'[r] :
                      \/ i \in DOMAIN mirrorUp[r] /\ mirrorUp'[r][i] = mirrorUp[r][i]
                      \/ r = p /\ i = Len(mirrorUp[p]) + 1 /\ mirrorUp'[r][i] = n
      <4>1. CASE mirrorUp' = [mirrorUp EXCEPT ![p] = Append(@, n)] /\ r = p
        <5>1. mirrorUp'[r] = Append(mirrorUp[p], n)
          BY <2>0, <4>1 DEF MirrorTyping
        <5>2. /\ Append(mirrorUp[p], n) \in Seq(Notes)
              /\ DOMAIN Append(mirrorUp[p], n) = DOMAIN mirrorUp[p] \cup {Len(mirrorUp[p]) + 1}
              /\ Append(mirrorUp[p], n)[Len(mirrorUp[p]) + 1] = n
              /\ \A i \in DOMAIN mirrorUp[p] : Append(mirrorUp[p], n)[i] = mirrorUp[p][i]
          BY <3>2, <3>3, Added
        <5> QED BY <4>1, <5>1, <5>2
      <4>2. CASE ~(mirrorUp' = [mirrorUp EXCEPT ![p] = Append(@, n)] /\ r = p)
        <5>1. mirrorUp'[r] = mirrorUp[r]
          BY <2>0, <3>1, <4>2 DEF MirrorTyping
        <5> QED BY <3>3, <5>1
      <4> QED BY <4>1, <4>2
    <3>5. MirrorTyping'
      <4>1. mirrorUp' \in [Poster -> Seq(Notes)]
        <5>1. DOMAIN mirrorUp' = Poster /\ mirrorUp' = [r \in Poster |-> mirrorUp'[r]]
          BY <2>0, <3>1 DEF MirrorTyping
        <5> QED BY <3>4, <5>1
      <4>2. shade' \in [Poster -> [Key -> Nat]]
        BY <2>0, <3>1, <3>2 DEF MirrorTyping
      <4> QED BY <2>0, <3>1, <3>2, <4>1, <4>2 DEF MirrorTyping
    <3>6. Numbered'
      <4>1. \A i \in DOMAIN arrived' : arrived'[i].post <= posts'
        <5> SUFFICES ASSUME NEW i \in DOMAIN arrived PROVE arrived[i].post <= posts + 1
          BY <3>1
        <5>1. arrived[i] \in Notes /\ arrived[i].post <= posts /\ posts \in Nat
          BY <2>0 DEF Numbered, MirrorTyping
        <5> QED BY <5>1 DEF Notes
      <4>2. \A r \in Poster : \A i \in DOMAIN mirrorUp'[r] : mirrorUp'[r][i].post <= posts'
        <5> SUFFICES ASSUME NEW r \in Poster, NEW i \in DOMAIN mirrorUp'[r]
                     PROVE  mirrorUp'[r][i].post <= posts'
          OBVIOUS
        <5>1. CASE i \in DOMAIN mirrorUp[r] /\ mirrorUp'[r][i] = mirrorUp[r][i]
          <6>1. mirrorUp[r][i] \in Notes /\ mirrorUp[r][i].post <= posts /\ posts \in Nat
            BY <2>0, <3>3, <5>1 DEF Numbered, MirrorTyping
          <6>2. mirrorUp[r][i].post \in Nat
            BY <6>1 DEF Notes
          <6> QED BY <3>1, <5>1, <6>1, <6>2
        <5>2. CASE mirrorUp'[r][i] = n
          BY <3>1, <3>2, <5>2
        <5> QED BY <3>4, <5>1, <5>2
      <4>3. \A l \in Key : dismissed'[l] <= posts'
        BY <2>0, <3>1 DEF Numbered, MirrorTyping
      <4> QED BY <4>1, <4>2, <4>3 DEF Numbered
    <3>7. EachOnce'
      <4>1. \A a \in DOMAIN arrived : arrived[a] # n
        <5> SUFFICES ASSUME NEW a \in DOMAIN arrived PROVE arrived[a].post # n.post
          OBVIOUS
        <5>1. arrived[a] \in Notes /\ arrived[a].post <= posts /\ posts \in Nat
          BY <2>0 DEF Numbered, MirrorTyping
        <5>2. arrived[a].post \in Nat
          BY <5>1 DEF Notes
        <5> QED BY <3>2, <5>1, <5>2
      <4>2. \A r \in Poster : \A i \in DOMAIN mirrorUp[r] : mirrorUp[r][i] # n
        <5> SUFFICES ASSUME NEW r \in Poster, NEW i \in DOMAIN mirrorUp[r]
                     PROVE  mirrorUp[r][i].post # n.post
          OBVIOUS
        <5>1. mirrorUp[r][i] \in Notes /\ mirrorUp[r][i].post <= posts /\ posts \in Nat
          BY <2>0, <3>3 DEF Numbered, MirrorTyping
        <5>2. mirrorUp[r][i].post \in Nat
          BY <5>1 DEF Notes
        <5> QED BY <3>2, <5>1, <5>2
      <4>3. ASSUME NEW r \in Poster, NEW i \in DOMAIN mirrorUp'[r], NEW a \in DOMAIN arrived
            PROVE  mirrorUp'[r][i] # arrived[a]
        BY <2>0, <3>4, <4>1 DEF EachOnce
      <4>4. ASSUME NEW r \in Poster, NEW i \in DOMAIN mirrorUp'[r],
                   NEW s \in Poster, NEW j \in DOMAIN mirrorUp'[s],
                   mirrorUp'[r][i] = mirrorUp'[s][j]
            PROVE  r = s /\ i = j
        <5>1. CASE i \in DOMAIN mirrorUp[r] /\ mirrorUp'[r][i] = mirrorUp[r][i]
          <6>1. mirrorUp'[s][j] # n
            BY <4>2, <4>4, <5>1
          <6>2. j \in DOMAIN mirrorUp[s] /\ mirrorUp'[s][j] = mirrorUp[s][j]
            BY <3>4, <6>1
          <6>3. mirrorUp[r][i] = mirrorUp[s][j]
            BY <4>4, <5>1, <6>2
          <6> QED BY <2>0, <5>1, <6>2, <6>3 DEF EachOnce
        <5>2. CASE r = p /\ i = Len(mirrorUp[p]) + 1 /\ mirrorUp'[r][i] = n
          BY <3>4, <4>2, <4>4, <5>2
        <5> QED BY <3>4, <5>1, <5>2
      <4> QED BY <2>0, <3>1, <4>3, <4>4 DEF EachOnce
    <3>8. Mirrored!DismissedEverywhere'
      <4> SUFFICES ASSUME NEW r \in Poster, NEW l \in Key,
                          shade'[r][l] \in 1 .. dismissed[l],
                          <<r, shade'[r][l]>> \notin mirrorMissed
                   PROVE  l \in Mirrored!Range(mirrorDown[r])
        BY <3>1 DEF Mirrored!DismissedEverywhere, Mirrored!Range
      <4>1. CASE r = p /\ l = k
        <5>1. shade'[r][l] = posts + 1
          BY <2>0, <3>1, <4>1 DEF MirrorTyping
        <5>2. dismissed[l] <= posts /\ dismissed[l] \in Nat /\ posts \in Nat
          BY <2>0 DEF Numbered, MirrorTyping
        <5> QED BY <5>1, <5>2
      <4>2. CASE ~(r = p /\ l = k)
        <5>1. shade'[r][l] = shade[r][l]
          BY <2>0, <3>1, <4>2 DEF MirrorTyping
        <5> QED BY <2>0, <5>1 DEF Mirrored!DismissedEverywhere
      <4> QED BY <4>1, <4>2
    <3> QED BY <2>a, <3>1, <3>5, <3>6, <3>7, <3>8 DEF MirrorInv
  <2>2. ASSUME NEW p \in Poster, NEW k \in Key, Mirrored!Swipe(p, k) PROVE MirrorInv'
    <3>1. /\ shade' = [shade EXCEPT ![p][k] = 0]
          /\ UNCHANGED <<mirrorUp, mirrorDown, rows, dismissing, arrived, dismissed,
                         mirrorMissed, posts>>
      BY <2>2 DEF Mirrored!Swipe
    <3>2. MirrorTyping'
      BY <2>0, <3>1 DEF MirrorTyping
    <3>3. \A r \in Poster, l \in Key : shade'[r][l] = shade[r][l] \/ shade'[r][l] = 0
      BY <2>0, <3>1 DEF MirrorTyping
    <3>4. Mirrored!DismissedEverywhere'
      BY <2>0, <3>1, <3>3 DEF Mirrored!DismissedEverywhere, Mirrored!Range
    <3> QED BY <2>a, <2>b, <3>1, <3>2, <3>4 DEF MirrorInv
  <2>3. ASSUME NEW p \in Poster, Mirrored!OnNotificationDismiss(p) PROVE MirrorInv'
    <3> DEFINE q == mirrorDown[p]
    <3>1. /\ q # <<>>
          /\ mirrorDown' = [mirrorDown EXCEPT ![p] = Tail(q)]
          /\ \/ /\ shade' = [shade EXCEPT ![p][Head(q)] = 0]
                /\ UNCHANGED mirrorMissed
             \/ /\ mirrorMissed' = mirrorMissed \cup {<<p, shade[p][Head(q)]>>}
                /\ UNCHANGED shade
          /\ UNCHANGED <<mirrorUp, rows, dismissing, arrived, dismissed, posts>>
      BY <2>3 DEF Mirrored!OnNotificationDismiss, Mirrored!dismissNotification, Mirrored!Kept
    <3>2. /\ Head(q) \in Key /\ Head(q) = q[1] /\ Tail(q) \in Seq(Key)
          /\ \A i \in DOMAIN q : i # 1 => i - 1 \in DOMAIN Tail(q) /\ q[i] = Tail(q)[i - 1]
      <4>1. q \in Seq(Key)
        BY <2>0 DEF MirrorTyping
      <4> HIDE DEF q
      <4> QED BY <3>1, <4>1, Taken
    <3>3. MirrorTyping'
      <4>1. mirrorDown' \in [Poster -> Seq(Key)]
        BY <2>0, <3>1, <3>2 DEF MirrorTyping
      <4>2. shade \in [Poster -> [Key -> Nat]]
        BY <2>0 DEF MirrorTyping
      <4>3. PICK k \in Key : shade' = shade \/ shade' = [shade EXCEPT ![p][k] = 0]
        BY <3>1, <3>2
      <4>4. shade' \in [Poster -> [Key -> Nat]]
        BY <4>2, <4>3
      <4> QED BY <2>0, <3>1, <4>1, <4>4 DEF MirrorTyping
    <3>4. \A r \in Poster : \A l : l \in ToSet(mirrorDown[r]) =>
            l \in ToSet(mirrorDown'[r]) \/ (r = p /\ l = Head(q))
      <4> SUFFICES ASSUME NEW r \in Poster, NEW l, l \in ToSet(mirrorDown[r]),
                          ~(r = p /\ l = Head(q))
                   PROVE  l \in ToSet(mirrorDown'[r])
        OBVIOUS
      <4>1. CASE r = p
        <5>1. mirrorDown'[r] = Tail(q)
          BY <2>0, <3>1, <4>1 DEF MirrorTyping
        <5>2. PICK i \in DOMAIN q : q[i] = l
          BY <4>1 DEF ToSet
        <5> HIDE DEF q
        <5>3. i - 1 \in DOMAIN Tail(q) /\ l = Tail(q)[i - 1]
          BY <3>2, <4>1, <5>2
        <5> QED BY <5>1, <5>3 DEF ToSet
      <4>2. CASE r # p
        BY <2>0, <3>1, <4>2 DEF MirrorTyping
      <4> QED BY <4>1, <4>2
    <3> HIDE DEF q
    <3>5. CASE UNCHANGED shade
      <4>1. mirrorMissed \subseteq mirrorMissed'
        BY <3>1
      <4>2. CASE mirrorMissed' = mirrorMissed \cup {<<p, shade[p][Head(q)]>>}
        <5>1. \A r \in Poster : \A l \in Key : l \in ToSet(mirrorDown[r]) =>
                l \in ToSet(mirrorDown'[r]) \/ <<r, shade[r][l]>> \in mirrorMissed'
          BY <3>4, <4>2
        <5> QED BY <2>a, <2>b, <2>c, <3>1, <3>3, <3>5, <4>1, <5>1 DEF MirrorInv
      <4>3. CASE shade' = [shade EXCEPT ![p][Head(q)] = 0] /\ UNCHANGED mirrorMissed
        <5>1. shade[p][Head(q)] = 0
          BY <2>0, <3>2, <3>5, <4>3 DEF MirrorTyping
        <5>2. Mirrored!DismissedEverywhere'
          <6> SUFFICES ASSUME NEW r \in Poster, NEW l \in Key, shade[r][l] \in 1 .. dismissed[l],
                              <<r, shade[r][l]>> \notin mirrorMissed
                       PROVE  l \in ToSet(mirrorDown'[r])
            BY <3>1, <3>5, <4>3 DEF Mirrored!DismissedEverywhere, Mirrored!Range, ToSet
          <6>1. l \in ToSet(mirrorDown[r])
            BY <2>0 DEF Mirrored!DismissedEverywhere, Mirrored!Range, ToSet
          <6>2. ~(r = p /\ l = Head(q))
            BY <5>1
          <6> QED BY <3>4, <6>1, <6>2
        <5> QED BY <2>a, <2>b, <3>1, <3>3, <5>2 DEF MirrorInv
      <4> QED BY <3>1, <4>2, <4>3
    <3>6. CASE shade' = [shade EXCEPT ![p][Head(q)] = 0] /\ UNCHANGED mirrorMissed
      <4>1. Mirrored!DismissedEverywhere'
        <5> SUFFICES ASSUME NEW r \in Poster, NEW l \in Key, shade'[r][l] \in 1 .. dismissed[l],
                            <<r, shade'[r][l]>> \notin mirrorMissed
                     PROVE  l \in ToSet(mirrorDown'[r])
          BY <3>1, <3>6 DEF Mirrored!DismissedEverywhere, Mirrored!Range, ToSet
        <5>1. ~(r = p /\ l = Head(q))
          BY <2>0, <3>2, <3>6 DEF MirrorTyping
        <5>2. shade'[r][l] = shade[r][l]
          BY <2>0, <3>2, <3>6, <5>1 DEF MirrorTyping
        <5>3. l \in ToSet(mirrorDown[r])
          BY <2>0, <5>2 DEF Mirrored!DismissedEverywhere, Mirrored!Range, ToSet
        <5> QED BY <3>4, <5>1, <5>3
      <4> QED BY <2>a, <2>b, <3>1, <3>3, <4>1 DEF MirrorInv
    <3> QED BY <3>1, <3>5, <3>6
  <2>4. ASSUME NEW p \in Poster, Mirrored!SessionEnds(p) PROVE MirrorInv'
    <3>1. /\ mirrorUp' = [mirrorUp EXCEPT ![p] = <<>>]
          /\ mirrorDown' = [mirrorDown EXCEPT ![p] = <<>>]
          /\ mirrorMissed' =
               mirrorMissed \cup {<<p, shade[p][k]>> : k \in ToSet(mirrorDown[p])}
          /\ UNCHANGED <<shade, rows, dismissing, arrived, dismissed, posts>>
      BY <2>4 DEF Mirrored!SessionEnds, Mirrored!Kept, Mirrored!Range, ToSet
    <3>2. MirrorTyping'
      BY <2>0, <3>1 DEF MirrorTyping
    <3>3. \A r \in Poster : mirrorUp'[r] = mirrorUp[r] \/ mirrorUp'[r] = <<>>
      BY <2>0, <3>1 DEF MirrorTyping
    <3>4. \A r \in Poster : \A i \in DOMAIN mirrorUp'[r] :
            i \in DOMAIN mirrorUp[r] /\ mirrorUp'[r][i] = mirrorUp[r][i]
      BY <3>3
    <3>5. Numbered'
      BY <2>0, <3>1, <3>4 DEF Numbered
    <3>6. EachOnce'
      BY <2>0, <3>1, <3>4 DEF EachOnce
    <3>7. Mirrored!DismissedEverywhere'
      <4>1. ASSUME NEW r \in Poster, NEW l \in Key, l \in ToSet(mirrorDown[r])
            PROVE  l \in ToSet(mirrorDown'[r]) \/ <<r, shade[r][l]>> \in mirrorMissed'
        <5>1. CASE r = p
          BY <3>1, <4>1, <5>1
        <5>2. CASE r # p
          BY <2>0, <3>1, <4>1, <5>2 DEF MirrorTyping
        <5> QED BY <5>1, <5>2
      <4> QED BY <2>c, <3>1, <4>1
    <3> QED BY <2>a, <3>1, <3>2, <3>5, <3>6, <3>7 DEF MirrorInv
  <2>5. ASSUME NEW p \in Poster, Mirrored!OnPhoneNotification(p) PROVE MirrorInv'
    <3> DEFINE q == mirrorUp[p]
               n == Head(mirrorUp[p])
               m == Len(arrived) + 1
    <3>1. /\ q # <<>> /\ rows' = Mirrored!Listed(n) /\ arrived' = Append(arrived, n)
          /\ mirrorUp' = [mirrorUp EXCEPT ![p] = Tail(q)]
          /\ UNCHANGED <<shade, mirrorDown, dismissing, dismissed, mirrorMissed, posts>>
      BY <2>5 DEF Mirrored!OnPhoneNotification
    <3>2. /\ n \in Notes /\ n = q[1] /\ 1 \in DOMAIN q /\ Tail(q) \in Seq(Notes)
          /\ \A i \in DOMAIN Tail(q) : i + 1 \in DOMAIN q /\ Tail(q)[i] = q[i + 1]
      <4>1. q \in Seq(Notes)
        BY <2>0 DEF MirrorTyping
      <4> QED BY <3>1, <4>1, Taken
    <3>3. /\ arrived' \in Seq(Notes) /\ DOMAIN arrived' = DOMAIN arrived \cup {m}
          /\ arrived'[m] = n
          /\ \A a \in DOMAIN arrived : arrived'[a] = arrived[a] /\ a < m
      <4>1. arrived \in Seq(Notes)
        BY <2>0 DEF MirrorTyping
      <4> QED BY <3>1, <3>2, <4>1, Added
    <3>4. /\ rows' \in Seq(Notes)
          /\ \A i \in DOMAIN rows' :
               \/ i = 1 /\ rows'[i] = n
               \/ 1 < i /\ \E c \in DOMAIN rows : rows'[i] = rows[c] /\ rows[c].key # n.key
          /\ \A i, j \in DOMAIN rows' : 1 < i /\ i < j =>
               \E c, d \in DOMAIN rows : c < d /\ rows'[i] = rows[c] /\ rows'[j] = rows[d]
      <4>1. n \in Notes
        BY <3>2
      <4> HIDE DEF n
      <4> QED BY <2>0, <3>1, <4>1, RowListed
    <3>5. m \in Nat /\ \A a \in DOMAIN arrived : a \in Nat
      BY <2>0 DEF MirrorTyping
    <3>6. \A a \in DOMAIN arrived : arrived[a] # n
      BY <2>0, <3>2 DEF EachOnce
    <3>7. \A r \in Poster : \A i \in DOMAIN mirrorUp'[r] :
            /\ r # p => i \in DOMAIN mirrorUp[r] /\ mirrorUp'[r][i] = mirrorUp[r][i]
            /\ r = p => /\ i + 1 \in DOMAIN mirrorUp[r] /\ mirrorUp'[r][i] = mirrorUp[r][i + 1]
                        /\ i \in Nat \ {0}
      <4>1. DOMAIN mirrorUp = Poster
        BY <2>0 DEF MirrorTyping
      <4>2. \A r \in Poster : mirrorUp'[r] = IF r = p THEN Tail(q) ELSE mirrorUp[r]
        BY <3>1, <4>1
      <4>3. \A i \in DOMAIN Tail(q) : i \in Nat \ {0}
        BY <3>2
      <4> HIDE DEF q
      <4>4. q = mirrorUp[p]
        BY DEF q
      <4> QED BY <3>2, <4>2, <4>3, <4>4
    <3> HIDE DEF q, n, m
    <3>8. MirrorTyping'
      BY <2>0, <3>1, <3>2, <3>3, <3>4 DEF MirrorTyping
    <3>9. Numbered'
      <4>1. n.post <= posts
        BY <2>0, <3>2 DEF Numbered, q
      <4>2. \A r \in Poster : \A i \in DOMAIN mirrorUp'[r] : mirrorUp'[r][i].post <= posts
        BY <2>0, <3>7 DEF Numbered
      <4> QED BY <2>0, <3>1, <3>3, <4>1, <4>2 DEF Numbered
    <3>10. EachOnce'
      <4>1. \A a, b \in DOMAIN arrived' : arrived'[a] = arrived'[b] => a = b
        BY <2>0, <3>3, <3>6 DEF EachOnce
      <4>2. ASSUME NEW r \in Poster, NEW i \in DOMAIN mirrorUp'[r]
            PROVE  mirrorUp'[r][i] # n
        <5>1. CASE r = p
          <6>1. i + 1 \in DOMAIN mirrorUp[p] /\ mirrorUp'[r][i] = mirrorUp[p][i + 1] /\ i + 1 # 1
            BY <3>7, <5>1
          <6> QED BY <2>0, <3>2, <6>1 DEF EachOnce, q
        <5>2. CASE r # p
          BY <2>0, <3>2, <3>7, <5>2 DEF EachOnce, q
        <5> QED BY <5>1, <5>2
      <4>3. ASSUME NEW r \in Poster, NEW i \in DOMAIN mirrorUp'[r], NEW a \in DOMAIN arrived'
            PROVE  mirrorUp'[r][i] # arrived'[a]
        <5>1. CASE a = m
          BY <3>3, <4>2, <5>1
        <5>2. CASE a \in DOMAIN arrived
          BY <2>0, <3>3, <3>7, <5>2 DEF EachOnce
        <5> QED BY <3>3, <5>1, <5>2
      <4>4. ASSUME NEW r \in Poster, NEW i \in DOMAIN mirrorUp'[r],
                   NEW s \in Poster, NEW j \in DOMAIN mirrorUp'[s],
                   mirrorUp'[r][i] = mirrorUp'[s][j]
            PROVE  r = s /\ i = j
        <5> DEFINE old(t, l) == IF t = p THEN l + 1 ELSE l
        <5>1. /\ old(r, i) \in DOMAIN mirrorUp[r] /\ mirrorUp'[r][i] = mirrorUp[r][old(r, i)]
              /\ old(s, j) \in DOMAIN mirrorUp[s] /\ mirrorUp'[s][j] = mirrorUp[s][old(s, j)]
          BY <3>7
        <5>2. r = s /\ old(r, i) = old(s, j)
          <6>1. mirrorUp[r][old(r, i)] = mirrorUp[s][old(s, j)]
            BY <4>4, <5>1
          <6> HIDE DEF old
          <6> QED BY <2>0, <5>1, <6>1 DEF EachOnce
        <5>3. r = p => i \in Nat /\ j \in Nat
          BY <3>7, <5>2
        <5> QED BY <5>2, <5>3
      <4> QED BY <4>1, <4>3, <4>4 DEF EachOnce
    <3>11. LastOfKey'
      <4> SUFFICES ASSUME NEW i \in DOMAIN rows'
                   PROVE  \E a \in DOMAIN arrived' :
                            /\ rows'[i] = arrived'[a]
                            /\ \A b \in DOMAIN arrived' : arrived'[b].key = rows'[i].key => b <= a
        BY DEF LastOfKey
      <4>1. CASE rows'[i] = n
        BY <3>3, <3>5, <4>1
      <4>2. CASE \E c \in DOMAIN rows : rows'[i] = rows[c] /\ rows[c].key # n.key
        <5>1. PICK c \in DOMAIN rows : rows'[i] = rows[c] /\ rows[c].key # n.key
          BY <4>2
        <5>2. PICK a \in DOMAIN arrived : /\ rows[c] = arrived[a]
                                          /\ \A b \in DOMAIN arrived :
                                               arrived[b].key = rows[c].key => b <= a
          BY <2>0 DEF LastOfKey
        <5> QED BY <3>3, <5>1, <5>2
      <4> QED BY <3>4, <4>1, <4>2
    <3>12. LaterAbove'
      <4>1. \A c \in DOMAIN rows : \A a \in DOMAIN arrived' :
              rows[c] = arrived'[a] => a \in DOMAIN arrived /\ arrived'[a] = arrived[a]
        <5> SUFFICES ASSUME NEW c \in DOMAIN rows, NEW a \in DOMAIN arrived', rows[c] = arrived'[a]
                     PROVE  a # m
          BY <3>3
        <5>1. PICK b \in DOMAIN arrived : rows[c] = arrived[b]
          BY <2>0 DEF LastOfKey
        <5> QED BY <3>3, <3>6, <5>1
      <4>2. \A i \in DOMAIN rows' : i \in Nat /\ i >= 1
        BY <3>4
      <4> SUFFICES ASSUME NEW i \in DOMAIN rows', NEW j \in DOMAIN rows', i < j
                   PROVE  /\ rows'[i].key # rows'[j].key
                          /\ \A a, b \in DOMAIN arrived' :
                               rows'[i] = arrived'[a] /\ rows'[j] = arrived'[b] => b < a
        BY DEF LaterAbove
      <4>3. 1 < j /\ j # 1
        BY <4>2
      <4>4. PICK d \in DOMAIN rows : rows'[j] = rows[d] /\ rows[d].key # n.key
        BY <3>4, <4>3
      <4>5. CASE i = 1
        <5>1. rows'[i] = n
          BY <3>4, <4>5
        <5>2. ASSUME NEW a \in DOMAIN arrived', NEW b \in DOMAIN arrived',
                     rows'[i] = arrived'[a], rows'[j] = arrived'[b]
              PROVE  b < a
          <6>1. a = m
            BY <3>3, <3>6, <5>1, <5>2
          <6>2. b \in DOMAIN arrived
            BY <4>1, <4>4, <5>2
          <6> QED BY <3>3, <6>1, <6>2
        <5> QED BY <4>4, <5>1, <5>2
      <4>6. CASE i # 1
        <5>1. 1 < i
          BY <4>2, <4>6
        <5>2. PICK c, e \in DOMAIN rows : c < e /\ rows'[i] = rows[c] /\ rows'[j] = rows[e]
          BY <3>4, <5>1
        <5>3. /\ rows[c].key # rows[e].key
              /\ \A a, b \in DOMAIN arrived : rows[c] = arrived[a] /\ rows[e] = arrived[b] => b < a
          BY <2>0, <5>2 DEF LaterAbove
        <5> QED BY <4>1, <5>2, <5>3
      <4> QED BY <4>5, <4>6
    <3>13. Mirrored!DismissedEverywhere'
      BY <2>0, <3>1 DEF Mirrored!DismissedEverywhere, Mirrored!Range
    <3> QED BY <3>8, <3>9, <3>10, <3>11, <3>12, <3>13 DEF MirrorInv
  <2>6. ASSUME NEW k \in Key, Mirrored!DismissPhoneNotification(k) PROVE MirrorInv'
    <3>1. /\ mirrorDown' = [p \in Poster |-> IF p \in Mirrored!Told THEN Append(mirrorDown[p], k)
                                                                     ELSE mirrorDown[p]]
          /\ dismissing' = Append(dismissing, k)
          /\ dismissed' = [dismissed EXCEPT ![k] = posts]
          /\ mirrorMissed' =
               mirrorMissed \cup UNION {Mirrored!Kept(p, {k}) : p \in Poster \ Mirrored!Told}
          /\ UNCHANGED <<shade, mirrorUp, rows, arrived, posts>>
      BY <2>6 DEF Mirrored!DismissPhoneNotification
    <3>a. \A p \in Poster \ Mirrored!Told : <<p, shade[p][k]>> \in mirrorMissed'
      <4> SUFFICES ASSUME NEW p \in Poster \ Mirrored!Told
                   PROVE  <<p, shade[p][k]>> \in mirrorMissed'
        OBVIOUS
      <4>1. <<p, shade[p][k]>> \in Mirrored!Kept(p, {k})
        BY DEF Mirrored!Kept
      <4> QED BY <3>1, <4>1
    <3>2. \A p \in Poster : /\ mirrorDown'[p] \in Seq(Key)
                            /\ \A l : l \in ToSet(mirrorDown[p]) => l \in ToSet(mirrorDown'[p])
                            /\ <<p, shade[p][k]>> \notin mirrorMissed' => k \in ToSet(mirrorDown'[p])
      <4> SUFFICES ASSUME NEW p \in Poster
                   PROVE  /\ mirrorDown'[p] \in Seq(Key)
                          /\ \A l : l \in ToSet(mirrorDown[p]) => l \in ToSet(mirrorDown'[p])
                          /\ <<p, shade[p][k]>> \notin mirrorMissed' => k \in ToSet(mirrorDown'[p])
        OBVIOUS
      <4>1. mirrorDown[p] \in Seq(Key)
        BY <2>0 DEF MirrorTyping
      <4>2. CASE p \in Mirrored!Told
        <5>1. mirrorDown'[p] = Append(mirrorDown[p], k)
          BY <3>1, <4>2
        <5>2. /\ Append(mirrorDown[p], k) \in Seq(Key)
              /\ DOMAIN Append(mirrorDown[p], k) = DOMAIN mirrorDown[p] \cup {Len(mirrorDown[p]) + 1}
              /\ Append(mirrorDown[p], k)[Len(mirrorDown[p]) + 1] = k
              /\ \A i \in DOMAIN mirrorDown[p] : Append(mirrorDown[p], k)[i] = mirrorDown[p][i]
          BY <4>1, Added
        <5> QED BY <5>1, <5>2 DEF ToSet
      <4>3. CASE p \notin Mirrored!Told
        BY <3>1, <3>a, <4>1, <4>3
      <4> QED BY <4>2, <4>3
    <3>3. MirrorTyping'
      <4>1. mirrorDown' \in [Poster -> Seq(Key)]
        BY <3>1, <3>2
      <4>2. dismissing' \in Seq(Key)
        BY <2>0, <3>1, Added DEF MirrorTyping
      <4> QED BY <2>0, <3>1, <4>1, <4>2 DEF MirrorTyping
    <3>4. Numbered' /\ EachOnce'
      <4>1. \A l \in Key : dismissed'[l] <= posts
        BY <2>0, <3>1 DEF Numbered, MirrorTyping
      <4> QED BY <2>0, <3>1, <4>1 DEF Numbered, EachOnce
    <3>5. Mirrored!DismissedEverywhere'
      <4> SUFFICES ASSUME NEW p \in Poster, NEW l \in Key, shade[p][l] \in 1 .. dismissed'[l],
                          <<p, shade[p][l]>> \notin mirrorMissed'
                   PROVE  l \in ToSet(mirrorDown'[p])
        BY <3>1 DEF Mirrored!DismissedEverywhere, Mirrored!Range, ToSet
      <4>1. CASE l = k
        BY <3>2, <4>1
      <4>2. CASE l # k
        <5>1. dismissed'[l] = dismissed[l] /\ <<p, shade[p][l]>> \notin mirrorMissed
          BY <2>0, <3>1, <4>2 DEF MirrorTyping
        <5>2. l \in ToSet(mirrorDown[p])
          BY <2>0, <5>1 DEF Mirrored!DismissedEverywhere, Mirrored!Range, ToSet
        <5> QED BY <3>2, <5>2
      <4> QED BY <4>1, <4>2
    <3> QED BY <2>a, <3>1, <3>3, <3>4, <3>5 DEF MirrorInv
  <2>7. CASE Mirrored!DismissAnswered
    <3> DEFINE k == Head(dismissing)
    <3>1. /\ dismissing # <<>> /\ rows' = Mirrored!Without(k) /\ dismissing' = Tail(dismissing)
          /\ UNCHANGED <<shade, mirrorUp, mirrorDown, arrived, dismissed, mirrorMissed, posts>>
      BY <2>7 DEF Mirrored!DismissAnswered
    <3>2. k \in Key /\ dismissing' \in Seq(Key)
      BY <2>0, <3>1, Taken DEF MirrorTyping
    <3> HIDE DEF k
    <3>3. /\ rows' \in Seq(Notes)
          /\ \A i \in DOMAIN rows' : \E c \in DOMAIN rows : rows'[i] = rows[c]
          /\ \A i, j \in DOMAIN rows' : i < j =>
               \E c, d \in DOMAIN rows : c < d /\ rows'[i] = rows[c] /\ rows'[j] = rows[d]
      BY <2>0, <3>1, <3>2, RowGone
    <3>4. MirrorTyping'
      BY <2>0, <3>1, <3>2, <3>3 DEF MirrorTyping
    <3>5. LastOfKey'
      BY <2>0, <3>1, <3>3 DEF LastOfKey
    <3>6. LaterAbove'
      <4> SUFFICES ASSUME NEW i \in DOMAIN rows', NEW j \in DOMAIN rows', i < j
                   PROVE  /\ rows'[i].key # rows'[j].key
                          /\ \A a, b \in DOMAIN arrived :
                               rows'[i] = arrived[a] /\ rows'[j] = arrived[b] => b < a
        BY <3>1 DEF LaterAbove
      <4>1. PICK c, d \in DOMAIN rows : c < d /\ rows'[i] = rows[c] /\ rows'[j] = rows[d]
        BY <3>3
      <4> QED BY <2>0, <4>1 DEF LaterAbove
    <3>7. Mirrored!DismissedEverywhere'
      BY <2>0, <3>1 DEF Mirrored!DismissedEverywhere, Mirrored!Range
    <3> QED BY <2>b, <3>1, <3>4, <3>5, <3>6, <3>7 DEF MirrorInv
  <2>8. CASE Mirrored!ClearAll
    <3>1. /\ rows' = <<>>
          /\ UNCHANGED <<shade, mirrorUp, mirrorDown, dismissing, arrived, dismissed,
                         mirrorMissed, posts>>
      BY <2>8 DEF Mirrored!ClearAll
    <3>2. MirrorTyping'
      BY <2>0, <3>1 DEF MirrorTyping
    <3>3. LastOfKey' /\ LaterAbove'
      BY <3>1 DEF LastOfKey, LaterAbove
    <3>4. Mirrored!DismissedEverywhere'
      BY <2>0, <3>1 DEF Mirrored!DismissedEverywhere, Mirrored!Range
    <3> QED BY <2>b, <3>1, <3>2, <3>3, <3>4 DEF MirrorInv
  <2>9. ASSUME UNCHANGED <<shade, mirrorUp, mirrorDown, rows, dismissing, arrived, dismissed,
                           mirrorMissed, posts>>
        PROVE  MirrorInv'
    <3>1. MirrorTyping' /\ Mirrored!DismissedEverywhere'
      BY <2>0, <2>9 DEF MirrorTyping, Mirrored!DismissedEverywhere, Mirrored!Range
    <3> QED BY <2>a, <2>b, <2>9, <3>1 DEF MirrorInv
  <2>10. ASSUME NEW p \in Poster, Mirrored!Joins(p) PROVE MirrorInv'
    BY <2>9, <2>10 DEF Mirrored!Joins
  <2>11. CASE UNCHANGED Mirrored!vars
    BY <2>9, <2>11 DEF Mirrored!vars
  <2>12. ASSUME NEW p \in Poster, NEW i \in 1 .. MaxDismisses, Mirrored!Lagged(p, i)
         PROVE  MirrorInv'
    <3> DEFINE q == mirrorDown[p]
               r == Retain(q, DOMAIN q \ {i})
    <3>1. /\ i \in DOMAIN q /\ mirrorDown' = [mirrorDown EXCEPT ![p] = r]
          /\ mirrorMissed' = mirrorMissed \cup {<<p, shade[p][q[i]]>>}
          /\ UNCHANGED <<shade, mirrorUp, rows, dismissing, arrived, dismissed, posts>>
      BY <2>12, MirroredRetain DEF Mirrored!Lagged, Mirrored!Kept
    <3>2. r \in Seq(Key) /\ ToSet(r) = {q[j] : j \in DOMAIN q \ {i}}
      <4>1. q \in Seq(Key)
        BY <2>0 DEF MirrorTyping
      <4> HIDE DEF q
      <4>2. DOMAIN q \ {i} \in SUBSET (DOMAIN q)
        OBVIOUS
      <4>3. r \in Seq(Key)
        BY <4>1, <4>2, Retained
      <4>4. ToSet(r) = {q[j] : j \in DOMAIN q \ {i}}
        BY <4>1, <4>2, RetainedSet
      <4> QED BY <4>3, <4>4
    <3> HIDE DEF r
    <3>3. MirrorTyping'
      BY <2>0, <3>1, <3>2 DEF MirrorTyping
    <3>4. ASSUME NEW t \in Poster, NEW l \in Key, l \in ToSet(mirrorDown[t])
          PROVE  l \in ToSet(mirrorDown'[t]) \/ <<t, shade[t][l]>> \in mirrorMissed'
      <4>1. CASE t = p
        <5>1. mirrorDown'[t] = r
          BY <2>0, <3>1, <4>1 DEF MirrorTyping
        <5>2. PICK j \in DOMAIN q : q[j] = l
          BY <3>4, <4>1 DEF ToSet
        <5>3. CASE j = i
          BY <3>1, <4>1, <5>2, <5>3
        <5>4. CASE j # i
          BY <3>2, <5>1, <5>2, <5>4
        <5> QED BY <5>3, <5>4
      <4>2. CASE t # p
        BY <2>0, <3>1, <3>4, <4>2 DEF MirrorTyping
      <4> QED BY <4>1, <4>2
    <3>5. Mirrored!DismissedEverywhere'
      BY <2>c, <3>1, <3>4
    <3> QED BY <2>a, <2>b, <3>1, <3>3, <3>5 DEF MirrorInv
  <2> QED
    BY <2>1, <2>2, <2>3, <2>4, <2>5, <2>6, <2>7, <2>8, <2>10, <2>11, <2>12 DEF Mirrored!Next
<1>3. MirrorInv => Mirrored!MirrorHonest
  <2> SUFFICES ASSUME MirrorInv PROVE Mirrored!NewestOfEachKey /\ Mirrored!DismissedEverywhere
    BY DEF Mirrored!MirrorHonest
  <2>0. EachOnce /\ LastOfKey /\ LaterAbove /\ Mirrored!DismissedEverywhere
    BY DEF MirrorInv
  <2>1. \A a \in DOMAIN arrived : Mirrored!Arrival(arrived[a]) = a
    BY <2>0 DEF Mirrored!Arrival, EachOnce
  <2>2. ASSUME NEW i \in DOMAIN rows, NEW j \in DOMAIN rows, i < j
        PROVE  rows[i].key # rows[j].key /\ Mirrored!Arrival(rows[i]) > Mirrored!Arrival(rows[j])
    <3>1. PICK a \in DOMAIN arrived : rows[i] = arrived[a]
      BY <2>0 DEF LastOfKey
    <3>2. PICK b \in DOMAIN arrived : rows[j] = arrived[b]
      BY <2>0 DEF LastOfKey
    <3>3. b < a /\ rows[i].key # rows[j].key
      BY <2>0, <2>2, <3>1, <3>2 DEF LaterAbove
    <3>4. a \in Nat /\ b \in Nat
      BY DEF MirrorInv, MirrorTyping
    <3> QED BY <2>1, <3>1, <3>2, <3>3, <3>4
  <2>3. ASSUME NEW i \in DOMAIN rows, NEW n \in Mirrored!Range(arrived), n.key = rows[i].key
        PROVE  Mirrored!Arrival(n) <= Mirrored!Arrival(rows[i])
    <3>1. PICK a \in DOMAIN arrived :
            rows[i] = arrived[a] /\ \A b \in DOMAIN arrived : arrived[b].key = rows[i].key => b <= a
      BY <2>0 DEF LastOfKey
    <3>2. PICK b \in DOMAIN arrived : n = arrived[b]
      BY DEF Mirrored!Range
    <3> QED BY <2>1, <2>3, <3>1, <3>2
  <2> QED BY <2>0, <2>2, <2>3 DEF Mirrored!NewestOfEachKey
<1> QED BY <1>1, <1>2, <1>3, PTL DEF Mirrored!Spec

------------------------------------------------------------------------------
(* The files *)

FilesAssumption == MaxFiles \in Nat /\ Chunks \in [File -> Nat]

FileFrames == {m \in [file : File, index : Nat] : m.index <= Chunks[m.file]}
FrameOf(f, i) == [file |-> f, index |-> i]

Before(q, f, g) == \E i, j \in DOMAIN q : i < j /\ q[i] = f /\ q[j] = g
HoldsLast(kept, d) ==
  \A i \in DOMAIN d : (\A j \in DOMAIN d : j > i => Name[d[j]] # Name[d[i]]) => kept[Name[d[i]]] = d[i]
ShowsNewest(list, d) ==
  Len(list) <= Len(d) /\ \A i \in DOMAIN list : list[i] = d[Len(d) + 1 - i]

FilesTyping ==
  /\ filesUp \in Seq(FileFrames) /\ filesDown \in Seq(File)
  /\ DOMAIN pcBuffers \subseteq File
  /\ pcDisk \in [Files!Names -> File \cup {None}]
  /\ pcList \in Seq(File) /\ filesSent \in Seq(File) /\ pcDone \in Seq(File)

\* The frames of a file stand in their order, and those of a file that was sent
\* earlier stand before.
Precedes(m, n, sent) ==
  IF m.file = n.file THEN m.index < n.index ELSE Before(sent, m.file, n.file)
InLine(q, sent) == \A i, j \in DOMAIN q : i < j => Precedes(q[i], q[j], sent)

\* A frame is on the way together with all that follow it in its file.
ToTheEnd(U) ==
  \A m \in U : \A c \in Nat : m.index <= c /\ c <= Chunks[m.file] => FrameOf(m.file, c) \in U

\* A chunk on the way finds a buffer, or the start that makes one is ahead of it.
Begun(U, B) == \A m \in U : m.file \in B \/ FrameOf(m.file, 0) \in U

Streams ==
  /\ InLine(filesUp, filesSent)
  /\ ToTheEnd(ToSet(filesUp))
  /\ Begun(ToSet(filesUp), DOMAIN pcBuffers)

\* A buffer is not complete, and what it lacks is on the way, unless a chunk was spoiled.
Lacks(f, S, U) == \E c \in 1 .. Chunks[f] : c \notin S /\ FrameOf(f, c) \notin U
BufferOf(f, S, U, bad) ==
  /\ S \subseteq 1 .. Chunks[f]
  /\ Chunks[f] # 0 => S # 1 .. Chunks[f]
  /\ \A m \in U : m.file = f => \A c \in S : c < m.index
  /\ f \in bad <=> Lacks(f, S, U)
Buffered ==
  \A f \in DOMAIN pcBuffers : BufferOf(f, pcBuffers[f], ToSet(filesUp), spoiled)

\* Where the files that were sent are.
Underway == {m.file : m \in ToSet(filesUp)} \cup DOMAIN pcBuffers
Stored == ToSet(pcDone)
Balanced ==
  /\ ToSet(filesSent) = Underway \cup Stored \cup filesFailed \cup cut
  /\ Underway \cap (Stored \cup filesFailed \cup cut) = {}
  /\ Stored \cap (filesFailed \cup cut) = {} /\ filesFailed \cap cut = {}
  /\ spoiled \subseteq DOMAIN pcBuffers \cup cut

InOrder ==
  /\ Files!IsInjective(pcDone)
  /\ \A i, j \in DOMAIN pcDone : i < j => Before(filesSent, pcDone[i], pcDone[j])
  /\ \A f \in Stored : \A m \in ToSet(filesUp) : Before(filesSent, f, m.file)

Reported == ToSet(filesDown) \subseteq Stored \cup filesFailed

FilesInv ==
  /\ FilesTyping
  /\ Streams
  /\ Buffered
  /\ Balanced
  /\ InOrder
  /\ Reported
  /\ HoldsLast(pcDisk, pcDone) /\ ShowsNewest(pcList, pcDone)

\* When the head of the frames is taken, the others keep their order.
LEMMA FrameTaken ==
  ASSUME FilesTyping, filesUp # <<>>, InLine(filesUp, filesSent), ToTheEnd(ToSet(filesUp)),
         filesUp' = Tail(filesUp), UNCHANGED filesSent
  PROVE  LET h == Head(filesUp)
             R == ToSet(filesUp')
         IN  /\ h \in FileFrames /\ filesUp' \in Seq(FileFrames)
             /\ ToSet(filesUp) = {h} \cup R /\ h \notin R
             /\ \A m \in R : m \in FileFrames /\ Precedes(h, m, filesSent)
             /\ InLine(filesUp', filesSent') /\ ToTheEnd(R)
<1> DEFINE h == Head(filesUp)
           r == Tail(filesUp)
<1>1. filesUp \in Seq(FileFrames)
  BY DEF FilesTyping
<1>2. /\ h \in FileFrames /\ h = filesUp[1] /\ 1 \in DOMAIN filesUp /\ r \in Seq(FileFrames)
      /\ \A k \in DOMAIN r : k + 1 \in DOMAIN filesUp /\ r[k] = filesUp[k + 1]
      /\ \A k \in DOMAIN filesUp : k # 1 => k - 1 \in DOMAIN r /\ filesUp[k] = r[k - 1]
  BY <1>1, Taken
<1>3. \A k \in DOMAIN r : k \in Nat /\ 1 <= k /\ 1 < k + 1 /\ r[k] \in FileFrames
  BY <1>2
<1> HIDE DEF h, r
<1>4. ToSet(filesUp) = {h} \cup ToSet(r)
  BY <1>2 DEF ToSet
<1>5. \A m \in ToSet(r) : m \in FileFrames /\ Precedes(h, m, filesSent)
  <2> SUFFICES ASSUME NEW k \in DOMAIN r PROVE r[k] \in FileFrames /\ Precedes(h, r[k], filesSent)
    BY DEF ToSet
  <2> QED BY <1>2, <1>3 DEF InLine
<1>6. h \notin ToSet(r)
  <2> SUFFICES ASSUME h \in ToSet(r) PROVE FALSE
    OBVIOUS
  <2>1. h.index < h.index /\ h.index \in Nat
    BY <1>2, <1>5 DEF Precedes, FileFrames
  <2> QED BY <2>1
<1>7. InLine(r, filesSent)
  <2> SUFFICES ASSUME NEW i \in DOMAIN r, NEW j \in DOMAIN r, i < j
               PROVE  Precedes(r[i], r[j], filesSent)
    BY DEF InLine
  <2>1. i + 1 < j + 1
    BY <1>3
  <2> QED BY <1>2, <2>1 DEF InLine
<1>8. ToTheEnd(ToSet(r))
  <2> SUFFICES ASSUME NEW m \in ToSet(r), NEW c \in Nat, m.index <= c, c <= Chunks[m.file]
               PROVE  FrameOf(m.file, c) \in ToSet(r)
    BY DEF ToTheEnd
  <2>1. FrameOf(m.file, c) \in ToSet(filesUp)
    BY <1>4 DEF ToTheEnd
  <2>2. FrameOf(m.file, c) # h
    <3> SUFFICES ASSUME FrameOf(m.file, c) = h PROVE FALSE
      OBVIOUS
    <3>1. h.file = m.file /\ h.index = c
      BY DEF FrameOf
    <3>2. h.index < m.index /\ m.index \in Nat
      BY <1>5, <3>1 DEF Precedes, FileFrames
    <3> QED BY <3>1, <3>2
  <2> QED BY <1>4, <2>1, <2>2
<1> QED BY <1>2, <1>4, <1>5, <1>6, <1>7, <1>8 DEF h, r

\* What a file that is handed over leaves of the order of the others.
LEMMA SentMore ==
  ASSUME filesSent \in Seq(File), NEW f \in File, filesSent' = Append(filesSent, f)
  PROVE  /\ filesSent' \in Seq(File) /\ ToSet(filesSent') = ToSet(filesSent) \cup {f}
         /\ \A g, h \in File : Before(filesSent, g, h) => Before(filesSent', g, h)
         /\ \A g \in ToSet(filesSent) : Before(filesSent', g, f)
<1> DEFINE n == Len(filesSent) + 1
<1>1. /\ filesSent' \in Seq(File) /\ DOMAIN filesSent' = DOMAIN filesSent \cup {n}
      /\ filesSent'[n] = f
      /\ \A k \in DOMAIN filesSent : filesSent'[k] = filesSent[k] /\ k < n
  BY Added
<1> HIDE DEF n
<1>2. ToSet(filesSent') = ToSet(filesSent) \cup {f}
  BY <1>1 DEF ToSet
<1>3. ASSUME NEW g \in File, NEW h \in File, Before(filesSent, g, h)
      PROVE  Before(filesSent', g, h)
  <2>1. PICK i, j \in DOMAIN filesSent : i < j /\ filesSent[i] = g /\ filesSent[j] = h
    BY <1>3 DEF Before
  <2>2. /\ i \in DOMAIN filesSent' /\ j \in DOMAIN filesSent'
        /\ filesSent'[i] = g /\ filesSent'[j] = h
    BY <1>1, <2>1
  <2> QED BY <2>1, <2>2 DEF Before
<1>4. ASSUME NEW g \in ToSet(filesSent) PROVE Before(filesSent', g, f)
  <2>1. PICK i \in DOMAIN filesSent : filesSent[i] = g
    BY DEF ToSet
  <2>2. /\ i \in DOMAIN filesSent' /\ n \in DOMAIN filesSent' /\ i < n
        /\ filesSent'[i] = g /\ filesSent'[n] = f
    BY <1>1, <2>1
  <2> QED BY <2>2 DEF Before
<1> QED BY <1>1, <1>2, <1>3, <1>4

\* The frames of one more file come last.
LEMMA FramesJoin ==
  ASSUME FilesAssumption, FilesTyping, Streams, NEW f \in File,
         \A m \in ToSet(filesUp) : m.file \in ToSet(filesSent), f \notin ToSet(filesSent),
         filesUp' = filesUp \o Files!Frames(f), filesSent' = Append(filesSent, f)
  PROVE  LET F == {FrameOf(f, i) : i \in 0 .. Chunks[f]} IN
         /\ filesUp' \in Seq(FileFrames)
         /\ ToSet(filesUp') = ToSet(filesUp) \cup F
         /\ InLine(filesUp', filesSent')
         /\ ToTheEnd(ToSet(filesUp'))
<1> DEFINE F == {FrameOf(f, i) : i \in 0 .. Chunks[f]}
           n == Len(filesUp)
           c == Chunks[f]
           e == Files!Frames(f)
<1>1. n \in Nat /\ c \in Nat /\ filesUp \in Seq(FileFrames)
  BY DEF FilesAssumption, FilesTyping
<1>2. e \in Seq(FileFrames) /\ Len(e) = c + 1 /\ \A i \in 1 .. c + 1 : e[i] = FrameOf(f, i - 1)
  <2> DEFINE k == c + 1
             x(i) == FrameOf(f, i - 1)
  <2>1. e = [i \in 1 .. k |-> x(i)] /\ k \in Nat
    BY <1>1 DEF Files!Frames, FrameOf
  <2>2. \A i \in 1 .. k : x(i) \in FileFrames
    BY <1>1 DEF FrameOf, FileFrames
  <2> HIDE DEF e, k, x
  <2>3. e \in [1 .. k -> FileFrames] /\ \A i \in 1 .. k : e[i] = x(i)
    BY ONLY <2>1, <2>2
  <2>4. e \in Seq(FileFrames) /\ Len(e) = k
    BY <2>1, <2>3, IndexedIsSeq
  <2> QED BY <2>3, <2>4 DEF k, x
<1>3. /\ filesUp' \in Seq(FileFrames) /\ DOMAIN filesUp' = 1 .. n + (c + 1)
      /\ DOMAIN filesUp = 1 .. n
      /\ \A i \in 1 .. n + (c + 1) :
           filesUp'[i] = IF i <= n THEN filesUp[i] ELSE e[i - n]
  BY <1>1, <1>2
<1> HIDE DEF e, n, c
<1>4. \A i \in DOMAIN filesUp' :
        \/ i \in DOMAIN filesUp /\ filesUp'[i] = filesUp[i] /\ i <= n
        \/ i > n /\ i - n \in 1 .. c + 1 /\ filesUp'[i] = FrameOf(f, (i - n) - 1)
  <2> SUFFICES ASSUME NEW i \in 1 .. n + (c + 1)
      PROVE  \/ i \in 1 .. n /\ filesUp'[i] = filesUp[i] /\ i <= n
             \/ i > n /\ i - n \in 1 .. c + 1 /\ filesUp'[i] = FrameOf(f, (i - n) - 1)
    BY <1>3
  <2>1. CASE i <= n
    <3>1. i \in 1 .. n
      BY ONLY <1>1, <2>1
    <3> QED BY <1>3, <2>1, <3>1
  <2>2. CASE ~(i <= n)
    <3>1. i > n /\ i - n \in 1 .. c + 1
      BY ONLY <1>1, <2>2
    <3>2. filesUp'[i] = e[i - n]
      BY <1>3, <2>2
    <3> QED BY <1>2, <3>1, <3>2
  <2> QED BY <2>1, <2>2
<1>5. ToSet(filesUp') = ToSet(filesUp) \cup F
  <2>1. ToSet(filesUp') \subseteq ToSet(filesUp) \cup F
    <3> SUFFICES ASSUME NEW i \in DOMAIN filesUp' PROVE filesUp'[i] \in ToSet(filesUp) \cup F
      BY DEF ToSet
    <3>1. CASE i \in DOMAIN filesUp /\ filesUp'[i] = filesUp[i]
      BY <3>1 DEF ToSet
    <3>2. CASE i > n /\ i - n \in 1 .. c + 1 /\ filesUp'[i] = FrameOf(f, (i - n) - 1)
      <4>1. (i - n) - 1 \in 0 .. c
        <5> DEFINE d == i - n
        <5>1. c \in Nat /\ d \in 1 .. c + 1  BY <1>1, <3>2
        <5> HIDE DEF d
        <5>2. d - 1 \in 0 .. c  BY ONLY <5>1
        <5> QED BY <5>2 DEF d
      <4> QED BY <3>2, <4>1 DEF c
    <3> QED BY <1>4, <3>1, <3>2
  <2>2. ToSet(filesUp) \subseteq ToSet(filesUp')
    BY <1>1, <1>3 DEF ToSet
  <2>3. F \subseteq ToSet(filesUp')
    <3> SUFFICES ASSUME NEW i \in 0 .. c PROVE FrameOf(f, i) \in ToSet(filesUp')
      BY DEF c
    <3>1. /\ n + (i + 1) \in DOMAIN filesUp' /\ ~(n + (i + 1) <= n)
          /\ (n + (i + 1)) - n = i + 1 /\ i + 1 \in 1 .. c + 1 /\ (i + 1) - 1 = i
      BY <1>1, <1>3
    <3>2. filesUp'[n + (i + 1)] = FrameOf(f, i)
      BY <1>2, <1>3, <3>1
    <3> QED BY <3>1, <3>2 DEF ToSet
  <2> QED BY <2>1, <2>2, <2>3
<1>6. /\ \A g \in ToSet(filesSent) : Before(filesSent', g, f)
      /\ \A g, h \in File : Before(filesSent, g, h) => Before(filesSent', g, h)
  BY SentMore DEF FilesTyping
<1>7. \A i \in DOMAIN filesUp : /\ filesUp[i] \in FileFrames /\ filesUp[i].file \in File
                                /\ filesUp[i].file \in ToSet(filesSent)
  <2> SUFFICES ASSUME NEW i \in DOMAIN filesUp
               PROVE  /\ filesUp[i] \in FileFrames /\ filesUp[i].file \in File
                      /\ filesUp[i].file \in ToSet(filesSent)
    OBVIOUS
  <2>1. filesUp[i] \in ToSet(filesUp)
    BY DEF ToSet
  <2>2. filesUp[i] \in FileFrames
    BY <1>1, <1>3
  <2> QED BY <2>1, <2>2 DEF FileFrames
<1>8. InLine(filesUp', filesSent')
  <2> SUFFICES ASSUME NEW i \in DOMAIN filesUp', NEW j \in DOMAIN filesUp', i < j
               PROVE  Precedes(filesUp'[i], filesUp'[j], filesSent')
    BY DEF InLine
  <2>1. CASE j \in DOMAIN filesUp /\ filesUp'[j] = filesUp[j] /\ j <= n
    <3>1. i \in DOMAIN filesUp /\ filesUp'[i] = filesUp[i]
      BY <1>1, <1>3, <1>4, <2>1
    <3>2. Precedes(filesUp[i], filesUp[j], filesSent)
      BY <2>1, <3>1 DEF Streams, InLine
    <3> QED BY <1>6, <1>7, <2>1, <3>1, <3>2 DEF Precedes
  <2>2. CASE j > n /\ j - n \in 1 .. c + 1 /\ filesUp'[j] = FrameOf(f, (j - n) - 1)
    <3>1. filesUp'[j].file = f /\ filesUp'[j].index = (j - n) - 1
      BY <2>2 DEF FrameOf
    <3>2. CASE i \in DOMAIN filesUp /\ filesUp'[i] = filesUp[i]
      <4>1. filesUp'[i].file # f /\ Before(filesSent', filesUp'[i].file, f)
        BY <1>6, <1>7, <3>2
      <4> QED BY <3>1, <4>1 DEF Precedes
    <3>3. CASE i > n /\ i - n \in 1 .. c + 1 /\ filesUp'[i] = FrameOf(f, (i - n) - 1)
      <4>1. filesUp'[i].file = f /\ filesUp'[i].index = (i - n) - 1
        BY <3>3 DEF FrameOf
      <4>2. (i - n) - 1 < (j - n) - 1
        BY <1>1, <1>3
      <4> QED BY <3>1, <4>1, <4>2 DEF Precedes
    <3> QED BY <1>4, <3>2, <3>3
  <2> QED BY <1>4, <2>1, <2>2
<1>9. ToTheEnd(ToSet(filesUp'))
  <2> SUFFICES ASSUME NEW m \in ToSet(filesUp) \cup F, NEW k \in Nat,
                      m.index <= k, k <= Chunks[m.file]
               PROVE  FrameOf(m.file, k) \in ToSet(filesUp) \cup F
    BY <1>5 DEF ToTheEnd
  <2>1. CASE m \in ToSet(filesUp)
    BY <2>1 DEF Streams, ToTheEnd
  <2>2. CASE m \in F
    <3>1. m.file = f /\ k \in 0 .. Chunks[f]
      BY <1>1, <2>2 DEF FrameOf, c
    <3> QED BY <3>1
  <2> QED BY <2>1, <2>2
<1> QED BY <1>3, <1>5, <1>8, <1>9 DEF F

\* A list that a new item joins has it once.
LEMMA OnceMore ==
  ASSUME NEW X, NEW d \in Seq(X), NEW f \in X, f \notin ToSet(d), Files!IsInjective(d)
  PROVE  /\ Append(d, f) \in Seq(X) /\ ToSet(Append(d, f)) = ToSet(d) \cup {f}
         /\ Files!IsInjective(Append(d, f))
         /\ \A i \in DOMAIN Append(d, f) : \/ i \in DOMAIN d /\ Append(d, f)[i] = d[i]
                                           \/ i = Len(d) + 1 /\ Append(d, f)[i] = f
         /\ \A i, j \in DOMAIN Append(d, f) : i < j => i \in DOMAIN d
<1> DEFINE n == Len(d) + 1
           e == Append(d, f)
<1>1. /\ e \in Seq(X) /\ DOMAIN e = DOMAIN d \cup {n} /\ e[n] = f
      /\ \A k \in DOMAIN d : e[k] = d[k] /\ k < n
  BY Added
<1>2. n \in Nat /\ DOMAIN d \subseteq Nat
  OBVIOUS
<1> HIDE DEF n, e
<1>3. ToSet(e) = ToSet(d) \cup {f}
  BY <1>1 DEF ToSet
<1>4. Files!IsInjective(e)
  BY <1>1 DEF ToSet, Files!IsInjective
<1>5. \A i, j \in DOMAIN e : i < j => i \in DOMAIN d
  <2>1. \A j \in DOMAIN e : j = n \/ j < n
    BY <1>1
  <2>2. \A j \in DOMAIN e : j \in Nat
    BY <1>1, <1>2
  <2> QED BY <1>1, <1>2, <2>1, <2>2
<1> QED BY <1>1, <1>3, <1>4, <1>5 DEF e, n

\* The file on disk is the last one saved under its name, also when one is saved.
LEMMA DiskSaved ==
  ASSUME NEW d \in Seq(File), NEW f \in File,
         NEW kept \in [Files!Names -> File \cup {None}], HoldsLast(kept, d)
  PROVE  LET new == [kept EXCEPT ![Name[f]] = f]
         IN  /\ new \in [Files!Names -> File \cup {None}]
             /\ HoldsLast(new, Append(d, f))
<1> DEFINE n == Len(d) + 1
           e == Append(d, f)
           new == [kept EXCEPT ![Name[f]] = f]
<1>1. /\ DOMAIN e = DOMAIN d \cup {n} /\ e[n] = f
      /\ \A k \in DOMAIN d : e[k] = d[k] /\ k < n
  BY Added
<1>2. Name[f] \in Files!Names /\ \A i \in DOMAIN d : Name[d[i]] \in Files!Names
  BY DEF Files!Names
<1>3. /\ new \in [Files!Names -> File \cup {None}]
      /\ \A x \in Files!Names : new[x] = IF x = Name[f] THEN f ELSE kept[x]
  BY <1>2
<1> HIDE DEF n, e, new
<1>4. ASSUME NEW i \in DOMAIN e, \A j \in DOMAIN e : j > i => Name[e[j]] # Name[e[i]]
      PROVE  new[Name[e[i]]] = e[i]
  <2>1. CASE i = n
    BY <1>1, <1>2, <1>3, <2>1
  <2>2. CASE i # n
    <3>1. i \in DOMAIN d /\ i < n /\ e[i] = d[i] /\ i \in Nat /\ n \in Nat
      BY <1>1, <2>2 DEF n
    <3>2. n > i /\ n \in DOMAIN e
      BY <1>1, <3>1
    <3>3. Name[d[i]] # Name[f]
      BY <1>1, <1>4, <3>1, <3>2
    <3>4. \A j \in DOMAIN d : j > i => Name[d[j]] # Name[d[i]]
      BY <1>1, <1>4, <3>1
    <3>5. kept[Name[d[i]]] = d[i]
      BY <3>1, <3>4 DEF HoldsLast
    <3> QED BY <1>2, <1>3, <3>1, <3>3, <3>5
  <2> QED BY <2>1, <2>2
<1> QED BY <1>3, <1>4 DEF HoldsLast, new, e

\* And the list shows it on top.
LEMMA ShowsSaved ==
  ASSUME FilesAssumption, NEW X, NEW d \in Seq(X), NEW f \in X, NEW list \in Seq(X),
         ShowsNewest(list, d)
  PROVE  /\ Files!First(<<f>> \o list, MaxFiles) \in Seq(X)
         /\ ShowsNewest(Files!First(<<f>> \o list, MaxFiles), Append(d, f))
<1> DEFINE e == Append(d, f)
           top == Files!First(<<f>> \o list, MaxFiles)
<1>1. /\ top \in Seq(X)
      /\ Len(top) = IF Len(list) + 1 > MaxFiles THEN MaxFiles ELSE Len(list) + 1
      /\ \A k \in 1 .. Len(top) : top[k] = IF k = 1 THEN f ELSE list[k - 1]
  BY Topped DEF FilesAssumption, Files!First
<1>2. Len(e) = Len(d) + 1 /\ e[Len(d) + 1] = f /\ \A k \in 1 .. Len(d) : e[k] = d[k]
  BY AppendProperties
<1>3. /\ Len(list) <= Len(d) /\ \A i \in 1 .. Len(list) : list[i] = d[Len(d) + 1 - i]
      /\ Len(list) \in Nat /\ Len(d) \in Nat /\ MaxFiles \in Nat
  BY DEF ShowsNewest, FilesAssumption
<1>4. DOMAIN top = 1 .. Len(top) /\ Len(top) \in Nat
  BY <1>1
<1> HIDE DEF e, top
<1>5. Len(top) <= Len(e) /\ Len(top) <= Len(list) + 1
  BY <1>1, <1>2, <1>3
<1>6. ASSUME NEW k \in 1 .. Len(top) PROVE top[k] = e[Len(e) + 1 - k]
  <2>1. CASE k = 1
    BY <1>1, <1>2, <1>3, <2>1
  <2>2. CASE k # 1
    <3>1. k - 1 \in 1 .. Len(list) /\ k - 1 \in 1 .. Len(d)
      BY <1>3, <1>4, <1>5, <2>2
    <3>2. Len(d) + 1 - (k - 1) = Len(e) + 1 - k /\ Len(d) + 1 - (k - 1) \in 1 .. Len(d)
      BY <1>2, <1>3, <3>1
    <3>3. top[k] = d[Len(d) + 1 - (k - 1)]
      BY <1>1, <1>3, <2>2, <3>1
    <3> QED BY <1>2, <3>2, <3>3
  <2> QED BY <2>1, <2>2
<1> QED BY <1>1, <1>4, <1>5, <1>6 DEF ShowsNewest, e, top

\* The phone sends a file: all its frames join those on the way.
LEMMA FileSent ==
  ASSUME FilesAssumption, FilesInv, NEW f \in File, Files!SendFile(f)
  PROVE  FilesInv'
<1> DEFINE F == {FrameOf(f, i) : i \in 0 .. Chunks[f]}
           U == ToSet(filesUp)
<1>0. /\ FilesTyping /\ Streams /\ Buffered /\ Balanced /\ InOrder /\ Reported
      /\ HoldsLast(pcDisk, pcDone) /\ ShowsNewest(pcList, pcDone)
  BY DEF FilesInv
<1>1. /\ f \notin ToSet(filesSent)
      /\ filesUp' = filesUp \o Files!Frames(f) /\ filesSent' = Append(filesSent, f)
      /\ UNCHANGED <<filesDown, pcBuffers, pcDisk, pcList, pcDone, cut, filesFailed, spoiled>>
  BY DEF Files!SendFile, Files!pc, Files!losses, Files!Range, ToSet
<1>2. \A m \in U : m.file \in ToSet(filesSent)
  BY <1>0 DEF Balanced, Underway
<1>3. /\ filesUp' \in Seq(FileFrames) /\ ToSet(filesUp') = U \cup F
      /\ InLine(filesUp', filesSent') /\ ToTheEnd(ToSet(filesUp'))
  BY <1>0, <1>1, <1>2, FramesJoin
<1>4. /\ filesSent' \in Seq(File) /\ ToSet(filesSent') = ToSet(filesSent) \cup {f}
      /\ \A g, h \in File : Before(filesSent, g, h) => Before(filesSent', g, h)
      /\ \A g \in ToSet(filesSent) : Before(filesSent', g, f)
  BY <1>0, <1>1, SentMore DEF FilesTyping
<1>5. (\A m \in F : m.file = f) /\ FrameOf(f, 0) \in F
  BY DEF FrameOf, FilesAssumption
<1>6. \A g \in File, c \in Nat : g # f => FrameOf(g, c) \notin F
  BY <1>5 DEF FrameOf
<1>7. \A m \in U : m \in FileFrames /\ m.file \in File
  BY <1>0 DEF FilesTyping, ToSet, FileFrames
<1> HIDE DEF F, U
<1>8. FilesTyping'
  BY <1>0, <1>1, <1>3, <1>4 DEF FilesTyping
<1>9. Streams'
  <2>1. Begun(U \cup F, DOMAIN pcBuffers)
    BY <1>0, <1>5 DEF Streams, Begun, U
  <2> QED BY <1>1, <1>3, <2>1 DEF Streams
<1>10. Buffered'
  <2> SUFFICES ASSUME NEW g \in DOMAIN pcBuffers
               PROVE  BufferOf(g, pcBuffers[g], U \cup F, spoiled)
    BY <1>1, <1>3 DEF Buffered
  <2>1. BufferOf(g, pcBuffers[g], U, spoiled)
    BY <1>0 DEF Buffered, U
  <2>2. g \in File /\ g # f
    BY <1>0, <1>1 DEF FilesTyping, Balanced, Underway
  <2>3. Lacks(g, pcBuffers[g], U \cup F) = Lacks(g, pcBuffers[g], U)
    BY <1>6, <2>2 DEF Lacks
  <2>4. \A m \in U \cup F : m.file = g => m \in U
    BY <1>5, <2>2
  <2> QED BY <2>1, <2>3, <2>4 DEF BufferOf
<1>11. Balanced'
  <2>1. Underway' = Underway \cup {f}
    BY <1>1, <1>3, <1>5 DEF Underway, U
  <2> QED BY <1>0, <1>1, <1>4, <2>1 DEF Balanced, Stored
<1>12. InOrder'
  <2>1. \A g \in Stored : g \in File /\ g \in ToSet(filesSent)
    <3>1. \A i \in DOMAIN pcDone : pcDone[i] \in File
      BY <1>0 DEF FilesTyping
    <3>2. Stored \subseteq ToSet(filesSent)
      BY <1>0 DEF Balanced
    <3> QED BY <3>1, <3>2 DEF Stored, ToSet
  <2>2. \A i \in DOMAIN pcDone : pcDone[i] \in File
    BY <1>0 DEF FilesTyping
  <2>3. \A i, j \in DOMAIN pcDone : i < j => Before(filesSent', pcDone[i], pcDone[j])
    BY <1>0, <1>4, <2>2 DEF InOrder
  <2>4. \A g \in Stored : \A m \in U \cup F : Before(filesSent', g, m.file)
    BY <1>0, <1>4, <1>5, <1>7, <2>1 DEF InOrder, U
  <2> QED BY <1>0, <1>1, <1>3, <2>3, <2>4 DEF InOrder, Stored
<1>13. Reported'
  BY <1>0, <1>1 DEF Reported, Stored
<1> QED BY <1>0, <1>1, <1>8, <1>9, <1>10, <1>11, <1>12, <1>13 DEF FilesInv

\* A session ends, and what it held is written off.
LEMMA FilesCut ==
  ASSUME FilesInv, Files!SessionEnds PROVE FilesInv'
<1>0. /\ FilesTyping /\ Streams /\ Buffered /\ Balanced /\ InOrder /\ Reported
      /\ HoldsLast(pcDisk, pcDone) /\ ShowsNewest(pcList, pcDone)
  BY DEF FilesInv
<1>1. /\ filesUp' = <<>> /\ filesDown' = <<>> /\ DOMAIN pcBuffers' = {}
      /\ cut' = cut \cup Files!InTransit \cup DOMAIN pcBuffers
      /\ UNCHANGED <<pcDisk, pcList, pcDone, filesSent, filesFailed, spoiled>>
  BY DEF Files!SessionEnds
<1>2. ToSet(<<>>) = {} /\ DOMAIN <<>> = {} /\ \A X : <<>> \in Seq(X)
  BY DEF ToSet
<1>3. Files!InTransit = {m.file : m \in ToSet(filesUp)}
  BY DEF Files!InTransit, Files!Range, ToSet
<1>4. FilesTyping'
  BY <1>0, <1>1, <1>2 DEF FilesTyping
<1>5. Streams' /\ Buffered' /\ Reported'
  BY <1>1, <1>2 DEF Streams, InLine, ToTheEnd, Begun, Buffered, Reported
<1>6. Balanced'
  <2>1. Underway' = {} /\ cut' = cut \cup Underway
    BY <1>1, <1>2, <1>3 DEF Underway
  <2> QED BY <1>0, <1>1, <2>1 DEF Balanced, Stored, Underway
<1>7. InOrder'
  BY <1>0, <1>1, <1>2 DEF InOrder, Stored
<1> QED BY <1>0, <1>1, <1>4, <1>5, <1>6, <1>7 DEF FilesInv

\* Steps that leave frames, buffers and what is saved alone.
LEMMA FilesKept ==
  ASSUME FilesInv,
         UNCHANGED <<filesUp, pcBuffers, pcDisk, pcDone, filesSent, cut, filesFailed, spoiled>>,
         pcList' = pcList \/ pcList' = <<>>,
         filesDown' = filesDown \/ (filesDown # <<>> /\ filesDown' = Tail(filesDown))
  PROVE  FilesInv'
<1>0. /\ FilesTyping /\ Streams /\ Buffered /\ Balanced /\ InOrder /\ Reported
      /\ HoldsLast(pcDisk, pcDone) /\ ShowsNewest(pcList, pcDone)
  BY DEF FilesInv
<1>1. filesDown' \in Seq(File) /\ ToSet(filesDown') \subseteq ToSet(filesDown)
  <2>1. filesDown \in Seq(File)
    BY <1>0 DEF FilesTyping
  <2>2. CASE filesDown # <<>> /\ filesDown' = Tail(filesDown)
    <3>1. /\ Tail(filesDown) \in Seq(File)
          /\ \A k \in DOMAIN Tail(filesDown) :
               k + 1 \in DOMAIN filesDown /\ Tail(filesDown)[k] = filesDown[k + 1]
      BY <2>1, <2>2, Taken
    <3>2. ToSet(Tail(filesDown)) \subseteq ToSet(filesDown)
      BY <3>1 DEF ToSet
    <3> QED BY <2>2, <3>1, <3>2
  <2> QED BY <2>1, <2>2
<1>2. pcList' \in Seq(File) /\ ShowsNewest(pcList', pcDone)
  <2>1. pcList \in Seq(File) /\ Len(pcDone) \in Nat
    BY <1>0 DEF FilesTyping
  <2>2. <<>> \in Seq(File) /\ ShowsNewest(<<>>, pcDone)
    BY <2>1 DEF ShowsNewest
  <2> QED BY <1>0, <2>1, <2>2
<1>3. FilesTyping'
  BY <1>0, <1>1, <1>2 DEF FilesTyping
<1>4. Streams' /\ Buffered' /\ Balanced' /\ InOrder'
  BY <1>0 DEF Streams, Buffered, Balanced, Underway, Stored, InOrder
<1>5. Reported'
  BY <1>0, <1>1 DEF Reported, Stored
<1> QED BY <1>0, <1>2, <1>3, <1>4, <1>5 DEF FilesInv

\* What a buffer that is not touched, or one that is gone, leaves of the others.
LEMMA OtherBuffers ==
  ASSUME FilesInv, NEW h \in FileFrames, NEW R, ToSet(filesUp) = {h} \cup R,
         NEW g \in DOMAIN pcBuffers, g # h.file, NEW bad, g \in bad <=> g \in spoiled
  PROVE  BufferOf(g, pcBuffers[g], R, bad)
<1>1. BufferOf(g, pcBuffers[g], {h} \cup R, spoiled)
  BY DEF FilesInv, Buffered
<1>2. \A c \in 1 .. Chunks[g] : FrameOf(g, c) # h
  BY DEF FrameOf
<1>3. Lacks(g, pcBuffers[g], R) = Lacks(g, pcBuffers[g], {h} \cup R)
  BY <1>2 DEF Lacks
<1> QED BY <1>1, <1>3 DEF BufferOf

\* A file-start makes a buffer, empty.
LEMMA FileStarts ==
  ASSUME FilesAssumption, FilesInv, Files!OnFileStart PROVE FilesInv'
<1> DEFINE h == Head(filesUp)
           f == h.file
           U == ToSet(filesUp)
           R == ToSet(filesUp')
<1>0. /\ FilesTyping /\ Streams /\ Buffered /\ Balanced /\ InOrder /\ Reported
      /\ HoldsLast(pcDisk, pcDone) /\ ShowsNewest(pcList, pcDone)
  BY DEF FilesInv
<1>1. /\ filesUp # <<>> /\ h.index = 0 /\ filesUp' = Tail(filesUp)
      /\ pcBuffers' = [g \in DOMAIN pcBuffers \cup {f} |-> IF g = f THEN {} ELSE pcBuffers[g]]
      /\ UNCHANGED <<filesDown, pcDisk, pcList, pcDone, filesSent, cut, filesFailed, spoiled>>
  BY DEF Files!OnFileStart, Files!IsStart, Files!With, Files!losses
<1>2. /\ h \in FileFrames /\ filesUp' \in Seq(FileFrames)
      /\ U = {h} \cup R /\ h \notin R
      /\ \A m \in R : m \in FileFrames /\ Precedes(h, m, filesSent)
      /\ InLine(filesUp', filesSent') /\ ToTheEnd(R)
  BY <1>0, <1>1, FrameTaken DEF Streams
<1>3. f \in File /\ Chunks[f] \in Nat /\ h = FrameOf(f, 0)
  BY <1>1, <1>2 DEF FileFrames, FilesAssumption, FrameOf
<1>4. DOMAIN pcBuffers' = DOMAIN pcBuffers \cup {f}
  BY <1>1
<1> HIDE DEF h, f, U, R
<1>5. FilesTyping'
  BY <1>0, <1>1, <1>2, <1>3, <1>4 DEF FilesTyping
<1>6. Streams'
  <2>1. ASSUME NEW m \in R PROVE m.file \in DOMAIN pcBuffers' \/ FrameOf(m.file, 0) \in R
    <3>1. m.file \in DOMAIN pcBuffers \/ FrameOf(m.file, 0) \in U
      BY <1>0, <1>2 DEF Streams, Begun, U
    <3>2. FrameOf(m.file, 0) = h => m.file = f
      BY DEF FrameOf, f
    <3> QED BY <1>2, <1>4, <3>1, <3>2
  <2> QED BY <1>2, <2>1 DEF Streams, Begun, R
<1>7. Buffered'
  <2> SUFFICES ASSUME NEW g \in DOMAIN pcBuffers' PROVE BufferOf(g, pcBuffers'[g], R, spoiled)
    BY <1>1 DEF Buffered, R
  <2>1. CASE g = f
    <3>1. pcBuffers'[f] = {}
      BY <1>1
    <3>2. \A c \in 1 .. Chunks[f] : FrameOf(f, c) \in U /\ FrameOf(f, c) # h
      BY <1>0, <1>1, <1>2, <1>3 DEF Streams, ToTheEnd, U, f, FrameOf
    <3>3. ~Lacks(f, {}, R)
      BY <1>2, <3>2 DEF Lacks
    <3>4. f \notin spoiled
      <4> SUFFICES ASSUME f \in spoiled PROVE FALSE
        OBVIOUS
      <4>1. f \in Underway
        BY <1>2 DEF Underway, U, f
      <4>2. f \in DOMAIN pcBuffers
        BY <1>0, <4>1 DEF Balanced
      <4>3. Lacks(f, pcBuffers[f], U)
        BY <1>0, <4>2 DEF Buffered, BufferOf, U
      <4> QED BY <3>2, <4>3 DEF Lacks
    <3>5. Chunks[f] # 0 => {} # 1 .. Chunks[f]
      BY <1>3
    <3> QED BY <2>1, <3>1, <3>3, <3>4, <3>5 DEF BufferOf
  <2>2. CASE g # f
    <3>1. g \in DOMAIN pcBuffers /\ pcBuffers'[g] = pcBuffers[g]
      BY <1>1, <1>4, <2>2
    <3> QED BY <1>2, <2>2, <3>1, OtherBuffers DEF U, f
  <2> QED BY <2>1, <2>2
<1>8. Balanced'
  <2>1. f \in Underway
    BY <1>2 DEF Underway, U, f
  <2>2. Underway' = Underway
    BY <1>2, <1>4 DEF Underway, U, R, f
  <2> QED BY <1>0, <1>1, <1>4, <2>2 DEF Balanced, Stored
<1>9. InOrder'
  BY <1>0, <1>1, <1>2 DEF InOrder, Stored, U, R
<1>10. Reported'
  BY <1>0, <1>1 DEF Reported, Stored
<1> QED BY <1>0, <1>1, <1>5, <1>6, <1>7, <1>8, <1>9, <1>10 DEF FilesInv

\* A chunk is at the head: it finds its buffer, which has only earlier ones.
LEMMA ChunkAtHead ==
  ASSUME FilesAssumption, FilesInv, Files!OnFileChunk
  PROVE  LET h == Head(filesUp)
             f == h.file
             R == ToSet(filesUp')
         IN  /\ h \in FileFrames /\ h = FrameOf(f, h.index) /\ f \in File
             /\ h.index \in 1 .. Chunks[f]
             /\ filesUp' \in Seq(FileFrames)
             /\ ToSet(filesUp) = {h} \cup R /\ h \notin R
             /\ \A m \in R : m \in FileFrames /\ Precedes(h, m, filesSent)
             /\ InLine(filesUp', filesSent') /\ ToTheEnd(R)
             /\ f \in DOMAIN pcBuffers
             /\ \A c \in pcBuffers[f] : c < h.index
             /\ pcBuffers[f] \subseteq 1 .. Chunks[f]
             /\ Begun(R, DOMAIN pcBuffers)
             /\ f \in Underway
             /\ Files!Opened(f, h.index) \/ Files!Spoils(f)
             /\ UNCHANGED <<filesSent, cut>>
<1> DEFINE h == Head(filesUp)
           f == h.file
           U == ToSet(filesUp)
           R == ToSet(filesUp')
<1>0. FilesTyping /\ Streams /\ Buffered
  BY DEF FilesInv
<1>1. /\ filesUp # <<>> /\ h.index # 0 /\ filesUp' = Tail(filesUp)
      /\ f \in DOMAIN pcBuffers => Files!Opened(f, h.index) \/ Files!Spoils(f)
      /\ UNCHANGED <<filesSent, cut>>
  BY DEF Files!OnFileChunk, Files!IsStart
<1>2. /\ h \in FileFrames /\ filesUp' \in Seq(FileFrames)
      /\ U = {h} \cup R /\ h \notin R
      /\ \A m \in R : m \in FileFrames /\ Precedes(h, m, filesSent)
      /\ InLine(filesUp', filesSent') /\ ToTheEnd(R)
  BY <1>0, <1>1, FrameTaken DEF Streams
<1>3. h = FrameOf(f, h.index) /\ f \in File /\ h.index \in 1 .. Chunks[f]
  BY <1>1, <1>2 DEF FileFrames, FilesAssumption, FrameOf
<1> HIDE DEF h, f, U, R
<1>4. f \in DOMAIN pcBuffers
  <2> SUFFICES ASSUME FrameOf(f, 0) \in U PROVE FALSE
    BY <1>0, <1>2 DEF Streams, Begun, U, f
  <2>1. FrameOf(f, 0).file = f /\ FrameOf(f, 0).index = 0
    BY DEF FrameOf
  <2>2. FrameOf(f, 0) \in R
    BY <1>1, <1>2, <2>1
  <2>3. h.index < 0
    BY <1>2, <2>1, <2>2 DEF Precedes, f
  <2> QED BY <1>3, <2>3
<1>5. \A c \in pcBuffers[f] : c < h.index /\ c \in 1 .. Chunks[f]
  BY <1>0, <1>2, <1>4 DEF Buffered, BufferOf, U, f
<1>6. Begun(R, DOMAIN pcBuffers)
  <2> SUFFICES ASSUME NEW m \in R PROVE m.file \in DOMAIN pcBuffers \/ FrameOf(m.file, 0) \in R
    BY DEF Begun
  <2>1. m.file \in DOMAIN pcBuffers \/ FrameOf(m.file, 0) \in U
    BY <1>0, <1>2 DEF Streams, Begun, U
  <2>2. FrameOf(m.file, 0) # h
    BY <1>1 DEF FrameOf
  <2> QED BY <1>2, <2>1, <2>2
<1>7. f \in Underway
  BY <1>4 DEF Underway
<1> QED BY <1>1, <1>2, <1>3, <1>4, <1>5, <1>6, <1>7 DEF h, f, U, R

\* A chunk does not open: its file never completes.
LEMMA ChunkSpoiled ==
  ASSUME FilesAssumption, FilesInv, Files!OnFileChunk, Files!Spoils(Head(filesUp).file)
  PROVE  FilesInv'
<1> DEFINE h == Head(filesUp)
           f == h.file
           U == ToSet(filesUp)
           R == ToSet(filesUp')
<1>0. /\ FilesTyping /\ Streams /\ Buffered /\ Balanced /\ InOrder /\ Reported
      /\ HoldsLast(pcDisk, pcDone) /\ ShowsNewest(pcList, pcDone)
  BY DEF FilesInv
<1>1. /\ spoiled' = spoiled \cup {f}
      /\ UNCHANGED <<filesDown, pcBuffers, pcDisk, pcList, pcDone, filesFailed>>
  BY DEF Files!Spoils, Files!pc
<1>2. /\ h \in FileFrames /\ h = FrameOf(f, h.index) /\ f \in File
      /\ h.index \in 1 .. Chunks[f]
      /\ filesUp' \in Seq(FileFrames)
      /\ U = {h} \cup R /\ h \notin R
      /\ InLine(filesUp', filesSent') /\ ToTheEnd(R)
      /\ f \in DOMAIN pcBuffers
      /\ \A c \in pcBuffers[f] : c < h.index
      /\ Begun(R, DOMAIN pcBuffers)
      /\ UNCHANGED <<filesSent, cut>>
  BY ChunkAtHead
<1> HIDE DEF h, f, U, R
<1>3. FilesTyping'
  BY <1>0, <1>1, <1>2 DEF FilesTyping
<1>4. Streams'
  BY <1>1, <1>2 DEF Streams, R
<1>5. Buffered'
  <2> SUFFICES ASSUME NEW g \in DOMAIN pcBuffers
               PROVE  BufferOf(g, pcBuffers[g], R, spoiled \cup {f})
    BY <1>1 DEF Buffered, R
  <2>1. CASE g = f
    <3>1. BufferOf(f, pcBuffers[f], U, spoiled)
      BY <1>0, <1>2 DEF Buffered, U
    <3>2. h.index \notin pcBuffers[f]
      BY <1>2
    <3>3. Lacks(f, pcBuffers[f], R)
      BY <1>2, <3>2 DEF Lacks
    <3> QED BY <1>2, <2>1, <3>1, <3>3 DEF BufferOf
  <2>2. CASE g # f
    BY <1>2, <2>2, OtherBuffers DEF U, f
  <2> QED BY <2>1, <2>2
<1>6. Balanced'
  <2>1. Underway' = Underway
    BY <1>1, <1>2 DEF Underway, U, R, f
  <2> QED BY <1>0, <1>1, <1>2, <2>1 DEF Balanced, Stored
<1>7. InOrder'
  BY <1>0, <1>1, <1>2 DEF InOrder, Stored, U, R
<1>8. Reported'
  BY <1>0, <1>1 DEF Reported, Stored
<1> QED BY <1>0, <1>1, <1>3, <1>4, <1>5, <1>6, <1>7, <1>8 DEF FilesInv

\* A chunk joins its buffer, which still lacks one.
LEMMA ChunkJoins ==
  ASSUME FilesAssumption, FilesInv, Files!OnFileChunk,
         LET h == Head(filesUp) IN
         /\ pcBuffers[h.file] \cup {h.index} # 1 .. Chunks[h.file]
         /\ pcBuffers' = Files!With(pcBuffers, h.file, pcBuffers[h.file] \cup {h.index}),
         UNCHANGED <<filesDown, pcDisk, pcList, pcDone, filesFailed, spoiled>>
  PROVE  FilesInv'
<1> DEFINE h == Head(filesUp)
           f == h.file
           U == ToSet(filesUp)
           R == ToSet(filesUp')
           S == pcBuffers[f] \cup {h.index}
<1>0. /\ FilesTyping /\ Streams /\ Buffered /\ Balanced /\ InOrder /\ Reported
      /\ HoldsLast(pcDisk, pcDone) /\ ShowsNewest(pcList, pcDone)
  BY DEF FilesInv
<1>1. /\ S # 1 .. Chunks[f]
      /\ pcBuffers' = [g \in DOMAIN pcBuffers \cup {f} |-> IF g = f THEN S ELSE pcBuffers[g]]
  BY DEF Files!With
<1>2. /\ h \in FileFrames /\ h = FrameOf(f, h.index) /\ f \in File
      /\ h.index \in 1 .. Chunks[f]
      /\ filesUp' \in Seq(FileFrames)
      /\ U = {h} \cup R /\ h \notin R
      /\ \A m \in R : m \in FileFrames /\ Precedes(h, m, filesSent)
      /\ InLine(filesUp', filesSent') /\ ToTheEnd(R)
      /\ f \in DOMAIN pcBuffers
      /\ \A c \in pcBuffers[f] : c < h.index
      /\ pcBuffers[f] \subseteq 1 .. Chunks[f]
      /\ Begun(R, DOMAIN pcBuffers)
      /\ UNCHANGED <<filesSent, cut>>
  BY ChunkAtHead
<1> HIDE DEF h, f, U, R, S
<1>3. DOMAIN pcBuffers' = DOMAIN pcBuffers /\ pcBuffers'[f] = S
  BY <1>1, <1>2
<1>4. FilesTyping'
  BY <1>0, <1>2, <1>3 DEF FilesTyping
<1>5. Streams'
  BY <1>2, <1>3 DEF Streams, R
<1>6. Buffered'
  <2> SUFFICES ASSUME NEW g \in DOMAIN pcBuffers PROVE BufferOf(g, pcBuffers'[g], R, spoiled)
    BY <1>3 DEF Buffered, R
  <2>1. CASE g = f
    <3>1. BufferOf(f, pcBuffers[f], U, spoiled)
      BY <1>0, <1>2 DEF Buffered, U
    <3>2. S \subseteq 1 .. Chunks[f]
      BY <1>2 DEF S
    <3>3. ASSUME NEW m \in R, m.file = f, NEW c \in S PROVE c < m.index
      <4>1. h.index < m.index /\ m.index \in Nat
        BY <1>2, <3>3 DEF Precedes, f, FileFrames
      <4>2. c = h.index \/ c < h.index
        BY <1>2 DEF S
      <4>3. c \in Nat /\ h.index \in Nat
        BY <1>2, <3>2
      <4> QED BY <4>1, <4>2, <4>3
    <3>4. ASSUME NEW c \in 1 .. Chunks[f]
          PROVE  (c \notin S /\ FrameOf(f, c) \notin R)
                   <=> (c \notin pcBuffers[f] /\ FrameOf(f, c) \notin U)
      <4>1. FrameOf(f, c) = h <=> c = h.index
        BY <1>2 DEF FrameOf
      <4> QED BY <1>2, <4>1 DEF S
    <3>5. Lacks(f, S, R) = Lacks(f, pcBuffers[f], U)
      BY <3>4 DEF Lacks
    <3> QED BY <1>1, <1>3, <2>1, <3>1, <3>2, <3>3, <3>5 DEF BufferOf
  <2>2. CASE g # f
    <3>1. pcBuffers'[g] = pcBuffers[g]
      BY <1>1, <2>2
    <3> QED BY <1>2, <2>2, <3>1, OtherBuffers DEF U, f
  <2> QED BY <2>1, <2>2
<1>7. Balanced'
  <2>1. Underway' = Underway
    BY <1>2, <1>3 DEF Underway, U, R, f
  <2> QED BY <1>0, <1>2, <1>3, <2>1 DEF Balanced, Stored
<1>8. InOrder'
  BY <1>0, <1>2 DEF InOrder, Stored, U, R
<1>9. Reported'
  BY <1>0 DEF Reported, Stored
<1> QED BY <1>0, <1>4, <1>5, <1>6, <1>7, <1>8, <1>9 DEF FilesInv

\* The last chunk: the file leaves its buffer, is acknowledged and is saved, or is not.
LEMMA FileCompletes ==
  ASSUME FilesAssumption, FilesInv, Files!OnFileChunk,
         LET f == Head(filesUp).file IN
         /\ pcBuffers[f] \cup {Head(filesUp).index} = 1 .. Chunks[f]
         /\ pcBuffers' = Files!Taken(f)
         /\ filesDown' = Append(filesDown, f)
         /\ Files!Saves(f),
         UNCHANGED spoiled
  PROVE  FilesInv'
<1> DEFINE h == Head(filesUp)
           f == h.file
           U == ToSet(filesUp)
           R == ToSet(filesUp')
<1>0. /\ FilesTyping /\ Streams /\ Buffered /\ Balanced /\ InOrder /\ Reported
      /\ HoldsLast(pcDisk, pcDone) /\ ShowsNewest(pcList, pcDone)
  BY DEF FilesInv
<1>1. /\ pcBuffers[f] \cup {h.index} = 1 .. Chunks[f]
      /\ pcBuffers' = [g \in DOMAIN pcBuffers \ {f} |-> pcBuffers[g]]
      /\ filesDown' = Append(filesDown, f)
      /\ Files!Saves(f)
  BY DEF Files!Taken
<1>2. /\ h \in FileFrames /\ h = FrameOf(f, h.index) /\ f \in File
      /\ h.index \in 1 .. Chunks[f]
      /\ filesUp' \in Seq(FileFrames)
      /\ U = {h} \cup R /\ h \notin R
      /\ \A m \in R : m \in FileFrames /\ Precedes(h, m, filesSent)
      /\ InLine(filesUp', filesSent') /\ ToTheEnd(R)
      /\ f \in DOMAIN pcBuffers
      /\ \A c \in pcBuffers[f] : c < h.index
      /\ pcBuffers[f] \subseteq 1 .. Chunks[f]
      /\ Begun(R, DOMAIN pcBuffers)
      /\ f \in Underway
      /\ UNCHANGED <<filesSent, cut>>
  BY ChunkAtHead
<1>a. f = h.file
  OBVIOUS
<1> HIDE DEF h, f, U, R
<1>3. DOMAIN pcBuffers' = DOMAIN pcBuffers \ {f}
  BY <1>1
<1>4. Chunks[f] \in Nat /\ h.index = Chunks[f]
  <2>1. Chunks[f] \in Nat
    BY <1>2 DEF FilesAssumption
  <2>2. Chunks[f] \in 1 .. Chunks[f]
    BY <1>2, <2>1
  <2>3. Chunks[f] = h.index \/ Chunks[f] < h.index
    BY <1>1, <1>2, <2>2
  <2> QED BY <1>2, <2>1, <2>3
<1>5. \A m \in R : m.file # f
  <2> SUFFICES ASSUME NEW m \in R, m.file = f PROVE FALSE
    OBVIOUS
  <2>1. h.index < m.index /\ m.index \in Nat /\ m.index <= Chunks[f]
    BY <1>2, <1>a DEF Precedes, FileFrames
  <2> QED BY <1>4, <2>1
<1>6. \A m \in R : Before(filesSent, f, m.file)
  BY <1>2, <1>5, <1>a DEF Precedes
<1>7. f \notin spoiled
  <2> SUFFICES ASSUME f \in spoiled PROVE FALSE
    OBVIOUS
  <2>1. Lacks(f, pcBuffers[f], U)
    BY <1>0, <1>2 DEF Buffered, BufferOf, U
  <2>2. PICK c \in 1 .. Chunks[f] : c \notin pcBuffers[f] /\ FrameOf(f, c) \notin U
    BY <2>1 DEF Lacks
  <2>3. c = h.index
    BY <1>1, <2>2
  <2> QED BY <1>2, <2>2, <2>3
<1>8. f \notin Stored /\ f \notin filesFailed /\ f \notin cut
  BY <1>0, <1>2 DEF Balanced
<1>9. Underway' = Underway \ {f}
  BY <1>2, <1>3, <1>5, <1>a DEF Underway, U, R
<1>10. Streams'
  <2>1. Begun(R, DOMAIN pcBuffers \ {f})
    BY <1>2, <1>5 DEF Begun
  <2> QED BY <1>2, <1>3, <2>1 DEF Streams, R
<1>11. Buffered'
  <2> SUFFICES ASSUME NEW g \in DOMAIN pcBuffers \ {f}
               PROVE  BufferOf(g, pcBuffers'[g], R, spoiled)
    BY <1>3 DEF Buffered, R
  <2>1. pcBuffers'[g] = pcBuffers[g]
    BY <1>1
  <2> QED BY <1>2, <1>a, <2>1, OtherBuffers DEF U
<1>12. filesDown' \in Seq(File) /\ ToSet(filesDown') = ToSet(filesDown) \cup {f}
  <2>1. filesDown \in Seq(File)
    BY <1>0 DEF FilesTyping
  <2>2. /\ filesDown' \in Seq(File) /\ DOMAIN filesDown' = DOMAIN filesDown \cup {Len(filesDown) + 1}
        /\ filesDown'[Len(filesDown) + 1] = f
        /\ \A k \in DOMAIN filesDown : filesDown'[k] = filesDown[k]
    BY <1>1, <1>2, <2>1, Added
  <2> QED BY <2>2 DEF ToSet
<1>13. CASE /\ pcDisk' = [pcDisk EXCEPT ![Name[f]] = f]
            /\ pcList' = Files!First(<<f>> \o pcList, MaxFiles)
            /\ pcDone' = Append(pcDone, f) /\ UNCHANGED filesFailed
  <2>1. pcDone \in Seq(File) /\ f \notin ToSet(pcDone) /\ Files!IsInjective(pcDone)
    BY <1>0, <1>8 DEF FilesTyping, Stored, InOrder
  <2>2. /\ pcDone' \in Seq(File) /\ ToSet(pcDone') = ToSet(pcDone) \cup {f}
        /\ Files!IsInjective(pcDone')
        /\ \A i \in DOMAIN pcDone' : \/ i \in DOMAIN pcDone /\ pcDone'[i] = pcDone[i]
                                     \/ i = Len(pcDone) + 1 /\ pcDone'[i] = f
        /\ \A i, j \in DOMAIN pcDone' : i < j => i \in DOMAIN pcDone
    BY <1>2, <1>13, <2>1, OnceMore
  <2>3. pcDisk' \in [Files!Names -> File \cup {None}] /\ HoldsLast(pcDisk', pcDone')
    BY <1>0, <1>2, <1>13, DiskSaved DEF FilesTyping
  <2>4. pcList' \in Seq(File) /\ ShowsNewest(pcList', pcDone')
    BY <1>0, <1>2, <1>13, ShowsSaved DEF FilesTyping
  <2>5. FilesTyping'
    BY <1>0, <1>2, <1>3, <1>12, <2>2, <2>3, <2>4 DEF FilesTyping
  <2>6. Stored' = Stored \cup {f}
    BY <2>2 DEF Stored
  <2>7. Balanced'
    BY <1>0, <1>2, <1>3, <1>7, <1>8, <1>9, <1>13, <2>6 DEF Balanced
  <2>8. \A g \in Stored : Before(filesSent, g, f)
    BY <1>0, <1>2, <1>a DEF InOrder, U
  <2>9. \A i, j \in DOMAIN pcDone' : i < j => Before(filesSent, pcDone'[i], pcDone'[j])
    <3> SUFFICES ASSUME NEW i \in DOMAIN pcDone', NEW j \in DOMAIN pcDone', i < j
                 PROVE  Before(filesSent, pcDone'[i], pcDone'[j])
      OBVIOUS
    <3>1. i \in DOMAIN pcDone /\ i # Len(pcDone) + 1
      BY <2>1, <2>2
    <3>2. pcDone'[i] = pcDone[i] /\ pcDone[i] \in Stored
      BY <2>2, <3>1 DEF Stored, ToSet
    <3>3. CASE j \in DOMAIN pcDone /\ pcDone'[j] = pcDone[j]
      BY <1>0, <3>1, <3>2, <3>3 DEF InOrder
    <3>4. CASE pcDone'[j] = f
      BY <2>8, <3>2, <3>4
    <3> QED BY <2>2, <3>3, <3>4
  <2>10. \A g \in Stored' : \A m \in R : Before(filesSent, g, m.file)
    BY <1>0, <1>2, <1>6, <2>6 DEF InOrder, U
  <2>11. InOrder'
    BY <1>2, <2>2, <2>9, <2>10 DEF InOrder, R
  <2>12. Reported'
    BY <1>0, <1>12, <1>13, <2>6 DEF Reported
  <2> QED BY <1>10, <1>11, <2>3, <2>4, <2>5, <2>7, <2>11, <2>12 DEF FilesInv
<1>14. CASE /\ filesFailed' = filesFailed \cup {f}
            /\ UNCHANGED <<pcDisk, pcList, pcDone>>
  <2>1. FilesTyping'
    BY <1>0, <1>2, <1>3, <1>12, <1>14 DEF FilesTyping
  <2>2. Stored' = Stored
    BY <1>14 DEF Stored
  <2>3. Balanced'
    BY <1>0, <1>2, <1>3, <1>7, <1>8, <1>9, <1>14, <2>2 DEF Balanced
  <2>4. InOrder'
    BY <1>0, <1>2, <1>14, <2>2 DEF InOrder, U, R
  <2>5. Reported'
    BY <1>0, <1>12, <1>14, <2>2 DEF Reported
  <2> QED BY <1>0, <1>10, <1>11, <1>14, <2>1, <2>3, <2>4, <2>5 DEF FilesInv
<1> QED BY <1>1, <1>13, <1>14 DEF Files!Saves

\* What comes with a chunk.
LEMMA FileChunks ==
  ASSUME FilesAssumption, FilesInv, Files!OnFileChunk PROVE FilesInv'
<1> DEFINE f == Head(filesUp).file
           i == Head(filesUp).index
<1>1. Files!Opened(f, i) \/ Files!Spoils(f)
  BY ChunkAtHead
<1>2. CASE Files!Spoils(f)
  BY <1>2, ChunkSpoiled
<1>3. CASE Files!Opened(f, i)
  <2>1. CASE pcBuffers[f] \cup {i} = 1 .. Chunks[f]
    <3>1. /\ pcBuffers' = Files!Taken(f) /\ filesDown' = Append(filesDown, f)
          /\ Files!Saves(f) /\ UNCHANGED spoiled
      BY <1>3, <2>1 DEF Files!Opened, Files!Complete
    <3> QED BY <2>1, <3>1, FileCompletes
  <2>2. CASE pcBuffers[f] \cup {i} # 1 .. Chunks[f]
    <3>1. /\ pcBuffers' = Files!With(pcBuffers, f, pcBuffers[f] \cup {i})
          /\ UNCHANGED <<filesDown, pcDisk, pcList, pcDone, filesFailed, spoiled>>
      BY <1>3, <2>2 DEF Files!Opened, Files!Complete
    <3> QED BY <2>2, <3>1, ChunkJoins
  <2> QED BY <2>1, <2>2
<1> QED BY <1>1, <1>2, <1>3

\* What the invariant says of transfers.
LEMMA TransfersFollow ==
  ASSUME FilesAssumption, FilesInv PROVE Files!TransfersHold
<1> DEFINE T == Files!InTransit
<1>0. /\ FilesTyping /\ Streams /\ Buffered /\ Balanced /\ InOrder /\ Reported
      /\ HoldsLast(pcDisk, pcDone) /\ ShowsNewest(pcList, pcDone)
  BY DEF FilesInv
<1>1. \A q : Files!Range(q) = ToSet(q)
  BY DEF Files!Range, ToSet
<1>2. T = {m.file : m \in ToSet(filesUp)} /\ Underway = T \cup DOMAIN pcBuffers
  BY <1>1 DEF Files!InTransit, Underway
<1> HIDE DEF T
<1>3. Files!EveryTransferAccounted
  <2> DEFINE a == Files!Accounts
             H == DOMAIN pcBuffers \ T
  <2> SUFFICES ASSUME NEW f \in ToSet(filesSent)
               PROVE  \E i \in 1 .. 5 : f \in a[i] /\ \A j \in 1 .. 5 \ {i} : f \notin a[j]
    BY <1>1 DEF Files!EveryTransferAccounted
  <2>1. a[1] = T /\ a[2] = Stored /\ a[3] = filesFailed /\ a[4] = cut /\ a[5] = H
    BY <1>1 DEF Files!Accounts, Files!Hanging, Stored, T
  <2>2. \A j \in 1 .. 5 : j = 1 \/ j = 2 \/ j = 3 \/ j = 4 \/ j = 5
    OBVIOUS
  <2> HIDE DEF a
  <2>3. f \in T \cup H \cup Stored \cup filesFailed \cup cut
    BY <1>0, <1>2 DEF Balanced
  <2>4. /\ (T \cup H) \cap (Stored \cup filesFailed \cup cut) = {} /\ T \cap H = {}
        /\ Stored \cap (filesFailed \cup cut) = {} /\ filesFailed \cap cut = {}
    BY <1>0, <1>2 DEF Balanced
  <2> HIDE DEF H
  <2>5. CASE f \in T
    <3>1. f \notin a[2] /\ f \notin a[3] /\ f \notin a[4] /\ f \notin a[5]
      BY <2>1, <2>4, <2>5
    <3> QED BY <2>1, <2>2, <2>5, <3>1
  <2>6. CASE f \in Stored
    <3>1. f \notin a[1] /\ f \notin a[3] /\ f \notin a[4] /\ f \notin a[5]
      BY <2>1, <2>4, <2>6
    <3> QED BY <2>1, <2>2, <2>6, <3>1
  <2>7. CASE f \in filesFailed
    <3>1. f \notin a[1] /\ f \notin a[2] /\ f \notin a[4] /\ f \notin a[5]
      BY <2>1, <2>4, <2>7
    <3> QED BY <2>1, <2>2, <2>7, <3>1
  <2>8. CASE f \in cut
    <3>1. f \notin a[1] /\ f \notin a[2] /\ f \notin a[3] /\ f \notin a[5]
      BY <2>1, <2>4, <2>8
    <3> QED BY <2>1, <2>2, <2>8, <3>1
  <2>9. CASE f \in H
    <3>1. f \notin a[1] /\ f \notin a[2] /\ f \notin a[3] /\ f \notin a[4]
      BY <2>1, <2>4, <2>9
    <3> QED BY <2>1, <2>2, <2>9, <3>1
  <2> QED BY <2>3, <2>5, <2>6, <2>7, <2>8, <2>9
<1>4. Files!BuffersAreNeeded
  <2> SUFFICES ASSUME NEW f \in DOMAIN pcBuffers \ T, Chunks[f] # 0 PROVE f \in spoiled
    BY DEF Files!BuffersAreNeeded, Files!Hanging, Files!HasNoBytes, T
  <2>1. BufferOf(f, pcBuffers[f], ToSet(filesUp), spoiled)
    BY <1>0 DEF Buffered
  <2>2. PICK c \in 1 .. Chunks[f] : c \notin pcBuffers[f]
    BY <2>1 DEF BufferOf
  <2>3. FrameOf(f, c) \notin ToSet(filesUp)
    BY <1>2 DEF FrameOf
  <2>4. Lacks(f, pcBuffers[f], ToSet(filesUp))
    BY <2>2, <2>3 DEF Lacks
  <2> QED BY <2>1, <2>4 DEF BufferOf
<1>5. Files!SavedInOrder
  <2>1. Files!Range(pcDone) \cap spoiled = {}
    BY <1>0, <1>1 DEF Balanced, Underway, Stored
  <2> QED BY <1>0, <2>1 DEF InOrder, Files!SavedInOrder, Files!SentBefore, Before
<1>6. Files!LastOfItsName /\ Files!NewestFirst
  BY <1>0 DEF Files!LastOfItsName, HoldsLast, Files!NewestFirst, ShowsNewest
<1>7. Files!AckedWasWhole
  BY <1>0, <1>1 DEF Reported, Stored, Files!AckedWasWhole
<1> QED BY <1>3, <1>4, <1>5, <1>6, <1>7 DEF Files!TransfersHold

\* Files arrive whole, once and in order, and each is accounted for.
LEMMA FilesAlone ==
  ASSUME FilesAssumption
  PROVE  Files!Spec => []Files!TransfersHold
<1>1. Files!Init => FilesInv
  <2> SUFFICES ASSUME Files!Init PROVE FilesInv
    OBVIOUS
  <2>1. /\ filesUp = <<>> /\ filesDown = <<>> /\ pcDone = <<>>
        /\ pcList = <<>> /\ filesSent = <<>> /\ DOMAIN pcBuffers = {}
        /\ cut = {} /\ filesFailed = {} /\ spoiled = {}
        /\ pcDisk = [n \in Files!Names |-> None]
    BY DEF Files!Init
  <2>2. (\A X : <<>> \in Seq(X)) /\ DOMAIN <<>> = {} /\ Len(<<>>) = 0 /\ ToSet(<<>>) = {}
    BY DEF ToSet
  <2>3. FilesTyping
    BY <2>1, <2>2 DEF FilesTyping
  <2>4. Streams /\ Buffered
    BY <2>1, <2>2 DEF Streams, InLine, ToTheEnd, Begun, Buffered
  <2>5. Balanced
    BY <2>1, <2>2 DEF Balanced, Underway, Stored
  <2>6. InOrder /\ Reported
    BY <2>1, <2>2 DEF InOrder, Files!IsInjective, Stored, Reported
  <2>7. HoldsLast(pcDisk, pcDone) /\ ShowsNewest(pcList, pcDone)
    BY <2>1, <2>2 DEF HoldsLast, ShowsNewest
  <2> QED BY <2>3, <2>4, <2>5, <2>6, <2>7 DEF FilesInv
<1>2. FilesInv /\ [Files!Next]_(Files!vars) => FilesInv'
  <2> SUFFICES ASSUME FilesInv, [Files!Next]_(Files!vars) PROVE FilesInv'
    OBVIOUS
  <2>1. ASSUME NEW f \in File, Files!SendFile(f) PROVE FilesInv'
    BY <2>1, FileSent
  <2>2. CASE Files!AckIgnored
    BY <2>2, FilesKept DEF Files!AckIgnored, Files!pc, Files!losses
  <2>3. CASE Files!SessionEnds
    BY <2>3, FilesCut
  <2>4. CASE Files!Reconnects
    BY <2>4, FilesKept DEF Files!Reconnects, Files!pc, Files!losses
  <2>5. CASE Files!OnFileStart
    BY <2>5, FileStarts
  <2>6. CASE Files!OnFileChunk
    BY <2>6, FileChunks
  <2>7. CASE Files!ClearFiles
    BY <2>7, FilesKept DEF Files!ClearFiles, Files!wire, Files!losses
  <2>8. CASE UNCHANGED Files!vars
    BY <2>8, FilesKept DEF Files!vars, Files!wire, Files!pc, Files!losses
  <2> QED BY <2>1, <2>2, <2>3, <2>4, <2>5, <2>6, <2>7, <2>8 DEF Files!Next
<1>3. FilesInv => Files!TransfersHold
  BY TransfersFollow
<1> QED BY <1>1, <1>2, <1>3, PTL DEF Files!Spec

------------------------------------------------------------------------------
(* The clipboard tab *)

ClipsAssumption ==
  /\ MaxKept \in Nat \ {0} /\ Slider \subseteq Nat
  /\ \A q \in Loaded : q \in Seq([id : 1 .. Len(q), text : Word, pinned : BOOLEAN])
\* An entry of the history, what the window asks, and what it is answered.
Clip == [id : Nat \ {0}, text : Word, pinned : BOOLEAN]
Asks ==
  [do : {"get_history", "listen", "clear_history", "set_history_limit", "copy_to_clipboard"},
   arg : Nat]
Answer == [to : Asks, list : Seq(Clip)]

ClipsTyping ==
  /\ clipsStore \in Seq(Clip) /\ clipsEvents \in Seq(Clip) /\ clipsHistory \in Seq(Clip)
  /\ emitting \in [Thread -> Clip \cup {Clips!NoClip}]
  /\ clipsCalls \in Seq(Asks) /\ clipsAnswers \in Seq(Answer)
  /\ clipsLimit \in Nat /\ clipsClips \in Nat /\ clipsListening \in BOOLEAN

Falling(q, F) == \A i, j \in DOMAIN q : i < j => q[i].id \in F \/ q[i].id > q[j].id
InAnswers == UNION {Clips!Ids(clipsAnswers[k].list) : k \in DOMAIN clipsAnswers}
InThreads == {emitting[r].id : r \in Thread}

\* Until it is read, the backend's list is newest first, but for what had a pin; it is
\* read once, before anything is announced.
Known == \A k \in Clips!Pinned(clipsStore) : clipsStore[k].id \in favoured
Kept ==
  /\ \A k \in DOMAIN clipsStore : clipsStore[k].id <= clipsClips
  /\ Clips!Reading => Falling(clipsStore, favoured) /\ Known
ReadFirst ==
  /\ \A i \in DOMAIN clipsCalls : clipsCalls[i].do = "get_history" => i = 1 /\ ~clipsListening
  /\ ~clipsListening => clipsEvents = <<>>
  /\ \A k \in DOMAIN clipsAnswers :
       clipsAnswers[k].to.do # "get_history" => clipsAnswers[k].list = <<>>

\* What is still to be shown is newer than what is shown.
InStep ==
  /\ Falling(clipsHistory, favoured)
  /\ \A k \in DOMAIN clipsAnswers : Falling(clipsAnswers[k].list, favoured)
  /\ \A i, j \in DOMAIN clipsEvents : i < j => clipsEvents[i].id <= clipsEvents[j].id
  /\ \A id \in Clips!Ids(clipsHistory) \cup InAnswers : \A j \in DOMAIN clipsEvents :
       id <= clipsEvents[j].id

\* An entry of the backend is in the window, or on its way there.
OnTheWay ==
  \/ Clips!Reading
  \/ Clips!Ids(clipsStore)
       \subseteq Clips!Ids(clipsHistory) \cup InAnswers \cup Clips!Ids(clipsEvents) \cup InThreads

ClipsInv ==
  /\ ClipsTyping /\ Kept /\ ReadFirst
  /\ "overtaken" \notin clipsCauses => InStep
  /\ "missed" \notin clipsCauses /\ "cut" \notin clipsCauses => OnTheWay

\* The tab's operators on lists are the ones above.
LEMMA ClipsRetain ==
  ASSUME NEW q, NEW S PROVE Clips!Retain(q, S) = Retain(q, S)
BY Zenon DEF Clips!Retain, Retain, Clips!Rank, Rank, Clips!Cardinality, Cardinality

\* Cut to a size, a list keeps its first entries.
LEMMA ClipsCut ==
  ASSUME NEW q \in Seq(Clip), NEW n \in Nat, NEW F
  PROVE  LET r == Clips!Upto(q, n) IN
         /\ r \in Seq(Clip) /\ Len(r) = IF Len(q) < n THEN Len(q) ELSE n
         /\ DOMAIN r \subseteq DOMAIN q /\ \A i \in DOMAIN r : r[i] = q[i]
         /\ Clips!Ids(r) \subseteq Clips!Ids(q)
         /\ Falling(q, F) => Falling(r, F)
<1> DEFINE m == IF Len(q) < n THEN Len(q) ELSE n
           r == SubSeq(q, 1, m)
<1>1. m \in 0 .. Len(q)
  OBVIOUS
<1> HIDE DEF m
<1>2. r \in Seq(Clip) /\ Len(r) = m /\ \A i \in 1 .. m : r[i] = q[i]
  BY <1>1, Truncated
<1> HIDE DEF r
<1>3. DOMAIN r \subseteq DOMAIN q /\ \A i \in DOMAIN r : r[i] = q[i]
  BY <1>1, <1>2
<1>4. Clips!Ids(r) \subseteq Clips!Ids(q)
  BY <1>3 DEF Clips!Ids
<1>5. Falling(q, F) => Falling(r, F)
  BY <1>3 DEF Falling
<1> QED BY <1>2, <1>3, <1>4, <1>5 DEF Clips!Upto, r, m

\* What a filter leaves.
LEMMA ClipsFiltered ==
  ASSUME NEW q \in Seq(Clip), NEW S \in SUBSET (DOMAIN q), NEW F
  PROVE  LET r == Clips!Retain(q, S) IN
         /\ r \in Seq(Clip) /\ Clips!Ids(r) = {q[i].id : i \in S}
         /\ \A k \in DOMAIN r : \E i \in S : r[k] = q[i]
         /\ Falling(q, F) => Falling(r, F)
<1> DEFINE r == Clips!Retain(q, S)
<1>1. /\ r \in Seq(Clip)
      /\ \A i \in DOMAIN r : \E c \in S : r[i] = q[c]
      /\ \A i, j \in DOMAIN r : i < j => \E c, d \in S : c < d /\ r[i] = q[c] /\ r[j] = q[d]
  BY RetainedSteps, ClipsRetain
<1>2. ToSet(r) = {q[i] : i \in S}
  BY RetainedSet, ClipsRetain
<1> HIDE DEF r
<1>3. Clips!Ids(r) = {q[i].id : i \in S}
  <2>1. \A i \in S : \E k \in DOMAIN r : r[k] = q[i]
    BY <1>2 DEF ToSet
  <2> QED BY <1>1, <2>1 DEF Clips!Ids
<1>4. Falling(q, F) => Falling(r, F)
  BY <1>1 DEF Falling
<1> QED BY <1>1, <1>3, <1>4 DEF r

\* An entry comes on top.
LEMMA ClipsTopped ==
  ASSUME NEW q \in Seq(Clip), NEW e \in Clip, NEW n \in Nat, NEW F
  PROVE  LET r == Clips!Upto(<<e>> \o q, n) IN
         /\ r \in Seq(Clip) /\ Clips!Ids(r) \subseteq Clips!Ids(q) \cup {e.id}
         /\ n > 0 => e.id \in Clips!Ids(r)
         /\ Falling(q, F) /\ (\A k \in DOMAIN q : q[k].id < e.id) => Falling(r, F)
<1> DEFINE all == <<e>> \o q
           m == IF Len(all) > n THEN n ELSE Len(all)
           r == Clips!Upto(all, n)
           t == SubSeq(all, 1, m)
<1>1. /\ t \in Seq(Clip) /\ Len(t) = IF Len(q) + 1 > n THEN n ELSE Len(q) + 1
      /\ \A k \in 1 .. Len(t) : t[k] = IF k = 1 THEN e ELSE q[k - 1]
  BY Topped
<1>2. r = t
  <2>1. Len(all) \in Nat
    OBVIOUS
  <2> HIDE DEF all
  <2> QED BY <2>1 DEF Clips!Upto
<1> HIDE DEF r, t, all, m
<1>3. /\ Len(q) \in Nat /\ DOMAIN q = 1 .. Len(q) /\ DOMAIN t = 1 .. Len(t) /\ Len(t) \in Nat
      /\ Len(t) <= Len(q) + 1
  BY <1>1
<1>4. \A k \in DOMAIN t : \/ k = 1 /\ t[k] = e
                          \/ k \in Nat /\ k > 1 /\ k - 1 \in DOMAIN q /\ t[k] = q[k - 1]
  BY <1>1, <1>3
<1>5. Clips!Ids(t) \subseteq Clips!Ids(q) \cup {e.id}
  BY <1>4 DEF Clips!Ids
<1>6. ASSUME n > 0 PROVE e.id \in Clips!Ids(t)
  <2>1. 1 \in DOMAIN t /\ t[1] = e
    BY <1>1, <1>3, <1>6
  <2> QED BY <2>1 DEF Clips!Ids
<1>7. ASSUME Falling(q, F), \A k \in DOMAIN q : q[k].id < e.id PROVE Falling(t, F)
  <2>1. ASSUME NEW i \in DOMAIN t, NEW j \in DOMAIN t, i < j
        PROVE  t[i].id \in F \/ t[i].id > t[j].id
    <3>1. j \in Nat /\ j > 1 /\ j - 1 \in DOMAIN q /\ t[j] = q[j - 1] /\ i \in Nat
      BY <1>3, <1>4, <2>1
    <3>2. CASE i = 1
      <4>1. e.id \in Nat /\ q[j - 1].id \in Nat /\ q[j - 1].id < e.id
        <5>1. q[j - 1] \in Clip /\ e \in Clip
          BY <3>1
        <5>2. e.id \in Nat /\ q[j - 1].id \in Nat
          BY <5>1 DEF Clip
        <5> QED BY <1>7, <3>1, <5>2
      <4> QED BY <1>4, <3>1, <3>2, <4>1
    <3>3. CASE i # 1
      <4>1. i - 1 \in DOMAIN q /\ t[i] = q[i - 1]
        BY <1>4, <3>3
      <4>2. i - 1 < j - 1
        BY <2>1, <3>1
      <4> QED BY <1>7, <3>1, <4>1, <4>2 DEF Falling
    <3> QED BY <3>2, <3>3
  <2> QED BY <2>1 DEF Falling
<1> QED BY <1>1, <1>2, <1>5, <1>6, <1>7 DEF r, all

\* A command of the window is taken.
LEMMA CallTaken ==
  ASSUME ClipsTyping, ReadFirst, NEW do, Clips!Running(do)
  PROVE  /\ clipsCalls' \in Seq(Asks) /\ Head(clipsCalls) \in Asks
         /\ Head(clipsCalls).do = do
         /\ \A i \in DOMAIN clipsCalls' : clipsCalls'[i].do # "get_history"
         /\ ~Clips!Reading' /\ (do # "get_history" => ~Clips!Reading)
         /\ do = "get_history" => ~clipsListening
<1>1. /\ clipsCalls # <<>> /\ Head(clipsCalls).do = do /\ clipsCalls' = Tail(clipsCalls)
      /\ clipsCalls \in Seq(Asks)
  BY DEF Clips!Running, ClipsTyping
<1>2. /\ Head(clipsCalls) \in Asks /\ Head(clipsCalls) = clipsCalls[1]
      /\ 1 \in DOMAIN clipsCalls
      /\ clipsCalls' \in Seq(Asks)
      /\ \A k \in DOMAIN clipsCalls' :
           k + 1 \in DOMAIN clipsCalls /\ clipsCalls'[k] = clipsCalls[k + 1]
  BY <1>1, Taken
<1>3. \A k \in DOMAIN clipsCalls' : k \in Nat /\ k >= 1
  BY <1>2
<1>4. ASSUME NEW i \in DOMAIN clipsCalls' PROVE clipsCalls'[i].do # "get_history"
  <2>1. i + 1 # 1
    BY <1>3
  <2> QED BY <1>2, <2>1 DEF ReadFirst
<1>5. ASSUME do # "get_history", NEW i \in DOMAIN clipsCalls
      PROVE  clipsCalls[i].do # "get_history"
  BY <1>1, <1>2, <1>5 DEF ReadFirst
<1>6. ASSUME do = "get_history" PROVE ~clipsListening
  BY <1>1, <1>2, <1>6 DEF ReadFirst
<1>7. ~Clips!Reading' /\ (do # "get_history" => ~Clips!Reading)
  BY <1>4, <1>5 DEF Clips!Reading
<1> QED BY <1>1, <1>2, <1>4, <1>6, <1>7

\* And is answered.
LEMMA AnswerAdded ==
  ASSUME ClipsTyping, NEW list \in Seq(Clip), Head(clipsCalls) \in Asks, Clips!Reply(list)
  PROVE  /\ clipsAnswers' \in Seq(Answer) /\ InAnswers' = InAnswers \cup Clips!Ids(list)
         /\ \A k \in DOMAIN clipsAnswers' :
              \/ k \in DOMAIN clipsAnswers /\ clipsAnswers'[k] = clipsAnswers[k]
              \/ clipsAnswers'[k].to = Head(clipsCalls) /\ clipsAnswers'[k].list = list
<1> DEFINE a == [to |-> Head(clipsCalls), list |-> list]
           n == Len(clipsAnswers) + 1
<1>1. /\ a \in Answer /\ a.to = Head(clipsCalls) /\ a.list = list
      /\ clipsAnswers' = Append(clipsAnswers, a) /\ clipsAnswers \in Seq(Answer)
  BY DEF Clips!Reply, ClipsTyping, Answer
<1> HIDE DEF a
<1>2. /\ clipsAnswers' \in Seq(Answer) /\ DOMAIN clipsAnswers' = DOMAIN clipsAnswers \cup {n}
      /\ clipsAnswers'[n] = a
      /\ \A k \in DOMAIN clipsAnswers : clipsAnswers'[k] = clipsAnswers[k]
  BY <1>1, Added
<1> HIDE DEF n
<1>3. InAnswers' = InAnswers \cup Clips!Ids(list)
  <2>1. InAnswers' = UNION {Clips!Ids(clipsAnswers'[k].list) : k \in DOMAIN clipsAnswers'}
    BY DEF InAnswers, Clips!Ids
  <2> QED BY <1>1, <1>2, <2>1 DEF InAnswers
<1> QED BY <1>1, <1>2, <1>3

\* The window takes an answer.
LEMMA AnswerTaken ==
  ASSUME ClipsTyping, ReadFirst, NEW do, Clips!Answered(do)
  PROVE  LET a == Head(clipsAnswers) IN
         /\ clipsAnswers' \in Seq(Answer) /\ a \in Answer
         /\ InAnswers = InAnswers' \cup Clips!Ids(a.list)
         /\ \A k \in DOMAIN clipsAnswers' : \E j \in DOMAIN clipsAnswers :
              clipsAnswers'[k] = clipsAnswers[j]
         /\ \E j \in DOMAIN clipsAnswers : a = clipsAnswers[j]
         /\ do # "get_history" => a.list = <<>>
<1> DEFINE a == Head(clipsAnswers)
<1>1. /\ clipsAnswers # <<>> /\ a.to.do = do /\ clipsAnswers' = Tail(clipsAnswers)
      /\ clipsAnswers \in Seq(Answer)
  BY DEF Clips!Answered, ClipsTyping
<1>2. /\ a \in Answer /\ a = clipsAnswers[1] /\ 1 \in DOMAIN clipsAnswers
      /\ clipsAnswers' \in Seq(Answer)
      /\ \A k \in DOMAIN clipsAnswers' :
           k + 1 \in DOMAIN clipsAnswers /\ clipsAnswers'[k] = clipsAnswers[k + 1]
      /\ \A k \in DOMAIN clipsAnswers :
           k # 1 => k - 1 \in DOMAIN clipsAnswers' /\ clipsAnswers[k] = clipsAnswers'[k - 1]
  BY <1>1, Taken
<1> HIDE DEF a
<1>3. InAnswers = InAnswers' \cup Clips!Ids(a.list)
  <2>1. InAnswers' = UNION {Clips!Ids(clipsAnswers'[k].list) : k \in DOMAIN clipsAnswers'}
    BY DEF InAnswers, Clips!Ids
  <2>2. InAnswers \subseteq InAnswers' \cup Clips!Ids(a.list)
    <3>1. ASSUME NEW k \in DOMAIN clipsAnswers, NEW x \in Clips!Ids(clipsAnswers[k].list)
          PROVE  x \in InAnswers' \cup Clips!Ids(a.list)
      <4>1. CASE k = 1
        BY <1>2, <3>1, <4>1
      <4>2. CASE k # 1
        BY <1>2, <2>1, <3>1, <4>2
      <4> QED BY <4>1, <4>2
    <3> QED BY <3>1 DEF InAnswers
  <2>3. InAnswers' \subseteq InAnswers
    BY <1>2, <2>1 DEF InAnswers
  <2>4. Clips!Ids(a.list) \subseteq InAnswers
    BY <1>2 DEF InAnswers
  <2> QED BY <2>2, <2>3, <2>4
<1>4. ASSUME do # "get_history" PROVE a.list = <<>>
  BY <1>1, <1>2, <1>4 DEF ReadFirst
<1> QED BY <1>2, <1>3, <1>4 DEF a

\* The parts of the invariant, primed, in terms of the lists that come of a step.
LEMMA ClipsPrimed ==
  /\ InStep' <=>
       /\ Falling(clipsHistory', favoured')
       /\ \A k \in DOMAIN clipsAnswers' : Falling(clipsAnswers'[k].list, favoured')
       /\ \A i, j \in DOMAIN clipsEvents' : i < j => clipsEvents'[i].id <= clipsEvents'[j].id
       /\ \A id \in Clips!Ids(clipsHistory') \cup InAnswers' : \A j \in DOMAIN clipsEvents' :
            id <= clipsEvents'[j].id
  /\ OnTheWay' <=>
       \/ Clips!Reading'
       \/ Clips!Ids(clipsStore')
            \subseteq Clips!Ids(clipsHistory') \cup InAnswers' \cup Clips!Ids(clipsEvents')
                        \cup InThreads'
  /\ Kept' <=> /\ \A k \in DOMAIN clipsStore' : clipsStore'[k].id <= clipsClips'
               /\ Clips!Reading' =>
                    /\ Falling(clipsStore', favoured')
                    /\ \A k \in DOMAIN clipsStore' :
                         clipsStore'[k].pinned => clipsStore'[k].id \in favoured'
  /\ InAnswers' = UNION {Clips!Ids(clipsAnswers'[k].list) : k \in DOMAIN clipsAnswers'}
  /\ InThreads' = {emitting'[r].id : r \in Thread}
  /\ Clips!Reading' <=> \E i \in DOMAIN clipsCalls' : clipsCalls'[i].do = "get_history"
<1>1. Falling(clipsHistory, favoured)' <=> Falling(clipsHistory', favoured')
  BY DEF Falling
<1>2. /\ Falling(clipsStore, favoured)' <=> Falling(clipsStore', favoured')
      /\ Known' <=> \A k \in DOMAIN clipsStore' :
                      clipsStore'[k].pinned => clipsStore'[k].id \in favoured'
  BY DEF Falling, Known, Clips!Pinned
<1>3. (\A k \in DOMAIN clipsAnswers : Falling(clipsAnswers[k].list, favoured))'
        <=> \A k \in DOMAIN clipsAnswers' : Falling(clipsAnswers'[k].list, favoured')
  BY DEF Falling
<1>4. /\ Clips!Ids(clipsHistory)' = Clips!Ids(clipsHistory')
      /\ Clips!Ids(clipsStore)' = Clips!Ids(clipsStore')
      /\ Clips!Ids(clipsEvents)' = Clips!Ids(clipsEvents')
  BY DEF Clips!Ids
<1>5. InAnswers' = UNION {Clips!Ids(clipsAnswers'[k].list) : k \in DOMAIN clipsAnswers'}
  BY DEF InAnswers, Clips!Ids
<1>6. InThreads' = {emitting'[r].id : r \in Thread}
  BY DEF InThreads
<1>7. Clips!Reading' <=> \E i \in DOMAIN clipsCalls' : clipsCalls'[i].do = "get_history"
  BY DEF Clips!Reading
<1> QED BY <1>1, <1>2, <1>3, <1>4, <1>5, <1>6, <1>7 DEF InStep, OnTheWay, Kept

\* Above the place where an entry without a pin goes there are pins only.
LEMMA ClipsPlace ==
  ASSUME NEW q \in Seq(Clip)
  PROVE  /\ Clips!InsertPosition(q) \in 1 .. Len(q) + 1
         /\ \A k \in DOMAIN q : k < Clips!InsertPosition(q) => q[k].pinned
<1> DEFINE S == Clips!Free(q)
<1>1. /\ S \in SUBSET Nat /\ S \in SUBSET (DOMAIN q) /\ DOMAIN q = 1 .. Len(q) /\ Len(q) \in Nat
      /\ \A k \in DOMAIN q : q[k].pinned \/ k \in S
  BY DEF Clips!Free, Clips!Pinned
<1>2. Clips!InsertPosition(q) = IF S = {} THEN 1 ELSE Min(S)
  <2>1. Clips!Foremost(S) = Min(S)
    BY DEF Clips!Foremost, Min
  <2> QED BY <2>1 DEF Clips!InsertPosition
<1> HIDE DEF S
<1>3. CASE S = {}
  BY <1>1, <1>2, <1>3
<1>4. CASE S # {}
  <2>1. Min(S) \in S /\ \A k \in S : Min(S) <= k
    BY <1>1, <1>4, MinLeast
  <2>2. Clips!InsertPosition(q) = Min(S)
    BY <1>2, <1>4
  <2> DEFINE m == Min(S)
  <2>3. m \in S /\ \A k \in S : m <= k
    BY <2>1
  <2> HIDE DEF m
  <2>4. m \in 1 .. Len(q) + 1
    BY <1>1, <2>3
  <2>5. ASSUME NEW k \in DOMAIN q, k < m PROVE q[k].pinned
    <3>1. k \in Nat /\ m \in Nat
      BY <1>1, <2>3
    <3>2. k \notin S
      BY <2>3, <2>5, <3>1
    <3> QED BY <1>1, <3>2
  <2> QED BY <2>2, <2>4, <2>5 DEF m
<1> QED BY <1>3, <1>4

\* An entry that is the newest, or one of F, is put below entries of F only.
LEMMA ClipsInserted ==
  ASSUME NEW q \in Seq(Clip), NEW p \in 1 .. Len(q) + 1, NEW e \in Clip, NEW F
  PROVE  LET r == Clips!InsertAt(q, p, e) IN
         /\ r \in Seq(Clip) /\ Clips!Ids(r) = Clips!Ids(q) \cup {e.id}
         /\ \A k \in DOMAIN r : r[k] = e \/ \E i \in DOMAIN q : r[k] = q[i]
         /\ /\ Falling(q, F)
            /\ \A k \in DOMAIN q : k < p => q[k].id \in F
            /\ e.id \in F \/ \A k \in DOMAIN q : q[k].id < e.id
            => Falling(r, F)
<1> DEFINE r == Clips!InsertAt(q, p, e)
           From(j) == IF j < p THEN j ELSE j - 1
           To(j) == IF j < p THEN j ELSE j + 1
<1>1. r = InsertAt(q, p, e)
  BY DEF Clips!InsertAt, InsertAt
<1> HIDE DEF r
<1>2. /\ r \in Seq(Clip) /\ Len(r) = Len(q) + 1 /\ r[p] = e
      /\ \A j \in 1 .. Len(q) : r[To(j)] = q[j]
      /\ \A j \in 1 .. Len(q) + 1 : j # p => r[j] = q[From(j)]
  <2> DEFINE s == InsertAt(q, p, e)
  <2>1. /\ s \in Seq(Clip) /\ Len(s) = Len(q) + 1 /\ s[p] = e
        /\ \A j \in 1 .. Len(q) : s[IF j < p THEN j ELSE j + 1] = q[j]
        /\ \A j \in 1 .. Len(q) + 1 : j # p => s[j] = q[IF j < p THEN j ELSE j - 1]
    <3> HIDE DEF Clip
    <3> QED BY ONLY Inserted
  <2>2. r = s  BY <1>1
  <2> HIDE DEF s
  <2> QED BY <2>1, <2>2
<1>3. /\ Len(q) \in Nat /\ p \in Nat /\ DOMAIN q = 1 .. Len(q) /\ DOMAIN r = 1 .. Len(q) + 1
      /\ p \in DOMAIN r /\ e.id \in Nat
  BY <1>2 DEF Clip
<1>4. ASSUME NEW j \in DOMAIN r, j # p
      PROVE  From(j) \in DOMAIN q /\ r[j] = q[From(j)] /\ (From(j) < p <=> j < p)
  BY <1>2, <1>3, <1>4
<1>5. ASSUME NEW j \in DOMAIN q PROVE To(j) \in DOMAIN r /\ r[To(j)] = q[j]
  BY <1>2, <1>3
<1>6. Clips!Ids(r) = Clips!Ids(q) \cup {e.id}
  <2>1. ASSUME NEW j \in DOMAIN r PROVE r[j].id \in Clips!Ids(q) \cup {e.id}
    <3>1. CASE j = p  BY <1>2, <3>1
    <3>2. CASE j # p
      <4>1. From(j) \in DOMAIN q /\ r[j] = q[From(j)]  BY <1>4, <3>2
      <4> HIDE DEF From
      <4> QED BY <4>1 DEF Clips!Ids
    <3> QED BY <3>1, <3>2
  <2>2. \A j \in DOMAIN q : q[j].id \in Clips!Ids(r)
    BY <1>5 DEF Clips!Ids
  <2>3. e.id \in Clips!Ids(r)
    BY <1>2, <1>3 DEF Clips!Ids
  <2> QED BY <2>1, <2>2, <2>3 DEF Clips!Ids
<1>7. \A k \in DOMAIN r : r[k] = e \/ \E i \in DOMAIN q : r[k] = q[i]
  BY <1>2, <1>4
<1>8. ASSUME Falling(q, F), \A k \in DOMAIN q : k < p => q[k].id \in F,
             e.id \in F \/ \A k \in DOMAIN q : q[k].id < e.id,
             NEW i \in DOMAIN r, NEW j \in DOMAIN r, i < j
      PROVE  r[i].id \in F \/ r[i].id > r[j].id
  <2>1. i \in Nat /\ j \in Nat
    BY <1>3
  <2>2. CASE i < p
    <3>1. From(i) \in DOMAIN q /\ r[i] = q[From(i)] /\ From(i) < p
      BY <1>3, <1>4, <2>1, <2>2
    <3> QED BY <1>8, <3>1
  <2>3. CASE i = p
    <3>1. From(j) \in DOMAIN q /\ r[j] = q[From(j)] /\ r[i] = e
      BY <1>2, <1>3, <1>4, <1>8, <2>1, <2>3
    <3>2. q[From(j)] \in Clip
      BY <3>1
    <3>3. q[From(j)].id \in Nat
      BY <3>2 DEF Clip
    <3> HIDE DEF From
    <3> QED BY <1>3, <1>8, <3>1, <3>3
  <2>4. CASE i > p
    <3>1. /\ From(i) \in DOMAIN q /\ r[i] = q[From(i)]
          /\ From(j) \in DOMAIN q /\ r[j] = q[From(j)]
      BY <1>3, <1>4, <1>8, <2>1, <2>4
    <3>2. From(i) < From(j)
      BY <1>3, <1>8, <2>1, <2>4
    <3> HIDE DEF From
    <3> QED BY <1>8, <3>1, <3>2 DEF Falling
  <2> QED BY <1>3, <2>1, <2>2, <2>3, <2>4
<1> QED BY <1>2, <1>6, <1>7, <1>8 DEF Falling, r

\* A clip that is recorded, until the list is read.
LEMMA ClipsJoined ==
  ASSUME NEW q \in Seq(Clip), NEW e \in Clip, ~e.pinned, NEW n \in Nat, NEW F
  PROVE  LET r == Clips!Recorded(q, e, n) IN
         /\ r \in Seq(Clip) /\ Clips!Ids(r) \subseteq Clips!Ids(q) \cup {e.id}
         /\ /\ Falling(q, F) /\ \A k \in DOMAIN q : q[k].pinned => q[k].id \in F
            /\ \A k \in DOMAIN q : q[k].id < e.id
            => Falling(r, F) /\ \A k \in DOMAIN r : r[k].pinned => r[k].id \in F
<1> DEFINE S == {k \in DOMAIN q : q[k].text # e.text}
           o == Clips!Retain(q, S)
           p == Clips!InsertPosition(o)
           m == Clips!InsertAt(o, p, e)
           U == Clips!Free(m)
           K == Clips!Pinned(m)
                  \cup {k \in U : Clips!Rank(U, k) <= n - Clips!Cardinality(Clips!Pinned(m))}
           r == Clips!Recorded(q, e, n)
<1>1. S \in SUBSET DOMAIN q
  OBVIOUS
<1>2. o = Clips!Others(q, e.text)
  BY DEF Clips!Others
<1> HIDE DEF S
<1>3. /\ o \in Seq(Clip) /\ Clips!Ids(o) = {q[i].id : i \in S}
      /\ \A k \in DOMAIN o : \E i \in S : o[k] = q[i]
      /\ Falling(q, F) => Falling(o, F)
  BY <1>1, ClipsFiltered
<1> HIDE DEF o
<1>4. p \in 1 .. Len(o) + 1 /\ \A k \in DOMAIN o : k < p => o[k].pinned
  BY <1>3, ClipsPlace
<1>5. r = Clips!Retain(m, K)
  BY <1>2 DEF Clips!Recorded, Clips!Trim
<1> HIDE DEF p, r
<1>6. /\ m \in Seq(Clip) /\ Clips!Ids(m) = Clips!Ids(o) \cup {e.id}
      /\ \A k \in DOMAIN m : m[k] = e \/ \E i \in DOMAIN o : m[k] = o[i]
      /\ /\ Falling(o, F)
         /\ \A k \in DOMAIN o : k < p => o[k].id \in F
         /\ e.id \in F \/ \A k \in DOMAIN o : o[k].id < e.id
         => Falling(m, F)
  BY <1>3, <1>4, ClipsInserted
<1> HIDE DEF m
<1>7. K \in SUBSET DOMAIN m
  BY DEF Clips!Free, Clips!Pinned
<1> HIDE DEF K, U
<1>8. /\ r \in Seq(Clip) /\ Clips!Ids(r) = {m[i].id : i \in K}
      /\ \A k \in DOMAIN r : \E i \in K : r[k] = m[i]
      /\ Falling(m, F) => Falling(r, F)
  BY <1>5, <1>6, <1>7, ClipsFiltered
<1>9. Clips!Ids(r) \subseteq Clips!Ids(q) \cup {e.id}
  <2>1. Clips!Ids(r) \subseteq Clips!Ids(m)
    BY <1>7, <1>8 DEF Clips!Ids
  <2>2. Clips!Ids(o) \subseteq Clips!Ids(q)
    BY <1>1, <1>3 DEF Clips!Ids
  <2> QED BY <1>6, <2>1, <2>2
<1>10. ASSUME Falling(q, F), \A k \in DOMAIN q : q[k].pinned => q[k].id \in F,
              \A k \in DOMAIN q : q[k].id < e.id
       PROVE  Falling(r, F) /\ \A k \in DOMAIN r : r[k].pinned => r[k].id \in F
  <2>1. \A k \in DOMAIN o : o[k].id < e.id /\ (o[k].pinned => o[k].id \in F)
    BY <1>1, <1>3, <1>10
  <2>2. Falling(m, F)
    BY <1>3, <1>4, <1>6, <1>10, <2>1
  <2>3. \A k \in DOMAIN m : m[k].pinned => m[k].id \in F
    BY <1>6, <2>1
  <2>4. \A k \in DOMAIN r : r[k].pinned => r[k].id \in F
    BY <1>7, <1>8, <2>3
  <2> QED BY <1>8, <2>2, <2>4
<1> QED BY <1>8, <1>9, <1>10 DEF r

\* A thread records a clip.
LEMMA ClipRecorded ==
  ASSUME ClipsAssumption, ClipsInv, NEW r \in Thread, NEW t \in Word, Clips!Record(r, t)
  PROVE  ClipsInv'
<1> DEFINE e == [id |-> clipsClips + 1, text |-> t, pinned |-> FALSE]
<1>0. ClipsTyping /\ Kept /\ ReadFirst
  BY DEF ClipsInv
<1>1. /\ emitting[r] = Clips!NoClip /\ clipsClips' = clipsClips + 1
      /\ clipsStore' = Clips!Recorded(clipsStore, e, clipsLimit)
      /\ emitting' = [emitting EXCEPT ![r] = e]
      /\ UNCHANGED <<clipsLimit, clipsCalls, clipsAnswers, clipsEvents, clipsListening,
                     clipsHistory, clipsCauses, favoured>>
  BY DEF Clips!Record, Clips!link, Clips!window, Clips!ghosts
<1>2. /\ e \in Clip /\ e.id = clipsClips + 1 /\ ~e.pinned
      /\ clipsStore \in Seq(Clip) /\ clipsLimit \in Nat /\ clipsClips \in Nat
  BY <1>0 DEF ClipsTyping, Clip
<1> HIDE DEF e
<1>5. \A x \in Clips!Ids(clipsStore) : x \in Nat /\ x <= clipsClips /\ x < clipsClips + 1
  <2>1. \A k \in DOMAIN clipsStore : clipsStore[k] \in Clip /\ clipsStore[k].id <= clipsClips
    BY <1>0, <1>2 DEF Kept
  <2> QED BY <1>2, <2>1 DEF Clips!Ids, Clip
<1>6. /\ clipsStore' \in Seq(Clip)
      /\ Clips!Ids(clipsStore') \subseteq Clips!Ids(clipsStore) \cup {e.id}
      /\ /\ Falling(clipsStore, favoured)
         /\ \A k \in DOMAIN clipsStore : clipsStore[k].pinned => clipsStore[k].id \in favoured
         /\ \A k \in DOMAIN clipsStore : clipsStore[k].id < e.id
         => /\ Falling(clipsStore', favoured)
            /\ \A k \in DOMAIN clipsStore' : clipsStore'[k].pinned => clipsStore'[k].id \in favoured
  BY <1>1, <1>2, ClipsJoined
<1>7. ASSUME Clips!Reading'
      PROVE  /\ Falling(clipsStore', favoured')
             /\ \A k \in DOMAIN clipsStore' :
                  clipsStore'[k].pinned => clipsStore'[k].id \in favoured'
  <2>1. Clips!Reading
    BY <1>1, <1>7, ClipsPrimed DEF Clips!Reading
  <2>2. /\ Falling(clipsStore, favoured)
        /\ \A k \in DOMAIN clipsStore : clipsStore[k].pinned => clipsStore[k].id \in favoured
    BY <1>0, <2>1 DEF Kept, Known, Clips!Pinned
  <2>3. \A k \in DOMAIN clipsStore : clipsStore[k].id < e.id
    BY <1>2, <1>5 DEF Clips!Ids
  <2> QED BY <1>1, <1>6, <2>2, <2>3
<1>8. \A k \in DOMAIN clipsStore' : clipsStore'[k].id <= clipsClips'
  <2>1. \A x \in Clips!Ids(clipsStore') : x <= clipsClips + 1
    BY <1>2, <1>5, <1>6
  <2> QED BY <1>1, <2>1 DEF Clips!Ids
<1>9. emitting' \in [Thread -> Clip \cup {Clips!NoClip}] /\ emitting'[r] = e
      /\ \A x \in Thread : x # r => emitting'[x] = emitting[x]
  BY <1>0, <1>1, <1>2 DEF ClipsTyping
<1>10. ClipsTyping' /\ Kept'
  <2>1. ClipsTyping'
    BY <1>0, <1>1, <1>2, <1>6, <1>9 DEF ClipsTyping
  <2>2. Kept'
    BY <1>7, <1>8, ClipsPrimed
  <2> QED BY <2>1, <2>2
<1>11. ReadFirst' /\ (InStep => InStep')
  <2>1. ReadFirst'
    BY <1>0, <1>1 DEF ReadFirst
  <2>2. ASSUME InStep PROVE InStep'
    BY <1>1, <2>2, ClipsPrimed DEF InStep, InAnswers
  <2> QED BY <2>1, <2>2
<1>12. ASSUME OnTheWay PROVE OnTheWay'
  <2>1. CASE Clips!Reading
    BY <1>1, <2>1, ClipsPrimed DEF Clips!Reading
  <2>2. CASE Clips!Ids(clipsStore)
               \subseteq Clips!Ids(clipsHistory) \cup InAnswers \cup Clips!Ids(clipsEvents)
                           \cup InThreads
    <3>1. InAnswers' = InAnswers
      BY <1>1, ClipsPrimed DEF InAnswers
    <3>2. Clips!NoClip.id = 0 /\ \A x \in Clips!Ids(clipsStore) : x # 0
      <4>1. \A k \in DOMAIN clipsStore : clipsStore[k] \in Clip
        BY <1>2
      <4> QED BY <4>1 DEF Clips!NoClip, Clips!Ids, Clip
    <3>3. \A x \in InThreads : x = 0 \/ x \in InThreads'
      <4>1. InThreads' = {emitting'[x].id : x \in Thread}
        BY ClipsPrimed
      <4> QED BY <1>1, <1>9, <3>2, <4>1 DEF InThreads
    <3>4. e.id \in InThreads'
      BY <1>9, ClipsPrimed
    <3>5. Clips!Ids(clipsStore') \subseteq Clips!Ids(clipsHistory') \cup InAnswers'
            \cup Clips!Ids(clipsEvents') \cup InThreads'
      BY <1>1, <1>6, <2>2, <3>1, <3>2, <3>3, <3>4
    <3> QED BY <3>5, ClipsPrimed
  <2> QED BY <1>12, <2>1, <2>2 DEF OnTheWay
<1> QED BY <1>1, <1>10, <1>11, <1>12 DEF ClipsInv

\* The numbers of the entries are numbers.
LEMMA ClipsIds ==
  ASSUME ClipsTyping
  PROVE  /\ Clips!Ids(clipsStore) \subseteq Nat /\ Clips!Ids(clipsHistory) \subseteq Nat
         /\ Clips!Ids(clipsEvents) \subseteq Nat /\ InAnswers \subseteq Nat
         /\ \A j \in DOMAIN clipsEvents : clipsEvents[j] \in Clip /\ clipsEvents[j].id \in Nat
<1>1. \A q : q \in Seq(Clip) => Clips!Ids(q) \subseteq Nat
  <2>1. ASSUME NEW q \in Seq(Clip), NEW k \in DOMAIN q PROVE q[k].id \in Nat
    <3>1. q[k] \in Clip
      OBVIOUS
    <3> QED BY <3>1 DEF Clip
  <2> QED BY <2>1 DEF Clips!Ids
<1>2. \A k \in DOMAIN clipsAnswers : clipsAnswers[k].list \in Seq(Clip)
  <2>1. \A k \in DOMAIN clipsAnswers : clipsAnswers[k] \in Answer
    BY DEF ClipsTyping
  <2> QED BY <2>1 DEF Answer
<1>3. InAnswers \subseteq Nat
  BY <1>1, <1>2 DEF InAnswers
<1>4. \A j \in DOMAIN clipsEvents : clipsEvents[j] \in Clip
  BY DEF ClipsTyping
<1> QED BY <1>1, <1>3, <1>4 DEF ClipsTyping, Clip

\* What leaves the backend's list, the first call and the pins alone keeps it.
LEMMA ClipsStand ==
  ASSUME Kept, UNCHANGED <<clipsStore, clipsClips, favoured>>, Clips!Reading' => Clips!Reading
  PROVE  Kept'
BY ClipsPrimed DEF Kept, Known, Clips!Pinned

\* A thread tells of the clip that it recorded.
LEMMA ClipEmitted ==
  ASSUME ClipsAssumption, ClipsInv, NEW r \in Thread, Clips!Emit(r)
  PROVE  ClipsInv'
<1> DEFINE e == emitting[r]
<1>0. ClipsTyping /\ Kept /\ ReadFirst
  BY DEF ClipsInv
<1>1. /\ e # Clips!NoClip /\ e \in Clip
      /\ clipsEvents' = IF clipsListening THEN Append(clipsEvents, e) ELSE clipsEvents
      /\ emitting' = [emitting EXCEPT ![r] = Clips!NoClip]
      /\ clipsCauses \subseteq clipsCauses'
      /\ "missed" \notin clipsCauses' => clipsListening \/ e.id \in Clips!Read
      /\ "overtaken" \notin clipsCauses' => \A id \in Clips!Announcements : ~(id > e.id)
      /\ UNCHANGED <<clipsStore, clipsLimit, clipsCalls, clipsAnswers, clipsListening,
                     clipsHistory, clipsClips, favoured>>
  BY <1>0 DEF Clips!Emit, Clips!window, Clips!bounds, ClipsTyping
<1>2. e.id \in Nat /\ clipsEvents \in Seq(Clip) /\ clipsListening \in BOOLEAN
  BY <1>0, <1>1 DEF ClipsTyping, Clip
<1>3. emitting' \in [Thread -> Clip \cup {Clips!NoClip}]
      /\ \A x \in Thread : x # r => emitting'[x] = emitting[x]
  BY <1>0, <1>1 DEF ClipsTyping
<1> DEFINE n == Len(clipsEvents) + 1
<1>4. /\ clipsEvents' \in Seq(Clip)
      /\ \A j \in DOMAIN clipsEvents : j \in DOMAIN clipsEvents' /\ clipsEvents'[j] = clipsEvents[j]
      /\ \A j \in DOMAIN clipsEvents' :
           \/ j \in DOMAIN clipsEvents /\ clipsEvents'[j] = clipsEvents[j]
           \/ j = n /\ clipsEvents'[j] = e
      /\ clipsListening => \E j \in DOMAIN clipsEvents' : clipsEvents'[j] = e
      /\ \A j \in DOMAIN clipsEvents : j \in Nat /\ j < n
  <2>1. CASE clipsListening
    <3>1. /\ clipsEvents' \in Seq(Clip) /\ DOMAIN clipsEvents' = DOMAIN clipsEvents \cup {n}
          /\ clipsEvents'[n] = e
          /\ \A k \in DOMAIN clipsEvents : clipsEvents'[k] = clipsEvents[k] /\ k < n
      BY <1>1, <1>2, <2>1, Added
    <3>2. \A k \in DOMAIN clipsEvents : k \in Nat
      BY <1>2
    <3> HIDE DEF e, n
    <3> QED BY <3>1, <3>2
  <2>2. CASE ~clipsListening
    BY <1>1, <1>2, <2>2
  <2> QED BY <1>2, <2>1, <2>2
<1>5. n \in Nat
  BY <1>2
<1>6. /\ Clips!Ids(clipsEvents) \subseteq Clips!Announcements
      /\ Clips!Ids(clipsHistory) \cup InAnswers \subseteq Clips!Announcements
      /\ Clips!Ids(clipsHistory) \cup InAnswers \subseteq Nat
      /\ \A j \in DOMAIN clipsEvents :
           clipsEvents[j].id \in Clips!Ids(clipsEvents) /\ clipsEvents[j].id \in Nat
  BY <1>0, ClipsIds DEF Clips!Announcements, InAnswers, Clips!Ids
<1> HIDE DEF e, n
<1>7. ClipsTyping' /\ Kept'
  <2>1. Clips!Reading' => Clips!Reading
    BY <1>1, ClipsPrimed DEF Clips!Reading
  <2>2. Kept'
    BY <1>0, <1>1, <2>1, ClipsStand
  <2> QED BY <1>0, <1>1, <1>3, <1>4, <2>2 DEF ClipsTyping
<1>8. ReadFirst'
  <2>1. ~clipsListening => clipsEvents' = clipsEvents
    BY <1>1
  <2> QED BY <1>0, <1>1, <2>1 DEF ReadFirst
<1>9. InAnswers' = InAnswers
  BY <1>1, ClipsPrimed DEF InAnswers
<1>10. ASSUME InStep, "overtaken" \notin clipsCauses' PROVE InStep'
  <2>1. /\ \A j \in DOMAIN clipsEvents : clipsEvents[j].id <= e.id
        /\ \A id \in Clips!Ids(clipsHistory) \cup InAnswers : id <= e.id
    BY <1>1, <1>2, <1>6, <1>10
  <2>2. ASSUME NEW i \in DOMAIN clipsEvents', NEW j \in DOMAIN clipsEvents', i < j
        PROVE  clipsEvents'[i].id <= clipsEvents'[j].id
    <3>1. i \in DOMAIN clipsEvents /\ clipsEvents'[i] = clipsEvents[i]
      BY <1>4, <1>5, <2>2
    <3>2. CASE j \in DOMAIN clipsEvents /\ clipsEvents'[j] = clipsEvents[j]
      BY <1>10, <2>2, <3>1, <3>2 DEF InStep
    <3>3. CASE clipsEvents'[j] = e
      BY <2>1, <3>1, <3>3
    <3> QED BY <1>4, <3>2, <3>3
  <2>3. ASSUME NEW id \in Clips!Ids(clipsHistory) \cup InAnswers, NEW j \in DOMAIN clipsEvents'
        PROVE  id <= clipsEvents'[j].id
    BY <1>4, <1>10, <2>1 DEF InStep
  <2>4. /\ Falling(clipsHistory, favoured)
        /\ \A k \in DOMAIN clipsAnswers : Falling(clipsAnswers[k].list, favoured)
    BY <1>10 DEF InStep
  <2> QED BY <1>1, <1>9, <2>2, <2>3, <2>4, ClipsPrimed
<1>11. ASSUME OnTheWay, "missed" \notin clipsCauses' PROVE OnTheWay'
  <2>1. CASE Clips!Reading
    BY <1>1, <2>1, ClipsPrimed DEF Clips!Reading
  <2>2. CASE ~Clips!Reading
    <3>1. Clips!Ids(clipsStore) \subseteq Clips!Ids(clipsHistory) \cup InAnswers
            \cup Clips!Ids(clipsEvents) \cup InThreads
      BY <1>11, <2>2 DEF OnTheWay
    <3>2. Clips!Ids(clipsEvents) \subseteq Clips!Ids(clipsEvents')
      BY <1>4 DEF Clips!Ids
    <3>3. e.id \in Clips!Ids(clipsEvents') \cup Clips!Ids(clipsHistory) \cup InAnswers
      <4>1. CASE clipsListening
        BY <1>4, <4>1 DEF Clips!Ids
      <4>2. CASE e.id \in Clips!Read
        BY <2>2, <4>2 DEF Clips!Read, InAnswers
      <4> QED BY <1>1, <1>11, <4>1, <4>2
    <3>4. \A x \in InThreads : x = e.id \/ x \in InThreads'
      <4>1. InThreads' = {emitting'[x].id : x \in Thread}
        BY ClipsPrimed
      <4> QED BY <1>3, <4>1 DEF InThreads, e
    <3>5. Clips!Ids(clipsStore') \subseteq Clips!Ids(clipsHistory') \cup InAnswers'
            \cup Clips!Ids(clipsEvents') \cup InThreads'
      BY <1>1, <1>9, <3>1, <3>2, <3>3, <3>4
    <3> QED BY <3>5, ClipsPrimed
  <2> QED BY <2>1, <2>2
<1>12. /\ "overtaken" \notin clipsCauses' => "overtaken" \notin clipsCauses
       /\ "missed" \notin clipsCauses' => "missed" \notin clipsCauses
       /\ "cut" \notin clipsCauses' => "cut" \notin clipsCauses
  BY <1>1
<1> QED BY <1>7, <1>8, <1>10, <1>11, <1>12 DEF ClipsInv

\* An entry is deleted in the quick panel.
LEMMA ClipDeleted ==
  ASSUME ClipsInv, NEW id, Clips!DeleteElsewhere(id)
  PROVE  ClipsInv'
<1> DEFINE S == {k \in DOMAIN clipsStore : clipsStore[k].id # id}
<1>0. ClipsTyping /\ Kept /\ ReadFirst
  BY DEF ClipsInv
<1>1. /\ clipsStore' = Clips!Retain(clipsStore, S)
      /\ UNCHANGED <<clipsLimit, emitting, clipsCalls, clipsAnswers, clipsEvents, clipsListening,
                     clipsHistory, clipsCauses, clipsClips, favoured>>
  BY DEF Clips!DeleteElsewhere, Clips!Without, Clips!link, Clips!window, Clips!ghosts
<1>2. S \in SUBSET DOMAIN clipsStore /\ clipsStore \in Seq(Clip)
  BY <1>0 DEF ClipsTyping
<1> HIDE DEF S
<1>3. /\ clipsStore' \in Seq(Clip) /\ Clips!Ids(clipsStore') = {clipsStore[i].id : i \in S}
      /\ \A k \in DOMAIN clipsStore' : \E i \in S : clipsStore'[k] = clipsStore[i]
      /\ Falling(clipsStore, favoured) => Falling(clipsStore', favoured)
  BY <1>1, <1>2, ClipsFiltered
<1>4. Clips!Ids(clipsStore') \subseteq Clips!Ids(clipsStore)
  BY <1>2, <1>3 DEF Clips!Ids
<1>5. Kept'
  <2>1. \A k \in DOMAIN clipsStore' : clipsStore'[k].id <= clipsClips'
    <3>1. \A x \in Clips!Ids(clipsStore) : x <= clipsClips
      BY <1>0 DEF Kept, Clips!Ids
    <3>2. \A k \in DOMAIN clipsStore' : clipsStore'[k].id \in Clips!Ids(clipsStore')
      BY DEF Clips!Ids
    <3> QED BY <1>1, <1>4, <3>1, <3>2
  <2>2. ASSUME Clips!Reading'
        PROVE  /\ Falling(clipsStore', favoured')
               /\ \A k \in DOMAIN clipsStore' :
                    clipsStore'[k].pinned => clipsStore'[k].id \in favoured'
    <3>1. Clips!Reading
      BY <1>1, <2>2, ClipsPrimed DEF Clips!Reading
    <3>2. /\ Falling(clipsStore, favoured)
          /\ \A k \in DOMAIN clipsStore : clipsStore[k].pinned => clipsStore[k].id \in favoured
      BY <1>0, <3>1 DEF Kept, Known, Clips!Pinned
    <3> QED BY <1>1, <1>2, <1>3, <3>2
  <2> QED BY <2>1, <2>2, ClipsPrimed
<1>6. ClipsTyping' /\ ReadFirst'
  BY <1>0, <1>1, <1>3 DEF ClipsTyping, ReadFirst
<1>7. InStep => InStep'
  BY <1>1, ClipsPrimed DEF InStep, InAnswers
<1>8. OnTheWay => OnTheWay'
  <2>1. InAnswers' = InAnswers /\ InThreads' = InThreads
    BY <1>1, ClipsPrimed DEF InAnswers, InThreads
  <2> QED BY <1>1, <1>4, <2>1, ClipsPrimed DEF OnTheWay, Clips!Reading
<1> QED BY <1>1, <1>5, <1>6, <1>7, <1>8 DEF ClipsInv

\* An entry is pinned or unpinned there: it moves, and the list has it still.
LEMMA ClipPinned ==
  ASSUME ClipsInv, NEW id, NEW pin \in BOOLEAN, Clips!PinElsewhere(id, pin)
  PROVE  ClipsInv'
<1> DEFINE i == Clips!Foremost({k \in DOMAIN clipsStore : clipsStore[k].id = id})
           e == [clipsStore[i] EXCEPT !.pinned = pin]
           S == {k \in DOMAIN clipsStore : clipsStore[k].id # id}
           o == Clips!Retain(clipsStore, S)
           p == IF pin THEN 1 ELSE Clips!InsertPosition(o)
<1>0. ClipsTyping /\ Kept /\ ReadFirst
  BY DEF ClipsInv
<1>1. /\ id \in Clips!Ids(clipsStore) /\ clipsStore' = Clips!InsertAt(o, p, e)
      /\ favoured' = favoured \cup (IF Clips!Reading THEN {id} ELSE {})
      /\ UNCHANGED <<clipsLimit, emitting, clipsCalls, clipsAnswers, clipsEvents, clipsListening,
                     clipsHistory, clipsCauses, clipsClips>>
  BY DEF Clips!PinElsewhere, Clips!Elsewhere, Clips!Without, Clips!link, Clips!window
<1>2. S \in SUBSET DOMAIN clipsStore /\ clipsStore \in Seq(Clip)
  BY <1>0 DEF ClipsTyping
<1>3. i \in DOMAIN clipsStore /\ clipsStore[i].id = id
  <2> DEFINE places == {k \in DOMAIN clipsStore : clipsStore[k].id = id}
  <2>1. places \in SUBSET Nat /\ places # {}
    BY <1>1, <1>2 DEF Clips!Ids
  <2>2. Clips!Foremost(places) = Min(places)
    BY DEF Clips!Foremost, Min
  <2>3. Min(places) \in places
    BY <2>1, MinLeast
  <2> QED BY <2>2, <2>3
<1> HIDE DEF i
<1>4. e \in Clip /\ e.id = id
  <2>1. clipsStore[i] \in Clip
    BY <1>2, <1>3
  <2> QED BY <1>3, <2>1 DEF Clip
<1> HIDE DEF e, S
<1>5. /\ o \in Seq(Clip) /\ Clips!Ids(o) = {clipsStore[k].id : k \in S}
      /\ \A k \in DOMAIN o : \E l \in S : o[k] = clipsStore[l]
      /\ Falling(clipsStore, favoured') => Falling(o, favoured')
  BY <1>2, ClipsFiltered
<1> HIDE DEF o
<1>6. p \in 1 .. Len(o) + 1 /\ \A k \in DOMAIN o : k < p => o[k].pinned
  BY <1>5, ClipsPlace
<1> HIDE DEF p
<1>7. /\ clipsStore' \in Seq(Clip) /\ Clips!Ids(clipsStore') = Clips!Ids(o) \cup {id}
      /\ \A k \in DOMAIN clipsStore' : clipsStore'[k] = e \/ \E l \in DOMAIN o : clipsStore'[k] = o[l]
      /\ /\ Falling(o, favoured')
         /\ \A k \in DOMAIN o : k < p => o[k].id \in favoured'
         /\ id \in favoured'
         => Falling(clipsStore', favoured')
  <2> DEFINE r == Clips!InsertAt(o, p, e)
  <2>1. /\ r \in Seq(Clip) /\ Clips!Ids(r) = Clips!Ids(o) \cup {e.id}
        /\ \A k \in DOMAIN r : r[k] = e \/ \E l \in DOMAIN o : r[k] = o[l]
        /\ /\ Falling(o, favoured')
           /\ \A k \in DOMAIN o : k < p => o[k].id \in favoured'
           /\ e.id \in favoured' \/ \A k \in DOMAIN o : o[k].id < e.id
           => Falling(r, favoured')
    BY <1>4, <1>5, <1>6, ClipsInserted
  <2>2. r = clipsStore'
    BY <1>1
  <2> HIDE DEF r
  <2> QED BY <1>4, <2>1, <2>2
<1>8. Clips!Ids(clipsStore') \subseteq Clips!Ids(clipsStore)
  BY <1>1, <1>2, <1>5, <1>7 DEF Clips!Ids
<1>9. Kept'
  <2>1. \A k \in DOMAIN clipsStore' : clipsStore'[k].id <= clipsClips'
    <3>1. \A x \in Clips!Ids(clipsStore) : x <= clipsClips
      BY <1>0 DEF Kept, Clips!Ids
    <3>2. \A k \in DOMAIN clipsStore' : clipsStore'[k].id \in Clips!Ids(clipsStore')
      BY DEF Clips!Ids
    <3> QED BY <1>1, <1>8, <3>1, <3>2
  <2>2. ASSUME Clips!Reading'
        PROVE  /\ Falling(clipsStore', favoured')
               /\ \A k \in DOMAIN clipsStore' :
                    clipsStore'[k].pinned => clipsStore'[k].id \in favoured'
    <3>1. Clips!Reading
      BY <1>1, <2>2, ClipsPrimed DEF Clips!Reading
    <3>2. favoured' = favoured \cup {id}
      BY <1>1, <3>1
    <3>3. /\ Falling(clipsStore, favoured')
          /\ \A k \in DOMAIN clipsStore : clipsStore[k].pinned => clipsStore[k].id \in favoured'
      BY <1>0, <3>1, <3>2 DEF Kept, Known, Clips!Pinned, Falling
    <3>4. \A k \in DOMAIN o : o[k].pinned => o[k].id \in favoured'
      BY <1>2, <1>5, <3>3
    <3>5. Falling(clipsStore', favoured')
      BY <1>5, <1>6, <1>7, <3>2, <3>3, <3>4
    <3>6. \A k \in DOMAIN clipsStore' : clipsStore'[k].pinned => clipsStore'[k].id \in favoured'
      BY <1>4, <1>7, <3>2, <3>4
    <3> QED BY <3>5, <3>6
  <2> QED BY <2>1, <2>2, ClipsPrimed
<1>10. ClipsTyping' /\ ReadFirst'
  BY <1>0, <1>1, <1>7 DEF ClipsTyping, ReadFirst
<1>11. ASSUME InStep PROVE InStep'
  <2>1. favoured \subseteq favoured'
    BY <1>1
  <2>2. /\ Falling(clipsHistory, favoured')
        /\ \A k \in DOMAIN clipsAnswers : Falling(clipsAnswers[k].list, favoured')
    BY <1>11, <2>1 DEF InStep, Falling
  <2>3. InAnswers' = InAnswers
    BY <1>1, ClipsPrimed DEF InAnswers
  <2> QED BY <1>1, <1>11, <2>2, <2>3, ClipsPrimed DEF InStep
<1>12. OnTheWay => OnTheWay'
  <2>1. InAnswers' = InAnswers /\ InThreads' = InThreads
    BY <1>1, ClipsPrimed DEF InAnswers, InThreads
  <2> QED BY <1>1, <1>8, <2>1, ClipsPrimed DEF OnTheWay, Clips!Reading
<1> QED BY <1>1, <1>9, <1>10, <1>11, <1>12 DEF ClipsInv

\* The first look: the whole list is on its way, and nothing was announced to it yet.
LEMMA ClipsAreRead ==
  ASSUME ClipsInv, Clips!RunRead
  PROVE  ClipsInv'
<1>0. ClipsTyping /\ Kept /\ ReadFirst
  BY DEF ClipsInv
<1>1. /\ Clips!Running("get_history") /\ Clips!Reply(clipsStore)
      /\ UNCHANGED <<clipsStore, clipsLimit, emitting, clipsEvents, clipsListening,
                     clipsHistory, clipsCauses, clipsClips, favoured>>
  BY DEF Clips!RunRead, Clips!window, Clips!ghosts, Clips!bounds
<1>2. clipsStore \in Seq(Clip)
  BY <1>0 DEF ClipsTyping
<1>3. /\ clipsCalls' \in Seq(Asks) /\ Head(clipsCalls) \in Asks
      /\ Head(clipsCalls).do = "get_history" /\ ~clipsListening
      /\ ~Clips!Reading'
      /\ \A i \in DOMAIN clipsCalls' : clipsCalls'[i].do # "get_history"
  BY <1>0, <1>1, CallTaken
<1>4. /\ clipsAnswers' \in Seq(Answer) /\ InAnswers' = InAnswers \cup Clips!Ids(clipsStore)
      /\ \A k \in DOMAIN clipsAnswers' :
           \/ k \in DOMAIN clipsAnswers /\ clipsAnswers'[k] = clipsAnswers[k]
           \/ clipsAnswers'[k].to = Head(clipsCalls) /\ clipsAnswers'[k].list = clipsStore
  BY <1>0, <1>1, <1>2, <1>3, AnswerAdded
<1>5. ClipsTyping' /\ Kept'
  <2>1. Kept'
    BY <1>0, <1>1, <1>3, ClipsStand
  <2> QED BY <1>0, <1>1, <1>3, <1>4, <2>1 DEF ClipsTyping
<1>6. ReadFirst'
  <2>1. clipsEvents' = <<>>
    BY <1>0, <1>1, <1>3 DEF ReadFirst
  <2>2. ASSUME NEW k \in DOMAIN clipsAnswers', clipsAnswers'[k].to.do # "get_history"
        PROVE  clipsAnswers'[k].list = <<>>
    BY <1>0, <1>3, <1>4, <2>2 DEF ReadFirst
  <2> QED BY <1>3, <2>1, <2>2 DEF ReadFirst
<1>7. ASSUME InStep PROVE InStep'
  <2>1. clipsEvents' = <<>>
    BY <1>0, <1>1, <1>3 DEF ReadFirst
  <2>2. Clips!Reading
    BY <1>1 DEF Clips!Running, Clips!Reading
  <2>3. ASSUME NEW k \in DOMAIN clipsAnswers' PROVE Falling(clipsAnswers'[k].list, favoured)
    BY <1>0, <1>4, <1>7, <2>2 DEF InStep, Kept
  <2> QED BY <1>1, <1>7, <2>1, <2>3, ClipsPrimed DEF InStep
<1>8. OnTheWay'
  BY <1>1, <1>4, ClipsPrimed
<1> QED BY <1>1, <1>5, <1>6, <1>7, <1>8 DEF ClipsInv

\* The window starts to listen, after its first look.
LEMMA ClipsListened ==
  ASSUME ClipsInv, Clips!RunListen
  PROVE  ClipsInv'
<1>0. ClipsTyping /\ Kept /\ ReadFirst
  BY DEF ClipsInv
<1>1. /\ Clips!Running("listen") /\ clipsListening' = TRUE
      /\ UNCHANGED <<clipsStore, clipsLimit, emitting, clipsAnswers, clipsEvents,
                     clipsHistory, clipsCauses, clipsClips, favoured>>
  BY DEF Clips!RunListen, Clips!window, Clips!ghosts, Clips!bounds
<1>2. /\ clipsCalls' \in Seq(Asks) /\ ~Clips!Reading' /\ ~Clips!Reading
      /\ \A i \in DOMAIN clipsCalls' : clipsCalls'[i].do # "get_history"
  BY <1>0, <1>1, CallTaken
<1>3. ClipsTyping' /\ Kept' /\ ReadFirst'
  <2>1. Kept'
    BY <1>0, <1>1, <1>2, ClipsStand
  <2> QED BY <1>0, <1>1, <1>2, <2>1 DEF ClipsTyping, ReadFirst
<1>4. InStep => InStep'
  BY <1>1, ClipsPrimed DEF InStep, InAnswers
<1>5. OnTheWay => OnTheWay'
  <2>1. InAnswers' = InAnswers /\ InThreads' = InThreads
    BY <1>1, ClipsPrimed DEF InAnswers, InThreads
  <2> QED BY <1>1, <1>2, <2>1, ClipsPrimed DEF OnTheWay
<1> QED BY <1>1, <1>3, <1>4, <1>5 DEF ClipsInv

\* A command that reads nothing leaves the list as it is, or takes from it.
LEMMA ClipCommandRun ==
  ASSUME ClipsInv, NEW do, do # "get_history", Clips!Running(do),
         Clips!Reply(<<>>) \/ UNCHANGED clipsAnswers,
         clipsStore' \in Seq(Clip), Clips!Ids(clipsStore') \subseteq Clips!Ids(clipsStore),
         clipsLimit' \in Nat,
         UNCHANGED <<emitting, clipsEvents, clipsListening, clipsHistory, clipsCauses, clipsClips,
                     favoured>>
  PROVE  ClipsInv'
<1>0. ClipsTyping /\ Kept /\ ReadFirst
  BY DEF ClipsInv
<1>1. /\ clipsCalls' \in Seq(Asks) /\ Head(clipsCalls) \in Asks
      /\ \A i \in DOMAIN clipsCalls' : clipsCalls'[i].do # "get_history"
      /\ ~Clips!Reading' /\ ~Clips!Reading
  BY <1>0, CallTaken
<1>2. <<>> \in Seq(Clip) /\ Clips!Ids(<<>>) = {}
  BY DEF Clips!Ids
<1>3. /\ clipsAnswers' \in Seq(Answer) /\ InAnswers' = InAnswers
      /\ \A k \in DOMAIN clipsAnswers' :
           \/ k \in DOMAIN clipsAnswers /\ clipsAnswers'[k] = clipsAnswers[k]
           \/ clipsAnswers'[k].list = <<>>
  <2>1. CASE Clips!Reply(<<>>)
    <3>1. /\ clipsAnswers' \in Seq(Answer) /\ InAnswers' = InAnswers \cup Clips!Ids(<<>>)
          /\ \A k \in DOMAIN clipsAnswers' :
               \/ k \in DOMAIN clipsAnswers /\ clipsAnswers'[k] = clipsAnswers[k]
               \/ clipsAnswers'[k].to = Head(clipsCalls) /\ clipsAnswers'[k].list = <<>>
      BY <1>0, <1>1, <1>2, <2>1, AnswerAdded
    <3> QED BY <1>2, <3>1
  <2>2. CASE UNCHANGED clipsAnswers
    BY <1>0, <2>2, ClipsPrimed DEF ClipsTyping, InAnswers
  <2> QED BY <2>1, <2>2
<1>4. Kept'
  <2>1. \A k \in DOMAIN clipsStore' : clipsStore'[k].id <= clipsClips'
    <3>1. \A x \in Clips!Ids(clipsStore) : x <= clipsClips
      BY <1>0 DEF Kept, Clips!Ids
    <3>2. \A k \in DOMAIN clipsStore' : clipsStore'[k].id \in Clips!Ids(clipsStore')
      BY DEF Clips!Ids
    <3> QED BY <3>1, <3>2
  <2> QED BY <1>1, <2>1, ClipsPrimed
<1>5. ClipsTyping'
  BY <1>0, <1>1, <1>3 DEF ClipsTyping
<1>6. ReadFirst'
  <2>1. \A k \in DOMAIN clipsAnswers' :
          clipsAnswers'[k].to.do # "get_history" => clipsAnswers'[k].list = <<>>
    BY <1>0, <1>3 DEF ReadFirst
  <2> QED BY <1>0, <1>1, <2>1 DEF ReadFirst
<1>7. ASSUME InStep PROVE InStep'
  <2>1. Falling(<<>>, favoured)
    BY DEF Falling
  <2>2. ASSUME NEW k \in DOMAIN clipsAnswers' PROVE Falling(clipsAnswers'[k].list, favoured)
    BY <1>3, <1>7, <2>1 DEF InStep
  <2> QED BY <1>3, <1>7, <2>2, ClipsPrimed DEF InStep
<1>8. OnTheWay => OnTheWay'
  <2>1. InThreads' = InThreads
    BY ClipsPrimed DEF InThreads
  <2> QED BY <1>1, <1>3, <2>1, ClipsPrimed DEF OnTheWay
<1> QED BY <1>4, <1>5, <1>6, <1>7, <1>8 DEF ClipsInv

\* The three commands.
LEMMA ClipCommands ==
  ASSUME ClipsAssumption, ClipsInv, Clips!RunClear \/ Clips!RunLimit \/ Clips!RunCopy
  PROVE  ClipsInv'
<1>0. ClipsTyping /\ Kept /\ ReadFirst
  BY DEF ClipsInv
<1>1. CASE Clips!RunClear
  <2>1. /\ Clips!Running("clear_history") /\ Clips!Reply(<<>>) /\ clipsStore' = <<>>
        /\ UNCHANGED <<clipsLimit, emitting, clipsEvents, clipsListening, clipsHistory,
                       clipsCauses, clipsClips, favoured>>
    BY <1>1 DEF Clips!RunClear, Clips!window, Clips!ghosts, Clips!bounds
  <2>2. /\ clipsStore' \in Seq(Clip) /\ Clips!Ids(clipsStore') \subseteq Clips!Ids(clipsStore)
        /\ clipsLimit' \in Nat
    <3>1. Clips!Ids(<<>>) = {}
      BY DEF Clips!Ids
    <3> QED BY <1>0, <2>1, <3>1 DEF ClipsTyping
  <2> QED BY <2>1, <2>2, ClipCommandRun
<1>2. CASE Clips!RunLimit
  <2>1. /\ Clips!Running("set_history_limit") /\ clipsLimit' = Head(clipsCalls).arg
        /\ \/ Clips!Reply(<<>>) /\ clipsStore' = Clips!Upto(clipsStore, clipsLimit')
           \/ UNCHANGED <<clipsAnswers, clipsStore>>
        /\ UNCHANGED <<emitting, clipsEvents, clipsListening, clipsHistory, clipsCauses, clipsClips,
                       favoured>>
    BY <1>2 DEF Clips!RunLimit, Clips!window, Clips!ghosts, Clips!bounds
  <2>2. Head(clipsCalls) \in Asks
    BY <1>0, <2>1, CallTaken
  <2>3. clipsLimit' \in Nat /\ clipsStore \in Seq(Clip)
    BY <1>0, <2>1, <2>2 DEF Asks, ClipsTyping
  <2>4. clipsStore' \in Seq(Clip) /\ Clips!Ids(clipsStore') \subseteq Clips!Ids(clipsStore)
    <3>1. CASE clipsStore' = Clips!Upto(clipsStore, clipsLimit')
      BY <2>3, <3>1, ClipsCut
    <3>2. CASE UNCHANGED clipsStore
      BY <2>3, <3>2
    <3> QED BY <2>1, <3>1, <3>2
  <2>5. Clips!Reply(<<>>) \/ UNCHANGED clipsAnswers
    BY <2>1
  <2> QED BY <2>1, <2>3, <2>4, <2>5, ClipCommandRun
<1>3. CASE Clips!RunCopy
  <2>1. /\ Clips!Running("copy_to_clipboard")
        /\ Clips!Reply(<<>>) \/ UNCHANGED clipsAnswers
        /\ UNCHANGED <<clipsStore, clipsLimit, emitting, clipsEvents, clipsListening,
                       clipsHistory, clipsCauses, clipsClips, favoured>>
    BY <1>3 DEF Clips!RunCopy, Clips!window, Clips!ghosts, Clips!bounds
  <2>2. /\ clipsStore' \in Seq(Clip) /\ Clips!Ids(clipsStore') \subseteq Clips!Ids(clipsStore)
        /\ clipsLimit' \in Nat
    BY <1>0, <2>1 DEF ClipsTyping
  <2> QED BY <2>1, <2>2, ClipCommandRun
<1> QED BY <1>1, <1>2, <1>3

\* What the window lets go of leaves its mark.
LEMMA ClipsLost ==
  ASSUME NEW why, Clips!Loses(why)
  PROVE  /\ clipsCauses \subseteq clipsCauses'
         /\ why \notin clipsCauses' =>
              \A x \in Clips!Ids(clipsHistory) \cap Clips!Ids(clipsStore) :
                x \in Clips!Ids(clipsHistory')
<1> DEFINE gone == (Clips!Ids(clipsHistory) \ Clips!Ids(clipsHistory')) \cap Clips!Ids(clipsStore)
<1>1. clipsCauses' = IF gone = {} THEN clipsCauses ELSE clipsCauses \cup {why}
  BY Zenon DEF Clips!Loses
<1>2. gone = {} => \A x \in Clips!Ids(clipsHistory) \cap Clips!Ids(clipsStore) :
                     x \in Clips!Ids(clipsHistory')
  OBVIOUS
<1> HIDE DEF gone
<1> QED BY <1>1, <1>2

\* An answer is shown.
LEMMA ClipAnswered ==
  ASSUME ClipsInv, NEW do, Clips!Answered(do), clipsHistory' \in Seq(Clip),
         InStep => Falling(clipsHistory', favoured),
         Clips!Ids(clipsHistory')
           \subseteq Clips!Ids(clipsHistory) \cup Clips!Ids(Head(clipsAnswers).list),
         Clips!Ids(Head(clipsAnswers).list) \subseteq Clips!Ids(clipsHistory'),
         clipsCauses \subseteq clipsCauses',
         "missed" \notin clipsCauses' /\ "cut" \notin clipsCauses' =>
           \A x \in Clips!Ids(clipsHistory) \cap Clips!Ids(clipsStore) :
             x \in Clips!Ids(clipsHistory'),
         UNCHANGED <<clipsStore, clipsLimit, emitting, clipsCalls, clipsEvents, clipsListening,
                     clipsClips, favoured>>
  PROVE  ClipsInv'
<1> DEFINE a == Head(clipsAnswers)
<1>0. ClipsTyping /\ Kept /\ ReadFirst
  BY DEF ClipsInv
<1>1. /\ clipsAnswers' \in Seq(Answer) /\ InAnswers = InAnswers' \cup Clips!Ids(a.list)
      /\ \A k \in DOMAIN clipsAnswers' : \E j \in DOMAIN clipsAnswers :
           clipsAnswers'[k] = clipsAnswers[j]
  BY <1>0, AnswerTaken
<1> HIDE DEF a
<1>2. ClipsTyping' /\ Kept' /\ ReadFirst'
  <2>1. ClipsTyping' /\ Kept'
    <3>1. Clips!Reading' => Clips!Reading
      BY ClipsPrimed DEF Clips!Reading
    <3>2. Kept'
      BY <1>0, <3>1, ClipsStand
    <3> QED BY <1>0, <1>1, <3>2 DEF ClipsTyping
  <2>2. \A k \in DOMAIN clipsAnswers' :
          clipsAnswers'[k].to.do # "get_history" => clipsAnswers'[k].list = <<>>
    BY <1>0, <1>1 DEF ReadFirst
  <2> QED BY <1>0, <2>1, <2>2 DEF ReadFirst
<1>3. ASSUME InStep PROVE InStep'
  <2>1. \A k \in DOMAIN clipsAnswers' : Falling(clipsAnswers'[k].list, favoured)
    BY <1>1, <1>3 DEF InStep
  <2>2. Clips!Ids(clipsHistory') \cup InAnswers' \subseteq Clips!Ids(clipsHistory) \cup InAnswers
    BY <1>1 DEF a
  <2> QED BY <1>3, <2>1, <2>2, ClipsPrimed DEF InStep
<1>4. ASSUME OnTheWay, "missed" \notin clipsCauses', "cut" \notin clipsCauses' PROVE OnTheWay'
  <2>1. InThreads' = InThreads
    BY ClipsPrimed DEF InThreads
  <2>2. CASE Clips!Reading
    BY <2>2, ClipsPrimed DEF Clips!Reading
  <2>3. CASE Clips!Ids(clipsStore)
               \subseteq Clips!Ids(clipsHistory) \cup InAnswers \cup Clips!Ids(clipsEvents)
                           \cup InThreads
    <3>1. \A x \in Clips!Ids(clipsStore) :
            \/ x \in Clips!Ids(clipsHistory) \/ x \in InAnswers
            \/ x \in Clips!Ids(clipsEvents) \/ x \in InThreads
      BY <2>3
    <3>2. \A x \in Clips!Ids(clipsStore) :
            \/ x \in Clips!Ids(clipsHistory') \/ x \in InAnswers'
            \/ x \in Clips!Ids(clipsEvents) \/ x \in InThreads
      BY <1>1, <1>4, <3>1 DEF a
    <3> QED BY <2>1, <3>2, ClipsPrimed
  <2> QED BY <1>4, <2>2, <2>3 DEF OnTheWay
<1> QED BY <1>2, <1>3, <1>4 DEF ClipsInv

\* The window is answered.
LEMMA ClipAnswers ==
  ASSUME ClipsInv, Clips!Listed \/ Clips!Cleared \/ Clips!Limited \/ Clips!Copied
  PROVE  ClipsInv'
<1> DEFINE a == Head(clipsAnswers)
<1>0. ClipsTyping /\ Kept /\ ReadFirst
  BY DEF ClipsInv
<1>1. Clips!Ids(<<>>) = {} /\ Falling(<<>>, favoured) /\ <<>> \in Seq(Clip)
  BY DEF Clips!Ids, Falling
<1>2. CASE Clips!Listed
  <2>1. /\ Clips!Answered("get_history") /\ clipsHistory' = a.list /\ Clips!Loses("missed")
        /\ UNCHANGED <<clipsStore, clipsLimit, emitting, clipsCalls, clipsEvents,
                       clipsListening, clipsClips, favoured>>
    BY <1>2 DEF Clips!Listed, Clips!bounds
  <2>2. a \in Answer /\ \E j \in DOMAIN clipsAnswers : a = clipsAnswers[j]
    BY <1>0, <2>1, AnswerTaken
  <2>3. clipsHistory' \in Seq(Clip) /\ (InStep => Falling(clipsHistory', favoured))
    BY <2>1, <2>2 DEF Answer, InStep
  <2>4. Clips!Ids(clipsHistory') = Clips!Ids(a.list)
    BY <2>1 DEF Clips!Ids
  <2>5. /\ clipsCauses \subseteq clipsCauses'
        /\ "missed" \notin clipsCauses' =>
             \A x \in Clips!Ids(clipsHistory) \cap Clips!Ids(clipsStore) :
               x \in Clips!Ids(clipsHistory')
    BY <2>1, ClipsLost
  <2> QED BY <2>1, <2>3, <2>4, <2>5, ClipAnswered
<1>3. CASE Clips!Cleared
  <2>1. /\ Clips!Answered("clear_history") /\ clipsHistory' = <<>> /\ Clips!Loses("missed")
        /\ UNCHANGED <<clipsStore, clipsLimit, emitting, clipsCalls, clipsEvents,
                       clipsListening, clipsClips, favoured>>
    BY <1>3 DEF Clips!Cleared, Clips!bounds
  <2>2. a.list = <<>>
    BY <1>0, <2>1, AnswerTaken
  <2>4. Clips!Ids(clipsHistory') = {} /\ Clips!Ids(a.list) = {} /\ Falling(clipsHistory', favoured)
    BY <1>1, <2>1, <2>2
  <2>5. /\ clipsCauses \subseteq clipsCauses'
        /\ "missed" \notin clipsCauses' =>
             \A x \in Clips!Ids(clipsHistory) \cap Clips!Ids(clipsStore) :
               x \in Clips!Ids(clipsHistory')
    BY <2>1, ClipsLost
  <2>6. clipsHistory' \in Seq(Clip)
    BY <1>1, <2>1
  <2> QED BY <2>1, <2>4, <2>5, <2>6, ClipAnswered
<1>4. CASE Clips!Limited
  <2>1. /\ Clips!Answered("set_history_limit")
        /\ clipsHistory' = Clips!Upto(clipsHistory, a.to.arg) /\ Clips!Loses("cut")
        /\ UNCHANGED <<clipsStore, clipsLimit, emitting, clipsCalls, clipsEvents,
                       clipsListening, clipsClips, favoured>>
    BY <1>4 DEF Clips!Limited, Clips!bounds
  <2>2. a \in Answer /\ a.list = <<>>
    BY <1>0, <2>1, AnswerTaken
  <2>3. a.to.arg \in Nat /\ clipsHistory \in Seq(Clip)
    BY <1>0, <2>2 DEF Answer, Asks, ClipsTyping
  <2>4. /\ clipsHistory' \in Seq(Clip)
        /\ Clips!Ids(clipsHistory') \subseteq Clips!Ids(clipsHistory)
        /\ Falling(clipsHistory, favoured) => Falling(clipsHistory', favoured)
    BY <2>1, <2>3, ClipsCut
  <2>5. /\ clipsCauses \subseteq clipsCauses'
        /\ "cut" \notin clipsCauses' =>
             \A x \in Clips!Ids(clipsHistory) \cap Clips!Ids(clipsStore) :
               x \in Clips!Ids(clipsHistory')
    BY <2>1, ClipsLost
  <2>6. InStep => Falling(clipsHistory', favoured)
    BY <2>4 DEF InStep
  <2>7. Clips!Ids(a.list) = {}
    BY <1>1, <2>2
  <2> QED BY <2>1, <2>4, <2>5, <2>6, <2>7, ClipAnswered
<1>5. CASE Clips!Copied
  <2>1. /\ Clips!Answered("copy_to_clipboard") /\ clipsHistory' = clipsHistory
        /\ clipsCauses' = clipsCauses
        /\ UNCHANGED <<clipsStore, clipsLimit, emitting, clipsCalls, clipsEvents,
                       clipsListening, clipsClips, favoured>>
    BY <1>5 DEF Clips!Copied, Clips!ghosts, Clips!bounds
  <2>2. a.list = <<>>
    BY <1>0, <2>1, AnswerTaken
  <2>3. /\ clipsHistory' \in Seq(Clip) /\ Clips!Ids(clipsHistory') = Clips!Ids(clipsHistory)
        /\ InStep => Falling(clipsHistory', favoured)
    BY <1>0, <2>1 DEF ClipsTyping, InStep, Clips!Ids
  <2>4. Clips!Ids(a.list) = {}
    BY <1>1, <2>2
  <2> QED BY <2>1, <2>3, <2>4, ClipAnswered
<1> QED BY <1>2, <1>3, <1>4, <1>5

\* A clip comes to the window: above the rest, each of which is older.
LEMMA ClipShown ==
  ASSUME ClipsAssumption, ClipsInv, Clips!OnClip
  PROVE  ClipsInv'
<1> DEFINE e == Head(clipsEvents)
           S == {k \in DOMAIN clipsHistory : clipsHistory[k].id # e.id}
           o == Clips!Retain(clipsHistory, S)
<1>0. ClipsTyping /\ Kept /\ ReadFirst
  BY DEF ClipsInv
<1>1. /\ clipsEvents # <<>> /\ clipsEvents' = Tail(clipsEvents) /\ Clips!Loses("cut")
      /\ clipsHistory' = Clips!Upto(<<e>> \o o, MaxKept)
      /\ UNCHANGED <<clipsStore, clipsLimit, emitting, clipsCalls, clipsAnswers, clipsListening,
                     clipsClips, favoured>>
  BY DEF Clips!OnClip, Clips!bounds, Clips!Shown, Clips!Without
<1>2. /\ clipsEvents \in Seq(Clip) /\ clipsHistory \in Seq(Clip)
      /\ MaxKept \in Nat /\ MaxKept > 0
  BY <1>0 DEF ClipsTyping, ClipsAssumption
<1>3. /\ e \in Clip /\ e = clipsEvents[1] /\ 1 \in DOMAIN clipsEvents
      /\ clipsEvents' \in Seq(Clip)
      /\ \A k \in DOMAIN clipsEvents' :
           k + 1 \in DOMAIN clipsEvents /\ clipsEvents'[k] = clipsEvents[k + 1]
      /\ \A k \in DOMAIN clipsEvents :
           k # 1 => k - 1 \in DOMAIN clipsEvents' /\ clipsEvents[k] = clipsEvents'[k - 1]
  BY <1>1, <1>2, Taken
<1>4. /\ o \in Seq(Clip) /\ Clips!Ids(o) = {clipsHistory[i].id : i \in S}
      /\ Falling(clipsHistory, favoured) => Falling(o, favoured)
  <2>1. S \in SUBSET DOMAIN clipsHistory
    OBVIOUS
  <2> HIDE DEF S
  <2> QED BY <1>2, <2>1, ClipsFiltered
<1>5. /\ Clips!Ids(o) \subseteq Clips!Ids(clipsHistory)
      /\ \A k \in DOMAIN o : o[k].id \in Clips!Ids(clipsHistory) /\ o[k].id # e.id
  <2>1. Clips!Ids(o) \subseteq Clips!Ids(clipsHistory) /\ \A x \in Clips!Ids(o) : x # e.id
    BY <1>4 DEF Clips!Ids
  <2>2. \A k \in DOMAIN o : o[k].id \in Clips!Ids(o)
    BY DEF Clips!Ids
  <2> QED BY <2>1, <2>2
<1> HIDE DEF o, S, e
<1>6. /\ clipsHistory' \in Seq(Clip)
      /\ Clips!Ids(clipsHistory') \subseteq Clips!Ids(o) \cup {e.id}
      /\ e.id \in Clips!Ids(clipsHistory')
      /\ Falling(o, favoured) /\ (\A k \in DOMAIN o : o[k].id < e.id) => Falling(clipsHistory', favoured)
  BY <1>1, <1>2, <1>3, <1>4, ClipsTopped
<1>7. ClipsTyping' /\ Kept'
  <2>1. Clips!Reading' => Clips!Reading
    BY <1>1, ClipsPrimed DEF Clips!Reading
  <2>2. Kept'
    BY <1>0, <1>1, <2>1, ClipsStand
  <2> QED BY <1>0, <1>1, <1>3, <1>6, <2>2 DEF ClipsTyping
<1>8. ReadFirst'
  <2>1. clipsListening
    BY <1>0, <1>1 DEF ReadFirst
  <2> QED BY <1>0, <1>1, <2>1 DEF ReadFirst
<1>9. InAnswers' = InAnswers /\ InThreads' = InThreads
  BY <1>1, ClipsPrimed DEF InAnswers, InThreads
<1>10. ASSUME InStep PROVE InStep'
  <2>1. \A x \in Clips!Ids(clipsHistory) \cup InAnswers : x <= e.id /\ x \in Nat
    BY <1>0, <1>3, <1>10, ClipsIds DEF InStep
  <2>2. e.id \in Nat
    BY <1>3 DEF Clip
  <2>3. \A k \in DOMAIN o : o[k].id < e.id
    BY <1>5, <2>1, <2>2
  <2>4. Falling(clipsHistory', favoured)
    BY <1>4, <1>6, <1>10, <2>3 DEF InStep
  <2>5. ASSUME NEW i \in DOMAIN clipsEvents', NEW j \in DOMAIN clipsEvents', i < j
        PROVE  clipsEvents'[i].id <= clipsEvents'[j].id
    <3>1. i \in Nat /\ j \in Nat
      BY <1>3
    <3>2. i + 1 < j + 1
      BY <2>5, <3>1
    <3> QED BY <1>3, <1>10, <3>2 DEF InStep
  <2>6. ASSUME NEW j \in DOMAIN clipsEvents' PROVE e.id <= clipsEvents'[j].id
    <3>1. j \in Nat /\ j >= 1
      BY <1>3
    <3>2. 1 < j + 1
      BY <3>1
    <3> QED BY <1>3, <1>10, <3>2 DEF InStep
  <2>7. ASSUME NEW x \in Clips!Ids(clipsHistory') \cup InAnswers, NEW j \in DOMAIN clipsEvents'
        PROVE  x <= clipsEvents'[j].id
    <3>1. CASE x \in Clips!Ids(clipsHistory) \cup InAnswers
      BY <1>3, <1>10, <3>1 DEF InStep
    <3>2. CASE x = e.id
      BY <2>6, <3>2
    <3> QED BY <1>5, <1>6, <3>1, <3>2
  <2>8. \A k \in DOMAIN clipsAnswers' : Falling(clipsAnswers'[k].list, favoured)
    BY <1>1, <1>10 DEF InStep
  <2> QED BY <1>1, <1>9, <2>4, <2>5, <2>7, <2>8, ClipsPrimed
<1>11. /\ clipsCauses \subseteq clipsCauses'
       /\ "cut" \notin clipsCauses' =>
            \A x \in Clips!Ids(clipsHistory) \cap Clips!Ids(clipsStore) :
              x \in Clips!Ids(clipsHistory')
  BY <1>1, ClipsLost
<1>12. ASSUME OnTheWay, "cut" \notin clipsCauses' PROVE OnTheWay'
  <2>1. CASE Clips!Reading
    BY <1>1, <2>1, ClipsPrimed DEF Clips!Reading
  <2>2. CASE Clips!Ids(clipsStore)
               \subseteq Clips!Ids(clipsHistory) \cup InAnswers \cup Clips!Ids(clipsEvents)
                           \cup InThreads
    <3>1. \A x \in Clips!Ids(clipsEvents) : x = e.id \/ x \in Clips!Ids(clipsEvents')
      <4>1. ASSUME NEW k \in DOMAIN clipsEvents
            PROVE  clipsEvents[k].id = e.id \/ clipsEvents[k].id \in Clips!Ids(clipsEvents')
        <5>1. CASE k = 1
          BY <1>3, <5>1
        <5>2. CASE k # 1
          BY <1>3, <5>2 DEF Clips!Ids
        <5> QED BY <5>1, <5>2
      <4> QED BY <4>1 DEF Clips!Ids
    <3>2. \A x \in Clips!Ids(clipsStore) :
            \/ x \in Clips!Ids(clipsHistory) \/ x \in InAnswers
            \/ x \in Clips!Ids(clipsEvents) \/ x \in InThreads
      BY <2>2
    <3>3. \A x \in Clips!Ids(clipsStore) :
            \/ x \in Clips!Ids(clipsHistory') \/ x \in InAnswers
            \/ x \in Clips!Ids(clipsEvents') \/ x \in InThreads
      BY <1>6, <1>11, <1>12, <3>1, <3>2
    <3> QED BY <1>1, <1>9, <3>3, ClipsPrimed
  <2> QED BY <1>12, <2>1, <2>2 DEF OnTheWay
<1> QED BY <1>7, <1>8, <1>10, <1>11, <1>12 DEF ClipsInv

\* The buttons and the slider.
LEMMA ClipsUsed ==
  ASSUME ClipsInv, NEW do \in {"clear_history", "set_history_limit", "copy_to_clipboard"},
         NEW arg \in Nat, Clips!Use(do, arg)
  PROVE  ClipsInv'
<1>0. ClipsTyping /\ Kept /\ ReadFirst
  BY DEF ClipsInv
<1> DEFINE c == Clips!Call(do, arg)
           n == Len(clipsCalls) + 1
<1>1. /\ clipsCalls' = Append(clipsCalls, c) /\ clipsCalls \in Seq(Asks)
      /\ UNCHANGED <<clipsStore, clipsLimit, emitting, clipsAnswers, clipsEvents, clipsListening,
                     clipsHistory, clipsCauses, clipsClips, favoured>>
  BY <1>0 DEF Clips!Use, Clips!window, Clips!ghosts, ClipsTyping
<1>2. c \in Asks /\ c.do # "get_history"
  BY DEF Clips!Call, Asks
<1> HIDE DEF c
<1>3. /\ clipsCalls' \in Seq(Asks) /\ DOMAIN clipsCalls' = DOMAIN clipsCalls \cup {n}
      /\ clipsCalls'[n] = c
      /\ \A k \in DOMAIN clipsCalls : clipsCalls'[k] = clipsCalls[k]
  BY <1>1, <1>2, Added
<1> HIDE DEF n
<1>4. ClipsTyping' /\ Kept' /\ (Clips!Reading' <=> Clips!Reading)
  <2>1. Clips!Reading' <=> Clips!Reading
    BY <1>2, <1>3, ClipsPrimed DEF Clips!Reading
  <2>2. Kept'
    BY <1>0, <1>1, <2>1, ClipsStand
  <2> QED BY <1>0, <1>1, <1>3, <2>1, <2>2 DEF ClipsTyping
<1>5. ReadFirst'
  <2>1. \A i \in DOMAIN clipsCalls' :
          clipsCalls'[i].do = "get_history" => i = 1 /\ ~clipsListening
    BY <1>0, <1>2, <1>3 DEF ReadFirst
  <2> QED BY <1>0, <1>1, <2>1 DEF ReadFirst
<1>6. InStep => InStep'
  BY <1>1, ClipsPrimed DEF InStep, InAnswers
<1>7. OnTheWay => OnTheWay'
  <2>1. InAnswers' = InAnswers /\ InThreads' = InThreads
    BY <1>1, ClipsPrimed DEF InAnswers, InThreads
  <2> QED BY <1>1, <1>4, <2>1, ClipsPrimed DEF OnTheWay
<1> QED BY <1>1, <1>4, <1>5, <1>6, <1>7 DEF ClipsInv

\* A step that changes nothing.
LEMMA ClipsSame ==
  ASSUME ClipsInv,
         UNCHANGED <<clipsStore, clipsLimit, emitting, clipsCalls, clipsAnswers, clipsEvents,
                     clipsListening, clipsHistory, clipsCauses, clipsClips, favoured>>
  PROVE  ClipsInv'
<1>1. ClipsTyping' /\ Kept' /\ ReadFirst'
  <2>1. Clips!Reading' <=> Clips!Reading
    BY ClipsPrimed DEF Clips!Reading
  <2>2. Kept'
    BY <2>1, ClipsStand DEF ClipsInv
  <2> QED BY <2>2 DEF ClipsInv, ClipsTyping, ReadFirst
<1>2. InStep => InStep'
  BY ClipsPrimed DEF InStep, InAnswers
<1>3. OnTheWay => OnTheWay'
  <2>1. InAnswers' = InAnswers /\ InThreads' = InThreads
    BY ClipsPrimed DEF InAnswers, InThreads
  <2> QED BY <2>1, ClipsPrimed DEF OnTheWay, Clips!Reading
<1> QED BY <1>1, <1>2, <1>3 DEF ClipsInv

\* Every step of the tab and of the backend keeps the invariant.
LEMMA ClipsFollow ==
  ASSUME ClipsAssumption, ClipsInv, [Clips!Next]_(Clips!vars)
  PROVE  ClipsInv'
<1>1. ASSUME NEW r \in Thread, Clips!Emit(r) PROVE ClipsInv'
  BY <1>1, ClipEmitted
<1>2. ASSUME NEW r \in Thread, NEW t \in Word, Clips!Record(r, t) PROVE ClipsInv'
  BY <1>2, ClipRecorded
<1>3. ASSUME NEW id \in 1 .. clipsClips, Clips!DeleteElsewhere(id) PROVE ClipsInv'
  BY <1>3, ClipDeleted
<1>14. ASSUME NEW id \in 1 .. clipsClips, NEW pin \in BOOLEAN, Clips!PinElsewhere(id, pin)
       PROVE  ClipsInv'
  BY <1>14, ClipPinned
<1>4. ASSUME NEW id \in 1 .. clipsClips, Clips!CopyBack(id) PROVE ClipsInv'
  BY <1>4, ClipsUsed DEF Clips!CopyBack
<1>5. CASE Clips!RunRead
  BY <1>5, ClipsAreRead
<1>6. CASE Clips!RunListen
  BY <1>6, ClipsListened
<1>7. CASE Clips!RunClear \/ Clips!RunLimit \/ Clips!RunCopy
  BY <1>7, ClipCommands
<1>8. CASE Clips!Listed \/ Clips!Cleared \/ Clips!Limited \/ Clips!Copied
  BY <1>8, ClipAnswers
<1>9. CASE Clips!OnClip
  BY <1>9, ClipShown
<1>10. CASE Clips!CopiedOver
  BY <1>10, ClipsSame DEF Clips!CopiedOver, Clips!link, Clips!ghosts, Clips!bounds
<1>11. CASE Clips!ClearHistory
  BY <1>11, ClipsUsed DEF Clips!ClearHistory
<1>12. ASSUME NEW n \in Slider, Clips!ChangeHistoryLimit(n) PROVE ClipsInv'
  BY <1>12, ClipsUsed DEF Clips!ChangeHistoryLimit, ClipsAssumption
<1>13. CASE UNCHANGED Clips!vars
  BY <1>13, ClipsSame DEF Clips!vars, Clips!link, Clips!window, Clips!ghosts, Clips!bounds
<1> QED BY <1>1, <1>2, <1>3, <1>4, <1>5, <1>6, <1>7, <1>8, <1>9, <1>10, <1>11, <1>12, <1>13,
           <1>14
        DEF Clips!Next

\* The window asks for the list, and for the events.
LEMMA ClipsStart ==
  ASSUME ClipsAssumption, Clips!Init
  PROVE  ClipsInv
<1>1. /\ clipsStore \in Loaded /\ clipsLimit \in Slider
      /\ emitting = [r \in Thread |-> Clips!NoClip]
      /\ clipsCalls = <<Clips!Call("get_history", 0), Clips!Call("listen", 0)>>
      /\ clipsAnswers = <<>> /\ clipsEvents = <<>> /\ clipsListening = FALSE
      /\ clipsHistory = <<>> /\ clipsClips = Len(clipsStore)
      /\ Clips!Falling(clipsStore, favoured) /\ Known
  BY DEF Clips!Init, Known
<1>2. Clips!Call("get_history", 0) \in Asks /\ Clips!Call("listen", 0) \in Asks
      /\ Clips!Call("get_history", 0).do = "get_history"
      /\ Clips!Call("listen", 0).do # "get_history"
  BY DEF Clips!Call, Asks
<1>3. clipsCalls \in Seq(Asks) /\ DOMAIN clipsCalls = {1, 2}
  BY <1>1, <1>2
<1>9. /\ clipsStore \in Seq(Clip) /\ Len(clipsStore) \in Nat
      /\ \A k \in DOMAIN clipsStore : clipsStore[k].id <= Len(clipsStore)
  <2> DEFINE n == Len(clipsStore)
             E == [id : 1 .. n, text : Word, pinned : BOOLEAN]
  <2>1. clipsStore \in Seq(E)
    BY <1>1 DEF ClipsAssumption
  <2> HIDE DEF E
  <2>2. n \in Nat /\ DOMAIN clipsStore = 1 .. n /\ clipsStore \in [1 .. n -> E]
    BY <2>1
  <2> HIDE DEF n
  <2>3. E \subseteq Clip /\ \A e \in E : e.id <= n
    BY <2>2 DEF Clip, E
  <2>4. \A k \in DOMAIN clipsStore : clipsStore[k] \in E
    BY <2>2
  <2>5. \A k \in DOMAIN clipsStore : clipsStore[k].id <= n
    BY <2>3, <2>4
  <2>6. clipsStore \in Seq(Clip)
    BY <2>2, <2>3, SeqDef
  <2> QED BY <2>2, <2>5, <2>6 DEF n
<1>4. ClipsTyping
  <2>1. /\ clipsStore \in Seq(Clip) /\ clipsEvents \in Seq(Clip) /\ clipsHistory \in Seq(Clip)
        /\ clipsAnswers \in Seq(Answer)
    BY <1>1, <1>9
  <2>2. emitting \in [Thread -> Clip \cup {Clips!NoClip}]
    BY <1>1
  <2>3. clipsLimit \in Nat /\ clipsClips \in Nat /\ clipsListening \in BOOLEAN
    BY <1>1, <1>9 DEF ClipsAssumption
  <2> QED BY <1>3, <2>1, <2>2, <2>3 DEF ClipsTyping
<1>5. Kept
  BY <1>1, <1>9 DEF Kept, Falling, Clips!Falling
<1>6. ReadFirst
  <2>1. \A i \in DOMAIN clipsCalls : clipsCalls[i].do = "get_history" => i = 1
    BY <1>1, <1>2, <1>3
  <2> QED BY <1>1, <2>1 DEF ReadFirst
<1>7. InStep
  BY <1>1 DEF InStep, Falling
<1>8. OnTheWay
  BY <1>1, <1>2, <1>3 DEF OnTheWay, Clips!Reading
<1> QED BY <1>4, <1>5, <1>6, <1>7, <1>8 DEF ClipsInv

\* The tab follows the backend's list.
LEMMA ClipsAlone ==
  ASSUME ClipsAssumption
  PROVE  Clips!Spec => []Clips!ClipsHonest
<1>1. Clips!Init => ClipsInv
  BY ClipsStart
<1>2. ClipsInv /\ [Clips!Next]_(Clips!vars) => ClipsInv'
  BY ClipsFollow
<1>3. ClipsInv => Clips!ClipsHonest
  <2> SUFFICES ASSUME ClipsInv PROVE Clips!ClipsHonest
    OBVIOUS
  <2>1. Clips!NewestFirst
    BY DEF ClipsInv, InStep, Falling, Clips!NewestFirst, Clips!Falling
  <2>2. ASSUME Clips!Announced, clipsCalls = <<>>, clipsAnswers = <<>>,
               clipsCauses \cap {"missed", "cut"} = {}
        PROVE  Clips!Ids(clipsStore) \subseteq Clips!Ids(clipsHistory)
    <3>1. OnTheWay
      BY <2>2 DEF ClipsInv
    <3>2. InAnswers = {} /\ Clips!Ids(clipsEvents) = {}
      BY <2>2 DEF Clips!Announced, InAnswers, Clips!Ids
    <3>3. Clips!Ids(clipsStore) \subseteq Clips!Ids(clipsHistory) \cup InThreads
      BY <2>2, <3>1, <3>2 DEF OnTheWay, Clips!Reading
    <3>4. \A x \in InThreads : x = 0
      BY <2>2 DEF Clips!Announced, InThreads, Clips!NoClip
    <3>5. \A x \in Clips!Ids(clipsStore) : x # 0
      <4>1. \A k \in DOMAIN clipsStore : clipsStore[k] \in Clip
        BY DEF ClipsInv, ClipsTyping
      <4> QED BY <4>1 DEF Clips!Ids, Clip
    <3> QED BY <3>3, <3>4, <3>5
  <2>3. Clips!NothingMissing
    BY <2>2 DEF Clips!NothingMissing
  <2> QED BY <2>1, <2>3 DEF Clips!ClipsHonest
<1> QED BY <1>1, <1>2, <1>3, PTL DEF Clips!Spec

------------------------------------------------------------------------------
(* The quick panel *)

\* A row, what the panel asks, what it is answered, and what it is told.
Row == [id : Nat, text : Word, pinned : BOOLEAN]
Request ==
  [do : {"get_history", "pin_entry", "unpin_entry", "delete_entry", "paste_from_overlay"},
   id : Nat]
Reply == [to : Request, list : Seq(Row), clips : Nat]
Told == [name : {"clip"}, entry : Row] \cup [name : {"focus"}]

PanelTyping ==
  /\ overlayStore \in Seq(Row) /\ overlayHistory \in Seq(Row)
  /\ overlayCalls \in Seq(Request) /\ overlayAnswers \in Seq(Reply)
  /\ overlayEvents \in Seq(Told)
  /\ cursor \in Int /\ overlayClips \in Nat
  /\ query \in BOOLEAN /\ clean \in BOOLEAN /\ mixed \in BOOLEAN /\ below \in BOOLEAN
  /\ \A k \in DOMAIN overlayAnswers : overlayAnswers[k].clips <= overlayClips

\* A list without the entries of D, and those that the answers after k delete.
Less(q, D) == Retain(q, {k \in DOMAIN q : q[k].id \notin D})
Deletes(a, k) ==
  {a[j].to.id : j \in {i \in DOMAIN a : k < i /\ a[i].to.do = "delete_entry"}}

\* After the n-th answer, none tells of the list, or asks to read it.
Silent(a, n) ==
  \A j \in DOMAIN a : n < j => a[j].to.do \notin {"get_history", "pin_entry", "unpin_entry"}
\* What the answers a leave to know: the list is read again, or the last that was
\* read is the one of the backend, but for what is deleted since.
Leads(a, store, list, clips, cleanly) ==
  \/ \E k \in DOMAIN a : /\ Silent(a, k)
                         /\ a[k].to.do \in {"pin_entry", "unpin_entry"}
  \/ \E k \in DOMAIN a : /\ Silent(a, k)
                         /\ a[k].to.do = "get_history"
                         /\ a[k].clips = clips => store = Less(a[k].list, Deletes(a, k))
  \/ Silent(a, 0) /\ (cleanly => store = Less(list, Deletes(a, 0)))
Asked(c) == \E i \in DOMAIN c : c[i].do = "get_history"

PinsFirst(q) == \A i, j \in DOMAIN q : i < j /\ q[j].pinned => q[i].pinned
WithinRows == ~below => cursor = 0 \/ (0 <= cursor /\ cursor < Len(Panel!results))

UpToDate ==
  \/ Asked(overlayCalls)
  \/ Leads(overlayAnswers, overlayStore, overlayHistory, overlayClips, clean)

PanelInv ==
  /\ PanelTyping
  /\ UpToDate
  /\ ~mixed => PinsFirst(overlayStore)
  /\ WithinRows

\* The panel's operators on lists are the ones above.
LEMMA PanelRetain ==
  ASSUME NEW q, NEW S PROVE Panel!Retain(q, S) = Retain(q, S)
BY Zenon DEF Panel!Retain, Retain, Panel!Rank, Rank, Panel!Cardinality, Cardinality

\* Pinned entries stay first in what is retained.
LEMMA PinsStayFirst ==
  ASSUME NEW q \in Seq(Row), NEW S \in SUBSET (DOMAIN q)
  PROVE  /\ Retain(q, S) \in Seq(Row)
         /\ PinsFirst(q) => PinsFirst(Retain(q, S))
<1>1. Retain(q, S) \in Seq(Row)
  BY RetainedSteps
<1>2. \A i, j \in DOMAIN Retain(q, S) : i < j =>
        \E c, d \in S : c < d /\ Retain(q, S)[i] = q[c] /\ Retain(q, S)[j] = q[d]
  BY RetainedSteps
<1>3. PinsFirst(q) => PinsFirst(Retain(q, S))
  BY <1>2 DEF PinsFirst
<1> QED BY <1>1, <1>3

\* And where a pinned entry goes on top.
LEMMA PinOnTop ==
  ASSUME NEW q \in Seq(Row), NEW e \in Row
  PROVE  /\ <<e>> \o q \in Seq(Row)
         /\ PinsFirst(q) /\ e.pinned => PinsFirst(<<e>> \o q)
<1> DEFINE one == <<e>>
           r == one \o q
<1>1. one \in Seq(Row) /\ Len(one) = 1 /\ one[1] = e /\ Len(q) \in Nat /\ DOMAIN q = 1 .. Len(q)
  OBVIOUS
<1> HIDE DEF one
<1>2. /\ r \in Seq(Row) /\ Len(r) = Len(one) + Len(q)
      /\ \A i \in 1 .. Len(one) + Len(q) : r[i] = IF i <= Len(one) THEN one[i] ELSE q[i - Len(one)]
  BY <1>1, ConcatProperties
<1> HIDE DEF r
<1>3. DOMAIN r = 1 .. 1 + Len(q) /\ r[1] = e
      /\ \A i \in DOMAIN r : i # 1 => i - 1 \in DOMAIN q /\ r[i] = q[i - 1]
  BY <1>1, <1>2
<1>4. ASSUME PinsFirst(q), e.pinned, NEW i \in DOMAIN r, NEW j \in DOMAIN r, i < j, r[j].pinned
      PROVE  r[i].pinned
  <2>1. i \in Nat /\ j \in Nat /\ j # 1
    BY <1>1, <1>3, <1>4
  <2>2. CASE i = 1
    BY <1>3, <1>4, <2>2
  <2>3. CASE i # 1
    <3>1. i - 1 \in DOMAIN q /\ j - 1 \in DOMAIN q /\ i - 1 < j - 1
      BY <1>3, <1>4, <2>1, <2>3
    <3> QED BY <1>3, <1>4, <2>1, <2>3, <3>1 DEF PinsFirst
  <2> QED BY <2>2, <2>3
<1> QED BY <1>2, <1>4 DEF PinsFirst, r, one

\* An entry without a pin is put below the pins, if there is one that has none.
LEMMA BelowThePins ==
  ASSUME NEW q \in Seq(Row), NEW e \in Row
  PROVE  /\ Panel!Below(q, e) \in Seq(Row)
         /\ PinsFirst(q) /\ ~e.pinned /\ ~Panel!AllPinned(q) => PinsFirst(Panel!Below(q, e))
<1> DEFINE I == {i \in DOMAIN q : ~q[i].pinned}
           p == IF I = {} THEN 1 ELSE Min(I)
           r == InsertAt(q, p, e)
<1>1. Panel!Below(q, e) = r
  <2>1. \A S : Panel!Foremost(S) = Min(S)
    BY DEF Panel!Foremost, Min
  <2> QED BY <2>1 DEF Panel!Below, InsertAt
<1>2. Len(q) \in Nat /\ DOMAIN q = 1 .. Len(q) /\ I \in SUBSET Nat
  OBVIOUS
<1>3. I # {} => Min(I) \in I /\ p = Min(I)
  <2>1. ASSUME I # {} PROVE Min(I) \in I
    <3> HIDE DEF I
    <3> QED BY <1>2, <2>1, MinLeast
  <2> QED BY <2>1
<1>4. I = {} => p = 1
  OBVIOUS
<1>5. p \in 1 .. Len(q) + 1 /\ (I # {} => ~q[p].pinned /\ p \in DOMAIN q)
  BY <1>2, <1>3, <1>4
<1>6. /\ r \in Seq(Row) /\ Len(r) = Len(q) + 1 /\ r[p] = e
      /\ \A j \in 1 .. Len(q) + 1 : j # p => r[j] = q[IF j < p THEN j ELSE j - 1]
  <2> HIDE DEF p
  <2> QED BY <1>5, Inserted
<1> HIDE DEF p, r
<1>7. DOMAIN r = 1 .. Len(q) + 1
  BY <1>6
<1>8. ASSUME PinsFirst(q), ~e.pinned, I # {},
             NEW i \in DOMAIN r, NEW j \in DOMAIN r, i < j, r[j].pinned
      PROVE  r[i].pinned
  <2>1. i \in 1 .. Len(q) + 1 /\ j \in 1 .. Len(q) + 1 /\ p \in 1 .. Len(q) + 1
    BY <1>5, <1>7
  <2>2. j # p
    BY <1>6, <1>8
  <2>3. j < p
    <3> SUFFICES ASSUME ~(j < p) PROVE FALSE
      OBVIOUS
    <3>1. j - 1 \in DOMAIN q /\ p <= j - 1 /\ r[j] = q[j - 1]
      BY <1>2, <1>6, <2>1, <2>2
    <3>2. p = j - 1 \/ p < j - 1
      BY <2>1, <3>1
    <3> QED BY <1>5, <1>8, <3>1, <3>2 DEF PinsFirst
  <2>4. r[i] = q[i] /\ r[j] = q[j] /\ i \in DOMAIN q /\ j \in DOMAIN q
    BY <1>2, <1>6, <1>8, <2>1, <2>3
  <2> QED BY <1>8, <2>4 DEF PinsFirst
<1>9. ASSUME I = {}, ~Panel!AllPinned(q) PROVE PinsFirst(r)
  <2>1. q = <<>>
    BY <1>2, <1>9 DEF Panel!AllPinned
  <2>2. DOMAIN r = {1}
    BY <1>7, <2>1
  <2> QED BY <2>2 DEF PinsFirst
<1>10. ASSUME PinsFirst(q), ~e.pinned, I # {} PROVE PinsFirst(r)
  BY <1>8, <1>10 DEF PinsFirst
<1> QED BY <1>1, <1>6, <1>9, <1>10, SMTT(60)

\* Without some, and without others.
LEMMA LessTwice ==
  ASSUME NEW q \in Seq(Row), NEW D, NEW E
  PROVE  /\ Less(q, D) \in Seq(Row)
         /\ Less(Less(q, D), E) = Less(q, D \cup E)
<1> DEFINE S == {k \in DOMAIN q : q[k].id \notin D}
           r == Retain(q, S)
           T == {k \in DOMAIN r : r[k].id \notin E}
           U == {k \in DOMAIN q : q[k].id \notin D \cup E}
           V == {Place(S, k) : k \in T}
<1>1. S \in SUBSET DOMAIN q
  OBVIOUS
<1>2. T \in SUBSET DOMAIN r
  OBVIOUS
<1> HIDE DEF S
<1>3. /\ r \in Seq(Row) /\ DOMAIN r = 1 .. Cardinality(S)
      /\ \A k \in DOMAIN r : Place(S, k) \in S /\ r[k] = q[Place(S, k)]
      /\ \A i \in S : \E k \in DOMAIN r : Place(S, k) = i
  <2>1. r \in Seq(Row) /\ Len(r) = Cardinality(S)
    BY <1>1, Retained
  <2>2. DOMAIN r = 1 .. Cardinality(S)
    BY <2>1
  <2>3. /\ \A k \in 1 .. Cardinality(S) : Place(S, k) \in S /\ r[k] = q[Place(S, k)]
        /\ \A i \in S : \E k \in 1 .. Cardinality(S) : Place(S, k) = i
    BY <1>1, Retained
  <2> QED BY <2>1, <2>2, <2>3
<1>4. Retain(r, T) = Retain(q, V)
  <2> HIDE DEF T
  <2> QED BY <1>1, <1>2, RetainedTwice
<1> HIDE DEF r
<1>5. V = U
  <2>1. \A x \in V : x \in U
    BY <1>3 DEF S
  <2>2. \A x \in U : x \in V
    <3>1. \A x \in U : x \in S
      BY DEF S
    <3> QED BY <1>3, <3>1
  <2> QED BY <2>1, <2>2
<1>6. Less(q, D) = r /\ Less(r, E) = Retain(r, T) /\ Less(q, D \cup E) = Retain(q, U)
  BY DEF Less, r, S
<1> QED BY <1>3, <1>4, <1>5, <1>6

\* Less nothing, a list is itself.
LEMMA LessNone ==
  ASSUME NEW q \in Seq(Row) PROVE Less(q, {}) = q
<1>1. {k \in DOMAIN q : q[k].id \notin {}} = DOMAIN q
  OBVIOUS
<1> QED BY <1>1, RetainedAll DEF Less

\* The two filters of the panel that name an entry.
LEMMA PanelWithout ==
  ASSUME NEW q \in Seq(Row), NEW id
  PROVE  Panel!Without(q, id) = Less(q, {id})
<1>1. {k \in DOMAIN q : q[k].id # id} = {k \in DOMAIN q : q[k].id \notin {id}}
  OBVIOUS
<1> QED BY <1>1, PanelRetain DEF Panel!Without, Less

\* The same of the next state.
LEMMA PanelPrimed ==
  /\ UpToDate' <=>
       \/ Asked(overlayCalls')
       \/ Leads(overlayAnswers', overlayStore', overlayHistory', overlayClips', clean')
  /\ PinsFirst(overlayStore)' <=> PinsFirst(overlayStore')
  /\ WithinRows' <=>
       (~below' => \/ cursor' = 0
                   \/ 0 <= cursor' /\ cursor' < Len(Panel!Results(overlayHistory', query')))
<1>1. Asked(overlayCalls)' <=> Asked(overlayCalls')
  OBVIOUS
<1>2. PinsFirst(overlayStore)' <=> PinsFirst(overlayStore')
  OBVIOUS
<1>3. Leads(overlayAnswers, overlayStore, overlayHistory, overlayClips, clean)'
        <=> Leads(overlayAnswers', overlayStore', overlayHistory', overlayClips', clean')
  OBVIOUS
<1>4. Panel!Results(overlayHistory, query)' = Panel!Results(overlayHistory', query')
  OBVIOUS
<1> QED BY <1>1, <1>2, <1>3, <1>4 DEF UpToDate, WithinRows, Panel!results

\* An answer more: what it tells, and what it deletes.
LEMMA OneMoreAnswer ==
  ASSUME NEW a \in Seq(Reply), NEW e \in Reply, NEW k \in 0 .. Len(a)
  PROVE  LET b == Append(a, e) IN
         /\ Silent(b, k) <=> /\ Silent(a, k)
                            /\ e.to.do \notin {"get_history", "pin_entry", "unpin_entry"}
         /\ e.to.do = "delete_entry" => Deletes(b, k) = Deletes(a, k) \cup {e.to.id}
         /\ e.to.do # "delete_entry" => Deletes(b, k) = Deletes(a, k)
<1> DEFINE b == Append(a, e)
           n == Len(a) + 1
<1>1. /\ DOMAIN b = DOMAIN a \cup {n} /\ b[n] = e
      /\ \A i \in DOMAIN a : b[i] = a[i]
  BY Added
<1>2. k < n
  OBVIOUS
<1>3. n \notin DOMAIN a
  OBVIOUS
<1> HIDE DEF b, n
<1>4. Silent(b, k) <=> /\ Silent(a, k)
                       /\ e.to.do \notin {"get_history", "pin_entry", "unpin_entry"}
  BY <1>1, <1>2 DEF Silent
<1>5. \A i \in DOMAIN a : i \in DOMAIN b /\ b[i] = a[i]
  BY <1>1
<1>6. ASSUME e.to.do = "delete_entry" PROVE Deletes(b, k) = Deletes(a, k) \cup {e.to.id}
  <2>1. \A x \in Deletes(b, k) : x \in Deletes(a, k) \cup {e.to.id}
    BY <1>1 DEF Deletes
  <2>2. \A x \in Deletes(a, k) : x \in Deletes(b, k)
    BY <1>5 DEF Deletes
  <2>3. e.to.id \in Deletes(b, k)
    BY <1>1, <1>2, <1>6 DEF Deletes
  <2> QED BY <2>1, <2>2, <2>3
<1>7. ASSUME e.to.do # "delete_entry" PROVE Deletes(b, k) = Deletes(a, k)
  <2>1. \A x \in Deletes(b, k) : x \in Deletes(a, k)
    BY <1>1, <1>7 DEF Deletes
  <2>2. \A x \in Deletes(a, k) : x \in Deletes(b, k)
    BY <1>5 DEF Deletes
  <2> QED BY <2>1, <2>2
<1> QED BY <1>4, <1>6, <1>7 DEF b

\* An answer less.
LEMMA OneAnswerLess ==
  ASSUME NEW a \in Seq(Reply), a # <<>>, NEW k \in DOMAIN Tail(a) \cup {0}
  PROVE  /\ Silent(Tail(a), k) <=> Silent(a, k + 1)
         /\ Deletes(Tail(a), k) = Deletes(a, k + 1)
<1> DEFINE b == Tail(a)
<1>1. /\ b \in Seq(Reply)
      /\ \A j \in DOMAIN b : j + 1 \in DOMAIN a /\ b[j] = a[j + 1]
      /\ \A j \in DOMAIN a : j # 1 => j - 1 \in DOMAIN b /\ a[j] = b[j - 1]
  BY Taken
<1> HIDE DEF b
<1>2. k \in Nat
  BY <1>1 DEF b
<1>3. \A j \in DOMAIN b : j \in Nat /\ (k < j <=> k + 1 < j + 1)
  BY <1>1, <1>2
<1>4. \A j \in DOMAIN a : j \in Nat /\ (k + 1 < j => j # 1 /\ k < j - 1)
  BY <1>2
<1>5. Silent(b, k) <=> Silent(a, k + 1)
  BY <1>1, <1>3, <1>4 DEF Silent
<1>6. Deletes(b, k) = Deletes(a, k + 1)
  <2>1. \A x \in Deletes(b, k) : x \in Deletes(a, k + 1)
    BY <1>1, <1>3 DEF Deletes
  <2>2. \A x \in Deletes(a, k + 1) : x \in Deletes(b, k)
    BY <1>1, <1>4 DEF Deletes
  <2> QED BY <2>1, <2>2
<1> QED BY <1>5, <1>6 DEF b

\* The first answer of all.
LEMMA FirstAnswer ==
  ASSUME NEW a \in Seq(Reply), a # <<>>
  PROVE  LET x == Head(a) IN
         /\ x \in Reply /\ x = a[1]
         /\ Silent(a, 0) <=> /\ Silent(Tail(a), 0)
                            /\ x.to.do \notin {"get_history", "pin_entry", "unpin_entry"}
         /\ x.to.do = "delete_entry" => Deletes(a, 0) = {x.to.id} \cup Deletes(Tail(a), 0)
         /\ x.to.do # "delete_entry" => Deletes(a, 0) = Deletes(Tail(a), 0)
<1> DEFINE b == Tail(a)
           x == Head(a)
<1>1. /\ x \in Reply /\ x = a[1] /\ 1 \in DOMAIN a
      /\ b \in Seq(Reply)
      /\ \A j \in DOMAIN b : j + 1 \in DOMAIN a /\ b[j] = a[j + 1]
      /\ \A j \in DOMAIN a : j # 1 => j - 1 \in DOMAIN b /\ a[j] = b[j - 1]
  BY Taken
<1> HIDE DEF b, x
<1>2. \A j \in DOMAIN a : j \in Nat /\ 0 < j
  OBVIOUS
<1>3. \A j \in DOMAIN b : j \in Nat /\ 0 < j /\ 0 < j + 1
  BY <1>1
<1>4. Silent(a, 0) <=> /\ Silent(b, 0)
                       /\ x.to.do \notin {"get_history", "pin_entry", "unpin_entry"}
  BY <1>1, <1>2, <1>3 DEF Silent
<1>5. \A y \in Deletes(b, 0) : y \in Deletes(a, 0)
  BY <1>1, <1>3 DEF Deletes
<1>6. \A y \in Deletes(a, 0) : y \in Deletes(b, 0) \/ (x.to.do = "delete_entry" /\ y = x.to.id)
  <2>1. ASSUME NEW j \in DOMAIN a, a[j].to.do = "delete_entry"
        PROVE  a[j].to.id \in Deletes(b, 0) \/ (x.to.do = "delete_entry" /\ a[j].to.id = x.to.id)
    <3>1. CASE j = 1
      BY <1>1, <2>1, <3>1
    <3>2. CASE j # 1
      <4>1. j - 1 \in DOMAIN b /\ a[j] = b[j - 1] /\ 0 < j - 1
        BY <1>1, <1>3, <3>2
      <4> QED BY <2>1, <4>1 DEF Deletes
    <3> QED BY <3>1, <3>2
  <2> QED BY <2>1 DEF Deletes
<1>7. x.to.do = "delete_entry" => x.to.id \in Deletes(a, 0)
  BY <1>1, <1>2 DEF Deletes
<1>8. ASSUME x.to.do = "delete_entry" PROVE Deletes(a, 0) = {x.to.id} \cup Deletes(b, 0)
  BY <1>5, <1>6, <1>7, <1>8
<1>9. ASSUME x.to.do # "delete_entry" PROVE Deletes(a, 0) = Deletes(b, 0)
  BY <1>5, <1>6, <1>9
<1> QED BY <1>1, <1>4, <1>8, <1>9 DEF b, x

\* An answer is given: one that is about the list, or the list itself.
LEMMA AnswerLeads ==
  ASSUME NEW a \in Seq(Reply), NEW e \in Reply, NEW store \in Seq(Row), NEW list,
         NEW n, NEW cleanly, e.to.do = "get_history" => e.list = store,
         e.to.do \in {"get_history", "pin_entry", "unpin_entry"}
  PROVE  Leads(Append(a, e), store, list, n, cleanly)
<1> DEFINE b == Append(a, e)
           k == Len(a) + 1
<1>1. DOMAIN b = DOMAIN a \cup {k} /\ b[k] = e /\ \A j \in DOMAIN b : ~(k < j)
  <2>1. /\ DOMAIN b = DOMAIN a \cup {k} /\ b[k] = e
        /\ \A j \in DOMAIN a : b[j] = a[j] /\ j < k
    BY Added
  <2>2. \A j \in DOMAIN a : ~(k < j)
    OBVIOUS
  <2> QED BY <2>1, <2>2
<1> HIDE DEF b, k
<1>2. Silent(b, k) /\ Deletes(b, k) = {} /\ k \in DOMAIN b
  BY <1>1 DEF Silent, Deletes
<1>3. CASE e.to.do \in {"pin_entry", "unpin_entry"}
  BY <1>1, <1>2, <1>3 DEF Leads, b
<1>4. CASE e.to.do = "get_history"
  <2>1. store = Less(e.list, Deletes(b, k))
    BY <1>2, <1>4, LessNone
  <2> QED BY <1>1, <1>2, <1>4, <2>1 DEF Leads, b
<1> QED BY <1>3, <1>4

\* An answer is given to a paste, or to a deletion that is done.
LEMMA AnswerLeadsOn ==
  ASSUME NEW a \in Seq(Reply), NEW e \in Reply, NEW store \in Seq(Row), NEW list \in Seq(Row),
         NEW n, NEW cleanly, NEW after, Leads(a, store, list, n, cleanly),
         \/ e.to.do = "paste_from_overlay" /\ after = store
         \/ e.to.do = "delete_entry" /\ after = Less(store, {e.to.id})
  PROVE  Leads(Append(a, e), after, list, n, cleanly)
<1> DEFINE b == Append(a, e)
<1>1. /\ \A j \in DOMAIN a : j \in DOMAIN b /\ b[j] = a[j] /\ j \in 0 .. Len(a)
      /\ \A j \in DOMAIN a : a[j] \in Reply
  <2>1. \A j \in DOMAIN a : j \in DOMAIN b /\ b[j] = a[j]
    BY Added
  <2> QED BY <2>1
<1>2. 0 \in 0 .. Len(a)
  OBVIOUS
<1>3. e.to.do \notin {"get_history", "pin_entry", "unpin_entry"}
  OBVIOUS
<1>4. ASSUME NEW k \in 0 .. Len(a), Silent(a, k) PROVE Silent(b, k)
  BY <1>3, <1>4, OneMoreAnswer
<1>5. ASSUME NEW k \in 0 .. Len(a), NEW q \in Seq(Row), store = Less(q, Deletes(a, k))
      PROVE  after = Less(q, Deletes(b, k))
  <2>1. CASE e.to.do = "paste_from_overlay"
    <3>1. Deletes(b, k) = Deletes(a, k)
      <4>1. e.to.do # "delete_entry"
        BY <2>1
      <4> QED BY <4>1, OneMoreAnswer
    <3> QED BY <1>5, <2>1, <3>1
  <2>2. CASE e.to.do = "delete_entry"
    <3>1. Deletes(b, k) = Deletes(a, k) \cup {e.to.id}
      BY <2>2, OneMoreAnswer
    <3>2. Less(Less(q, Deletes(a, k)), {e.to.id}) = Less(q, Deletes(a, k) \cup {e.to.id})
      BY LessTwice
    <3> QED BY <1>5, <2>2, <3>1, <3>2
  <2> QED BY <2>1, <2>2
<1> HIDE DEF b
<1>6. CASE \E k \in DOMAIN a : Silent(a, k) /\ a[k].to.do \in {"pin_entry", "unpin_entry"}
  <2>1. \E k \in DOMAIN b : Silent(b, k) /\ b[k].to.do \in {"pin_entry", "unpin_entry"}
    BY <1>1, <1>4, <1>6
  <2> QED BY <2>1 DEF Leads, b
<1>7. CASE \E k \in DOMAIN a : /\ Silent(a, k) /\ a[k].to.do = "get_history"
                               /\ a[k].clips = n => store = Less(a[k].list, Deletes(a, k))
  <2>1. PICK k \in DOMAIN a : /\ Silent(a, k) /\ a[k].to.do = "get_history"
                              /\ a[k].clips = n => store = Less(a[k].list, Deletes(a, k))
    BY <1>7
  <2>2. a[k].list \in Seq(Row) /\ k \in 0 .. Len(a)
    BY <1>1 DEF Reply
  <2>3. a[k].clips = n => after = Less(a[k].list, Deletes(b, k))
    BY <1>5, <2>1, <2>2
  <2>4. k \in DOMAIN b /\ b[k] = a[k] /\ Silent(b, k)
    BY <1>1, <1>4, <2>1, <2>2
  <2> QED BY <2>1, <2>3, <2>4 DEF Leads, b
<1>8. CASE Silent(a, 0) /\ (cleanly => store = Less(list, Deletes(a, 0)))
  <2>1. Silent(b, 0)
    BY <1>2, <1>4, <1>8
  <2>2. cleanly => after = Less(list, Deletes(b, 0))
    BY <1>2, <1>5, <1>8
  <2> QED BY <2>1, <2>2 DEF Leads, b
<1> QED BY <1>6, <1>7, <1>8 DEF Leads

\* An answer is taken: the list that was read, a deletion that the panel repeats,
\* or that of a paste.
LEMMA TakenLeadsOn ==
  ASSUME NEW a \in Seq(Reply), a # <<>>, NEW store \in Seq(Row), NEW list \in Seq(Row),
         NEW n, NEW cleanly, NEW then, NEW shown, Leads(a, store, list, n, cleanly),
         LET x == Head(a) IN
         \/ /\ x.to.do = "get_history" /\ shown = x.list
            /\ then => x.clips = n
         \/ /\ x.to.do = "delete_entry" /\ shown = Less(list, {x.to.id})
            /\ then => cleanly
         \/ /\ x.to.do = "paste_from_overlay" /\ shown = list
            /\ then => cleanly
  PROVE  Leads(Tail(a), store, shown, n, then)
<1> DEFINE b == Tail(a)
           x == Head(a)
<1>1. /\ x \in Reply /\ x = a[1] /\ 1 \in DOMAIN a
      /\ \A j \in DOMAIN a : j # 1 => j - 1 \in DOMAIN b /\ a[j] = b[j - 1]
  BY Taken
<1>2. 0 \in DOMAIN b \cup {0}
  OBVIOUS
<1>3. /\ \A k \in DOMAIN b \cup {0} : Silent(b, k) <=> Silent(a, k + 1)
      /\ \A k \in DOMAIN b \cup {0} : Deletes(b, k) = Deletes(a, k + 1)
  BY OneAnswerLess
<1>4. /\ Silent(a, 0) => /\ Silent(b, 0)
                         /\ x.to.do \notin {"get_history", "pin_entry", "unpin_entry"}
      /\ x.to.do = "delete_entry" => Deletes(a, 0) = {x.to.id} \cup Deletes(b, 0)
      /\ x.to.do # "delete_entry" => Deletes(a, 0) = Deletes(b, 0)
  BY FirstAnswer
<1> HIDE DEF b
<1>5. \A k \in DOMAIN a : k # 1 =>
        /\ k - 1 \in DOMAIN b /\ b[k - 1] = a[k]
        /\ Silent(a, k) => Silent(b, k - 1)
        /\ Deletes(b, k - 1) = Deletes(a, k)
  <2>1. \A k \in DOMAIN a : k - 1 + 1 = k
    OBVIOUS
  <2> QED BY <1>1, <1>3, <2>1
<1>6. /\ x.to.do = "get_history" => shown = x.list /\ (then => x.clips = n)
      /\ x.to.do = "delete_entry" => shown = Less(list, {x.to.id}) /\ (then => cleanly)
      /\ x.to.do = "paste_from_overlay" => shown = list /\ (then => cleanly)
      /\ x.to.do \in {"get_history", "delete_entry", "paste_from_overlay"}
  OBVIOUS
<1> HIDE DEF x
<1>7. CASE \E k \in DOMAIN a : Silent(a, k) /\ a[k].to.do \in {"pin_entry", "unpin_entry"}
  <2>1. PICK k \in DOMAIN a : Silent(a, k) /\ a[k].to.do \in {"pin_entry", "unpin_entry"}
    BY <1>7
  <2>2. k # 1
    BY <1>1, <1>6, <2>1
  <2> QED BY <1>5, <2>1, <2>2 DEF Leads, b
<1>8. CASE \E k \in DOMAIN a : /\ Silent(a, k) /\ a[k].to.do = "get_history"
                               /\ a[k].clips = n => store = Less(a[k].list, Deletes(a, k))
  <2>1. PICK k \in DOMAIN a : /\ Silent(a, k) /\ a[k].to.do = "get_history"
                              /\ a[k].clips = n => store = Less(a[k].list, Deletes(a, k))
    BY <1>8
  <2>2. CASE k # 1
    <3>1. /\ k - 1 \in DOMAIN b /\ Silent(b, k - 1) /\ b[k - 1].to.do = "get_history"
          /\ b[k - 1].clips = n => store = Less(b[k - 1].list, Deletes(b, k - 1))
      BY <1>5, <2>1, <2>2
    <3> QED BY <3>1 DEF Leads, b
  <2>3. CASE k = 1
    <3>1. 0 + 1 = 1
      OBVIOUS
    <3>2. Silent(b, 0) /\ Deletes(b, 0) = Deletes(a, 1)
      BY <1>2, <1>3, <2>1, <2>3, <3>1
    <3>3. then => store = Less(shown, Deletes(b, 0))
      BY <1>1, <1>6, <2>1, <2>3, <3>2
    <3> QED BY <3>2, <3>3 DEF Leads, b
  <2> QED BY <2>2, <2>3
<1>9. CASE Silent(a, 0) /\ (cleanly => store = Less(list, Deletes(a, 0)))
  <2>1. Silent(b, 0) /\ x.to.do \in {"delete_entry", "paste_from_overlay"}
    BY <1>4, <1>6, <1>9
  <2>2. ASSUME then PROVE store = Less(shown, Deletes(b, 0))
    <3>1. store = Less(list, Deletes(a, 0))
      BY <1>6, <1>9, <2>1, <2>2
    <3>2. CASE x.to.do = "delete_entry"
      <4>1. Less(Less(list, {x.to.id}), Deletes(b, 0)) = Less(list, {x.to.id} \cup Deletes(b, 0))
        BY LessTwice
      <4> QED BY <1>4, <1>6, <3>1, <3>2, <4>1
    <3>3. CASE x.to.do = "paste_from_overlay"
      BY <1>4, <1>6, <3>1, <3>3
    <3> QED BY <2>1, <3>2, <3>3
  <2> QED BY <2>1, <2>2 DEF Leads, b
<1> QED BY <1>7, <1>8, <1>9 DEF Leads, b

\* The rows: as many as there is room for, of those that are found.
LEMMA ResultsOf ==
  ASSUME MaxResults \in Nat, NEW q \in Seq(Row), NEW b \in BOOLEAN
  PROVE  LET r == Panel!Results(q, b) IN
         /\ r \in Seq(Row) /\ Len(r) \in Nat /\ DOMAIN r = 1 .. Len(r)
         /\ PinsFirst(q) => PinsFirst(r)
<1> DEFINE S == {k \in DOMAIN q : q[k].text \in Matching}
           found == IF b THEN Retain(q, S) ELSE q
           m == IF Len(found) < MaxResults THEN Len(found) ELSE MaxResults
           r == SubSeq(found, 1, m)
<1>1. Panel!Results(q, b) = r
  <2>1. Panel!Retain(q, S) = Retain(q, S)
    BY PanelRetain
  <2> QED BY <2>1 DEF Panel!Results
<1>2. found \in Seq(Row) /\ (PinsFirst(q) => PinsFirst(found))
  <2>1. S \in SUBSET DOMAIN q
    OBVIOUS
  <2> HIDE DEF S
  <2>2. Retain(q, S) \in Seq(Row) /\ (PinsFirst(q) => PinsFirst(Retain(q, S)))
    BY <2>1, PinsStayFirst
  <2> QED BY <2>2
<1> HIDE DEF found
<1>3. m \in 0 .. Len(found)
  BY <1>2
<1> HIDE DEF m
<1>4. r \in Seq(Row) /\ Len(r) = m /\ \A i \in 1 .. m : r[i] = found[i]
  BY <1>2, <1>3, Truncated
<1> HIDE DEF r
<1>5. DOMAIN r = 1 .. Len(r) /\ \A i \in DOMAIN r : i \in DOMAIN found /\ r[i] = found[i]
  BY <1>2, <1>3, <1>4
<1>6. PinsFirst(found) => PinsFirst(r)
  BY <1>5 DEF PinsFirst
<1> QED BY <1>1, <1>2, <1>4, <1>5, <1>6

\* The grouping moves no row if the pins are first anyway.
LEMMA Grouped ==
  ASSUME NEW q \in Seq(Row)
  PROVE  LET P == {k \in DOMAIN q : q[k].pinned}
             U == {k \in DOMAIN q : ~q[k].pinned}
             g == Retain(q, P) \o Retain(q, U)
         IN  /\ g \in Seq(Row) /\ Len(g) = Len(q)
             /\ PinsFirst(q) => g = q
<1> DEFINE P == {k \in DOMAIN q : q[k].pinned}
           U == {k \in DOMAIN q : ~q[k].pinned}
           a == Retain(q, P)
           b == Retain(q, U)
           n == Len(q)
<1>1. n \in Nat /\ DOMAIN q = 1 .. n /\ P \in SUBSET DOMAIN q /\ U = DOMAIN q \ P
  OBVIOUS
<1>2. \A k \in DOMAIN q : (k \in P <=> q[k].pinned) /\ (k \in U <=> ~q[k].pinned)
  OBVIOUS
<1> HIDE DEF P, U
<1>3. a \in Seq(Row) /\ b \in Seq(Row) /\ Len(a) + Len(b) = Len(q)
  <2>1. U \in SUBSET DOMAIN q
    BY <1>1
  <2>2. a \in Seq(Row) /\ b \in Seq(Row)
    BY <1>1, <2>1, Retained, SMTT(60)
  <2>3. Len(Retain(q, P)) + Len(Retain(q, DOMAIN q \ P)) = Len(q)
    BY <1>1, RetainedParts, ZenonT(60)
  <2> QED BY <1>1, <2>2, <2>3, ZenonT(60)
<1>4. a \o b \in Seq(Row) /\ Len(a \o b) = Len(q)
  <2> HIDE DEF a, b
  <2>1. a \o b \in Seq(Row) /\ Len(a \o b) = Len(a) + Len(b)
    BY <1>3, ConcatProperties
  <2> QED BY <1>3, <2>1
<1>5. ASSUME PinsFirst(q) PROVE a \o b = q
  <2> HIDE DEF n
  <2>0. /\ \A k \in 1 .. n : k \in P \/ k \in U
        /\ \A k \in P : k \in 1 .. n /\ k \notin U
        /\ \A k \in U : k \in 1 .. n /\ k \notin P
    BY <1>1
  <2>1. PICK p \in 0 .. n : P = 1 .. p /\ U = p + 1 .. n
    <3>1. CASE U = {}
      <4>1. P = 1 .. n
        BY <2>0, <3>1
      <4>2. n + 1 .. n = {} /\ n \in 0 .. n
        BY <1>1
      <4> QED BY <3>1, <4>1, <4>2
    <3>2. CASE U # {}
      <4>1. U \in SUBSET Nat
        BY <1>1
      <4>2. PICK m \in U : \A k \in U : m <= k
        BY <3>2, <4>1, Least
      <4>3. m \in 1 .. n /\ m - 1 \in 0 .. n /\ m - 1 + 1 = m
        BY <1>1, <4>2
      <4>4. \A k \in 1 .. n : k < m => k \in P
        <5>1. \A k \in 1 .. n : k < m => k \notin U
          BY <4>2, <4>3
        <5> QED BY <1>1, <5>1
      <4>5. \A k \in 1 .. n : m <= k => k \in U
        <5>1. ASSUME NEW k \in 1 .. n, m < k PROVE ~q[k].pinned
          BY <1>1, <1>2, <1>5, <4>2, <4>3, <5>1 DEF PinsFirst
        <5>2. \A k \in 1 .. n : m <= k => k = m \/ m < k
          BY <4>3
        <5> QED BY <1>1, <1>2, <4>2, <5>1, <5>2
      <4>6. P = 1 .. m - 1 /\ U = m .. n
        <5>1. \A k \in 1 .. n : k < m \/ m <= k
          BY <1>1, <4>3
        <5>2. \A k \in P : k \in 1 .. m - 1
          BY <1>1, <2>0, <4>3, <4>5
        <5>3. \A k \in 1 .. m - 1 : k \in P
          BY <1>1, <4>3, <4>4
        <5>4. \A k \in U : k \in m .. n
          BY <1>1, <2>0, <4>3, <4>4
        <5>5. \A k \in m .. n : k \in U
          BY <1>1, <4>3, <4>5
        <5> QED BY <5>2, <5>3, <5>4, <5>5
      <4> QED BY <4>3, <4>6
    <3> QED BY <3>1, <3>2
  <2>2. Retain(q, 1 .. p) \o Retain(q, p + 1 .. n) = q
    BY RetainedSplit DEF n
  <2> QED BY <2>1, <2>2
<1> QED BY <1>4, <1>5, ZenonT(60) DEF P, U

\* The rows are of the list, and as many of it as the search leaves.
LEMMA RowsOf ==
  ASSUME MaxResults \in Nat, overlayHistory \in Seq(Row), query \in BOOLEAN
  PROVE  /\ Panel!results \in Seq(Row) /\ Len(Panel!results) \in Nat
         /\ DOMAIN Panel!results = 1 .. Len(Panel!results)
         /\ DOMAIN Panel!Rows = DOMAIN Panel!results
         /\ \A k \in DOMAIN Panel!Rows : Panel!Rows[k] \in Row
         /\ PinsFirst(overlayHistory) => Panel!Rows = Panel!results
<1> DEFINE q == Panel!results
           P == {k \in DOMAIN q : q[k].pinned}
           U == {k \in DOMAIN q : ~q[k].pinned}
<1>1. /\ q \in Seq(Row) /\ Len(q) \in Nat /\ DOMAIN q = 1 .. Len(q)
      /\ PinsFirst(overlayHistory) => PinsFirst(q)
  BY ResultsOf DEF Panel!results
<1>2. Panel!Rows = IF query THEN q ELSE Retain(q, P) \o Retain(q, U)
  <2>1. Panel!Retain(q, P) = Retain(q, P) /\ Panel!Retain(q, U) = Retain(q, U)
    BY PanelRetain, SMTT(60)
  <2> QED BY <2>1 DEF Panel!Rows, Panel!pinnedItems, Panel!unpinnedItems
<1> HIDE DEF q
<1>3. LET g == Retain(q, P) \o Retain(q, U) IN
      g \in Seq(Row) /\ Len(g) = Len(q) /\ (PinsFirst(q) => g = q)
  BY <1>1, Grouped, ZenonT(60)
<1> DEFINE g == Retain(q, P) \o Retain(q, U)
           shownRows == Panel!Rows
<1>4. g \in Seq(Row) /\ Len(g) = Len(q) /\ (PinsFirst(q) => g = q)
  BY <1>3
<1>5. shownRows = IF query THEN q ELSE g
  BY <1>2
<1> HIDE DEF g, shownRows
<1>6. /\ shownRows \in Seq(Row) /\ Len(shownRows) = Len(q)
      /\ PinsFirst(q) => shownRows = q
  BY <1>1, <1>4, <1>5
<1>7. DOMAIN shownRows = DOMAIN q /\ \A k \in DOMAIN shownRows : shownRows[k] \in Row
  BY <1>1, <1>6
<1> QED BY <1>1, <1>6, <1>7 DEF q, shownRows

\* The cursor is brought inside the rows.
LEMMA CursorFollows ==
  ASSUME MaxResults \in Nat, PanelTyping, WithinRows, below' = below, query' = query,
         overlayHistory' \in Seq(Row), cursor' = Panel!Cursor(overlayHistory', query, cursor)
  PROVE  cursor' \in Int /\ WithinRows'
<1> DEFINE n == Len(Panel!Results(overlayHistory', query))
           o == Len(Panel!results)
           last == IF n = 0 THEN 0 ELSE n - 1
<1>1. n \in Nat /\ o \in Nat /\ cursor \in Int
  <2>1. query \in BOOLEAN /\ overlayHistory \in Seq(Row) /\ cursor \in Int
    BY DEF PanelTyping
  <2>2. n \in Nat
    BY <2>1, ResultsOf
  <2>3. o \in Nat
    BY <2>1, RowsOf
  <2> QED BY <2>1, <2>2, <2>3
<1>2. cursor' = IF n = o \/ cursor < last THEN cursor ELSE last
  BY DEF Panel!Cursor
<1>3. ~below => cursor = 0 \/ (0 <= cursor /\ cursor < o)
  BY DEF WithinRows
<1> HIDE DEF n, o
<1>4. ~below => cursor' = 0 \/ (0 <= cursor' /\ cursor' < n)
  BY <1>1, <1>2, <1>3
<1>5. cursor' \in Int
  BY <1>1, <1>2
<1>6. WithinRows' <=> (~below' => cursor' = 0 \/ (0 <= cursor' /\ cursor' < n))
  BY PanelPrimed DEF n
<1> QED BY <1>4, <1>5, <1>6

\* A request of the panel is taken.
LEMMA RequestTaken ==
  ASSUME PanelTyping, NEW do, Panel!Running(do)
  PROVE  /\ overlayCalls' \in Seq(Request) /\ Head(overlayCalls) \in Request
         /\ Head(overlayCalls).do = do
         /\ do # "get_history" /\ Asked(overlayCalls) => Asked(overlayCalls')
<1>1. /\ overlayCalls # <<>> /\ Head(overlayCalls).do = do /\ overlayCalls' = Tail(overlayCalls)
      /\ overlayCalls \in Seq(Request)
  BY DEF Panel!Running, PanelTyping
<1>2. /\ Head(overlayCalls) \in Request /\ Head(overlayCalls) = overlayCalls[1]
      /\ overlayCalls' \in Seq(Request)
      /\ \A k \in DOMAIN overlayCalls : k # 1 =>
           k - 1 \in DOMAIN overlayCalls' /\ overlayCalls[k] = overlayCalls'[k - 1]
  BY <1>1, Taken
<1>3. ASSUME do # "get_history", NEW k \in DOMAIN overlayCalls, overlayCalls[k].do = "get_history"
      PROVE  Asked(overlayCalls')
  <2>1. k # 1
    BY <1>1, <1>2, <1>3
  <2>2. k - 1 \in DOMAIN overlayCalls' /\ overlayCalls'[k - 1].do = "get_history"
    BY <1>2, <1>3, <2>1
  <2> QED BY <2>2 DEF Asked
<1> QED BY <1>1, <1>2, <1>3 DEF Asked

\* A request joins the others.
LEMMA RequestAdded ==
  ASSUME PanelTyping, NEW c \in Request, overlayCalls' = Append(overlayCalls, c)
  PROVE  /\ overlayCalls' \in Seq(Request)
         /\ Asked(overlayCalls) \/ c.do = "get_history" => Asked(overlayCalls')
<1> DEFINE n == Len(overlayCalls) + 1
<1>1. /\ overlayCalls' \in Seq(Request) /\ DOMAIN overlayCalls' = DOMAIN overlayCalls \cup {n}
      /\ overlayCalls'[n] = c
      /\ \A k \in DOMAIN overlayCalls : overlayCalls'[k] = overlayCalls[k]
  <2>1. overlayCalls \in Seq(Request)
    BY DEF PanelTyping
  <2> QED BY <2>1, Added
<1> HIDE DEF n
<1> QED BY <1>1 DEF Asked

\* A request is answered.
LEMMA ReplyGiven ==
  ASSUME PanelTyping, NEW list \in Seq(Row), Head(overlayCalls) \in Request, Panel!Reply(list)
  PROVE  \E e \in Reply :
           /\ e.to = Head(overlayCalls) /\ e.list = list /\ e.clips = overlayClips
           /\ overlayAnswers' = Append(overlayAnswers, e)
           /\ overlayAnswers' \in Seq(Reply)
           /\ \A k \in DOMAIN overlayAnswers' : overlayAnswers'[k].clips <= overlayClips
<1> DEFINE e == [to |-> Head(overlayCalls), list |-> list, clips |-> overlayClips]
           n == Len(overlayAnswers) + 1
<1>1. /\ e \in Reply /\ e.to = Head(overlayCalls) /\ e.list = list /\ e.clips = overlayClips
      /\ overlayAnswers' = Append(overlayAnswers, e) /\ overlayAnswers \in Seq(Reply)
      /\ overlayClips \in Nat
  BY DEF Panel!Reply, PanelTyping, Reply
<1> HIDE DEF e
<1>2. /\ overlayAnswers' \in Seq(Reply)
      /\ DOMAIN overlayAnswers' = DOMAIN overlayAnswers \cup {n} /\ overlayAnswers'[n] = e
      /\ \A k \in DOMAIN overlayAnswers : overlayAnswers'[k] = overlayAnswers[k]
  BY <1>1, Added
<1> HIDE DEF n
<1>3. \A k \in DOMAIN overlayAnswers' : overlayAnswers'[k].clips <= overlayClips
  BY <1>1, <1>2 DEF PanelTyping
<1> QED BY <1>1, <1>2, <1>3

\* The panel takes an answer.
LEMMA ReplyTaken ==
  ASSUME PanelTyping, NEW do, Panel!Answered(do)
  PROVE  /\ overlayAnswers # <<>> /\ Head(overlayAnswers) \in Reply
         /\ Head(overlayAnswers).to.do = do /\ overlayAnswers' = Tail(overlayAnswers)
         /\ overlayAnswers' \in Seq(Reply)
         /\ \A k \in DOMAIN overlayAnswers' : overlayAnswers'[k].clips <= overlayClips
<1>1. /\ overlayAnswers # <<>> /\ Head(overlayAnswers).to.do = do
      /\ overlayAnswers' = Tail(overlayAnswers) /\ overlayAnswers \in Seq(Reply)
  BY DEF Panel!Answered, PanelTyping
<1>2. /\ Head(overlayAnswers) \in Reply /\ overlayAnswers' \in Seq(Reply)
      /\ \A k \in DOMAIN overlayAnswers' :
           k + 1 \in DOMAIN overlayAnswers /\ overlayAnswers'[k] = overlayAnswers[k + 1]
  BY <1>1, Taken
<1>3. \A k \in DOMAIN overlayAnswers' : overlayAnswers'[k].clips <= overlayClips
  BY <1>2 DEF PanelTyping
<1> QED BY <1>1, <1>2, <1>3

\* A clip is recorded, below the pins.
LEMMA PanelRecorded ==
  ASSUME PanelInv, NEW t \in Word, Panel!Recorded(t)
  PROVE  PanelInv'
<1> DEFINE e == Panel!Entry(overlayClips + 1, t)
           S == {k \in DOMAIN overlayStore : overlayStore[k].text # t}
           o == Panel!Retain(overlayStore, S)
           n == [name |-> "clip", entry |-> e]
<1>0. PanelTyping
  BY DEF PanelInv
<1>1. /\ overlayClips' = overlayClips + 1 /\ overlayStore' = Panel!Below(o, e)
      /\ overlayEvents' = Append(overlayEvents, n) /\ clean' = FALSE
      /\ mixed' = (mixed \/ Panel!AllPinned(o))
      /\ UNCHANGED <<overlayCalls, overlayAnswers, overlayHistory, query, cursor, below>>
  BY DEF Panel!Recorded, Panel!panel
<1>2. e \in Row /\ ~e.pinned /\ n \in Told /\ overlayClips \in Nat
  BY <1>0 DEF PanelTyping, Panel!Entry, Row, Told
<1>3. o \in Seq(Row) /\ (PinsFirst(overlayStore) => PinsFirst(o))
  <2>1. S \in SUBSET DOMAIN overlayStore /\ overlayStore \in Seq(Row)
    BY <1>0 DEF PanelTyping
  <2> HIDE DEF S
  <2>2. o = Retain(overlayStore, S)
    BY PanelRetain
  <2> QED BY <2>1, <2>2, PinsStayFirst
<1> HIDE DEF o, e, n, S
<1>4. /\ overlayStore' \in Seq(Row)
      /\ PinsFirst(o) /\ ~Panel!AllPinned(o) => PinsFirst(overlayStore')
  BY <1>1, <1>2, <1>3, BelowThePins
<1>5. overlayEvents' \in Seq(Told)
  BY <1>0, <1>1, <1>2 DEF PanelTyping
<1>6. \A k \in DOMAIN overlayAnswers :
        /\ overlayAnswers[k].clips <= overlayClips' /\ overlayAnswers[k].clips # overlayClips'
  <2>1. \A k \in DOMAIN overlayAnswers :
          overlayAnswers[k].clips <= overlayClips /\ overlayAnswers[k].clips \in Nat
    <3>1. \A k \in DOMAIN overlayAnswers : overlayAnswers[k] \in Reply
      BY <1>0 DEF PanelTyping
    <3> QED BY <1>0, <3>1 DEF PanelTyping, Reply
  <2> QED BY <1>1, <1>2, <2>1
<1>7. PanelTyping'
  <2>1. mixed' \in BOOLEAN
    BY <1>0, <1>1 DEF PanelTyping, Panel!AllPinned
  <2>2. overlayClips' \in Nat /\ clean' \in BOOLEAN
    <3>1. overlayClips' \in Nat
      <4>1. overlayClips' = overlayClips + 1 /\ overlayClips \in Nat
        BY <1>1, <1>2
      <4> QED BY <4>1
    <3>2. clean' \in BOOLEAN
      <4>1. clean' = FALSE
        BY <1>1
      <4> QED BY <4>1
    <3> QED BY <3>1, <3>2
  <2>3. /\ overlayHistory' \in Seq(Row) /\ overlayCalls' \in Seq(Request)
        /\ overlayAnswers' \in Seq(Reply) /\ cursor' \in Int
        /\ query' \in BOOLEAN /\ below' \in BOOLEAN
    BY <1>0, <1>1 DEF PanelTyping
  <2>4. \A k \in DOMAIN overlayAnswers' : overlayAnswers'[k].clips <= overlayClips'
    BY <1>1, <1>6
  <2> QED BY <1>4, <1>5, <2>1, <2>2, <2>3, <2>4 DEF PanelTyping
<1>8. UpToDate'
  <2>1. CASE Asked(overlayCalls)
    BY <1>1, <2>1, PanelPrimed
  <2>2. CASE Leads(overlayAnswers, overlayStore, overlayHistory, overlayClips, clean)
    <3>1. Leads(overlayAnswers', overlayStore', overlayHistory', overlayClips', clean')
      BY <1>1, <1>6, <2>2 DEF Leads
    <3> QED BY <3>1, PanelPrimed
  <2> QED BY <2>1, <2>2 DEF PanelInv, UpToDate
<1>9. WithinRows'
  BY <1>1, PanelPrimed DEF PanelInv, WithinRows, Panel!results
<1>10. ~mixed' => PinsFirst(overlayStore')
  BY <1>1, <1>3, <1>4 DEF PanelInv
<1> QED BY <1>7, <1>8, <1>9, <1>10, PanelPrimed DEF PanelInv

\* The other window cuts the list: what was read of it is out of date.
LEMMA PanelCut ==
  ASSUME PanelInv, Panel!ChangedElsewhere
  PROVE  PanelInv'
<1>0. PanelTyping
  BY DEF PanelInv
<1>1. /\ overlayClips' = overlayClips + 1 /\ clean' = FALSE
      /\ UNCHANGED <<overlayCalls, overlayAnswers, overlayEvents, overlayHistory, query, cursor,
                     mixed, below>>
  BY DEF Panel!ChangedElsewhere, Panel!link, Panel!panel
<1>2. PICK n \in 0 .. Len(overlayStore) - 1 : overlayStore' = SubSeq(overlayStore, 1, n)
  BY DEF Panel!ChangedElsewhere
<1>3. overlayStore \in Seq(Row) /\ n \in 0 .. Len(overlayStore) /\ overlayClips \in Nat
  BY <1>0 DEF PanelTyping
<1>4. /\ overlayStore' \in Seq(Row) /\ Len(overlayStore') = n
      /\ \A i \in 1 .. n : overlayStore'[i] = overlayStore[i]
  BY <1>2, <1>3, Truncated
<1>5. PinsFirst(overlayStore) => PinsFirst(overlayStore')
  <2>1. \A i \in DOMAIN overlayStore' :
          i \in DOMAIN overlayStore /\ overlayStore'[i] = overlayStore[i]
    BY <1>3, <1>4
  <2> QED BY <2>1 DEF PinsFirst
<1>6. \A k \in DOMAIN overlayAnswers :
        /\ overlayAnswers[k].clips <= overlayClips' /\ overlayAnswers[k].clips # overlayClips'
  <2>1. \A k \in DOMAIN overlayAnswers :
          overlayAnswers[k].clips <= overlayClips /\ overlayAnswers[k].clips \in Nat
    <3>1. \A k \in DOMAIN overlayAnswers : overlayAnswers[k] \in Reply
      BY <1>0 DEF PanelTyping
    <3> QED BY <1>0, <3>1 DEF PanelTyping, Reply
  <2> QED BY <1>1, <1>3, <2>1
<1>7. PanelTyping'
  <2>1. overlayClips' \in Nat
    BY <1>1, <1>3
  <2>2. clean' \in BOOLEAN
    <3>1. clean' = FALSE
      BY <1>1
    <3> QED BY <3>1
  <2>3. mixed' \in BOOLEAN /\ query' \in BOOLEAN /\ below' \in BOOLEAN
    BY <1>0, <1>1 DEF PanelTyping
  <2>4. /\ overlayHistory' \in Seq(Row) /\ overlayCalls' \in Seq(Request)
        /\ overlayAnswers' \in Seq(Reply) /\ cursor' \in Int /\ overlayEvents' \in Seq(Told)
    BY <1>0, <1>1 DEF PanelTyping
  <2>5. \A k \in DOMAIN overlayAnswers' : overlayAnswers'[k].clips <= overlayClips'
    BY <1>1, <1>6
  <2> QED BY <1>4, <2>1, <2>2, <2>3, <2>4, <2>5 DEF PanelTyping
<1>8. UpToDate'
  <2>1. CASE Asked(overlayCalls)
    BY <1>1, <2>1, PanelPrimed
  <2>2. CASE Leads(overlayAnswers, overlayStore, overlayHistory, overlayClips, clean)
    <3>1. Leads(overlayAnswers', overlayStore', overlayHistory', overlayClips', clean')
      BY <1>1, <1>6, <2>2 DEF Leads
    <3> QED BY <3>1, PanelPrimed
  <2> QED BY <2>1, <2>2 DEF PanelInv, UpToDate
<1>9. WithinRows'
  BY <1>1, PanelPrimed DEF PanelInv, WithinRows, Panel!results
<1>10. ~mixed' => PinsFirst(overlayStore')
  BY <1>1, <1>5 DEF PanelInv
<1> QED BY <1>7, <1>8, <1>9, <1>10, PanelPrimed DEF PanelInv

\* The list is read: what comes of it is the store as it is.
LEMMA PanelReads ==
  ASSUME PanelInv, Panel!RunRead
  PROVE  PanelInv'
<1>0. PanelTyping /\ overlayStore \in Seq(Row) /\ overlayAnswers \in Seq(Reply)
  BY DEF PanelInv, PanelTyping
<1>1. /\ Panel!Running("get_history") /\ Panel!Reply(overlayStore)
      /\ UNCHANGED <<overlayStore, overlayEvents, overlayHistory, query, cursor, clean, mixed,
                     below, overlayClips>>
  BY DEF Panel!RunRead, Panel!panel, Panel!bounds
<1>2. /\ overlayCalls' \in Seq(Request) /\ Head(overlayCalls) \in Request
      /\ Head(overlayCalls).do = "get_history"
  BY <1>0, <1>1, RequestTaken
<1>3. PICK e \in Reply :
           /\ e.to = Head(overlayCalls) /\ e.list = overlayStore
           /\ overlayAnswers' = Append(overlayAnswers, e)
           /\ overlayAnswers' \in Seq(Reply)
           /\ \A k \in DOMAIN overlayAnswers' : overlayAnswers'[k].clips <= overlayClips
  BY <1>0, <1>1, <1>2, ReplyGiven
<1>4. PanelTyping'
  BY <1>0, <1>1, <1>2, <1>3 DEF PanelTyping
<1>5. UpToDate'
  <2>1. e.to.do = "get_history" /\ e.list = overlayStore
    BY <1>2, <1>3
  <2>2. Leads(Append(overlayAnswers, e), overlayStore, overlayHistory, overlayClips, clean)
    BY <1>0, <2>1, AnswerLeads
  <2> QED BY <1>1, <1>3, <2>2, PanelPrimed
<1>6. WithinRows'
  BY <1>1, PanelPrimed DEF PanelInv, WithinRows, Panel!results
<1> QED BY <1>1, <1>4, <1>5, <1>6, PanelPrimed DEF PanelInv

\* A pin is set or taken off: the entry comes to the top, or below the pins.
LEMMA PanelPins ==
  ASSUME PanelInv, NEW pin \in BOOLEAN, Panel!RunPin(pin)
  PROVE  PanelInv'
<1> DEFINE id == Head(overlayCalls).id
           o == Panel!Without(overlayStore, id)
           do == IF pin THEN "pin_entry" ELSE "unpin_entry"
<1>0. PanelTyping /\ overlayStore \in Seq(Row) /\ overlayAnswers \in Seq(Reply)
  BY DEF PanelInv, PanelTyping
<1>1. /\ Panel!Running(do) /\ Panel!Reply(<<>>)
      /\ mixed' = (mixed \/ (~pin /\ Panel!AllPinned(o)))
      /\ UNCHANGED <<overlayEvents, overlayHistory, query, cursor, clean, below, overlayClips>>
  BY DEF Panel!RunPin, Panel!panel, Panel!bounds
<1>2. \/ overlayStore' = overlayStore
      \/ \E k \in DOMAIN overlayStore : LET e == [overlayStore[k] EXCEPT !.pinned = pin] IN
           overlayStore' = IF pin THEN <<e>> \o o ELSE Panel!Below(o, e)
  <2> DEFINE I == {i \in DOMAIN overlayStore : overlayStore[i].id = id}
             k == Min(I)
  <2>1. \A S : Panel!Foremost(S) = Min(S)
    BY DEF Panel!Foremost, Min
  <2>2. overlayStore' = IF I = {} THEN overlayStore
                        ELSE LET e == [overlayStore[k] EXCEPT !.pinned = pin] IN
                             IF pin THEN <<e>> \o o ELSE Panel!Below(o, e)
    BY <2>1 DEF Panel!RunPin
  <2>3. I # {} => k \in DOMAIN overlayStore
    <3>1. I \in SUBSET Nat /\ I \in SUBSET DOMAIN overlayStore
      BY <1>0
    <3> HIDE DEF I
    <3> QED BY <3>1, MinLeast
  <2> HIDE DEF k, I
  <2> QED BY <2>2, <2>3
<1>3. o \in Seq(Row) /\ (PinsFirst(overlayStore) => PinsFirst(o))
  <2> DEFINE S == {i \in DOMAIN overlayStore : overlayStore[i].id # id}
  <2>1. S \in SUBSET DOMAIN overlayStore
    OBVIOUS
  <2>2. o = Retain(overlayStore, S)
    BY PanelRetain DEF Panel!Without
  <2> HIDE DEF S, o
  <2> QED BY <1>0, <2>1, <2>2, PinsStayFirst
<1> HIDE DEF o
<1>4. /\ overlayStore' \in Seq(Row)
      /\ ~mixed' /\ PinsFirst(overlayStore) => PinsFirst(overlayStore')
  <2>1. CASE overlayStore' = overlayStore
    BY <1>0, <2>1
  <2>2. ASSUME NEW k \in DOMAIN overlayStore,
               LET e == [overlayStore[k] EXCEPT !.pinned = pin] IN
               overlayStore' = IF pin THEN <<e>> \o o ELSE Panel!Below(o, e)
        PROVE  /\ overlayStore' \in Seq(Row)
               /\ ~mixed' /\ PinsFirst(overlayStore) => PinsFirst(overlayStore')
    <3> DEFINE e == [overlayStore[k] EXCEPT !.pinned = pin]
    <3>1. overlayStore[k] \in Row
      BY <1>0
    <3>2. e \in Row /\ e.pinned = pin
      BY <3>1 DEF Row
    <3>3. overlayStore' = IF pin THEN <<e>> \o o ELSE Panel!Below(o, e)
      BY <2>2
    <3> HIDE DEF e
    <3>4. CASE pin
      <4>1. overlayStore' = <<e>> \o o
        BY <3>3, <3>4
      <4>2. <<e>> \o o \in Seq(Row) /\ (PinsFirst(o) => PinsFirst(<<e>> \o o))
        BY <1>3, <3>2, <3>4, PinOnTop
      <4> QED BY <1>3, <4>1, <4>2
    <3>5. CASE ~pin
      <4>1. overlayStore' = Panel!Below(o, e)
        BY <3>3, <3>5
      <4>2. /\ Panel!Below(o, e) \in Seq(Row)
            /\ PinsFirst(o) /\ ~Panel!AllPinned(o) => PinsFirst(Panel!Below(o, e))
        BY <1>3, <3>2, <3>5, BelowThePins
      <4>3. ~mixed' => ~Panel!AllPinned(o)
        BY <1>1, <3>5
      <4> QED BY <1>3, <4>1, <4>2, <4>3
    <3> QED BY <3>4, <3>5
  <2> QED BY <1>2, <2>1, <2>2
<1>5. /\ overlayCalls' \in Seq(Request) /\ Head(overlayCalls) \in Request
      /\ Head(overlayCalls).do \in {"pin_entry", "unpin_entry"}
  BY <1>0, <1>1, RequestTaken
<1>6. <<>> \in Seq(Row)
  OBVIOUS
<1>7. PICK e \in Reply :
           /\ e.to = Head(overlayCalls)
           /\ overlayAnswers' = Append(overlayAnswers, e)
           /\ overlayAnswers' \in Seq(Reply)
           /\ \A k \in DOMAIN overlayAnswers' : overlayAnswers'[k].clips <= overlayClips
  BY <1>0, <1>1, <1>5, <1>6, ReplyGiven
<1>8. PanelTyping'
  <2>1. mixed' \in BOOLEAN
    BY <1>0, <1>1 DEF PanelTyping, Panel!AllPinned
  <2> QED BY <1>0, <1>1, <1>4, <1>5, <1>7, <2>1 DEF PanelTyping
<1>9. UpToDate'
  <2>1. e.to.do \in {"pin_entry", "unpin_entry"}
    BY <1>5, <1>7
  <2>2. Leads(Append(overlayAnswers, e), overlayStore', overlayHistory, overlayClips, clean)
    BY <1>0, <1>4, <2>1, AnswerLeads
  <2> QED BY <1>1, <1>7, <2>2, PanelPrimed
<1>10. WithinRows'
  BY <1>1, PanelPrimed DEF PanelInv, WithinRows, Panel!results
<1>11. ~mixed' => PinsFirst(overlayStore')
  BY <1>1, <1>4 DEF PanelInv
<1> QED BY <1>8, <1>9, <1>10, <1>11, PanelPrimed DEF PanelInv

\* A deletion, and a paste, leave the list less the entry, or as it is.
LEMMA PanelRuns ==
  ASSUME PanelInv, Panel!RunDelete \/ Panel!RunPaste
  PROVE  PanelInv'
<1> DEFINE do == Head(overlayCalls).do
           id == Head(overlayCalls).id
<1>0. /\ PanelTyping /\ overlayStore \in Seq(Row) /\ overlayHistory \in Seq(Row)
      /\ overlayAnswers \in Seq(Reply)
  BY DEF PanelInv, PanelTyping
<1>1. /\ Panel!Running(do) /\ Panel!Reply(<<>>)
      /\ \/ do = "paste_from_overlay" /\ overlayStore' = overlayStore
         \/ do = "delete_entry" /\ overlayStore' = Less(overlayStore, {id})
      /\ UNCHANGED <<overlayEvents, overlayHistory, query, cursor, clean, mixed, below,
                     overlayClips>>
  <2>1. CASE Panel!RunDelete
    <3>1. /\ Panel!Running("delete_entry") /\ Panel!Reply(<<>>)
          /\ overlayStore' = Panel!Without(overlayStore, id)
          /\ UNCHANGED <<overlayEvents, overlayHistory, query, cursor, clean, mixed, below,
                         overlayClips>>
      BY <2>1 DEF Panel!RunDelete, Panel!panel, Panel!bounds
    <3>2. do = "delete_entry"
      BY <3>1 DEF Panel!Running
    <3> QED BY <1>0, <3>1, <3>2, PanelWithout
  <2>2. CASE Panel!RunPaste
    <3>1. /\ Panel!Running("paste_from_overlay") /\ Panel!Reply(<<>>)
          /\ overlayStore' = overlayStore
          /\ UNCHANGED <<overlayEvents, overlayHistory, query, cursor, clean, mixed, below,
                         overlayClips>>
      BY <2>2 DEF Panel!RunPaste, Panel!panel, Panel!bounds
    <3>2. do = "paste_from_overlay"
      BY <3>1 DEF Panel!Running
    <3> QED BY <3>1, <3>2
  <2> QED BY <2>1, <2>2
<1> HIDE DEF do, id
<1>2. /\ overlayCalls' \in Seq(Request) /\ Head(overlayCalls) \in Request
      /\ Asked(overlayCalls) => Asked(overlayCalls')
  BY <1>0, <1>1, RequestTaken
<1>3. <<>> \in Seq(Row)
  OBVIOUS
<1>4. PICK e \in Reply :
           /\ e.to = Head(overlayCalls)
           /\ overlayAnswers' = Append(overlayAnswers, e)
           /\ overlayAnswers' \in Seq(Reply)
           /\ \A k \in DOMAIN overlayAnswers' : overlayAnswers'[k].clips <= overlayClips
  BY <1>0, <1>1, <1>2, <1>3, ReplyGiven
<1>5. /\ overlayStore' \in Seq(Row)
      /\ PinsFirst(overlayStore) => PinsFirst(overlayStore')
  <2>1. {k \in DOMAIN overlayStore : overlayStore[k].id \notin {id}} \in SUBSET DOMAIN overlayStore
    OBVIOUS
  <2>2. /\ Less(overlayStore, {id}) \in Seq(Row)
        /\ PinsFirst(overlayStore) => PinsFirst(Less(overlayStore, {id}))
    BY <1>0, <2>1, PinsStayFirst DEF Less
  <2> QED BY <1>0, <1>1, <2>2
<1>6. PanelTyping'
  BY <1>0, <1>1, <1>2, <1>4, <1>5 DEF PanelTyping
<1>7. UpToDate'
  <2>1. CASE Asked(overlayCalls)
    BY <1>2, <2>1, PanelPrimed
  <2>2. CASE Leads(overlayAnswers, overlayStore, overlayHistory, overlayClips, clean)
    <3>1. \/ e.to.do = "paste_from_overlay" /\ overlayStore' = overlayStore
          \/ e.to.do = "delete_entry" /\ overlayStore' = Less(overlayStore, {e.to.id})
      BY <1>1, <1>4 DEF do, id
    <3>2. Leads(Append(overlayAnswers, e), overlayStore', overlayHistory, overlayClips, clean)
      BY <1>0, <2>2, <3>1, AnswerLeadsOn
    <3> QED BY <1>1, <1>4, <3>2, PanelPrimed
  <2> QED BY <2>1, <2>2 DEF PanelInv, UpToDate
<1>8. WithinRows'
  BY <1>1, PanelPrimed DEF PanelInv, WithinRows, Panel!results
<1> QED BY <1>1, <1>5, <1>6, <1>7, <1>8, PanelPrimed DEF PanelInv

\* The panel comes to the screen and leaves it.
LEMMA PanelOpens ==
  ASSUME PanelInv, Panel!Open \/ Panel!Hide
  PROVE  PanelInv'
<1> DEFINE n == [name |-> "focus"]
<1>0. PanelTyping
  BY DEF PanelInv
<1>1. /\ overlayEvents' = overlayEvents \/ overlayEvents' = Append(overlayEvents, n)
      /\ UNCHANGED <<overlayStore, overlayCalls, overlayAnswers, overlayHistory, query, cursor,
                     clean, mixed, below, overlayClips>>
  BY DEF Panel!Open, Panel!Hide, Panel!panel, Panel!link, Panel!bounds
<1>2. n \in Told
  BY DEF Told
<1> HIDE DEF n
<1>3. overlayEvents' \in Seq(Told)
  <2>1. overlayEvents \in Seq(Told)
    BY <1>0 DEF PanelTyping
  <2>2. overlayEvents' = overlayEvents \/ overlayEvents' = Append(overlayEvents, n)
    BY <1>1
  <2> QED BY <1>2, <2>1, <2>2, Added
<1>4. PanelTyping'
  BY <1>0, <1>1, <1>3 DEF PanelTyping
<1>5. UpToDate'
  BY <1>1, PanelPrimed DEF PanelInv, UpToDate
<1>6. WithinRows'
  BY <1>1, PanelPrimed DEF PanelInv, WithinRows, Panel!results
<1> QED BY <1>1, <1>4, <1>5, <1>6, PanelPrimed DEF PanelInv

\* A clip comes to the panel, on top.
LEMMA PanelClip ==
  ASSUME MaxResults \in Nat, MaxKept \in Nat, PanelInv, Panel!OnClip
  PROVE  PanelInv'
<1> DEFINE e == Head(overlayEvents).entry
           o == Panel!Without(overlayHistory, e.id)
           all == <<e>> \o o
           n == IF Len(all) < MaxKept THEN Len(all) ELSE MaxKept
<1>0. PanelTyping /\ overlayHistory \in Seq(Row) /\ overlayEvents \in Seq(Told)
  BY DEF PanelInv, PanelTyping
<1>1. /\ overlayEvents # <<>> /\ Head(overlayEvents).name = "clip"
      /\ overlayEvents' = Tail(overlayEvents)
      /\ overlayHistory' = SubSeq(all, 1, n)
      /\ cursor' = Panel!Cursor(overlayHistory', query, cursor) /\ clean' = FALSE
      /\ UNCHANGED <<overlayStore, overlayCalls, overlayAnswers, query, mixed, below, overlayClips>>
  BY DEF Panel!OnClip, Panel!ShowList, Panel!bounds
<1>2. overlayEvents' \in Seq(Told) /\ Head(overlayEvents) \in Told
  BY <1>0, <1>1, Taken
<1>3. e \in Row
  BY <1>1, <1>2 DEF Told
<1>4. o \in Seq(Row)
  <2>1. o = Less(overlayHistory, {e.id})
    BY <1>0, PanelWithout
  <2>2. Less(overlayHistory, {e.id}) \in Seq(Row)
    BY <1>0, LessTwice
  <2> QED BY <2>1, <2>2
<1> HIDE DEF e, o
<1>5. all \in Seq(Row)
  BY <1>3, <1>4, PinOnTop
<1> HIDE DEF all
<1>6. n \in 0 .. Len(all)
  BY <1>5
<1> HIDE DEF n
<1>7. overlayHistory' \in Seq(Row)
  BY <1>1, <1>5, <1>6, Truncated
<1>8. cursor' \in Int /\ WithinRows'
  BY <1>0, <1>1, <1>7, CursorFollows DEF PanelInv
<1>9. PanelTyping'
  BY <1>0, <1>1, <1>2, <1>7, <1>8 DEF PanelTyping
<1>10. UpToDate'
  <2>1. CASE Asked(overlayCalls)
    BY <1>1, <2>1, PanelPrimed
  <2>2. CASE Leads(overlayAnswers, overlayStore, overlayHistory, overlayClips, clean)
    <3>1. Leads(overlayAnswers, overlayStore, overlayHistory', overlayClips, FALSE)
      BY <2>2 DEF Leads
    <3> QED BY <1>1, <3>1, PanelPrimed
  <2> QED BY <2>1, <2>2 DEF PanelInv, UpToDate
<1> QED BY <1>1, <1>8, <1>9, <1>10, PanelPrimed DEF PanelInv

\* The panel is opened: it asks for the list.
LEMMA PanelFocus ==
  ASSUME PanelInv, Panel!OnFocus
  PROVE  PanelInv'
<1>0. PanelTyping /\ overlayEvents \in Seq(Told)
  BY DEF PanelInv, PanelTyping
<1>1. /\ overlayEvents # <<>> /\ overlayEvents' = Tail(overlayEvents)
      /\ overlayCalls' = Append(overlayCalls, Panel!Read) /\ query' = FALSE /\ cursor' = 0
      /\ UNCHANGED <<overlayStore, overlayAnswers, overlayHistory, clean, mixed, below,
                     overlayClips>>
  BY DEF Panel!OnFocus, Panel!bounds
<1>2. overlayEvents' \in Seq(Told)
  BY <1>0, <1>1, Taken
<1>3. Panel!Read \in Request /\ Panel!Read.do = "get_history"
  BY DEF Panel!Read, Panel!Call, Request
<1>4. overlayCalls' \in Seq(Request) /\ Asked(overlayCalls')
  BY <1>0, <1>1, <1>3, RequestAdded
<1>5. PanelTyping'
  <2>1. query' \in BOOLEAN /\ cursor' \in Int
    <3>1. query' = FALSE
      BY <1>1
    <3>2. cursor' = 0
      BY <1>1
    <3>3. query' \in BOOLEAN
      BY <3>1
    <3>4. cursor' \in Int
      BY <3>2
    <3> QED BY <3>3, <3>4
  <2> QED BY <1>0, <1>1, <1>2, <1>4, <2>1 DEF PanelTyping
<1>6. UpToDate' /\ WithinRows'
  BY <1>1, <1>4, PanelPrimed
<1> QED BY <1>1, <1>5, <1>6, PanelPrimed DEF PanelInv

\* An answer is taken that shows a list: the one that was read, or less an entry.
LEMMA PanelShows ==
  ASSUME MaxResults \in Nat, PanelInv, Panel!Listed \/ Panel!Deleted \/ Panel!Pasted
  PROVE  PanelInv'
<1> DEFINE x == Head(overlayAnswers)
<1>0. /\ PanelTyping /\ overlayStore \in Seq(Row) /\ overlayHistory \in Seq(Row)
      /\ overlayAnswers \in Seq(Reply)
  BY DEF PanelInv, PanelTyping
<1>1. /\ Panel!Answered(x.to.do)
      /\ \/ /\ x.to.do = "get_history" /\ overlayHistory' = x.list
            /\ clean' \in BOOLEAN /\ (clean' => x.clips = overlayClips)
         \/ /\ x.to.do = "delete_entry"
            /\ overlayHistory' = Panel!Without(overlayHistory, x.to.id) /\ clean' = clean
         \/ /\ x.to.do = "paste_from_overlay" /\ overlayHistory' = overlayHistory /\ clean' = clean
      /\ \/ cursor' = Panel!Cursor(overlayHistory', query, cursor)
         \/ overlayHistory' = overlayHistory /\ cursor' = cursor
      /\ UNCHANGED <<overlayStore, overlayCalls, overlayEvents, query, mixed, below, overlayClips>>
  <2>1. CASE Panel!Listed
    <3>1. /\ Panel!Answered("get_history") /\ overlayHistory' = x.list
          /\ cursor' = Panel!Cursor(overlayHistory', query, cursor)
          /\ clean' = /\ x.clips = overlayClips
                      /\ \A k \in DOMAIN overlayEvents : overlayEvents[k].name # "clip"
          /\ UNCHANGED <<overlayStore, overlayCalls, overlayEvents, query, mixed, below,
                         overlayClips>>
      BY <2>1 DEF Panel!Listed, Panel!ShowList, Panel!bounds
    <3>2. x.to.do = "get_history"
      BY <3>1 DEF Panel!Answered
    <3>3. clean' \in BOOLEAN /\ (clean' => x.clips = overlayClips)
      BY <3>1
    <3> QED BY <3>1, <3>2, <3>3
  <2>2. CASE Panel!Deleted
    <3>1. /\ Panel!Answered("delete_entry")
          /\ overlayHistory' = Panel!Without(overlayHistory, x.to.id)
          /\ cursor' = Panel!Cursor(overlayHistory', query, cursor) /\ clean' = clean
          /\ UNCHANGED <<overlayStore, overlayCalls, overlayEvents, query, mixed, below,
                         overlayClips>>
      BY <2>2 DEF Panel!Deleted, Panel!ShowList, Panel!bounds
    <3>2. x.to.do = "delete_entry"
      BY <3>1 DEF Panel!Answered
    <3> QED BY <3>1, <3>2
  <2>3. CASE Panel!Pasted
    <3>1. /\ Panel!Answered("paste_from_overlay")
          /\ overlayHistory' = overlayHistory /\ cursor' = cursor /\ clean' = clean
          /\ UNCHANGED <<overlayStore, overlayCalls, overlayEvents, query, mixed, below,
                         overlayClips>>
      BY <2>3 DEF Panel!Pasted, Panel!panel, Panel!bounds
    <3>2. x.to.do = "paste_from_overlay"
      BY <3>1 DEF Panel!Answered
    <3> QED BY <3>1, <3>2
  <2> QED BY <2>1, <2>2, <2>3
<1>2. /\ overlayAnswers # <<>> /\ x \in Reply /\ overlayAnswers' = Tail(overlayAnswers)
      /\ overlayAnswers' \in Seq(Reply)
      /\ \A k \in DOMAIN overlayAnswers' : overlayAnswers'[k].clips <= overlayClips
  BY <1>0, <1>1, ReplyTaken
<1>3. /\ \/ x.to.do = "get_history" /\ overlayHistory' = x.list
         \/ x.to.do = "delete_entry" /\ overlayHistory' = Less(overlayHistory, {x.to.id})
         \/ x.to.do = "paste_from_overlay" /\ overlayHistory' = overlayHistory
      /\ overlayHistory' \in Seq(Row) /\ clean' \in BOOLEAN
  <2>1. Panel!Without(overlayHistory, x.to.id) = Less(overlayHistory, {x.to.id})
    BY <1>0, PanelWithout
  <2>2. Less(overlayHistory, {x.to.id}) \in Seq(Row)
    BY <1>0, LessTwice
  <2>3. x.list \in Seq(Row)
    BY <1>2 DEF Reply
  <2>4. clean' \in BOOLEAN
    BY <1>0, <1>1 DEF PanelTyping
  <2> HIDE DEF x
  <2> QED BY <1>0, <1>1, <2>1, <2>2, <2>3, <2>4
<1>4. cursor' \in Int /\ WithinRows'
  <2>1. CASE cursor' = Panel!Cursor(overlayHistory', query, cursor)
    BY <1>0, <1>1, <1>3, <2>1, CursorFollows DEF PanelInv
  <2>2. CASE overlayHistory' = overlayHistory /\ cursor' = cursor
    <3>1. cursor' \in Int
      BY <1>0, <2>2 DEF PanelTyping
    <3> QED BY <1>1, <2>2, <3>1, PanelPrimed DEF PanelInv, WithinRows, Panel!results
  <2> QED BY <1>1, <2>1, <2>2
<1>5. PanelTyping'
  BY <1>0, <1>1, <1>2, <1>3, <1>4 DEF PanelTyping
<1>6. UpToDate'
  <2>1. CASE Asked(overlayCalls)
    BY <1>1, <2>1, PanelPrimed
  <2>2. CASE Leads(overlayAnswers, overlayStore, overlayHistory, overlayClips, clean)
    <3>1. \/ x.to.do = "get_history" /\ overlayHistory' = x.list /\ (clean' => x.clips = overlayClips)
          \/ x.to.do = "delete_entry" /\ overlayHistory' = Less(overlayHistory, {x.to.id})
               /\ (clean' => clean)
          \/ x.to.do = "paste_from_overlay" /\ overlayHistory' = overlayHistory /\ (clean' => clean)
      <4> HIDE DEF x
      <4> QED BY <1>1, <1>3
    <3>2. Leads(Tail(overlayAnswers), overlayStore, overlayHistory', overlayClips, clean')
      BY <1>0, <1>2, <2>2, <3>1, TakenLeadsOn
    <3> QED BY <1>1, <1>2, <3>2, PanelPrimed
  <2> QED BY <2>1, <2>2 DEF PanelInv, UpToDate
<1> QED BY <1>1, <1>4, <1>5, <1>6, PanelPrimed DEF PanelInv

\* A pin was set or taken off: the list is read again.
LEMMA PanelPinned ==
  ASSUME PanelInv, Panel!Pinned
  PROVE  PanelInv'
<1>0. PanelTyping
  BY DEF PanelInv
<1>1. /\ Panel!Answered("pin_entry") \/ Panel!Answered("unpin_entry")
      /\ overlayCalls' = Append(overlayCalls, Panel!Read)
      /\ UNCHANGED <<overlayStore, overlayEvents, overlayHistory, query, cursor, clean, mixed,
                     below, overlayClips>>
  BY DEF Panel!Pinned, Panel!panel, Panel!bounds
<1>2. /\ overlayAnswers' \in Seq(Reply)
      /\ \A k \in DOMAIN overlayAnswers' : overlayAnswers'[k].clips <= overlayClips
  BY <1>0, <1>1, ReplyTaken
<1>3. Panel!Read \in Request /\ Panel!Read.do = "get_history"
  BY DEF Panel!Read, Panel!Call, Request
<1>4. overlayCalls' \in Seq(Request) /\ Asked(overlayCalls')
  BY <1>0, <1>1, <1>3, RequestAdded
<1>5. PanelTyping'
  BY <1>0, <1>1, <1>2, <1>4 DEF PanelTyping
<1>6. UpToDate'
  BY <1>4, PanelPrimed
<1>7. WithinRows'
  BY <1>1, PanelPrimed DEF PanelInv, WithinRows, Panel!results
<1> QED BY <1>1, <1>5, <1>6, <1>7, PanelPrimed DEF PanelInv

\* A row's buttons, and Enter.
LEMMA PanelAsks ==
  ASSUME PanelInv, NEW id \in Nat,
         NEW do \in {"pin_entry", "unpin_entry", "delete_entry", "paste_from_overlay"},
         Panel!Ask(do, id),
         UNCHANGED <<overlayStore, overlayAnswers, overlayEvents, overlayHistory, query, cursor,
                     clean, mixed, below, overlayClips>>
  PROVE  PanelInv'
<1> DEFINE c == Panel!Call(do, id)
<1>0. PanelTyping
  BY DEF PanelInv
<1>1. overlayCalls' = Append(overlayCalls, c) /\ c \in Request
  BY DEF Panel!Ask, Panel!Call, Request
<1> HIDE DEF c
<1>2. overlayCalls' \in Seq(Request) /\ (Asked(overlayCalls) => Asked(overlayCalls'))
  BY <1>0, <1>1, RequestAdded
<1>3. PanelTyping'
  BY <1>0, <1>2 DEF PanelTyping
<1>4. UpToDate'
  BY <1>2, PanelPrimed DEF PanelInv, UpToDate
<1>5. WithinRows'
  BY PanelPrimed DEF PanelInv, WithinRows, Panel!results
<1> QED BY <1>3, <1>4, <1>5, PanelPrimed DEF PanelInv

\* The arrows, the mouse and the search box.
LEMMA PanelMoves ==
  ASSUME PanelInv, WithinRows', cursor' \in Int, query' \in BOOLEAN, below' \in BOOLEAN,
         UNCHANGED <<overlayStore, overlayCalls, overlayAnswers, overlayEvents, overlayHistory,
                     clean, mixed, overlayClips>>
  PROVE  PanelInv'
<1>1. PanelTyping'
  BY DEF PanelInv, PanelTyping
<1>2. UpToDate'
  BY PanelPrimed DEF PanelInv, UpToDate
<1> QED BY <1>1, <1>2, PanelPrimed DEF PanelInv

\* The cursor moves, or the search changes.
LEMMA PanelMoved ==
  ASSUME MaxResults \in Nat, PanelInv,
         \/ Panel!ArrowDown \/ Panel!ArrowUp \/ Panel!MouseLeave \/ Panel!Search
         \/ \E k \in DOMAIN Panel!Rows : Panel!MouseEnter(k)
  PROVE  PanelInv'
<1> DEFINE n == Len(Panel!results)
<1>0. /\ PanelTyping /\ query \in BOOLEAN /\ overlayHistory \in Seq(Row) /\ cursor \in Int
      /\ below \in BOOLEAN
  BY DEF PanelInv, PanelTyping
<1>1. /\ n \in Nat /\ DOMAIN Panel!Rows = 1 .. n
      /\ Panel!results = <<>> <=> n = 0
  BY <1>0, RowsOf
<1>2. ~below => cursor = 0 \/ (0 <= cursor /\ cursor < n)
  BY DEF PanelInv, WithinRows
<1>3. query' = query /\ overlayHistory' = overlayHistory =>
        (WithinRows' <=> (~below' => cursor' = 0 \/ (0 <= cursor' /\ cursor' < n)))
  BY PanelPrimed DEF Panel!results
<1> HIDE DEF n
<1>4. CASE Panel!ArrowDown
  <2>1. /\ cursor' = IF cursor + 1 < n THEN cursor + 1 ELSE n - 1
        /\ below' = (below \/ Panel!results = <<>>)
        /\ UNCHANGED <<overlayStore, overlayCalls, overlayAnswers, overlayEvents,
                       overlayHistory, clean, mixed, overlayClips, query>>
    BY <1>4 DEF Panel!ArrowDown, Panel!link, Panel!bounds, n
  <2>2. cursor' \in Int
    <3>1. cursor' = IF cursor + 1 < n THEN cursor + 1 ELSE n - 1
      BY <2>1
    <3> QED BY <1>0, <1>1, <3>1
  <2>3. below' \in BOOLEAN
    BY <2>1
  <2>4. ~below' => cursor' = 0 \/ (0 <= cursor' /\ cursor' < n)
    <3>1. ~below' => ~below /\ n # 0
      BY <1>1, <2>1
    <3>2. cursor' = IF cursor + 1 < n THEN cursor + 1 ELSE n - 1
      BY <2>1
    <3> QED BY <1>0, <1>1, <1>2, <3>1, <3>2
  <2>5. WithinRows' /\ query' \in BOOLEAN
    BY <1>0, <1>3, <2>1, <2>4
  <2> QED BY <2>1, <2>2, <2>3, <2>5, PanelMoves
<1>5. CASE Panel!ArrowUp
  <2>1. /\ cursor' = IF cursor > 0 THEN cursor - 1 ELSE 0
        /\ UNCHANGED <<overlayStore, overlayCalls, overlayAnswers, overlayEvents,
                       overlayHistory, clean, mixed, overlayClips, query, below>>
    BY <1>5 DEF Panel!ArrowUp, Panel!link, Panel!bounds
  <2>2. cursor' = IF cursor > 0 THEN cursor - 1 ELSE 0
    BY <2>1
  <2>3. cursor' \in Int
    BY <1>0, <2>2
  <2>4. ~below' => cursor' = 0 \/ (0 <= cursor' /\ cursor' < n)
    <3>1. ~below' => ~below
      BY <2>1
    <3> QED BY <1>0, <1>1, <1>2, <2>2, <3>1
  <2>5. WithinRows' /\ query' \in BOOLEAN /\ below' \in BOOLEAN
    BY <1>0, <1>3, <2>1, <2>4
  <2> QED BY <2>1, <2>3, <2>5, PanelMoves
<1>6. CASE Panel!MouseLeave
  <2>1. UNCHANGED <<overlayStore, overlayCalls, overlayAnswers, overlayEvents,
                    overlayHistory, clean, mixed, overlayClips, query, below, cursor>>
    BY <1>6 DEF Panel!MouseLeave, Panel!link, Panel!bounds
  <2>2. WithinRows'
    BY <1>2, <1>3, <2>1
  <2>3. cursor' \in Int /\ query' \in BOOLEAN /\ below' \in BOOLEAN
    BY <1>0, <2>1
  <2> QED BY <2>1, <2>2, <2>3, PanelMoves
<1>7. CASE Panel!Search
  <2>1. /\ query' = ~query /\ cursor' = 0
        /\ UNCHANGED <<overlayStore, overlayCalls, overlayAnswers, overlayEvents,
                       overlayHistory, clean, mixed, overlayClips, below>>
    BY <1>7 DEF Panel!Search, Panel!link, Panel!bounds
  <2>2. query' \in BOOLEAN
    BY <2>1
  <2>3. WithinRows' /\ cursor' \in Int /\ below' \in BOOLEAN
    BY <1>0, <2>1, PanelPrimed
  <2> QED BY <2>1, <2>2, <2>3, PanelMoves
<1>8. ASSUME NEW k \in DOMAIN Panel!Rows, Panel!MouseEnter(k) PROVE PanelInv'
  <2>1. /\ cursor' = k - 1
        /\ UNCHANGED <<overlayStore, overlayCalls, overlayAnswers, overlayEvents,
                       overlayHistory, clean, mixed, overlayClips, query, below>>
    BY <1>8 DEF Panel!MouseEnter, Panel!link, Panel!bounds
  <2>2. cursor' = k - 1 /\ k \in 1 .. n
    BY <1>1, <2>1
  <2>3. cursor' \in Int /\ 0 <= cursor' /\ cursor' < n
    BY <1>1, <2>2
  <2>4. WithinRows' /\ query' \in BOOLEAN /\ below' \in BOOLEAN
    BY <1>0, <1>3, <2>1, <2>3
  <2> QED BY <2>1, <2>3, <2>4, PanelMoves
<1> QED BY <1>4, <1>5, <1>6, <1>7, <1>8

\* A row is pinned, deleted or pasted: the backend is asked to.
LEMMA PanelUsed ==
  ASSUME MaxResults \in Nat, PanelInv,
         \/ \E k \in DOMAIN Panel!Rows : \/ Panel!TogglePin(k)
                                         \/ Panel!DeleteEntry(Panel!Rows[k].id)
                                         \/ Panel!Paste(Panel!Rows[k].id)
         \/ Panel!Enter
  PROVE  PanelInv'
<1>0. query \in BOOLEAN /\ overlayHistory \in Seq(Row)
  BY DEF PanelInv, PanelTyping
<1>1. ASSUME NEW k \in DOMAIN Panel!Rows PROVE Panel!Rows[k].id \in Nat
  <2>1. Panel!Rows[k] \in Row
    BY <1>0, RowsOf
  <2> QED BY <2>1 DEF Row
<1>2. ASSUME NEW k \in DOMAIN Panel!Rows, Panel!TogglePin(k) PROVE PanelInv'
  <2> DEFINE do == IF Panel!Rows[k].pinned THEN "unpin_entry" ELSE "pin_entry"
             id == Panel!Rows[k].id
  <2>1. /\ Panel!Ask(do, id)
        /\ UNCHANGED <<overlayStore, overlayAnswers, overlayEvents, overlayHistory, query, cursor,
                       clean, mixed, below, overlayClips>>
    BY <1>2 DEF Panel!TogglePin, Panel!panel
  <2>2. do \in {"pin_entry", "unpin_entry", "delete_entry", "paste_from_overlay"} /\ id \in Nat
    BY <1>1
  <2> HIDE DEF do, id
  <2> QED BY <2>1, <2>2, PanelAsks
<1>3. ASSUME NEW id \in Nat, Panel!DeleteEntry(id) PROVE PanelInv'
  BY <1>3, PanelAsks DEF Panel!DeleteEntry, Panel!panel
<1>4. ASSUME NEW id \in Nat, Panel!Paste(id) PROVE PanelInv'
  BY <1>4, PanelAsks DEF Panel!Paste, Panel!panel
<1>5. CASE Panel!Enter
  <2>1. PICK k \in DOMAIN Panel!results : Panel!Paste(Panel!results[k].id)
    BY <1>5 DEF Panel!Enter
  <2>2. Panel!results[k] \in Row
    BY <1>0, RowsOf
  <2>3. Panel!results[k].id \in Nat
    BY <2>2 DEF Row
  <2> QED BY <1>4, <2>1, <2>3
<1> QED BY <1>1, <1>2, <1>3, <1>4, <1>5

\* A step that changes nothing.
LEMMA PanelSame ==
  ASSUME PanelInv,
         UNCHANGED <<overlayStore, overlayCalls, overlayAnswers, overlayEvents, overlayHistory,
                     query, cursor, clean, mixed, below, overlayClips>>
  PROVE  PanelInv'
<1>1. WithinRows'
  BY PanelPrimed DEF PanelInv, WithinRows, Panel!results
<1>2. cursor' \in Int /\ query' \in BOOLEAN /\ below' \in BOOLEAN
  BY DEF PanelInv, PanelTyping
<1> QED BY <1>1, <1>2, PanelMoves

\* Every step of the panel and of the backend keeps the invariant.
LEMMA PanelFollows ==
  ASSUME MaxResults \in Nat, MaxKept \in Nat, PanelInv, [Panel!Next]_(Panel!vars)
  PROVE  PanelInv'
<1>1. ASSUME NEW t \in Word, Panel!Recorded(t) PROVE PanelInv'
  BY <1>1, PanelRecorded
<1>15. CASE Panel!ChangedElsewhere
  BY <1>15, PanelCut
<1>2. CASE Panel!RunRead
  BY <1>2, PanelReads
<1>3. ASSUME NEW pin \in BOOLEAN, Panel!RunPin(pin) PROVE PanelInv'
  BY <1>3, PanelPins
<1>4. CASE Panel!RunDelete \/ Panel!RunPaste
  BY <1>4, PanelRuns
<1>5. CASE Panel!Open \/ Panel!Hide
  BY <1>5, PanelOpens
<1>6. CASE Panel!OnClip
  BY <1>6, PanelClip
<1>7. CASE Panel!OnFocus
  BY <1>7, PanelFocus
<1>8. CASE Panel!Listed \/ Panel!Deleted \/ Panel!Pasted
  BY <1>8, PanelShows
<1>9. CASE Panel!Pinned
  BY <1>9, PanelPinned
<1>10. ASSUME NEW k \in DOMAIN Panel!Rows,
              \/ Panel!TogglePin(k) \/ Panel!DeleteEntry(Panel!Rows[k].id)
              \/ Panel!Paste(Panel!Rows[k].id)
       PROVE  PanelInv'
  BY <1>10, PanelUsed
<1>11. CASE Panel!Enter
  BY <1>11, PanelUsed
<1>12. CASE Panel!ArrowDown \/ Panel!ArrowUp \/ Panel!MouseLeave \/ Panel!Search
  BY <1>12, PanelMoved
<1>13. ASSUME NEW k \in DOMAIN Panel!Rows, Panel!MouseEnter(k) PROVE PanelInv'
  BY <1>13, PanelMoved
<1>14. CASE UNCHANGED Panel!vars
  BY <1>14, PanelSame DEF Panel!vars, Panel!link, Panel!panel, Panel!bounds
<1> QED BY <1>1, <1>2, <1>3, <1>4, <1>5, <1>6, <1>7, <1>8, <1>9, <1>10, <1>11, <1>12, <1>13,
           <1>14, <1>15
        DEF Panel!Next

\* The panel asks for the list as it is mounted.
LEMMA PanelStart ==
  ASSUME Panel!Init
  PROVE  PanelInv
<1>1. /\ overlayStore = <<>> /\ overlayCalls = <<Panel!Read>> /\ overlayAnswers = <<>>
      /\ overlayEvents = <<>> /\ overlayHistory = <<>> /\ query = FALSE /\ cursor = 0
      /\ clean = TRUE /\ mixed = FALSE /\ below = FALSE /\ overlayClips = 0
  BY DEF Panel!Init
<1>2. Panel!Read \in Request /\ Panel!Read.do = "get_history"
  BY DEF Panel!Read, Panel!Call, Request
<1>3. overlayCalls \in Seq(Request) /\ Asked(overlayCalls)
  <2> DEFINE c == Panel!Read
  <2>1. overlayCalls = <<c>> /\ c \in Request /\ c.do = "get_history"
    BY <1>1, <1>2
  <2> HIDE DEF c
  <2>2. DOMAIN overlayCalls = {1} /\ overlayCalls[1] = c
    BY <2>1
  <2> QED BY <2>1, <2>2 DEF Asked
<1>4. PanelTyping
  <2>1. overlayStore \in Seq(Row) /\ overlayHistory \in Seq(Row)
    BY <1>1
  <2>2. overlayAnswers \in Seq(Reply) /\ overlayEvents \in Seq(Told)
    BY <1>1
  <2>3. cursor \in Int /\ overlayClips \in Nat
    BY <1>1
  <2>4. query \in BOOLEAN /\ clean \in BOOLEAN
    <3>1. query = FALSE
      BY <1>1
    <3>2. clean = TRUE
      BY <1>1
    <3> QED BY <3>1, <3>2
  <2>5. mixed \in BOOLEAN /\ below \in BOOLEAN
    <3>1. mixed = FALSE
      BY <1>1
    <3>2. below = FALSE
      BY <1>1
    <3> QED BY <3>1, <3>2
  <2>6. DOMAIN overlayAnswers = {}
    BY <1>1
  <2> QED BY <1>3, <2>1, <2>2, <2>3, <2>4, <2>5, <2>6 DEF PanelTyping
<1>5. UpToDate
  BY <1>3 DEF UpToDate
<1>6. PinsFirst(overlayStore)
  BY <1>1 DEF PinsFirst
<1>7. WithinRows
  BY <1>1 DEF WithinRows
<1> QED BY <1>4, <1>5, <1>6, <1>7 DEF PanelInv

\* The panel shows the history once it is answered, and Enter pastes the row it shows.
LEMMA PanelAlone ==
  ASSUME MaxResults \in Nat, MaxKept \in Nat
  PROVE  Panel!Spec => []Panel!PanelHonest
<1>1. Panel!Init => PanelInv
  BY PanelStart
<1>2. PanelInv /\ [Panel!Next]_(Panel!vars) => PanelInv'
  BY PanelFollows
<1>3. PanelInv => Panel!PanelHonest
  <2> SUFFICES ASSUME PanelInv PROVE Panel!PanelHonest
    OBVIOUS
  <2>0. query \in BOOLEAN /\ overlayHistory \in Seq(Row) /\ cursor \in Int
    BY DEF PanelInv, PanelTyping
  <2>1. ASSUME Panel!Quiet, clean PROVE overlayHistory = overlayStore
    <3>1. overlayCalls = <<>> /\ overlayAnswers = <<>>
      BY <2>1 DEF Panel!Quiet
    <3>2. Leads(overlayAnswers, overlayStore, overlayHistory, overlayClips, clean)
      BY <3>1 DEF PanelInv, UpToDate, Asked
    <3>3. overlayStore = Less(overlayHistory, Deletes(overlayAnswers, 0))
      BY <2>1, <3>1, <3>2 DEF Leads
    <3>4. Deletes(overlayAnswers, 0) = {}
      BY <3>1 DEF Deletes
    <3> QED BY <2>0, <3>3, <3>4, LessNone
  <2>2. Panel!PanelFresh
    BY <2>1 DEF Panel!PanelFresh
  <2>3. Panel!EnterHasARow
    <3>1. /\ Len(Panel!results) \in Nat
          /\ DOMAIN Panel!results = 1 .. Len(Panel!results) /\ Panel!results \in Seq(Row)
      BY <2>0, RowsOf
    <3>2. ASSUME ~below, Panel!results # <<>> PROVE cursor + 1 \in DOMAIN Panel!results
      <4>1. Len(Panel!results) # 0
        BY <3>1, <3>2
      <4>2. cursor = 0 \/ (0 <= cursor /\ cursor < Len(Panel!results))
        BY <3>2 DEF PanelInv, WithinRows
      <4> QED BY <2>0, <3>1, <4>1, <4>2
    <3> QED BY <3>2 DEF Panel!EnterHasARow
  <2>4. Panel!EnterPastesTheRow
    <3>1. ASSUME Panel!Quiet, clean, ~mixed PROVE Panel!Rows = Panel!results
      <4>1. PinsFirst(overlayHistory)
        BY <2>1, <3>1 DEF PanelInv
      <4> QED BY <2>0, <4>1, RowsOf
    <3> QED BY <3>1, Zenon DEF Panel!EnterPastesTheRow
  <2> QED BY <2>2, <2>3, <2>4 DEF Panel!PanelHonest
<1> QED BY <1>1, <1>2, <1>3, PTL DEF Panel!Spec

------------------------------------------------------------------------------
(* Side by side *)

\* A behaviour is one of the component it begins as.
LEMMA OneComponent ==
  ASSUME [ListNext]_listVars
  PROVE  /\ part' = part
         /\ part = "mirror" => [Mirrored!Next]_(Mirrored!vars)
         /\ part = "clips" => [Clips!Next]_(Clips!vars)
         /\ part = "overlay" => [Panel!Next]_(Panel!vars)
         /\ part = "demo" => [Demo!Next]_(Demo!vars)
         /\ part = "downloads" => [Site!Next]_(Site!vars)
         /\ part = "files" => [Files!Next]_(Files!vars)
         /\ part = "toasts" => [Stack!Next]_(Stack!vars)
<1>1. CASE UNCHANGED listVars
  <2>1. UNCHANGED <<part, MirroredVars, ClipsVars, PanelVars, DemoVars, SiteVars, FilesVars,
                    StackVars>>
    BY <1>1 DEF listVars
  <2>2. UNCHANGED Mirrored!vars
    BY <2>1 DEF MirroredVars, Mirrored!vars, Mirrored!phones, Mirrored!wire, Mirrored!ghosts,
       Mirrored!bounds
  <2>3. UNCHANGED Clips!vars
    BY <2>1 DEF ClipsVars, Clips!vars, Clips!link, Clips!window, Clips!ghosts, Clips!bounds
  <2>4. UNCHANGED Panel!vars
    BY <2>1 DEF PanelVars, Panel!vars, Panel!link, Panel!panel, Panel!bounds
  <2>5. UNCHANGED Demo!vars
    BY <2>1 DEF DemoVars, Demo!vars
  <2>6. UNCHANGED Site!vars
    BY <2>1 DEF SiteVars, Site!vars
  <2>7. UNCHANGED Files!vars
    BY <2>1 DEF FilesVars, Files!vars, Files!pc, Files!wire, Files!losses, Files!bounds
  <2>8. UNCHANGED Stack!vars
    BY <2>1 DEF StackVars, Stack!vars, Stack!timers, Stack!pointer, Stack!window, Stack!prefs,
       Stack!bounds
  <2> QED BY <2>1, <2>2, <2>3, <2>4, <2>5, <2>6, <2>7, <2>8
<1>2. CASE ListNext
  BY <1>2 DEF ListNext, ListOnly
<1> QED BY <1>1, <1>2

\* The window shows what arrived last of each key, the newest first, and a phone keeps
\* what was dismissed only if the dismissal missed it (server.rs, NotificationModule.kt,
\* NotificationService.kt).
THEOREM MirrorIsTrue == ListSpec => []MirrorHonest
<1>1. ListInit /\ part = "mirror" => Mirrored!Init
  BY DEF ListInit
<1>2. part = "mirror" /\ [ListNext]_listVars
        => (part = "mirror")' /\ [Mirrored!Next]_(Mirrored!vars)
  BY OneComponent
<1>3. ~(part = "mirror") /\ [ListNext]_listVars => ~(part = "mirror")'
  BY OneComponent
<1>4. Mirrored!Spec => []Mirrored!MirrorHonest
  BY ListPartsAssumption, MirroredAlone
<1> QED
  BY <1>1, <1>2, <1>3, <1>4, PTL
  DEF ListSpec, Mirrored!Spec, MirrorHonest

\* The Clipboard tab is newest first but for pins of before its list was read, and lacks
\* nothing of the backend but for cuts and the named holes, in every order of calls,
\* answers and events (App.tsx, lib.rs).
THEOREM ClipsTabFollows == ListSpec => []ClipsHonest
<1>1. ListInit /\ part = "clips" => Clips!Init
  BY DEF ListInit
<1>2. part = "clips" /\ [ListNext]_listVars
        => (part = "clips")' /\ [Clips!Next]_(Clips!vars)
  BY OneComponent
<1>3. ~(part = "clips") /\ [ListNext]_listVars => ~(part = "clips")'
  BY OneComponent
<1>4. Clips!Spec => []Clips!ClipsHonest
  BY ListPartsAssumption, ClipsAlone DEF ClipsAssumption
<1> QED
  BY <1>1, <1>2, <1>3, <1>4, PTL
  DEF ListSpec, Clips!Spec, ClipsHonest

\* The quick panel shows the history of its last read, and Enter pastes the row that is
\* highlighted as long as nothing has changed since (Overlay.tsx, lib.rs).
THEOREM PanelIsHonest == ListSpec => []PanelHonest
<1>1. ListInit /\ part = "overlay" => Panel!Init
  BY DEF ListInit
<1>2. part = "overlay" /\ [ListNext]_listVars
        => (part = "overlay")' /\ [Panel!Next]_(Panel!vars)
  BY OneComponent
<1>3. ~(part = "overlay") /\ [ListNext]_listVars => ~(part = "overlay")'
  BY OneComponent
<1>4. Panel!Spec => []Panel!PanelHonest
  BY ListPartsAssumption, PanelAlone
<1> QED
  BY <1>1, <1>2, <1>3, <1>4, PTL
  DEF ListSpec, Panel!Spec, PanelHonest

\* Files from a phone are saved whole, once and in order, and each that was sent is on
\* one account (server.rs, lib.rs, App.tsx).
THEOREM TransfersAreAccounted == ListSpec => []TransfersHold
<1>1. ListInit /\ part = "files" => Files!Init
  BY DEF ListInit
<1>2. part = "files" /\ [ListNext]_listVars
        => (part = "files")' /\ [Files!Next]_(Files!vars)
  BY OneComponent
<1>3. ~(part = "files") /\ [ListNext]_listVars => ~(part = "files")'
  BY OneComponent
<1>4. Files!Spec => []Files!TransfersHold
  BY ListPartsAssumption, FilesAlone DEF FilesAssumption
<1> QED
  BY <1>1, <1>2, <1>3, <1>4, PTL
  DEF ListSpec, Files!Spec, TransfersHold

\* Every toast that is not leaving has a timer unless the countdown is held, and the
\* window and the pointer follow the stack (Toasts.tsx).
THEOREM ToastsAreHonest == ListSpec => []ToastsHonest
<1>1. ListInit /\ part = "toasts" => Stack!Init
  BY DEF ListInit
<1>2. part = "toasts" /\ [ListNext]_listVars
        => (part = "toasts")' /\ [Stack!Next]_(Stack!vars)
  BY OneComponent
<1>3. ~(part = "toasts") /\ [ListNext]_listVars => ~(part = "toasts")'
  BY OneComponent
<1>4. Stack!Spec => []Stack!ToastsHonest
  BY StackAlone
<1> QED
  BY <1>1, <1>2, <1>3, <1>4, PTL
  DEF ListSpec, Stack!Spec, ToastsHonest

\* The demonstration sends what is typed and returns nothing that it received, and the
\* links of the download section lead to what they say (SyncSimulator.tsx, Downloads.tsx,
\* release.ts).
THEOREM WebsiteIsHonest == ListSpec => []WebsiteHonest
<1>1. /\ ListInit /\ part = "demo" => Demo!Init
      /\ ListInit /\ part = "downloads" => Site!Init
  BY DEF ListInit
<1>2. part = "demo" /\ [ListNext]_listVars
        => (part = "demo")' /\ [Demo!Next]_(Demo!vars)
  BY OneComponent
<1>3. ~(part = "demo") /\ [ListNext]_listVars => ~(part = "demo")'
  BY OneComponent
<1>4. part = "downloads" /\ [ListNext]_listVars
        => (part = "downloads")' /\ [Site!Next]_(Site!vars)
  BY OneComponent
<1>5. ~(part = "downloads") /\ [ListNext]_listVars => ~(part = "downloads")'
  BY OneComponent
<1>6. Demo!Spec => []Demo!SimulatorHonest
  BY ListPartsAssumption, DemoAlone
<1>7. Site!Spec => []Site!DownloadsHonest
  BY ListPartsAssumption, SiteAlone DEF SiteAssumption
<1> QED
  BY <1>1, <1>2, <1>3, <1>4, <1>5, <1>6, <1>7, PTL
  DEF ListSpec, Demo!Spec, Site!Spec, WebsiteHonest
=============================================================================
