-------------------------- MODULE TurnQueueProofs --------------------------
(***************************************************************************)
(* What holds of TurnQueue for any inputs, slots and loads: the types, the  *)
(* refinement of PromptLedger (PlaceInv), the order of delivery (OrderInv), *)
(* the shutdown and the answers (FlowInv), and the batch armed by           *)
(* abort_and_send_queued when clients send rows only (ForceInv).  Each      *)
(* rests on what Enqueued, Without and Prefix make of a lane, shown first.  *)
(***************************************************************************)
EXTENDS TurnQueue, FiniteSetTheorems, SequenceTheorems, WellFoundedInduction, TLAPS

-----------------------------------------------------------------------------
(* Numbers and places *)

\* A set of naturals has a least element: their intervals 0..n are well
\* founded under inclusion.
LEMMA LeastOf ==
  ASSUME NEW T \in SUBSET Nat, T # {}
  PROVE  \E x \in T : \A y \in T : x <= y
<1> DEFINE W == {0..n : n \in T}
<1>1. W \subseteq FiniteSubsetsOf(Nat)
  <2> SUFFICES ASSUME NEW n \in T PROVE 0..n \in FiniteSubsetsOf(Nat)
    OBVIOUS
  <2> QED BY FS_Interval DEF FiniteSubsetsOf
<1>2. IsWellFoundedOn(StrictSubsetOrdering(Nat), FiniteSubsetsOf(Nat))
  BY FS_StrictSubsetOrderingWellFounded
<1>3. W # {}
  OBVIOUS
<1> HIDE DEF W
<1>4. PICK w \in W : \A v \in W : <<v, w>> \notin StrictSubsetOrdering(Nat)
  BY <1>1, <1>2, <1>3, WFMin
<1>5. PICK x \in T : w = 0..x
  BY DEF W
<1>6. ASSUME NEW y \in T PROVE x <= y
  <2> SUFFICES ASSUME y < x PROVE FALSE
    OBVIOUS
  <2>1. 0..y \in W
    BY DEF W
  <2>2. 0..y \subseteq 0..x /\ 0..y # 0..x
    <3>1. x \in 0..x /\ x \notin 0..y
      OBVIOUS
    <3> QED BY <3>1
  <2>3. <<0..y, w>> \in StrictSubsetOrdering(Nat)
    BY <2>2, <1>5 DEF StrictSubsetOrdering
  <2> QED BY <2>1, <2>3, <1>4
<1> QED BY <1>6

\* Hence a set that contains 0 and every successor contains every natural.
LEMMA EveryNatural ==
  ASSUME NEW S, 0 \in S, \A n \in Nat : n \in S => n + 1 \in S
  PROVE  Nat \subseteq S
<1> DEFINE T == {n \in Nat : n \notin S}
<1> SUFFICES ASSUME T # {} PROVE FALSE
  OBVIOUS
<1>1. PICK m \in T : \A y \in T : m <= y
  BY LeastOf
<1>2. m # 0 /\ m - 1 \in Nat
  OBVIOUS
<1>3. m - 1 \in S
  BY <1>1, <1>2
<1> QED BY <1>2, <1>3

\* And a nonempty bounded set of naturals has a largest element.
LEMMA LargestOf ==
  ASSUME NEW P \in SUBSET Nat, IsFiniteSet(P), P # {}
  PROVE  \E m \in P : \A j \in P : j <= m
<1> DEFINE Good == {n \in Nat : \A R \in SUBSET Nat :
                     IsFiniteSet(R) /\ R # {} /\ Cardinality(R) = n
                       => \E m \in R : \A j \in R : j <= m}
<1>1. 0 \in Good
  BY FS_EmptySet
<1>2. ASSUME NEW n \in Nat, n \in Good PROVE n + 1 \in Good
  <2> SUFFICES ASSUME NEW R \in SUBSET Nat,
                      IsFiniteSet(R), R # {}, Cardinality(R) = n + 1
               PROVE  \E m \in R : \A j \in R : j <= m
    OBVIOUS
  <2>1. PICK x : x \in R
    OBVIOUS
  <2>2. IsFiniteSet(R \ {x}) /\ Cardinality(R \ {x}) = n
    <3>1. IsFiniteSet(R \ {x}) /\ Cardinality(R \ {x}) = Cardinality(R) - 1
      BY <2>1, FS_RemoveElement
    <3>2. Cardinality(R) - 1 = n
      BY <1>2
    <3> QED BY <3>1, <3>2
  <2>3. CASE R \ {x} = {}
    BY <2>1, <2>3
  <2>4. CASE R \ {x} # {}
    <3>1. PICK m \in R \ {x} : \A j \in R \ {x} : j <= m
      BY <2>2, <2>4, <1>2
    <3>2. m <= x \/ x <= m
      BY <2>1
    <3> QED BY <2>1, <3>1, <3>2
  <2> QED BY <2>3, <2>4
<1>3. Nat \subseteq Good
  <2> HIDE DEF Good
  <2> QED BY <1>1, <1>2, EveryNatural
<1>4. Cardinality(P) \in Nat
  BY FS_CardinalityType
<1> QED BY <1>3, <1>4

\* Every place of a finite set has a number.
LEMMA PlacesAreNumbered ==
  ASSUME NEW P \in SUBSET Nat, IsFiniteSet(P)
  PROVE  /\ Cardinality(P) \in Nat
         /\ \A k \in 1..Cardinality(P) :
              \E j \in P : Cardinality({h \in P : h < j}) = k - 1
<1> DEFINE Good == {n \in Nat : \A R \in SUBSET Nat :
                     IsFiniteSet(R) /\ Cardinality(R) = n
                       => \A k \in 1..n : \E j \in R : Cardinality({h \in R : h < j}) = k - 1}
<1>1. 0 \in Good
  OBVIOUS
<1>2. ASSUME NEW n \in Nat, n \in Good PROVE n + 1 \in Good
  <2> SUFFICES ASSUME NEW R \in SUBSET Nat, IsFiniteSet(R), Cardinality(R) = n + 1,
                      NEW k \in 1..(n + 1)
               PROVE  \E j \in R : Cardinality({h \in R : h < j}) = k - 1
    OBVIOUS
  <2>1. R # {}
    BY FS_EmptySet
  <2>2. PICK m \in R : \A j \in R : j <= m
    BY <2>1, LargestOf
  <2>3. IsFiniteSet(R \ {m}) /\ Cardinality(R \ {m}) = n
    <3>1. IsFiniteSet(R \ {m}) /\ Cardinality(R \ {m}) = Cardinality(R) - 1
      BY FS_RemoveElement
    <3>2. Cardinality(R) - 1 = n
      BY <1>2
    <3> QED BY <3>1, <3>2
  <2>4. CASE k = n + 1
    <3>1. ASSUME NEW h \in R PROVE h < m <=> h # m
      <4>1. h \in Nat /\ m \in Nat /\ h <= m
        BY <2>2
      <4> QED BY <4>1
    <3>2. {h \in R : h < m} = R \ {m}
      BY <3>1
    <3> QED BY <3>2, <2>3, <2>4
  <2>5. CASE k # n + 1
    <3>1. k \in 1..n
      BY <2>5
    <3>2. PICK j \in R \ {m} : Cardinality({h \in R \ {m} : h < j}) = k - 1
      BY <2>3, <3>1, <1>2
    <3>3. {h \in R \ {m} : h < j} = {h \in R : h < j}
      BY <2>2
    <3> QED BY <3>2, <3>3
  <2> QED BY <2>4, <2>5
<1>3. Nat \subseteq Good
  <2> HIDE DEF Good
  <2> QED BY <1>1, <1>2, EveryNatural
<1>4. Cardinality(P) \in Nat
  BY FS_CardinalityType
<1> QED BY <1>3, <1>4

\* Nth goes through the places of a finite set in their order.
LEMMA NthInOrder ==
  ASSUME NEW P \in SUBSET Nat, IsFiniteSet(P)
  PROVE  /\ Cardinality(P) \in Nat
         /\ \A k \in 1..Cardinality(P) : Nth(P, k) \in P
         /\ \A j, k \in 1..Cardinality(P) : j < k => Nth(P, j) < Nth(P, k)
         /\ \A p \in P : \E k \in 1..Cardinality(P) : Nth(P, k) = p
<1> DEFINE Below(j) == {h \in P : h < j}
<1>0. Cardinality(P) \in Nat
  BY FS_CardinalityType
<1>1. \A k \in 1..Cardinality(P) : Nth(P, k) \in P /\ Cardinality(Below(Nth(P, k))) = k - 1
  <2> SUFFICES ASSUME NEW k \in 1..Cardinality(P)
               PROVE  Nth(P, k) \in P /\ Cardinality(Below(Nth(P, k))) = k - 1
    OBVIOUS
  <2>1. \E j \in P : Cardinality({h \in P : h < j}) = k - 1
    BY PlacesAreNumbered
  <2> QED BY <2>1 DEF Nth
<1>2. ASSUME NEW i \in P, NEW j \in P, i < j
      PROVE  Cardinality(Below(i)) < Cardinality(Below(j))
  <2>0. i \in Nat /\ j \in Nat /\ \A h \in P : h \in Nat
    BY <1>2
  <2>1. IsFiniteSet(Below(j)) /\ IsFiniteSet(Below(i))
    BY FS_Subset
  <2>2. Below(i) \subseteq Below(j) /\ i \in Below(j) /\ i \notin Below(i)
    <3>1. ASSUME NEW h \in P, h < i PROVE h < j
      BY <1>2, <2>0, <3>1
    <3>2. ~(i < i)
      BY <2>0
    <3> QED BY <1>2, <3>1, <3>2
  <2>3. /\ Cardinality(Below(i)) <= Cardinality(Below(j))
        /\ Cardinality(Below(i)) = Cardinality(Below(j)) => Below(i) = Below(j)
    BY <2>1, <2>2, FS_Subset
  <2>4. Cardinality(Below(i)) \in Nat /\ Cardinality(Below(j)) \in Nat
    BY <2>1, FS_CardinalityType
  <2> QED BY <2>2, <2>3, <2>4
<1>3. ASSUME NEW j \in 1..Cardinality(P), NEW k \in 1..Cardinality(P), j < k
      PROVE  Nth(P, j) < Nth(P, k)
  <2>1. Nth(P, j) \in P /\ Nth(P, k) \in P
    BY <1>1
  <2>2. Cardinality(Below(Nth(P, j))) = j - 1 /\ Cardinality(Below(Nth(P, k))) = k - 1
    BY <1>1
  <2>3. CASE Nth(P, k) < Nth(P, j)
    <3>1. Cardinality(Below(Nth(P, k))) < Cardinality(Below(Nth(P, j)))
      BY <2>1, <2>3, <1>2
    <3> QED BY <3>1, <2>2, <1>3, <1>0
  <2>4. CASE Nth(P, k) = Nth(P, j)
    BY <2>2, <2>4, <1>3, <1>0
  <2>5. Nth(P, j) \in Nat /\ Nth(P, k) \in Nat
    BY <2>1
  <2> QED BY <2>3, <2>4, <2>5
<1>4. ASSUME NEW p \in P PROVE \E k \in 1..Cardinality(P) : Nth(P, k) = p
  <2>1. IsFiniteSet(Below(p)) /\ Below(p) \subseteq P /\ p \notin Below(p)
    BY FS_Subset
  <2>2. Cardinality(Below(p)) \in Nat /\ Cardinality(Below(p)) <= Cardinality(P)
        /\ Cardinality(Below(p)) # Cardinality(P)
    BY <2>1, FS_Subset, FS_CardinalityType
  <2> DEFINE k == Cardinality(Below(p)) + 1
  <2>3. k \in 1..Cardinality(P)
    BY <2>2, <1>0
  <2>4. Nth(P, k) \in P /\ Cardinality(Below(Nth(P, k))) = Cardinality(Below(p))
    <3>1. k - 1 = Cardinality(Below(p))
      BY <2>2
    <3> QED BY <1>1, <2>3, <3>1
  <2>5. Nth(P, k) = p
    <3>1. CASE Nth(P, k) < p
      <4>1. Cardinality(Below(Nth(P, k))) < Cardinality(Below(p))
        BY <3>1, <2>4, <1>2
      <4> QED BY <4>1, <2>4, <2>2
    <3>2. CASE p < Nth(P, k)
      <4>1. Cardinality(Below(p)) < Cardinality(Below(Nth(P, k)))
        BY <3>2, <2>4, <1>2
      <4> QED BY <4>1, <2>4, <2>2
    <3>3. Nth(P, k) \in Nat /\ p \in Nat
      BY <2>4, <1>4
    <3> QED BY <3>1, <3>2, <3>3
  <2> QED BY <2>3, <2>5
<1> QED BY <1>0, <1>1, <1>3, <1>4

-----------------------------------------------------------------------------
(* Lanes: what is taken out of them and put into them *)

\* What the order of a lane and the identity of its items depend on.
Alike(x, y) == x.id = y.id /\ x.policy = y.policy /\ x.at = y.at

\* The items of r are items of q, in the order of q.
ComesFrom(r, q) ==
  \E f \in [DOMAIN r -> DOMAIN q] :
    /\ \A j, k \in DOMAIN r : j < k => f[j] < f[k]
    /\ \A k \in DOMAIN r : Alike(r[k], q[f[k]])

\* Not only like them: the items themselves.
PartOf(r, q) ==
  \E f \in [DOMAIN r -> DOMAIN q] :
    /\ \A j, k \in DOMAIN r : j < k => f[j] < f[k]
    /\ \A k \in DOMAIN r : r[k] = q[f[k]]

\* No input is in a lane twice.
Single(q) == \A j, k \in DOMAIN q : q[j].id = q[k].id => j = k

\* No item of a lane came after one behind it of the same or a higher rank.
Ordered(q) ==
  \A j, k \in DOMAIN q : j < k /\ Rank(q[k]) >= Rank(q[j]) => q[j].at < q[k].at

LEMMA ItemFacts ==
  ASSUME NEW x \in Items
  PROVE  x.id \in Inputs /\ x.at \in Nat /\ Rank(x) \in {0, 1}
BY DEF Items, Rank

LEMMA LaneFacts ==
  ASSUME NEW q \in Seq(Items)
  PROVE  /\ Len(q) \in Nat /\ DOMAIN q = 1..Len(q)
         /\ \A j \in DOMAIN q : q[j] \in Items
         /\ IdsOf(q) = {q[j].id : j \in DOMAIN q}
         /\ IdsOf(q) \subseteq Inputs
         /\ ToSet(q) = {q[j] : j \in DOMAIN q}
<1>1. /\ Len(q) \in Nat /\ DOMAIN q = 1..Len(q)
      /\ \A j \in DOMAIN q : q[j] \in Items
  BY LenProperties, ElementOfSeq
<1>2. IdsOf(q) = {q[j].id : j \in DOMAIN q} /\ ToSet(q) = {q[j] : j \in DOMAIN q}
  BY DEF IdsOf, ToSet
<1>3. IdsOf(q) \subseteq Inputs
  BY <1>1, <1>2, ItemFacts
<1> QED BY <1>1, <1>2, <1>3

\* A lane that comes from another has its properties.
LEMMA ComesFromKeeps ==
  ASSUME NEW q \in Seq(Items), NEW r \in Seq(Items), ComesFrom(r, q)
  PROVE  /\ IdsOf(r) \subseteq IdsOf(q)
         /\ Single(q) => Single(r)
         /\ Ordered(q) => Ordered(r)
         /\ \A y \in ToSet(r) : \E z \in ToSet(q) : Alike(y, z)
<1>0. PICK f \in [DOMAIN r -> DOMAIN q] :
        /\ \A j, k \in DOMAIN r : j < k => f[j] < f[k]
        /\ \A k \in DOMAIN r : Alike(r[k], q[f[k]])
  BY DEF ComesFrom
<1>1. /\ DOMAIN r = 1..Len(r) /\ Len(r) \in Nat
      /\ DOMAIN q = 1..Len(q) /\ Len(q) \in Nat
  BY LaneFacts
<1>2. \A y \in ToSet(r) : \E z \in ToSet(q) : Alike(y, z)
  <2> SUFFICES ASSUME NEW k \in DOMAIN r
               PROVE  \E z \in ToSet(q) : Alike(r[k], z)
    BY LaneFacts
  <2>1. f[k] \in DOMAIN q /\ Alike(r[k], q[f[k]])
    BY <1>0
  <2> QED BY <2>1, LaneFacts
<1>3. IdsOf(r) \subseteq IdsOf(q)
  BY <1>2 DEF IdsOf, Alike
<1>4. ASSUME Single(q) PROVE Single(r)
  <2> SUFFICES ASSUME NEW j \in DOMAIN r, NEW k \in DOMAIN r, r[j].id = r[k].id
               PROVE  j = k
    BY DEF Single
  <2>1. f[j] \in DOMAIN q /\ f[k] \in DOMAIN q /\ q[f[j]].id = q[f[k]].id
    BY <1>0 DEF Alike
  <2>2. f[j] = f[k]
    BY <2>1, <1>4 DEF Single
  <2>3. j \in Int /\ k \in Int /\ f[j] \in Int
    BY <1>1, <2>1
  <2>4. ~(j < k) /\ ~(k < j)
    BY <1>0, <2>2, <2>3
  <2> QED BY <2>3, <2>4
<1>5. ASSUME Ordered(q) PROVE Ordered(r)
  <2> SUFFICES ASSUME NEW j \in DOMAIN r, NEW k \in DOMAIN r, j < k,
                      Rank(r[k]) >= Rank(r[j])
               PROVE  r[j].at < r[k].at
    BY DEF Ordered
  <2>1. f[j] \in DOMAIN q /\ f[k] \in DOMAIN q /\ f[j] < f[k]
    BY <1>0
  <2>2. Alike(r[j], q[f[j]]) /\ Alike(r[k], q[f[k]])
    BY <1>0
  <2>3. Rank(q[f[k]]) >= Rank(q[f[j]])
    BY <2>2 DEF Rank, Alike
  <2>4. q[f[j]].at < q[f[k]].at
    BY <2>1, <2>3, <1>5 DEF Ordered
  <2> QED BY <2>2, <2>4 DEF Alike
<1> QED BY <1>2, <1>3, <1>4, <1>5

\* Without keeps the order of the rest and takes out nothing else.
LEMMA WithoutIs ==
  ASSUME NEW q \in Seq(Items), NEW S
  PROVE  /\ Without(q, S) \in Seq(Items)
         /\ ComesFrom(Without(q, S), q) /\ PartOf(Without(q, S), q)
         /\ IdsOf(Without(q, S)) = IdsOf(q) \ S
         /\ ToSet(Without(q, S)) \subseteq ToSet(q)
<1> DEFINE P == {j \in DOMAIN q : q[j].id \notin S}
           n == Cardinality(P)
           r == Without(q, S)
<1>1. P \in SUBSET Nat /\ IsFiniteSet(P)
  <2>1. DOMAIN q = 1..Len(q) /\ Len(q) \in Nat
    BY LaneFacts
  <2>2. IsFiniteSet(1..Len(q))
    BY <2>1, FS_Interval
  <2>3. P \subseteq 1..Len(q)
    BY <2>1
  <2> HIDE DEF P
  <2>4. IsFiniteSet(P)
    BY <2>2, <2>3, FS_Subset
  <2>5. P \subseteq Nat
    BY <2>3
  <2> QED BY <2>4, <2>5
<1>2. /\ n \in Nat
      /\ \A k \in 1..n : Nth(P, k) \in P
      /\ \A j, k \in 1..n : j < k => Nth(P, j) < Nth(P, k)
      /\ \A p \in P : \E k \in 1..n : Nth(P, k) = p
  BY <1>1, NthInOrder
<1>3. r = [k \in 1..n |-> q[Nth(P, k)]]
  BY DEF Without
<1> HIDE DEF n, P, r
<1>4. \A p \in P : p \in DOMAIN q /\ q[p] \in Items /\ q[p].id \notin S
  BY LaneFacts DEF P
<1>5. r \in Seq(Items)
  <2>1. \A k \in 1..n : q[Nth(P, k)] \in Items
    BY <1>2, <1>4
  <2> QED BY <1>2, <1>3, <2>1
<1>6. DOMAIN r = 1..n
  BY <1>3
<1>7. ComesFrom(r, q) /\ PartOf(r, q)
  <2> DEFINE f == [k \in 1..n |-> Nth(P, k)]
  <2>1. f \in [DOMAIN r -> DOMAIN q]
    BY <1>2, <1>4, <1>6
  <2>2. \A j, k \in DOMAIN r : j < k => f[j] < f[k]
    BY <1>2, <1>6
  <2>3. \A k \in DOMAIN r : r[k] = q[f[k]] /\ Alike(r[k], q[f[k]])
    BY <1>3, <1>6 DEF Alike
  <2> HIDE DEF f
  <2>4. ComesFrom(r, q)
    BY <2>1, <2>2, <2>3 DEF ComesFrom
  <2>5. PartOf(r, q)
    BY <2>1, <2>2, <2>3 DEF PartOf
  <2> QED BY <2>4, <2>5
<1>8. IdsOf(r) = {r[k].id : k \in 1..n} /\ IdsOf(q) = {q[j].id : j \in DOMAIN q}
      /\ ToSet(r) = {r[k] : k \in 1..n} /\ ToSet(q) = {q[j] : j \in DOMAIN q}
  BY <1>5, <1>6, LaneFacts
<1>9. ToSet(r) \subseteq ToSet(q)
  BY <1>8, <1>3, <1>2, <1>4
<1>10. IdsOf(r) \subseteq IdsOf(q) \ S
  <2> SUFFICES ASSUME NEW k \in 1..n PROVE r[k].id \in IdsOf(q) \ S
    BY <1>8
  <2>1. r[k] = q[Nth(P, k)] /\ Nth(P, k) \in P
    BY <1>2, <1>3
  <2> QED BY <2>1, <1>4, <1>8
<1>11. IdsOf(q) \ S \subseteq IdsOf(r)
  <2> SUFFICES ASSUME NEW j \in DOMAIN q, q[j].id \notin S PROVE q[j].id \in IdsOf(r)
    BY <1>8
  <2>1. j \in P
    BY DEF P
  <2>2. PICK k \in 1..n : Nth(P, k) = j
    BY <2>1, <1>2
  <2> QED BY <2>2, <1>3, <1>8
<1> QED BY <1>5, <1>7, <1>9, <1>10, <1>11 DEF r

\* An item put into a lane behind its first n.
LEMMA InsertedIs ==
  ASSUME NEW q \in Seq(Items), NEW x \in Items, NEW n \in 0..Len(q)
  PROVE  LET r == InsertedAfter(q, n, x) IN
         /\ r \in Seq(Items) /\ Len(r) = Len(q) + 1
         /\ \A j \in 1..n : r[j] = q[j]
         /\ r[n + 1] = x
         /\ \A j \in (n + 2)..(Len(q) + 1) : r[j] = q[j - 1]
<1> DEFINE a == SubSeq(q, 1, n)
           b == SubSeq(q, n + 1, Len(q))
           m == a \o <<x>>
           r == InsertedAfter(q, n, x)
<1>0. /\ Len(q) \in Nat /\ n \in Nat /\ n <= Len(q)
      /\ \A j \in 1..Len(q) : q[j] \in Items
  BY LaneFacts
<1>1. /\ a \in Seq(Items) /\ Len(a) = n
      /\ \A j \in 1..n : a[j] = q[j]
  <2>1. \A j \in 1..n : q[j] \in Items
    BY <1>0
  <2> QED BY <2>1, <1>0, SubSeqProperties
<1>2. /\ b \in Seq(Items) /\ Len(b) = Len(q) - n
      /\ \A j \in 1..(Len(q) - n) : b[j] = q[n + j]
  <2>1. \A j \in (n + 1)..Len(q) : q[j] \in Items
    BY <1>0
  <2>2. n + 1 \in Int /\ Len(q) \in Int
    BY <1>0
  <2>3. /\ b \in Seq(Items)
        /\ Len(b) = IF n + 1 <= Len(q) THEN Len(q) - (n + 1) + 1 ELSE 0
        /\ \A j \in 1..(Len(q) - (n + 1) + 1) : b[j] = q[(n + 1) + j - 1]
    BY <2>1, <2>2, SubSeqProperties
  <2> QED BY <2>3, <1>0
<1>3. /\ m \in Seq(Items) /\ Len(m) = n + 1
      /\ \A j \in 1..n : m[j] = q[j]
      /\ m[n + 1] = x
  <2>1. <<x>> \in Seq(Items) /\ Len(<<x>>) = 1 /\ <<x>>[1] = x
    OBVIOUS
  <2> HIDE DEF a
  <2>2. /\ m \in Seq(Items) /\ Len(m) = Len(a) + 1
        /\ \A j \in 1..(Len(a) + 1) : m[j] = IF j <= Len(a) THEN a[j] ELSE <<x>>[j - Len(a)]
    BY <1>1, <2>1, ConcatProperties
  <2> QED BY <2>2, <2>1, <1>1, <1>0
<1>4. r = m \o b
  BY DEF InsertedAfter
<1> HIDE DEF a, b, m, r
<1>5. /\ r \in Seq(Items) /\ Len(r) = Len(m) + Len(b)
      /\ \A j \in 1..(Len(m) + Len(b)) : r[j] = IF j <= Len(m) THEN m[j] ELSE b[j - Len(m)]
  BY <1>2, <1>3, <1>4, ConcatProperties
<1>6. Len(m) = n + 1 /\ Len(m) + Len(b) = Len(q) + 1
  BY <1>2, <1>3, <1>0
<1>7. ASSUME NEW j \in 1..(n + 1) PROVE r[j] = m[j]
  <2>1. j \in 1..(Len(m) + Len(b)) /\ j <= Len(m)
    BY <1>6, <1>0
  <2> QED BY <2>1, <1>5
<1>8. ASSUME NEW j \in (n + 2)..(Len(q) + 1) PROVE r[j] = q[j - 1]
  <2>1. r[j] = b[j - (n + 1)]
    <3>1. j \in 1..(Len(m) + Len(b)) /\ ~(j <= Len(m)) /\ Len(m) = n + 1
      BY <1>6, <1>0
    <3> QED BY <3>1, <1>5
  <2>2. j - (n + 1) \in 1..(Len(q) - n) /\ n + (j - (n + 1)) = j - 1
    BY <1>0
  <2> QED BY <2>1, <2>2, <1>2
<1>9. (\A j \in 1..n : r[j] = q[j]) /\ r[n + 1] = x
  BY <1>7, <1>3, <1>0
<1> QED BY <1>5, <1>6, <1>8, <1>9 DEF r

\* It is in its lane once; it keeps the order if it came last and what is
\* behind it is of a lower rank.
LEMMA InsertedKeeps ==
  ASSUME NEW q \in Seq(Items), NEW x \in Items, NEW n \in 0..Len(q)
  PROVE  LET r == InsertedAfter(q, n, x) IN
         /\ IdsOf(r) = IdsOf(q) \cup {x.id}
         /\ ToSet(r) = ToSet(q) \cup {x}
         /\ Single(q) /\ x.id \notin IdsOf(q) => Single(r)
         /\ /\ Ordered(q) /\ \A y \in ToSet(q) : y.at < x.at
            /\ \A j \in (n + 1)..Len(q) : Rank(q[j]) < Rank(x)
            => Ordered(r)
<1> DEFINE r == InsertedAfter(q, n, x)
           g(j) == IF j <= n THEN j ELSE j - 1
<1>0. Len(q) \in Nat /\ n \in Nat /\ n <= Len(q) /\ DOMAIN q = 1..Len(q)
  BY LaneFacts
<1>1. /\ r \in Seq(Items) /\ Len(r) = Len(q) + 1
      /\ \A j \in 1..n : r[j] = q[j]
      /\ r[n + 1] = x
      /\ \A j \in (n + 2)..(Len(q) + 1) : r[j] = q[j - 1]
  BY InsertedIs
<1> HIDE DEF r
<1>2. DOMAIN r = 1..(Len(q) + 1)
  BY <1>1, LaneFacts
<1>3. ASSUME NEW j \in DOMAIN r, j # n + 1
      PROVE  g(j) \in DOMAIN q /\ r[j] = q[g(j)]
  <2>1. j \in 1..n \/ j \in (n + 2)..(Len(q) + 1)
    BY <1>0, <1>2, <1>3
  <2> QED BY <2>1, <1>0, <1>1
<1>4. ASSUME NEW j \in DOMAIN q PROVE \E k \in DOMAIN r : k # n + 1 /\ r[k] = q[j]
  <2>1. CASE j <= n
    BY <2>1, <1>0, <1>1, <1>2
  <2>2. CASE ~(j <= n)
    <3>1. j + 1 \in (n + 2)..(Len(q) + 1) /\ (j + 1) - 1 = j
      BY <2>2, <1>0
    <3>2. r[j + 1] = q[j] /\ j + 1 \in DOMAIN r /\ j + 1 # n + 1
      BY <3>1, <1>0, <1>1, <1>2
    <3> QED BY <3>2
  <2> QED BY <2>1, <2>2
<1>5. n + 1 \in DOMAIN r /\ r[n + 1] = x
  BY <1>0, <1>1, <1>2
<1>6. ToSet(r) = {r[j] : j \in DOMAIN r} /\ ToSet(q) = {q[j] : j \in DOMAIN q}
      /\ IdsOf(r) = {r[j].id : j \in DOMAIN r} /\ IdsOf(q) = {q[j].id : j \in DOMAIN q}
  BY <1>1, LaneFacts
<1>7. ToSet(r) = ToSet(q) \cup {x}
  <2>1. ToSet(r) \subseteq ToSet(q) \cup {x}
    BY <1>3, <1>5, <1>6
  <2>2. ToSet(q) \cup {x} \subseteq ToSet(r)
    BY <1>4, <1>5, <1>6
  <2> QED BY <2>1, <2>2
<1>8. IdsOf(r) = IdsOf(q) \cup {x.id}
  <2>1. IdsOf(r) \subseteq IdsOf(q) \cup {x.id}
    BY <1>3, <1>5, <1>6
  <2>2. IdsOf(q) \cup {x.id} \subseteq IdsOf(r)
    BY <1>4, <1>5, <1>6
  <2> QED BY <2>1, <2>2
<1>9. ASSUME Single(q), x.id \notin IdsOf(q) PROVE Single(r)
  <2> SUFFICES ASSUME NEW j \in DOMAIN r, NEW k \in DOMAIN r, r[j].id = r[k].id
               PROVE  j = k
    BY DEF Single
  <2>0. j \in Nat /\ k \in Nat
    BY <1>2
  <2>1. CASE j # n + 1 /\ k # n + 1
    <3>1. g(j) = g(k)
      BY <2>1, <1>3, <1>9 DEF Single
    <3> QED BY <3>1, <2>0, <2>1, <1>0
  <2>2. CASE j = n + 1 /\ k # n + 1
    BY <2>2, <1>3, <1>5, <1>6, <1>9
  <2>3. CASE k = n + 1 /\ j # n + 1
    BY <2>3, <1>3, <1>5, <1>6, <1>9
  <2> QED BY <2>1, <2>2, <2>3
<1>10. ASSUME Ordered(q), \A y \in ToSet(q) : y.at < x.at,
              \A j \in (n + 1)..Len(q) : Rank(q[j]) < Rank(x)
       PROVE  Ordered(r)
  <2> SUFFICES ASSUME NEW j \in DOMAIN r, NEW k \in DOMAIN r, j < k,
                      Rank(r[k]) >= Rank(r[j])
               PROVE  r[j].at < r[k].at
    BY DEF Ordered
  <2>0. j \in Nat /\ k \in Nat /\ j <= Len(q) + 1 /\ k <= Len(q) + 1
    BY <1>2, <1>0
  <2>1. CASE j # n + 1 /\ k # n + 1
    <3>1. g(j) < g(k)
      BY <2>0, <2>1, <1>0
    <3> QED BY <3>1, <2>1, <1>3, <1>10 DEF Ordered
  <2>2. CASE k = n + 1
    <3>1. j # n + 1
      BY <2>2, <2>0, <1>0
    <3> QED BY <3>1, <2>2, <1>3, <1>5, <1>6, <1>10
  <2>3. CASE j = n + 1
    <3>1. k # n + 1 /\ g(k) \in (n + 1)..Len(q)
      BY <2>3, <2>0, <1>0
    <3>2. r[k] = q[g(k)] /\ Rank(r[k]) < Rank(x)
      BY <3>1, <1>3, <1>10
    <3>3. Rank(r[k]) \in {0, 1} /\ Rank(x) \in {0, 1}
      BY <1>1, LaneFacts, ItemFacts
    <3> QED BY <3>2, <3>3, <2>3, <1>5
  <2> QED BY <2>1, <2>2, <2>3
<1> QED BY <1>7, <1>8, <1>9, <1>10 DEF r

\* enqueue_priority finds a place, and only lower ranks are behind it.
LEMMA EnqueuedIs ==
  ASSUME NEW q \in Seq(Items), NEW x \in Items
  PROVE  \E n \in 0..Len(q) :
           /\ Enqueued(q, x) = InsertedAfter(q, n, x)
           /\ n = 0 \/ Rank(q[n]) >= Rank(x)
           /\ \A j \in (n + 1)..Len(q) : Rank(q[j]) < Rank(x)
<1> DEFINE Place(n) == /\ n = 0 \/ Rank(q[n]) >= Rank(x)
                       /\ \A j \in (n + 1)..Len(q) : Rank(q[j]) < Rank(x)
           T == {n \in 0..Len(q) : \A j \in (n + 1)..Len(q) : Rank(q[j]) < Rank(x)}
<1>0. Len(q) \in Nat /\ DOMAIN q = 1..Len(q) /\ \A j \in 1..Len(q) : q[j] \in Items
  BY LaneFacts
<1>1. Len(q) \in T
  BY <1>0
<1>2. T \in SUBSET Nat
  BY <1>0
<1>3. PICK n \in T : \A m \in T : n <= m
  BY <1>1, <1>2, LeastOf
<1>4. n \in 0..Len(q) /\ \A j \in (n + 1)..Len(q) : Rank(q[j]) < Rank(x)
  OBVIOUS
<1>5. ASSUME n # 0 PROVE Rank(q[n]) >= Rank(x)
  <2>1. n - 1 \in 0..Len(q) /\ n - 1 \notin T
    <3>1. n \in Nat /\ n - 1 \in 0..Len(q) /\ ~(n <= n - 1)
      BY <1>0, <1>4, <1>5
    <3> HIDE DEF T
    <3> QED BY <3>1, <1>3
  <2>2. PICK j \in ((n - 1) + 1)..Len(q) : ~(Rank(q[j]) < Rank(x))
    BY <2>1
  <2>3. j = n
    BY <2>2, <1>0, <1>4
  <2>4. n \in 1..Len(q) /\ Rank(q[n]) \in {0, 1} /\ Rank(x) \in {0, 1}
    BY <1>0, <1>4, <1>5, ItemFacts
  <2> QED BY <2>2, <2>3, <2>4
<1>6. \E k \in 0..Len(q) : Place(k)
  BY <1>4, <1>5
<1> DEFINE p == CHOOSE k \in 0..Len(q) : Place(k)
<1>7. p \in 0..Len(q) /\ Place(p)
  BY <1>6
<1>8. Enqueued(q, x) = InsertedAfter(q, p, x)
  BY DEF Enqueued
<1> QED BY <1>7, <1>8

\* A batch is a nonempty prefix.
LEMMA PrefixIs ==
  ASSUME NEW q \in Seq(Items), q # <<>>, NEW forced, NEW all
  PROVE  LET n == Prefix(q, forced, all) IN
         /\ n \in 1..Len(q)
         /\ forced /\ q[1].policy = "queued" =>
              n = Len(q) \/ ~(q[n + 1].policy = "queued" /\ q[n + 1].armed)
<1> DEFINE joins(x) == x.policy = "queued" /\ (forced => x.armed)
           Whole(n) == /\ \A j \in 2..n : joins(q[j])
                       /\ n = Len(q) \/ ~joins(q[n + 1])
           T == {n \in 1..Len(q) : n = Len(q) \/ ~joins(q[n + 1])}
<1>0. Len(q) \in Nat /\ Len(q) >= 1
  <2>1. Len(q) \in Nat \ {0}
    BY EmptySeq
  <2> QED BY <2>1
<1>1. Len(q) \in T
  BY <1>0
<1>2. T \in SUBSET Nat
  BY <1>0
<1>3. PICK n \in T : \A m \in T : n <= m
  BY <1>1, <1>2, LeastOf
<1>4. n \in 1..Len(q) /\ (n = Len(q) \/ ~joins(q[n + 1]))
  OBVIOUS
<1>5. ASSUME NEW j \in 2..n PROVE joins(q[j])
  <2>1. j - 1 \in 1..Len(q) /\ j - 1 \notin T /\ (j - 1) + 1 = j
    <3>1. n \in Nat /\ j - 1 \in 1..Len(q) /\ ~(n <= j - 1) /\ (j - 1) + 1 = j
      BY <1>0, <1>4
    <3> HIDE DEF T
    <3> QED BY <3>1, <1>3
  <2> QED BY <2>1
<1>6. \E k \in 1..Len(q) : Whole(k)
  BY <1>4, <1>5
<1> DEFINE w == CHOOSE k \in 1..Len(q) : Whole(k)
<1>7. w \in 1..Len(q) /\ Whole(w)
  BY <1>6
<1>8. 1 \in 1..Len(q)
  BY <1>0
<1>9. Prefix(q, forced, all) = IF q[1].policy = "queued" /\ (forced \/ all) THEN w ELSE 1
  BY DEF Prefix
<1>10. forced /\ q[1].policy = "queued" => Prefix(q, forced, all) = w
  BY <1>9
<1>11. forced => w = Len(q) \/ ~(q[w + 1].policy = "queued" /\ q[w + 1].armed)
  BY <1>7
<1> HIDE DEF w
<1> QED BY <1>7, <1>8, <1>9, <1>10, <1>11

\* What a pickup takes and what it leaves.
LEMMA SplitIs ==
  ASSUME NEW q \in Seq(Items), NEW n \in 1..Len(q)
  PROVE  LET front == SubSeq(q, 1, n)
             rest == SubSeq(q, n + 1, Len(q))
         IN /\ front \in Seq(Items) /\ front # <<>> /\ rest \in Seq(Items)
            /\ ComesFrom(front, q) /\ ComesFrom(rest, q) /\ PartOf(rest, q)
            /\ ToSet(front) \subseteq ToSet(q)
            /\ IdsOf(q) = IdsOf(front) \cup IdsOf(rest)
            /\ Single(q) => IdsOf(front) \cap IdsOf(rest) = {}
            /\ Ordered(q) => \A x \in ToSet(front), y \in ToSet(rest) :
                               Rank(y) >= Rank(x) => x.at < y.at
<1> DEFINE front == SubSeq(q, 1, n)
           rest == SubSeq(q, n + 1, Len(q))
<1>0. /\ Len(q) \in Nat /\ n \in Nat /\ n <= Len(q) /\ 1 <= n
      /\ DOMAIN q = 1..Len(q)
      /\ \A j \in 1..Len(q) : q[j] \in Items
  BY LaneFacts
<1>1. /\ front \in Seq(Items) /\ Len(front) = n
      /\ \A j \in 1..n : front[j] = q[j]
  <2>1. \A j \in 1..n : q[j] \in Items
    BY <1>0
  <2> QED BY <2>1, <1>0, SubSeqProperties
<1>2. /\ rest \in Seq(Items) /\ Len(rest) = Len(q) - n
      /\ \A j \in 1..(Len(q) - n) : rest[j] = q[n + j]
  <2>1. \A j \in (n + 1)..Len(q) : q[j] \in Items
    BY <1>0
  <2>2. n + 1 \in Int /\ Len(q) \in Int
    BY <1>0
  <2>3. /\ rest \in Seq(Items)
        /\ Len(rest) = IF n + 1 <= Len(q) THEN Len(q) - (n + 1) + 1 ELSE 0
        /\ \A j \in 1..(Len(q) - (n + 1) + 1) : rest[j] = q[(n + 1) + j - 1]
    BY <2>1, <2>2, SubSeqProperties
  <2> HIDE DEF rest
  <2>4. Len(rest) = Len(q) - n
    <3>1. n \in Int /\ Len(q) \in Int /\ n <= Len(q)
      BY <1>0
    <3>2. Len(rest) = IF n + 1 <= Len(q) THEN Len(q) - (n + 1) + 1 ELSE 0
      BY <2>3
    <3> QED BY ONLY <3>1, <3>2
  <2>5. ASSUME NEW j \in 1..(Len(q) - n) PROVE rest[j] = q[n + j]
    <3>1. j \in 1..(Len(q) - (n + 1) + 1) /\ (n + 1) + j - 1 = n + j
      BY <1>0
    <3> QED BY <3>1, <2>3
  <2> QED BY <2>3, <2>4, <2>5
<1> HIDE DEF front, rest
<1>3. DOMAIN front = 1..n /\ DOMAIN rest = 1..(Len(q) - n)
  BY <1>1, <1>2, LaneFacts
<1>4. front # <<>>
  BY <1>0, <1>1
<1>5. ComesFrom(front, q)
  <2> DEFINE f == [j \in 1..n |-> j]
  <2>1. f \in [DOMAIN front -> DOMAIN q]
    BY <1>0, <1>3
  <2>2. /\ \A j, k \in DOMAIN front : j < k => f[j] < f[k]
        /\ \A k \in DOMAIN front : Alike(front[k], q[f[k]])
    BY <1>1, <1>3 DEF Alike
  <2> HIDE DEF f
  <2> QED BY <2>1, <2>2 DEF ComesFrom
<1>6. ComesFrom(rest, q) /\ PartOf(rest, q)
  <2> DEFINE f == [j \in 1..(Len(q) - n) |-> n + j]
  <2>1. f \in [DOMAIN rest -> DOMAIN q]
    BY <1>0, <1>3
  <2>2. /\ \A j, k \in DOMAIN rest : j < k => f[j] < f[k]
        /\ \A k \in DOMAIN rest : rest[k] = q[f[k]]
    BY <1>0, <1>2, <1>3
  <2> HIDE DEF f
  <2>3. ComesFrom(rest, q)
    BY <2>1, <2>2 DEF ComesFrom, Alike
  <2>4. PartOf(rest, q)
    BY <2>1, <2>2 DEF PartOf
  <2> QED BY <2>3, <2>4
<1>7. /\ IdsOf(q) = {q[j].id : j \in 1..Len(q)}
      /\ IdsOf(front) = {q[j].id : j \in 1..n}
      /\ IdsOf(rest) = {q[n + j].id : j \in 1..(Len(q) - n)}
      /\ ToSet(front) = {q[j] : j \in 1..n}
      /\ ToSet(rest) = {q[n + j] : j \in 1..(Len(q) - n)}
  <2>1. IdsOf(q) = {q[j].id : j \in 1..Len(q)}
    BY <1>0, LaneFacts
  <2>2. IdsOf(front) = {front[j].id : j \in 1..n} /\ ToSet(front) = {front[j] : j \in 1..n}
    BY <1>1, <1>3, LaneFacts
  <2>3. /\ IdsOf(rest) = {rest[j].id : j \in 1..(Len(q) - n)}
        /\ ToSet(rest) = {rest[j] : j \in 1..(Len(q) - n)}
    BY <1>2, <1>3, LaneFacts
  <2>4. /\ {front[j].id : j \in 1..n} = {q[j].id : j \in 1..n}
        /\ {front[j] : j \in 1..n} = {q[j] : j \in 1..n}
    BY <1>1
  <2>5. /\ {rest[j].id : j \in 1..(Len(q) - n)} = {q[n + j].id : j \in 1..(Len(q) - n)}
        /\ {rest[j] : j \in 1..(Len(q) - n)} = {q[n + j] : j \in 1..(Len(q) - n)}
    BY <1>2
  <2> QED BY <2>1, <2>2, <2>3, <2>4, <2>5
<1>8. IdsOf(q) = IdsOf(front) \cup IdsOf(rest)
  <2>1. ASSUME NEW j \in 1..Len(q), ~(j <= n)
        PROVE  j - n \in 1..(Len(q) - n) /\ n + (j - n) = j
    BY <2>1, <1>0
  <2>2. ASSUME NEW j \in 1..Len(q) PROVE q[j].id \in IdsOf(front) \cup IdsOf(rest)
    <3>1. CASE j <= n
      BY <3>1, <1>0, <1>7
    <3>2. CASE ~(j <= n)
      BY <3>2, <2>1, <1>7
    <3> QED BY <3>1, <3>2
  <2>3. IdsOf(front) \subseteq IdsOf(q) /\ IdsOf(rest) \subseteq IdsOf(q)
    BY <1>0, <1>1, <1>2, <1>5, <1>6, ComesFromKeeps
  <2> QED BY <2>2, <2>3, <1>7
<1>9. ASSUME NEW j \in 1..n, NEW k \in 1..(Len(q) - n)
      PROVE  j \in DOMAIN q /\ n + k \in DOMAIN q /\ j < n + k /\ j # n + k
  BY <1>0
<1>10. ASSUME Single(q) PROVE IdsOf(front) \cap IdsOf(rest) = {}
  <2> SUFFICES ASSUME NEW j \in 1..n, NEW k \in 1..(Len(q) - n), q[j].id = q[n + k].id
               PROVE  FALSE
    BY <1>7
  <2> QED BY <1>9, <1>10 DEF Single
<1>11. ASSUME Ordered(q), NEW x \in ToSet(front), NEW y \in ToSet(rest), Rank(y) >= Rank(x)
       PROVE  x.at < y.at
  <2>1. PICK j \in 1..n : x = q[j]
    BY <1>7
  <2>2. PICK k \in 1..(Len(q) - n) : y = q[n + k]
    BY <1>7
  <2> QED BY <2>1, <2>2, <1>9, <1>11 DEF Ordered
<1>12. ToSet(front) \subseteq ToSet(q)
  BY <1>0, <1>7, LaneFacts
<1> QED BY <1>1, <1>2, <1>4, <1>5, <1>6, <1>8, <1>10, <1>11, <1>12 DEF front, rest

\* The back of a lane is a place behind all of it.
LEMMA AppendedIs ==
  ASSUME NEW q \in Seq(Items), NEW x \in Items
  PROVE  Append(q, x) = InsertedAfter(q, Len(q), x)
<1>0. Len(q) \in Nat
  BY LaneFacts
<1>1. SubSeq(q, 1, Len(q)) = q
  BY SubSeqFull
<1>2. SubSeq(q, Len(q) + 1, Len(q)) = <<>>
  BY <1>0, SubSeqEmpty
<1>3. q \o <<x>> \in Seq(Items) /\ Append(q, x) = q \o <<x>>
  BY AppendIsConcat, ConcatProperties
<1>4. (q \o <<x>>) \o <<>> = q \o <<x>>
  BY <1>3, ConcatEmptySeq
<1> QED BY <1>1, <1>2, <1>3, <1>4 DEF InsertedAfter

\* A lane comes from itself.
LEMMA ComesFromSelf ==
  ASSUME NEW q \in Seq(Items)
  PROVE  ComesFrom(q, q)
<1> DEFINE f == [j \in DOMAIN q |-> j]
<1>1. f \in [DOMAIN q -> DOMAIN q]
  OBVIOUS
<1>2. /\ \A j, k \in DOMAIN q : j < k => f[j] < f[k]
      /\ \A k \in DOMAIN q : Alike(q[k], q[f[k]])
  BY DEF Alike
<1> HIDE DEF f
<1> QED BY <1>1, <1>2 DEF ComesFrom

-----------------------------------------------------------------------------
(* Types *)

\* Only a prompt has no lane of its own.
TaskShape == \A i \in Inputs : task[i].cmd # "prompt" => task[i].lane \in Lanes

TypeInv == TypeOK /\ TaskShape

LEMMA OpFacts ==
  ASSUME NEW x \in OpStates
  PROVE  /\ x.pc \in {"abort", "withdraw", "flow"} =>
              /\ x.send \in BOOLEAN
              /\ \A p \in {"abort", "withdraw", "flow"} : [x EXCEPT !.pc = p] \in OpStates
         /\ x.pc \in {"drop", "stop"} => x.target \in Inputs
         /\ x.pc \in {"waiting", "settling", "asleep"} =>
              /\ x.woken \in BOOLEAN
              /\ [x EXCEPT !.woken = TRUE] \in OpStates
              /\ [x EXCEPT !.woken = TRUE].pc = x.pc
              /\ \A p \in {"waiting", "settling", "asleep"} :
                   [x EXCEPT !.pc = p] \in OpStates /\ [x EXCEPT !.pc = p].pc = p
BY DEF OpStates

LEMMA PlainOps ==
  /\ \A p \in {"idle", "suspend", "resume", "wake", "drain", "ready", "compacting", "compacted",
               "close", "watch", "unregistered", "settle"} : [pc |-> p] \in OpStates
  /\ NoOp \in OpStates /\ NoOp.pc = "idle"
BY DEF OpStates, NoOp

\* Who is told of an idle session keeps its place.
LEMMA NotifiedOps ==
  ASSUME op \in [Slots -> OpStates]
  PROVE  /\ IdleNotified \in [Slots -> OpStates]
         /\ \A o \in Slots : IdleNotified[o].pc = op[o].pc
<1> SUFFICES ASSUME NEW o \in Slots
             PROVE  IdleNotified[o] \in OpStates /\ IdleNotified[o].pc = op[o].pc
  BY DEF IdleNotified
<1>1. op[o] \in OpStates
  OBVIOUS
<1> QED BY <1>1, OpFacts DEF IdleNotified

\* A lane that loses rows is a lane.
LEMMA WithdrawTypes ==
  ASSUME TypeOK, NEW S, Withdraw(S)
  PROVE  /\ lanes' \in [Lanes -> Seq(Items)]
         /\ fate' \in [Inputs -> {"new", "settled", "withdrawn", "refused"}]
<1>1. \A l \in Lanes : Without(lanes[l], S) \in Seq(Items)
  BY WithoutIs DEF TypeOK
<1> QED BY <1>1 DEF Withdraw, TypeOK

LEMMA InitTypes ==
  ASSUME Init
  PROVE  TypeInv
<1>1. load \in [inputs : SUBSET Inputs, slots : SUBSET Slots,
                sources : SUBSET AllSources, commands : SUBSET AllCommands]
  BY LoadAssumption DEF Init
<1>2. \A s \in AllSources : /\ s.cmd \in {"prompt", "queue", "message", "inject"}
                            /\ s.lane \in Lanes \cup {"none"}
                            /\ s.cmd # "prompt" => s.lane \in Lanes
  BY DEF AllSources
<1>3. task \in [Inputs -> [pc : {"new", "end"}, cmd : {s.cmd : s \in load.sources},
                          lane : {s.lane : s \in load.sources}]]
  BY DEF Init
<1>4. /\ {s.cmd : s \in load.sources} \subseteq {"prompt", "queue", "message", "inject"}
      /\ {s.lane : s \in load.sources} \subseteq Lanes \cup {"none"}
  BY <1>1, <1>2
<1>5. task \in [Inputs -> [pc : {"new", "register", "resume", "enqueue", "notify", "end"},
                          cmd : {"prompt", "queue", "message", "inject"}, lane : Lanes \cup {"none"}]]
  <2> SUFFICES ASSUME NEW i \in Inputs
               PROVE  task[i] \in [pc : {"new", "register", "resume", "enqueue", "notify", "end"},
                          cmd : {"prompt", "queue", "message", "inject"}, lane : Lanes \cup {"none"}]
    BY <1>3
  <2>1. task[i] \in [pc : {"new", "end"}, cmd : {s.cmd : s \in load.sources},
                          lane : {s.lane : s \in load.sources}]
    BY <1>3
  <2> HIDE DEF Lanes
  <2> QED BY <2>1, <1>4
<1>6. TaskShape
  <2> SUFFICES ASSUME NEW i \in Inputs, task[i].cmd # "prompt"
               PROVE  task[i].lane \in Lanes
    BY DEF TaskShape
  <2>1. [cmd |-> task[i].cmd, lane |-> task[i].lane] \in AllSources
    BY <1>1 DEF Init
  <2> QED BY <2>1, <1>2
<1>7. lanes \in [Lanes -> Seq(Items)] /\ <<>> \in Seq(Items)
  BY EmptySeq DEF Init
<1>8. runner \in [pc : {"check", "picked", "turn", "settle", "park", "asleep", "leave", "gone"},
                 batch : Seq(Items), lane : Lanes]
  BY <1>7 DEF Init, Lanes
<1>9. op \in [Slots -> OpStates]
  BY PlainOps DEF Init
<1>10. core \in [CoreFlags -> BOOLEAN]
  BY DEF Init
<1> QED BY <1>5, <1>6, <1>7, <1>8, <1>9, <1>10 DEF Init, TypeOK, TypeInv

\* The task of an input takes a step.
LEMMA GotoTypes ==
  ASSUME TypeInv, NEW i \in Inputs,
         NEW pc \in {"new", "register", "resume", "enqueue", "notify", "end"}, Goto(i, pc)
  PROVE  /\ task' \in [Inputs -> [pc : {"new", "register", "resume", "enqueue", "notify", "end"},
                          cmd : {"prompt", "queue", "message", "inject"}, lane : Lanes \cup {"none"}]]
         /\ TaskShape'
BY DEF TypeInv, TypeOK, TaskShape, Goto

\* Inputs on their way to a lane.
LEMMA InputTypes ==
  ASSUME TypeInv, NEW i \in Inputs, Input(i)
  PROVE  TypeInv'
<1> USE DEF TypeInv, TypeOK, TaskShape, Goto, CoreFlags
<1>1. CASE PromptGate(i)
  <2>1. core' \in [CoreFlags -> BOOLEAN]
    <3>1. core' = core \/ core' = [core EXCEPT !.suspended = core.suspended /\ core.busy]
      BY <1>1 DEF PromptGate
    <3>2. core \in [CoreFlags -> BOOLEAN] /\ (core.suspended /\ core.busy) \in BOOLEAN
      OBVIOUS
    <3> HIDE DEF CoreFlags
    <3> QED BY <3>1, <3>2
  <2>2. fate' \in [Inputs -> {"new", "settled", "withdrawn", "refused"}]
    BY <1>1 DEF PromptGate
  <2>3. Goto(i, "end") \/ Goto(i, "register")
    BY <1>1 DEF PromptGate
  <2>4. UNCHANGED <<lanes, paused, runner, permit, op, adm, arrivals>>
    BY <1>1 DEF PromptGate
  <2> HIDE DEF Goto, TaskShape, Lanes
  <2> QED BY <2>1, <2>2, <2>3, <2>4, GotoTypes
<1>2. CASE QueueResume(i)
  BY ZenonT(60), <1>2 DEF QueueResume
<1>3. CASE MessageGate(i)
  <2>1. fate' \in [Inputs -> {"new", "settled", "withdrawn", "refused"}]
    BY <1>3 DEF MessageGate
  <2>2. Goto(i, "end") \/ Goto(i, "enqueue")
    BY <1>3 DEF MessageGate
  <2>3. UNCHANGED <<lanes, core, paused, runner, permit, op, adm, arrivals>>
    BY <1>3 DEF MessageGate
  <2> HIDE DEF Goto, TaskShape, Lanes
  <2> QED BY <2>1, <2>2, <2>3, GotoTypes
<1>4. CASE InjectGate(i)
  BY ZenonT(60), <1>4 DEF InjectGate
<1>5. CASE Register(i)
  BY <1>5 DEF Register
<1>6. CASE Enqueue(i)
  <2>1. ItemOf(i) \in Items
    <3>1. ItemOf(i).policy \in Policies
      BY DEF ItemOf, Policies
    <3>2. ItemOf(i).visible \in BOOLEAN
      BY DEF ItemOf
    <3> QED BY <3>1, <3>2 DEF ItemOf, Items
  <2>2. LaneOf(i) \in Lanes
    BY DEF LaneOf, Lanes
  <2>3. lanes[LaneOf(i)] \in Seq(Items)
    BY <2>2
  <2>4. Enqueued(lanes[LaneOf(i)], ItemOf(i)) \in Seq(Items)
    <3>1. PICK n \in 0..Len(lanes[LaneOf(i)]) :
            Enqueued(lanes[LaneOf(i)], ItemOf(i)) = InsertedAfter(lanes[LaneOf(i)], n, ItemOf(i))
      BY <2>1, <2>3, EnqueuedIs
    <3> QED BY <2>1, <2>3, <3>1, InsertedIs
  <2>5. lanes' = [lanes EXCEPT ![LaneOf(i)] = Enqueued(lanes[LaneOf(i)], ItemOf(i))]
        /\ arrivals' = arrivals + 1
    BY <1>6 DEF Enqueue
  <2>6. lanes' \in [Lanes -> Seq(Items)]
    BY <2>2, <2>4, <2>5
  <2> QED BY <1>6, <2>5, <2>6 DEF Enqueue
<1>7. CASE NotifyWork(i)
  BY <1>7 DEF NotifyWork
<1> QED BY <1>1, <1>2, <1>3, <1>4, <1>5, <1>6, <1>7 DEF Input

\* The runner takes a nonempty prefix of a lane and leaves the rest.
LEMMA PickUpIs ==
  ASSUME TypeInv, NEW l \in Lanes, lanes[l] # <<>>, PickUp(l)
  PROVE  /\ \E n \in 1..Len(lanes[l]) :
              /\ runner' = [pc |-> "picked", batch |-> SubSeq(lanes[l], 1, n), lane |-> l]
              /\ lanes' = [lanes EXCEPT ![l] = SubSeq(lanes[l], n + 1, Len(lanes[l]))]
              /\ /\ l = "steering" /\ core.forced
                 /\ lanes[l][1].armed /\ lanes[l][1].policy = "queued"
                 => n = Len(lanes[l])
                      \/ ~(lanes[l][n + 1].policy = "queued" /\ lanes[l][n + 1].armed)
         /\ core' \in [CoreFlags -> BOOLEAN]
         /\ core'.busy /\ core'.closing = core.closing
<1> DEFINE q == lanes[l]
           forced == l = "steering" /\ core.forced /\ q[1].armed
           all == IF l = "steering" THEN AllSteering ELSE AllFollowUps
           n == Prefix(q, forced, all)
           disarmed == l = "steering" /\ ~\E j \in 1..Len(q) : q[j].armed
<1>1. q \in Seq(Items)
  BY DEF TypeInv, TypeOK
<1>2. /\ n \in 1..Len(q)
      /\ forced /\ q[1].policy = "queued" =>
           n = Len(q) \/ ~(q[n + 1].policy = "queued" /\ q[n + 1].armed)
  BY <1>1, PrefixIs
<1>3. /\ runner' = [pc |-> "picked", batch |-> SubSeq(q, 1, n), lane |-> l]
      /\ lanes' = [lanes EXCEPT ![l] = SubSeq(q, n + 1, Len(q))]
  BY DEF PickUp
<1>4. core' = [core EXCEPT !.busy = TRUE, !.abort = FALSE, !.forced = core.forced /\ ~disarmed]
  BY DEF PickUp
<1>5. core \in [CoreFlags -> BOOLEAN] /\ {"busy", "abort", "forced", "closing"} \subseteq CoreFlags
  BY DEF TypeInv, TypeOK, CoreFlags
<1>6. (core.forced /\ ~disarmed) \in BOOLEAN
  BY <1>5
<1> HIDE DEF disarmed
<1>7. core' \in [CoreFlags -> BOOLEAN] /\ core'.busy /\ core'.closing = core.closing
  BY <1>4, <1>5, <1>6
<1>8. l = "steering" /\ core.forced /\ q[1].armed => forced
  OBVIOUS
<1> HIDE DEF n, forced, all
<1> QED BY <1>2, <1>3, <1>7, <1>8

\* The turn runner.
LEMMA RunnerTypes ==
  ASSUME TypeInv, Runner
  PROVE  TypeInv'
<1> USE DEF TypeInv, TypeOK
<1>0. \A l \in Lanes : lanes[l] \in Seq(Items)
  OBVIOUS
<1>1. CASE RunnerCheck
  <2>0. UNCHANGED <<paused, permit, task, op, adm, fate, arrivals>>
    BY <1>1 DEF RunnerCheck
  <2>1. ASSUME NEW l \in Lanes, lanes[l] # <<>>, PickUp(l) PROVE TypeInv'
    <3>1. PICK n \in 1..Len(lanes[l]) :
            /\ runner' = [pc |-> "picked", batch |-> SubSeq(lanes[l], 1, n), lane |-> l]
            /\ lanes' = [lanes EXCEPT ![l] = SubSeq(lanes[l], n + 1, Len(lanes[l]))]
      BY <2>1, PickUpIs
    <3>2. SubSeq(lanes[l], 1, n) \in Seq(Items) /\ SubSeq(lanes[l], n + 1, Len(lanes[l])) \in Seq(Items)
      BY SplitIs
    <3>3. lanes' \in [Lanes -> Seq(Items)]
      BY <3>1, <3>2
    <3>4. runner' \in [pc : {"check", "picked", "turn", "settle", "park", "asleep", "leave", "gone"},
                       batch : Seq(Items), lane : Lanes]
      BY <3>1, <3>2
    <3>5. core' \in [CoreFlags -> BOOLEAN]
      BY <2>1, PickUpIs
    <3> QED BY <2>0, <3>3, <3>4, <3>5 DEF TaskShape
  <2>2. ASSUME runner' = [runner EXCEPT !.pc = "leave"] \/ runner' = [runner EXCEPT !.pc = "park"],
               UNCHANGED lanes, core' = core \/ core' = [core EXCEPT !.busy = FALSE]
        PROVE  TypeInv'
    <3>1. runner' \in [pc : {"check", "picked", "turn", "settle", "park", "asleep", "leave", "gone"},
                       batch : Seq(Items), lane : Lanes]
      BY <2>2
    <3>2. core' \in [CoreFlags -> BOOLEAN]
      <4>1. core \in [CoreFlags -> BOOLEAN] /\ [core EXCEPT !.busy = FALSE] \in [CoreFlags -> BOOLEAN]
        OBVIOUS
      <4>2. CASE core' = core
        BY <4>1, <4>2
      <4>3. CASE core' = [core EXCEPT !.busy = FALSE]
        BY <4>1, <4>3
      <4> QED BY <2>2, <4>2, <4>3
    <3> QED BY <2>0, <2>2, <3>1, <3>2 DEF TaskShape
  <2>3. "steering" \in Lanes /\ "followUp" \in Lanes
    BY DEF Lanes
  <2> QED BY <1>1, <2>1, <2>2, <2>3 DEF RunnerCheck
<1>2. CASE TurnStarts
  BY <1>2 DEF TurnStarts, TaskShape
<1>3. CASE TurnEnds
  BY <1>3 DEF TurnEnds, TaskShape, CoreFlags
<1>4. CASE TurnSettles
  <2>1. op' \in [Slots -> OpStates]
    BY <1>4, NotifiedOps DEF TurnSettles
  <2>2. runner' \in [pc : {"check", "picked", "turn", "settle", "park", "asleep", "leave", "gone"},
                     batch : Seq(Items), lane : Lanes]
    BY <1>4, EmptySeq DEF TurnSettles
  <2> QED BY <1>4, <2>1, <2>2 DEF TurnSettles, TaskShape
<1>5. CASE RunnerParks
  <2>1. op' \in [Slots -> OpStates]
    BY <1>5, NotifiedOps DEF RunnerParks
  <2>2. runner' \in [pc : {"check", "picked", "turn", "settle", "park", "asleep", "leave", "gone"},
                     batch : Seq(Items), lane : Lanes]
    BY <1>5 DEF RunnerParks
  <2> QED BY <1>5, <2>1, <2>2 DEF RunnerParks, TaskShape
<1>6. CASE RunnerWakes
  BY <1>6 DEF RunnerWakes, TaskShape
<1> QED BY <1>1, <1>2, <1>3, <1>4, <1>5, <1>6 DEF Runner

\* The commands.  What an arrival does to the slots:
LEMMA OpTypes ==
  ASSUME op \in [Slots -> OpStates], NEW o \in Slots
  PROVE  /\ \A p \in {"idle", "suspend", "resume", "wake", "drain", "ready", "compacting",
                      "compacted", "close", "watch", "unregistered", "settle"} :
              OpGoto(o, p) => op' \in [Slots -> OpStates]
         /\ OpEnds(o) => op' \in [Slots -> OpStates]
         /\ \A x \in OpStates : [op EXCEPT ![o] = x] \in [Slots -> OpStates]
BY PlainOps DEF OpGoto, OpEnds

LEMMA MovedIs ==
  ASSUME TypeInv, NEW from \in Lanes, NEW to \in Lanes, from # to, NEW x \in ToSet(lanes[from]),
         NEW S,
         lanes' = [lanes EXCEPT ![from] = Without(@, S), ![to] = Append(@, [x EXCEPT !.at = arrivals + 1])]
  PROVE  /\ lanes' \in [Lanes -> Seq(Items)]
         /\ [x EXCEPT !.at = arrivals + 1] \in Items
         /\ lanes'[from] = Without(lanes[from], S)
         /\ lanes'[to] = Append(lanes[to], [x EXCEPT !.at = arrivals + 1])
         /\ \A l \in Lanes : l \in {from, to}
<1>1. lanes \in [Lanes -> Seq(Items)] /\ arrivals \in Nat
  BY DEF TypeInv, TypeOK
<1>2. x \in Items
  BY <1>1, LaneFacts
<1>3. [x EXCEPT !.at = arrivals + 1] \in Items
  <2> DEFINE a == arrivals + 1
  <2>1. a \in Nat
    BY <1>1
  <2> HIDE DEF a
  <2>2. [x EXCEPT !.at = a] \in Items
    BY <1>2, <2>1 DEF Items
  <2> QED BY <2>2 DEF a
<1>4. Without(lanes[from], S) \in Seq(Items)
  BY <1>1, WithoutIs
<1>5. Append(lanes[to], [x EXCEPT !.at = arrivals + 1]) \in Seq(Items)
  BY <1>1, <1>3, AppendProperties
<1>6. /\ lanes'[from] = Without(lanes[from], S)
      /\ lanes'[to] = Append(lanes[to], [x EXCEPT !.at = arrivals + 1])
  BY <1>1
<1>7. \A l \in Lanes : l \in {from, to}
  BY DEF Lanes
<1>8. lanes' \in [Lanes -> Seq(Items)]
  BY <1>1, <1>4, <1>5
<1> QED BY <1>3, <1>6, <1>7, <1>8

\* Arming changes nothing but the mark.
LEMMA ArmedIs ==
  ASSUME NEW q \in Seq(Items)
  PROVE  /\ Armed(q) \in Seq(Items)
         /\ ComesFrom(Armed(q), q)
         /\ IdsOf(Armed(q)) = IdsOf(q)
<1> DEFINE r == Armed(q)
           e(j) == [q[j] EXCEPT !.armed = q[j].armed \/ Armable(q[j])]
<1>1. Len(q) \in Nat /\ DOMAIN q = 1..Len(q) /\ \A j \in DOMAIN q : q[j] \in Items
  BY LaneFacts
<1>2. r = [j \in 1..Len(q) |-> e(j)]
  BY <1>1 DEF Armed
<1>3. ASSUME NEW j \in 1..Len(q) PROVE e(j) \in Items /\ Alike(e(j), q[j])
  <2> DEFINE b == q[j].armed \/ Armable(q[j])
  <2>1. b \in BOOLEAN
    OBVIOUS
  <2>2. q[j] \in Items
    BY <1>1
  <2> HIDE DEF b
  <2>3. [q[j] EXCEPT !.armed = b] \in Items /\ Alike([q[j] EXCEPT !.armed = b], q[j])
    BY <2>1, <2>2 DEF Items, Alike
  <2> QED BY <2>3 DEF b
<1> HIDE DEF e, r
<1>4. r \in Seq(Items) /\ DOMAIN r = 1..Len(q) /\ \A j \in 1..Len(q) : r[j] = e(j)
  BY <1>1, <1>2, <1>3
<1>5. ComesFrom(r, q)
  <2> DEFINE f == [j \in DOMAIN r |-> j]
  <2>1. f \in [DOMAIN r -> DOMAIN q]
    BY <1>1, <1>4
  <2>2. /\ \A j, k \in DOMAIN r : j < k => f[j] < f[k]
        /\ \A k \in DOMAIN r : Alike(r[k], q[f[k]])
    BY <1>3, <1>4
  <2> HIDE DEF f
  <2> QED BY <2>1, <2>2 DEF ComesFrom
<1>6. IdsOf(r) = IdsOf(q)
  <2>1. IdsOf(r) = {r[j].id : j \in 1..Len(q)} /\ IdsOf(q) = {q[j].id : j \in 1..Len(q)}
    BY <1>1, <1>4, LaneFacts
  <2>2. \A j \in 1..Len(q) : r[j].id = q[j].id
    BY <1>3, <1>4 DEF Alike
  <2> QED BY <2>1, <2>2
<1> QED BY <1>4, <1>5, <1>6 DEF r

\* A command arrives.
LEMMA ArrivalTypes ==
  ASSUME TypeInv, NEW o \in Slots, Arrival(o)
  PROVE  TypeInv'
<1>0. /\ lanes \in [Lanes -> Seq(Items)] /\ core \in [CoreFlags -> BOOLEAN]
      /\ op \in [Slots -> OpStates] /\ paused \in BOOLEAN
      /\ "steering" \in Lanes
  BY DEF TypeInv, TypeOK, Lanes
<1> USE DEF TypeInv, TypeOK, TaskShape
<1>1. CASE Abort(o)
  <2>1. [pc |-> "abort", send |-> FALSE] \in OpStates
    BY DEF OpStates
  <2>2. op' \in [Slots -> OpStates]
    BY <1>0, <1>1, <2>1, OpTypes DEF Abort
  <2> QED BY <1>1, <2>2 DEF Abort
<1>2. CASE AbortSend(o)
  <2> DEFINE resumes == ~paused /\ ~core.closing
             arms == resumes /\ \E x \in ToSet(lanes["steering"]) : Armable(x)
  <2>0. resumes \in BOOLEAN /\ (core.forced \/ arms) \in BOOLEAN
    BY <1>0
  <2>1. /\ op' = [op EXCEPT ![o] = [pc |-> "abort", send |-> resumes]]
        /\ core' = [core EXCEPT !.forced = core.forced \/ arms]
        /\ lanes' = IF ~arms THEN lanes ELSE [lanes EXCEPT !["steering"] = Armed(lanes["steering"])]
        /\ UNCHANGED <<paused, runner, permit, task, adm, fate, arrivals>>
    BY <1>2 DEF AbortSend
  <2> HIDE DEF arms, resumes
  <2>2. [pc |-> "abort", send |-> resumes] \in OpStates
    BY <2>0 DEF OpStates
  <2>3. op' \in [Slots -> OpStates]
    BY <1>0, <2>1, <2>2, OpTypes
  <2>4. core' \in [CoreFlags -> BOOLEAN]
    BY <1>0, <2>0, <2>1
  <2>5. Armed(lanes["steering"]) \in Seq(Items)
    BY <1>0, ArmedIs
  <2>6. lanes' \in [Lanes -> Seq(Items)]
    BY <1>0, <2>1, <2>5
  <2> QED BY <2>1, <2>3, <2>4, <2>6
<1>3. CASE ClearQueue(o)
  <2>1. /\ lanes' \in [Lanes -> Seq(Items)]
        /\ fate' \in [Inputs -> {"new", "settled", "withdrawn", "refused"}]
    BY <1>3, WithdrawTypes DEF ClearQueue
  <2>2. op' \in [Slots -> OpStates]
    BY <1>0, <1>3, OpTypes DEF ClearQueue
  <2> QED BY <1>3, <2>1, <2>2 DEF ClearQueue
<1>4. CASE ResumeQueue(o)
  <2>2. op' \in [Slots -> OpStates]
    BY <1>0, <1>4, OpTypes DEF ResumeQueue
  <2> QED BY <1>4, <2>2 DEF ResumeQueue
<1>5. ASSUME NEW i \in Inputs, MutateDelete(o, i) PROVE TypeInv'
  <2>1. /\ lanes' \in [Lanes -> Seq(Items)]
        /\ fate' \in [Inputs -> {"new", "settled", "withdrawn", "refused"}]
    BY <1>5, WithdrawTypes DEF MutateDelete
  <2>2. op' \in [Slots -> OpStates]
    BY <1>0, <1>5, OpTypes DEF MutateDelete
  <2> QED BY <1>5, <2>1, <2>2 DEF MutateDelete
<1>6. ASSUME NEW i \in Inputs, MutateLane(o, i) PROVE TypeInv'
  <2>1. lanes' \in [Lanes -> Seq(Items)]
    <3> HIDE DEF TypeInv, TypeOK, TaskShape
    <3>0. MutateLane(o, i)
      BY <1>6
    <3>1. PICK from \in Lanes, to \in Lanes :
            \E x \in ToSet(lanes[from]) :
              /\ from # to
              /\ lanes' = [lanes EXCEPT ![from] = Without(@, {i}),
                                       ![to] = Append(@, [x EXCEPT !.at = arrivals + 1])]
      BY <3>0 DEF MutateLane
    <3>2. PICK x \in ToSet(lanes[from]) :
            /\ from # to
            /\ lanes' = [lanes EXCEPT ![from] = Without(@, {i}),
                                     ![to] = Append(@, [x EXCEPT !.at = arrivals + 1])]
      BY <3>1
    <3>3. TypeInv
      OBVIOUS
    <3> QED BY <3>2, <3>3, MovedIs
  <2>2. op' \in [Slots -> OpStates]
    BY <1>0, <1>6, OpTypes DEF MutateLane
  <2>3. arrivals' \in Nat
    BY <1>6 DEF MutateLane
  <2> QED BY <1>6, <2>1, <2>2, <2>3 DEF MutateLane
<1>7. ASSUME NEW i \in Inputs, Cancel(o, i) PROVE TypeInv'
  <2>1. [pc |-> "drop", target |-> i] \in OpStates /\ [pc |-> "stop", target |-> i] \in OpStates
    BY DEF OpStates
  <2>2. op' \in [Slots -> OpStates]
    BY <1>0, <1>7, <2>1, OpTypes DEF Cancel
  <2>3. adm' \in [Inputs -> {"none", "waiting", "owned", "cancelled"}]
    <3>1. adm' = adm \/ adm' = [adm EXCEPT ![i] = "cancelled"]
      BY <1>7 DEF Cancel
    <3>2. adm \in [Inputs -> {"none", "waiting", "owned", "cancelled"}]
      OBVIOUS
    <3> HIDE DEF TypeInv
    <3> QED BY <3>1, <3>2
  <2> QED BY <1>7, <2>2, <2>3 DEF Cancel
<1>8. CASE Pause(o)
  <2>1. op' \in [Slots -> OpStates]
    BY <1>0, <1>8, OpTypes DEF Pause
  <2>2. paused' \in BOOLEAN
    BY <1>8 DEF Pause
  <2> QED BY <1>8, <2>1, <2>2 DEF Pause
<1>9. CASE Compact(o)
  <2>1. op' \in [Slots -> OpStates]
    BY <1>0, <1>9, OpTypes DEF Compact
  <2>2. core' \in [CoreFlags -> BOOLEAN]
    BY <1>0, <1>9 DEF Compact
  <2> QED BY <1>9, <2>1, <2>2 DEF Compact
<1>10. CASE WaitForIdle(o)
  <2>1. op' \in [Slots -> OpStates]
    BY <1>0, <1>10, OpTypes DEF WaitForIdle
  <2> QED BY <1>10, <2>1 DEF WaitForIdle
<1>11. CASE Kill(o)
  <2>1. op' \in [Slots -> OpStates]
    BY <1>0, <1>11, OpTypes DEF Kill
  <2>2. core' \in [CoreFlags -> BOOLEAN]
    BY <1>0, <1>11 DEF Kill
  <2> QED BY <1>11, <2>1, <2>2 DEF Kill
<1>12. CASE Shutdown(o)
  <2>1. op' \in [Slots -> OpStates]
    BY <1>0, <1>12, OpTypes DEF Shutdown
  <2>2. core' \in [CoreFlags -> BOOLEAN]
    BY <1>0, <1>12 DEF Shutdown
  <2> QED BY <1>12, <2>1, <2>2 DEF Shutdown
<1> QED BY <1>1, <1>2, <1>3, <1>4, <1>5, <1>6, <1>7, <1>8, <1>9, <1>10, <1>11, <1>12 DEF Arrival

\* A command in dispatch takes a step.
LEMMA StepTypes ==
  ASSUME TypeInv, NEW o \in Slots, Step(o)
  PROVE  TypeInv'
<1>0. /\ lanes \in [Lanes -> Seq(Items)] /\ core \in [CoreFlags -> BOOLEAN]
      /\ op \in [Slots -> OpStates] /\ op[o] \in OpStates
      /\ adm \in [Inputs -> {"none", "waiting", "owned", "cancelled"}]
  BY DEF TypeInv, TypeOK
<1> USE DEF TypeInv, TypeOK, TaskShape
<1>1. CASE AbortSuspends(o)
  <2>1. op' \in [Slots -> OpStates]
    BY <1>0, <1>1, OpFacts, OpTypes DEF AbortSuspends
  <2>2. core' \in [CoreFlags -> BOOLEAN]
    BY <1>0, <1>1 DEF AbortSuspends
  <2> QED BY <1>1, <2>1, <2>2 DEF AbortSuspends
<1>2. CASE AbortWithdraws(o)
  <2> DEFINE S == {x.id : x \in {y \in ToSet(lanes["steering"] \o lanes["followUp"]) : ~y.visible}}
  <2>1. /\ lanes' \in [Lanes -> Seq(Items)]
        /\ fate' \in [Inputs -> {"new", "settled", "withdrawn", "refused"}]
    <3>1. Withdraw(S)
      BY <1>2 DEF AbortWithdraws
    <3> HIDE DEF S
    <3> QED BY <3>1, WithdrawTypes
  <2>2. op' \in [Slots -> OpStates]
    <3>1. [op[o] EXCEPT !.pc = "flow"] \in OpStates /\ NoOp \in OpStates
      BY <1>0, <1>2, OpFacts, PlainOps DEF AbortWithdraws
    <3>2. op' = [op EXCEPT ![o] = IF op[o].send THEN [op[o] EXCEPT !.pc = "flow"] ELSE NoOp]
      BY <1>2 DEF AbortWithdraws
    <3> QED BY <1>0, <3>1, <3>2
  <2>3. adm' \in [Inputs -> {"none", "waiting", "owned", "cancelled"}]
    BY <1>0, <1>2 DEF AbortWithdraws
  <2> QED BY <1>2, <2>1, <2>2, <2>3 DEF AbortWithdraws
<1>3. CASE AbortFlows(o)
  <2>1. op' \in [Slots -> OpStates]
    BY <1>0, <1>3, OpTypes DEF AbortFlows
  <2> QED BY <1>3, <2>1 DEF AbortFlows
<1>4. CASE ResumeQueuedInput(o)
  <2>1. op' \in [Slots -> OpStates]
    BY <1>0, <1>4, OpTypes DEF ResumeQueuedInput
  <2>2. core' \in [CoreFlags -> BOOLEAN]
    BY <1>0, <1>4 DEF ResumeQueuedInput
  <2> QED BY <1>4, <2>1, <2>2 DEF ResumeQueuedInput
<1>5. CASE ClearSuspends(o)
  <2>1. op' \in [Slots -> OpStates]
    BY <1>0, <1>5, OpTypes DEF ClearSuspends
  <2>2. core' \in [CoreFlags -> BOOLEAN]
    BY <1>0, <1>5 DEF ClearSuspends
  <2> QED BY <1>5, <2>1, <2>2 DEF ClearSuspends
<1>6. CASE CancelDrops(o)
  <2>1. /\ lanes' \in [Lanes -> Seq(Items)]
        /\ fate' \in [Inputs -> {"new", "settled", "withdrawn", "refused"}]
    BY <1>6, WithdrawTypes DEF CancelDrops
  <2>2. op' \in [Slots -> OpStates]
    BY <1>0, <1>6, OpTypes DEF CancelDrops
  <2> QED BY <1>6, <2>1, <2>2 DEF CancelDrops
<1>7. CASE CancelStops(o)
  <2>1. op' \in [Slots -> OpStates]
    BY <1>0, <1>7, OpTypes DEF CancelStops
  <2>2. core' \in [CoreFlags -> BOOLEAN]
    BY <1>0, <1>7 DEF CancelStops
  <2> QED BY <1>7, <2>1, <2>2 DEF CancelStops
<1>8. CASE Wake(o)
  <2>1. op' \in [Slots -> OpStates]
    BY <1>0, <1>8, OpTypes DEF Wake
  <2> QED BY <1>8, <2>1 DEF Wake
<1>9. CASE CompactDrains(o)
  <2>1. op' \in [Slots -> OpStates]
    BY <1>0, <1>9, OpTypes DEF CompactDrains
  <2>2. core' = core \/ core' = [core EXCEPT !.abort = TRUE]
    BY <1>9 DEF CompactDrains
  <2>3. core' \in [CoreFlags -> BOOLEAN]
    BY <1>0, <2>2
  <2>4. UNCHANGED <<lanes, paused, runner, permit, task, adm, fate, arrivals>>
    BY <1>9 DEF CompactDrains
  <2> QED BY <2>1, <2>3, <2>4
<1>10. CASE CompactBegins(o)
  <2>1. op' \in [Slots -> OpStates]
    BY <1>0, <1>10, OpTypes DEF CompactBegins
  <2>2. core' \in [CoreFlags -> BOOLEAN]
    BY <1>0, <1>10 DEF CompactBegins
  <2> QED BY <1>10, <2>1, <2>2 DEF CompactBegins
<1>11. CASE CompactEnds(o)
  <2>1. op' \in [Slots -> OpStates]
    BY <1>0, <1>11, OpTypes DEF CompactEnds
  <2>2. core' \in [CoreFlags -> BOOLEAN]
    BY <1>0, <1>11 DEF CompactEnds
  <2> QED BY <1>11, <2>1, <2>2 DEF CompactEnds
<1>12. CASE CompactNotifies(o)
  <2>1. op' \in [Slots -> OpStates]
    BY <1>0, <1>12, NotifiedOps, PlainOps DEF CompactNotifies
  <2> QED BY <1>12, <2>1 DEF CompactNotifies
<1>13. CASE WaitLooks(o)
  <2>1. op' \in [Slots -> OpStates]
    BY <1>0, <1>13, OpTypes DEF WaitLooks
  <2> QED BY <1>13, <2>1 DEF WaitLooks
<1>14. CASE WaitRegisters(o) \/ SettleRegisters(o)
  <2>1. \A p \in {"waiting", "settling", "asleep"} : [pc |-> p, woken |-> FALSE] \in OpStates
    BY DEF OpStates
  <2>2. op' \in [Slots -> OpStates]
    BY <1>0, <1>14, <2>1, OpTypes DEF WaitRegisters, SettleRegisters
  <2> QED BY <1>14, <2>2 DEF WaitRegisters, SettleRegisters
<1>15. CASE WaitWakes(o)
  <2>1. op' \in [Slots -> OpStates]
    BY <1>0, <1>15, OpTypes DEF WaitWakes
  <2> QED BY <1>15, <2>1 DEF WaitWakes
<1>16. CASE KillClears(o)
  <2>1. /\ lanes' \in [Lanes -> Seq(Items)]
        /\ fate' \in [Inputs -> {"new", "settled", "withdrawn", "refused"}]
    BY <1>16, WithdrawTypes DEF KillClears
  <2>2. op' \in [Slots -> OpStates]
    BY <1>0, <1>16, OpTypes DEF KillClears
  <2>3. core' \in [CoreFlags -> BOOLEAN]
    BY <1>0, <1>16 DEF KillClears
  <2> QED BY <1>16, <2>1, <2>2, <2>3 DEF KillClears
<1>17. CASE SettleLooks(o)
  <2>1. op' \in [Slots -> OpStates]
    <3>1. OpEnds(o) \/ op' = [op EXCEPT ![o].pc = "asleep"]
      BY <1>17 DEF SettleLooks
    <3>2. [op[o] EXCEPT !.pc = "asleep"] \in OpStates
      BY <1>0, <1>17, OpFacts DEF SettleLooks
    <3> HIDE DEF TypeInv
    <3> QED BY <1>0, <3>1, <3>2, OpTypes
  <2> QED BY <1>17, <2>1 DEF SettleLooks
<1> QED BY <1>1, <1>2, <1>3, <1>4, <1>5, <1>6, <1>7, <1>8, <1>9, <1>10, <1>11, <1>12,
           <1>13, <1>14, <1>15, <1>16, <1>17 DEF Step

LEMMA TypesKept ==
  ASSUME TypeInv, [Next /\ UNCHANGED load]_<<vars, load>>
  PROVE  TypeInv'
<1>1. CASE Runner
  BY <1>1, RunnerTypes
<1>2. ASSUME NEW i \in Inputs, Input(i) PROVE TypeInv'
  BY <1>2, InputTypes
<1>3. ASSUME NEW o \in Slots, Arrival(o) PROVE TypeInv'
  BY <1>3, ArrivalTypes
<1>4. ASSUME NEW o \in Slots, Step(o) PROVE TypeInv'
  BY <1>4, StepTypes
<1>5. CASE UNCHANGED <<vars, load>>
  BY <1>5 DEF vars, TypeInv, TypeOK, TaskShape
<1> QED BY <1>1, <1>2, <1>3, <1>4, <1>5 DEF Next

\* Every variable keeps its type, whatever clients send and whatever overlaps.
THEOREM TypeCorrect == Spec => []TypeOK
<1>1. Init => TypeInv
  BY InitTypes
<1>2. TypeInv /\ [Next /\ UNCHANGED load]_<<vars, load>> => TypeInv'
  BY TypesKept
<1>3. TypeInv => TypeOK
  BY DEF TypeInv
<1> QED BY <1>1, <1>2, <1>3, PTL DEF Spec

-----------------------------------------------------------------------------
(* The flag `busy`, and closes *)

\* The session is busy from the pickup to the end of the turn, and the runner
\* holds a batch until it has answered it.
RunnerShape ==
  /\ core.busy <=> runner.pc \in {"picked", "turn"}
  /\ runner.batch # <<>> <=> runner.pc \in {"picked", "turn", "settle"}

Settling == {"settle", "settling", "asleep"}

\* A turn that a shutdown has met is waited for.
ShutdownWaits ==
  core.closing /\ runner.pc \in {"picked", "turn"} => \E o \in Slots : op[o].pc \in Settling

FlowInv == TypeInv /\ RunnerShape /\ ShutdownWaits

\* Steps that leave the runner, its flag and the closing flag alone.
LEMMA FlowFrame ==
  ASSUME FlowInv, TypeInv', UNCHANGED runner, core'.busy = core.busy,
         core'.closing = core.closing,
         \A o \in Slots : op[o].pc \in Settling =>
           op'[o].pc \in Settling \/ (core.busy = FALSE)
  PROVE  FlowInv'
<1> USE DEF FlowInv
<1>1. RunnerShape'
  BY DEF RunnerShape
<1>2. ShutdownWaits'
  BY DEF ShutdownWaits, RunnerShape
<1> QED BY <1>1, <1>2

\* A command that is not waiting for the turn moves on.
LEMMA FlowOp ==
  ASSUME FlowInv, TypeInv', UNCHANGED runner, core'.busy = core.busy,
         core'.closing = core.closing,
         NEW o \in Slots, op[o].pc \notin Settling,
         \A p \in Slots : p # o => op'[p] = op[p]
  PROVE  FlowInv'
BY FlowFrame

LEMMA FlowRunner ==
  ASSUME FlowInv, Runner
  PROVE  FlowInv'
<1>0. TypeInv /\ TypeInv'
  BY RunnerTypes DEF FlowInv
<1> USE DEF FlowInv, RunnerShape
<1>1. CASE RunnerCheck
  <2>1. ASSUME NEW l \in Lanes, lanes[l] # <<>>, PickUp(l), ~core.closing PROVE FlowInv'
    <3>1. PICK n \in 1..Len(lanes[l]) :
            runner' = [pc |-> "picked", batch |-> SubSeq(lanes[l], 1, n), lane |-> l]
      BY <2>1, <1>0, PickUpIs
    <3>2. core'.busy /\ core'.closing = core.closing
      BY <2>1, <1>0, PickUpIs
    <3>3. lanes[l] \in Seq(Items)
      BY <1>0 DEF TypeInv, TypeOK
    <3>4. runner'.pc = "picked" /\ runner'.batch # <<>>
      BY <3>1, <3>3, SplitIs
    <3> QED BY <1>0, <2>1, <3>2, <3>4 DEF ShutdownWaits
  <2>2. ASSUME runner' = [runner EXCEPT !.pc = "leave"] \/ runner' = [runner EXCEPT !.pc = "park"],
               core' = core \/ core' = [core EXCEPT !.busy = FALSE]
        PROVE  FlowInv'
    <3>1. runner'.pc \in {"leave", "park"} /\ runner'.batch = runner.batch
      BY <2>2, <1>0 DEF TypeInv, TypeOK
    <3>2. runner.batch = <<>> /\ ~core.busy
      BY <1>1 DEF RunnerCheck
    <3>3. ~core'.busy
      BY <2>2, <3>2, <1>0 DEF TypeInv, TypeOK, CoreFlags
    <3> QED BY <1>0, <3>1, <3>2, <3>3 DEF ShutdownWaits
  <2>3. "steering" \in Lanes /\ "followUp" \in Lanes
    BY DEF Lanes
  <2> QED BY <1>1, <2>1, <2>2, <2>3 DEF RunnerCheck
<1>2. CASE TurnStarts
  <2>1. runner.pc = "picked" /\ runner'.pc = "turn" /\ runner'.batch = runner.batch
        /\ UNCHANGED <<core, op>>
    BY <1>0, <1>2 DEF TurnStarts, TypeInv, TypeOK
  <2> QED BY <1>0, <2>1 DEF ShutdownWaits
<1>3. CASE TurnEnds
  <2>1. runner.pc = "turn" /\ runner'.pc = "settle" /\ runner'.batch = runner.batch /\ ~core'.busy
    BY <1>0, <1>3 DEF TurnEnds, TypeInv, TypeOK, CoreFlags
  <2> QED BY <1>0, <2>1 DEF ShutdownWaits
<1>4. CASE TurnSettles
  <2>1. runner.pc = "settle" /\ runner'.pc = "check" /\ runner'.batch = <<>> /\ UNCHANGED core
    BY <1>0, <1>4 DEF TurnSettles, TypeInv, TypeOK
  <2> QED BY <1>0, <2>1 DEF ShutdownWaits
<1>5. CASE RunnerParks
  <2>1. runner.pc \in {"park", "leave"} /\ runner'.pc \in {"asleep", "gone"}
        /\ runner'.batch = runner.batch /\ UNCHANGED core
    BY <1>0, <1>5 DEF RunnerParks, TypeInv, TypeOK
  <2> QED BY <1>0, <2>1 DEF ShutdownWaits
<1>6. CASE RunnerWakes
  <2>1. runner.pc = "asleep" /\ runner'.pc = "check"
        /\ runner'.batch = runner.batch /\ UNCHANGED core
    BY <1>0, <1>6 DEF RunnerWakes, TypeInv, TypeOK
  <2> QED BY <1>0, <2>1 DEF ShutdownWaits
<1> QED BY <1>1, <1>2, <1>3, <1>4, <1>5, <1>6 DEF Runner

LEMMA FlowInput ==
  ASSUME FlowInv, NEW i \in Inputs, Input(i)
  PROVE  FlowInv'
<1>0. TypeInv /\ TypeInv'
  BY InputTypes DEF FlowInv
<1>1. UNCHANGED <<runner, op>>
  BY DEF Input, PromptGate, QueueResume, MessageGate, InjectGate, Register, Enqueue, NotifyWork
<1>2. core' = core \/ \E b : core' = [core EXCEPT !.suspended = b]
  BY DEF Input, PromptGate, QueueResume, MessageGate, InjectGate, Register, Enqueue, NotifyWork
<1>3. core'.busy = core.busy /\ core'.closing = core.closing
  BY <1>0, <1>2 DEF TypeInv, TypeOK, CoreFlags
<1> QED BY <1>0, <1>1, <1>3, FlowFrame

LEMMA FlowArrival ==
  ASSUME FlowInv, NEW o \in Slots, Arrival(o)
  PROVE  FlowInv'
<1>0. TypeInv /\ TypeInv'
  BY ArrivalTypes DEF FlowInv
<1>1. op[o].pc = "idle"
  <2>1. ASSUME NEW c, Arrives(o, c) PROVE op[o].pc = "idle"
    BY <2>1, PlainOps DEF Arrives
  <2>2. \E c : Arrives(o, c)
    BY DEF Arrival, Abort, AbortSend, ClearQueue, ResumeQueue, MutateDelete, MutateLane, Cancel,
           Pause, Compact, WaitForIdle, Kill, Shutdown
  <2> QED BY <2>1, <2>2
<1>2. /\ UNCHANGED runner
      /\ \A p \in Slots : p # o => op'[p] = op[p]
  <2>1. UNCHANGED runner
    BY DEF Arrival, Abort, AbortSend, ClearQueue, ResumeQueue, MutateDelete, MutateLane, Cancel,
           Pause, Compact, WaitForIdle, Kill, Shutdown
  <2>2. op' = op \/ \E x : op' = [op EXCEPT ![o] = x]
    BY DEF Arrival, Abort, AbortSend, ClearQueue, ResumeQueue, MutateDelete, MutateLane, Cancel,
           Pause, Compact, WaitForIdle, Kill, Shutdown, OpGoto, OpEnds
  <2>3. op \in [Slots -> OpStates]
    BY <1>0 DEF TypeInv, TypeOK
  <2> QED BY <2>1, <2>2, <2>3
<1>3. CASE Shutdown(o)
  <2>1. op'[o].pc = "settle" /\ core'.busy = core.busy
    BY <1>0, <1>3 DEF Shutdown, OpGoto, TypeInv, TypeOK, CoreFlags
  <2> QED BY <1>0, <1>2, <2>1 DEF FlowInv, RunnerShape, ShutdownWaits, Settling
<1>4. CASE ~Shutdown(o)
  <2>1. \/ core' = core
        \/ \E b : core' = [core EXCEPT !.forced = b]
        \/ \E b : core' = [core EXCEPT !.suspended = b]
        \/ \E b : core' = [core EXCEPT !.created = b]
    BY <1>4 DEF Arrival, Abort, AbortSend, ClearQueue, ResumeQueue, MutateDelete, MutateLane,
         Cancel, Pause, Compact, WaitForIdle, Kill
  <2>2. core'.busy = core.busy /\ core'.closing = core.closing
    BY <1>0, <2>1 DEF TypeInv, TypeOK, CoreFlags
  <2> QED BY <1>0, <1>1, <1>2, <2>2, FlowOp DEF Settling
<1> QED BY <1>3, <1>4

LEMMA FlowStep ==
  ASSUME FlowInv, NEW o \in Slots, Step(o)
  PROVE  FlowInv'
<1>0. TypeInv /\ TypeInv' /\ op \in [Slots -> OpStates] /\ op[o] \in OpStates
  BY StepTypes DEF FlowInv, TypeInv, TypeOK
<1>1. UNCHANGED runner
  BY DEF Step, AbortSuspends, AbortWithdraws, AbortFlows, ResumeQueuedInput, ClearSuspends,
         CancelDrops, CancelStops, Wake, CompactDrains, CompactBegins, CompactEnds,
         CompactNotifies, WaitLooks, WaitRegisters, WaitWakes, KillClears, SettleRegisters,
         SettleLooks
<1>2. \/ core' = core
      \/ core' = [core EXCEPT !.abort = TRUE, !.suspended = TRUE]
      \/ core' = [core EXCEPT !.suspended = FALSE]
      \/ core' = [core EXCEPT !.abort = TRUE]
      \/ core' = [core EXCEPT !.compacting = TRUE]
      \/ core' = [core EXCEPT !.compacting = FALSE]
  BY DEF Step, AbortSuspends, AbortWithdraws, AbortFlows, ResumeQueuedInput, ClearSuspends,
         CancelDrops, CancelStops, Wake, CompactDrains, CompactBegins, CompactEnds,
         CompactNotifies, WaitLooks, WaitRegisters, WaitWakes, KillClears, SettleRegisters,
         SettleLooks
<1>3. core'.busy = core.busy /\ core'.closing = core.closing
  <2>1. core \in [CoreFlags -> BOOLEAN]
    BY <1>0 DEF TypeInv, TypeOK
  <2> QED BY <1>2, <2>1 DEF CoreFlags
<1>4. CASE SettleRegisters(o)
  <2>1. op'[o].pc = "settling" /\ \A p \in Slots : p # o => op'[p] = op[p]
    BY <1>0, <1>4 DEF SettleRegisters
  <2> QED BY <1>0, <1>1, <1>3, <2>1, FlowFrame DEF Settling
<1>5. CASE SettleLooks(o)
  <2>1. \A p \in Slots : p # o => op'[p] = op[p]
    BY <1>0, <1>5 DEF SettleLooks, OpEnds, OpGoto
  <2>2. CASE ~core.busy /\ ~core.compacting
    <3>1. core.busy = FALSE
      BY <2>2, <1>0 DEF TypeInv, TypeOK, CoreFlags
    <3> QED BY <1>0, <1>1, <1>3, <2>1, <3>1, FlowFrame
  <2>3. CASE ~(~core.busy /\ ~core.compacting)
    <3>1. op'[o].pc = "asleep"
      <4>1. op' = [op EXCEPT ![o].pc = "asleep"] /\ op[o].pc = "settling"
        BY <1>5, <2>3 DEF SettleLooks
      <4>2. [op[o] EXCEPT !.pc = "asleep"].pc = "asleep"
        BY <1>0, <4>1, OpFacts
      <4> QED BY <1>0, <4>1, <4>2
    <3> QED BY <1>0, <1>1, <1>3, <2>1, <3>1, FlowFrame DEF Settling
  <2> QED BY <2>2, <2>3
<1>6. CASE CompactNotifies(o)
  <2>1. op[o].pc = "compacted"
    BY <1>6 DEF CompactNotifies
  <2>2. \A p \in Slots : p # o => op'[p].pc = op[p].pc
    BY <1>0, <1>6, NotifiedOps DEF CompactNotifies
  <2> QED BY <1>0, <1>1, <1>3, <2>1, <2>2, FlowFrame DEF Settling
<1>7. CASE ~SettleRegisters(o) /\ ~SettleLooks(o) /\ ~CompactNotifies(o)
  <2>1. op[o].pc \notin Settling
    BY <1>7 DEF Step, AbortSuspends, AbortWithdraws, AbortFlows, ResumeQueuedInput,
         ClearSuspends, CancelDrops, CancelStops, Wake, CompactDrains, CompactBegins,
         CompactEnds, WaitLooks, WaitRegisters, WaitWakes, KillClears, Settling
  <2>2. \A p \in Slots : p # o => op'[p] = op[p]
    BY <1>0, <1>7 DEF Step, AbortSuspends, AbortWithdraws, AbortFlows, ResumeQueuedInput,
         ClearSuspends, CancelDrops, CancelStops, Wake, CompactDrains, CompactBegins,
         CompactEnds, WaitLooks, WaitRegisters, WaitWakes, KillClears, OpGoto, OpEnds
  <2> QED BY <1>0, <1>1, <1>3, <2>1, <2>2, FlowOp
<1> QED BY <1>4, <1>5, <1>6, <1>7

LEMMA FlowInit ==
  ASSUME Init
  PROVE  FlowInv
<1>1. core.busy = FALSE /\ core.closing = FALSE /\ runner.pc = "check" /\ runner.batch = <<>>
  BY DEF Init, CoreFlags
<1> QED BY <1>1, InitTypes DEF FlowInv, RunnerShape, ShutdownWaits

LEMMA FlowKept ==
  ASSUME FlowInv, [Next /\ UNCHANGED load]_<<vars, load>>
  PROVE  FlowInv'
<1>1. CASE UNCHANGED <<vars, load>>
  BY <1>1, TypesKept DEF vars, FlowInv, RunnerShape, ShutdownWaits
<1>2. CASE Next
  BY <1>2, FlowRunner, FlowInput, FlowArrival, FlowStep DEF Next
<1> QED BY <1>1, <1>2

\* Once a shutdown is answered no turn runs: the turn it met was waited for, and
\* the runner takes no other.
THEOREM ShutdownEndsTurns == Spec => []ShutdownStopsTurns
<1>1. Init => FlowInv
  BY FlowInit
<1>2. FlowInv /\ [Next /\ UNCHANGED load]_<<vars, load>> => FlowInv'
  BY FlowKept
<1>3. FlowInv => ShutdownStopsTurns
  BY PlainOps DEF FlowInv, ShutdownWaits, ShutdownStopsTurns, Settling
<1> QED BY <1>1, <1>2, <1>3, PTL DEF Spec

\* What a step other than the settling of a turn tells an input.
LEMMA FateMoves ==
  ASSUME TypeInv, Next, ~TurnSettles, NEW i \in Inputs
  PROVE  fate'[i] \in {fate[i], "refused", "withdrawn"}
<1>0. fate \in [Inputs -> {"new", "settled", "withdrawn", "refused"}]
  BY DEF TypeInv, TypeOK
<1>1. CASE Runner
  BY <1>1 DEF Runner, RunnerCheck, TurnStarts, TurnEnds, RunnerParks, RunnerWakes
<1>2. ASSUME NEW j \in Inputs, Input(j) PROVE fate'[i] \in {fate[i], "refused", "withdrawn"}
  <2>1. fate' = fate \/ fate' = [fate EXCEPT ![j] = "refused"]
    BY <1>2 DEF Input, PromptGate, QueueResume, MessageGate, InjectGate, Register, Enqueue,
                NotifyWork
  <2> QED BY <1>0, <2>1
<1>3. ASSUME NEW S, Withdraw(S) PROVE fate'[i] \in {fate[i], "refused", "withdrawn"}
  BY <1>3 DEF Withdraw
<1>4. ASSUME NEW o \in Slots, Arrival(o) PROVE fate' = fate \/ \E S : Withdraw(S)
  BY <1>4 DEF Arrival, Abort, AbortSend, ClearQueue, ResumeQueue, MutateDelete, MutateLane,
              Cancel, Pause, Compact, WaitForIdle, Kill, Shutdown
<1>5. ASSUME NEW o \in Slots, Step(o) PROVE fate' = fate \/ \E S : Withdraw(S)
  BY <1>5 DEF Step, AbortSuspends, AbortWithdraws, AbortFlows, ResumeQueuedInput,
         ClearSuspends, CancelDrops, CancelStops, Wake, CompactDrains, CompactBegins,
         CompactEnds, CompactNotifies, WaitLooks, WaitRegisters, WaitWakes, KillClears,
         SettleRegisters, SettleLooks
<1> QED BY <1>1, <1>2, <1>3, <1>4, <1>5 DEF Next

\* A prompt is answered after the idle flip, and nobody is busy again before.
THEOREM AnsweredWhenIdle == Spec => AnswersObserveIdle
<1>1. Init => FlowInv
  BY FlowInit
<1>2. FlowInv /\ [Next /\ UNCHANGED load]_<<vars, load>> => FlowInv'
  BY FlowKept
<1>3. ASSUME FlowInv, [Next /\ UNCHANGED load]_<<vars, load>>
      PROVE  [\A i \in Inputs : fate[i] # "settled" /\ fate'[i] = "settled" => ~core'.busy]_vars
  <2> SUFFICES ASSUME Next, NEW i \in Inputs, fate[i] # "settled", fate'[i] = "settled"
               PROVE  ~core'.busy
    BY <1>3 DEF vars
  <2>1. TurnSettles
    BY <1>3, FateMoves DEF FlowInv
  <2>2. runner.pc = "settle" /\ UNCHANGED core
    BY <2>1 DEF TurnSettles
  <2> QED BY <1>3, <2>2 DEF FlowInv, RunnerShape
<1> QED BY <1>1, <1>2, <1>3, PTL DEF Spec, AnswersObserveIdle

-----------------------------------------------------------------------------
(* What the steps do to the lanes *)

\* A lane loses the inputs of S and keeps the order of the others.
Loses(l, S) ==
  ComesFrom(lanes'[l], lanes[l]) /\ IdsOf(lanes'[l]) = IdsOf(lanes[l]) \ S

\* Input i arrives in lane l, in front of lower ranks only.
Enters(l, i) ==
  /\ arrivals' = arrivals + 1
  /\ \E x \in Items, n \in 0..Len(lanes[l]) :
       /\ x.id = i /\ x.at = arrivals + 1
       /\ lanes'[l] = InsertedAfter(lanes[l], n, x)
       /\ \A j \in (n + 1)..Len(lanes[l]) : Rank(lanes[l][j]) < Rank(x)

LEMMA LanesStay ==
  ASSUME TypeInv, UNCHANGED lanes
  PROVE  \A l \in Lanes : Loses(l, {})
<1>1. \A l \in Lanes : lanes[l] \in Seq(Items)
  BY DEF TypeInv, TypeOK
<1> QED BY <1>1, ComesFromSelf DEF Loses

LEMMA WithdrawLoses ==
  ASSUME TypeInv, NEW S, Withdraw(S)
  PROVE  \A l \in Lanes : Loses(l, S)
<1>1. \A l \in Lanes : lanes[l] \in Seq(Items)
  BY DEF TypeInv, TypeOK
<1>2. \A l \in Lanes : lanes'[l] = Without(lanes[l], S)
  BY DEF Withdraw
<1> QED BY <1>1, <1>2, WithoutIs DEF Loses

LEMMA ArmingLoses ==
  ASSUME TypeInv, NEW o \in Slots, AbortSend(o)
  PROVE  \A l \in Lanes : Loses(l, {})
<1>0. lanes \in [Lanes -> Seq(Items)] /\ "steering" \in Lanes
  BY DEF TypeInv, TypeOK, Lanes
<1>1. \A l \in Lanes : lanes[l] \in Seq(Items)
  BY <1>0
<1>2. lanes' = lanes \/ lanes' = [lanes EXCEPT !["steering"] = Armed(@)]
  BY DEF AbortSend
<1>3. CASE lanes' = lanes
  BY <1>3, LanesStay
<1>4. CASE lanes' = [lanes EXCEPT !["steering"] = Armed(@)]
  <2>1. \A l \in Lanes : lanes'[l] = IF l = "steering" THEN Armed(lanes[l]) ELSE lanes[l]
    BY <1>0, <1>4
  <2> QED BY <1>1, <2>1, ArmedIs, ComesFromSelf DEF Loses
<1> QED BY <1>2, <1>3, <1>4

\* What enqueue_priority puts where.
LEMMA EnqueueIs ==
  ASSUME TypeInv, NEW i \in Inputs, Enqueue(i)
  PROVE  \E l \in Lanes : \E n \in 0..Len(lanes[l]) :
           /\ ItemOf(i) \in Items /\ ItemOf(i).id = i /\ ItemOf(i).at = arrivals + 1
           /\ lanes' = [lanes EXCEPT ![l] = InsertedAfter(lanes[l], n, ItemOf(i))]
           /\ n = 0 \/ Rank(lanes[l][n]) >= Rank(ItemOf(i))
           /\ \A j \in (n + 1)..Len(lanes[l]) : Rank(lanes[l][j]) < Rank(ItemOf(i))
<1>1. lanes \in [Lanes -> Seq(Items)] /\ arrivals \in Nat
  BY DEF TypeInv, TypeOK
<1>2. LaneOf(i) \in Lanes
  BY DEF TypeInv, TypeOK, TaskShape, LaneOf, Lanes
<1>3. ItemOf(i) \in Items /\ ItemOf(i).id = i /\ ItemOf(i).at = arrivals + 1
  <2> DEFINE a == arrivals + 1
  <2>1. a \in Nat
    BY <1>1
  <2>2. core.busy \in BOOLEAN
    BY DEF TypeInv, TypeOK, CoreFlags
  <2>3. (task[i].cmd # "inject") \in BOOLEAN
    OBVIOUS
  <2> HIDE DEF a
  <2>4. ItemOf(i).policy \in Policies /\ ItemOf(i).visible \in BOOLEAN
    BY <2>2, <2>3 DEF ItemOf, Policies
  <2>5. ItemOf(i).id = i /\ ItemOf(i).armed = FALSE /\ ItemOf(i).at = a
    BY DEF ItemOf, a
  <2>6. ItemOf(i) = [id |-> ItemOf(i).id, armed |-> ItemOf(i).armed, at |-> ItemOf(i).at,
                     policy |-> ItemOf(i).policy, visible |-> ItemOf(i).visible]
    BY DEF ItemOf
  <2>7. ItemOf(i) \in Items
    BY <2>1, <2>4, <2>5, <2>6 DEF Items
  <2> QED BY <2>5, <2>7 DEF a
<1>4. lanes' = [lanes EXCEPT ![LaneOf(i)] = Enqueued(lanes[LaneOf(i)], ItemOf(i))]
  BY DEF Enqueue
<1>5. lanes[LaneOf(i)] \in Seq(Items)
  BY <1>1, <1>2
<1>6. PICK n \in 0..Len(lanes[LaneOf(i)]) :
        /\ Enqueued(lanes[LaneOf(i)], ItemOf(i)) = InsertedAfter(lanes[LaneOf(i)], n, ItemOf(i))
        /\ n = 0 \/ Rank(lanes[LaneOf(i)][n]) >= Rank(ItemOf(i))
        /\ \A j \in (n + 1)..Len(lanes[LaneOf(i)]) : Rank(lanes[LaneOf(i)][j]) < Rank(ItemOf(i))
  BY <1>3, <1>5, EnqueuedIs
<1> QED BY <1>2, <1>3, <1>4, <1>6

LEMMA EnqueueEnters ==
  ASSUME TypeInv, NEW i \in Inputs, Enqueue(i)
  PROVE  \E l \in Lanes :
           /\ Enters(l, i)
           /\ \A k \in Lanes \ {l} : Loses(k, {}) /\ lanes'[k] = lanes[k]
<1>1. lanes \in [Lanes -> Seq(Items)] /\ arrivals' = arrivals + 1
  BY DEF TypeInv, TypeOK, Enqueue
<1>2. PICK l \in Lanes : \E n \in 0..Len(lanes[l]) :
        /\ ItemOf(i) \in Items /\ ItemOf(i).id = i /\ ItemOf(i).at = arrivals + 1
        /\ lanes' = [lanes EXCEPT ![l] = InsertedAfter(lanes[l], n, ItemOf(i))]
        /\ \A j \in (n + 1)..Len(lanes[l]) : Rank(lanes[l][j]) < Rank(ItemOf(i))
  BY EnqueueIs
<1>3. Enters(l, i)
  BY <1>1, <1>2 DEF Enters
<1>4. \A k \in Lanes \ {l} : lanes'[k] = lanes[k]
  BY <1>1, <1>2
<1>5. \A k \in Lanes \ {l} : Loses(k, {})
  BY <1>1, <1>4, ComesFromSelf DEF Loses
<1> QED BY <1>3, <1>4, <1>5

LEMMA RelaneEnters ==
  ASSUME TypeInv, NEW o \in Slots, NEW i \in Inputs, MutateLane(o, i)
  PROVE  \E from, to \in Lanes :
           /\ from # to /\ \A l \in Lanes : l \in {from, to}
           /\ i \in IdsOf(lanes[from])
           /\ Loses(from, {i}) /\ Enters(to, i)
<1>0. lanes \in [Lanes -> Seq(Items)]
  BY DEF TypeInv, TypeOK
<1>1. PICK from \in Lanes, to \in Lanes :
        \E x \in ToSet(lanes[from]) :
          /\ from # to /\ x.id = i
          /\ lanes' = [lanes EXCEPT ![from] = Without(@, {i}),
                                   ![to] = Append(@, [x EXCEPT !.at = arrivals + 1])]
  BY DEF MutateLane
<1>2. PICK x \in ToSet(lanes[from]) :
        /\ from # to /\ x.id = i
        /\ lanes' = [lanes EXCEPT ![from] = Without(@, {i}),
                                 ![to] = Append(@, [x EXCEPT !.at = arrivals + 1])]
  BY <1>1
<1> DEFINE y == [x EXCEPT !.at = arrivals + 1]
<1>3. /\ y \in Items
      /\ lanes'[from] = Without(lanes[from], {i})
      /\ lanes'[to] = Append(lanes[to], y)
      /\ \A l \in Lanes : l \in {from, to}
  BY <1>2, MovedIs
<1>4. y.id = i /\ y.at = arrivals + 1
  <2>1. x \in Items
    BY <1>0, LaneFacts
  <2> QED BY <1>2, <2>1 DEF Items
<1>5. i \in IdsOf(lanes[from])
  BY <1>2 DEF IdsOf
<1>6. Loses(from, {i})
  BY <1>0, <1>3, WithoutIs DEF Loses
<1>7. lanes[to] \in Seq(Items) /\ Len(lanes[to]) \in Nat
  BY <1>0, LaneFacts
<1> HIDE DEF y
<1>8. lanes'[to] = InsertedAfter(lanes[to], Len(lanes[to]), y)
  BY <1>3, <1>7, AppendedIs
<1>9. Len(lanes[to]) \in 0..Len(lanes[to])
      /\ \A j \in (Len(lanes[to]) + 1)..Len(lanes[to]) : Rank(lanes[to][j]) < Rank(y)
  BY <1>7
<1>10. arrivals' = arrivals + 1
  BY DEF MutateLane
<1>11. Enters(to, i)
  BY <1>3, <1>4, <1>8, <1>9, <1>10 DEF Enters
<1> QED BY <1>2, <1>3, <1>5, <1>6, <1>11

-----------------------------------------------------------------------------
(* The order of delivery *)

\* The stamps of a lane agree with its order, and none is of the future.
Stamped(q) == \A x \in ToSet(q) : x.at <= arrivals
OrderInv ==
  /\ TypeInv /\ InOrder
  /\ \A l \in Lanes : Ordered(lanes[l]) /\ Stamped(lanes[l])
  /\ Stamped(runner.batch)

\* The batch stays, and each lane loses inputs or gets one.
LEMMA OrderLanes ==
  ASSUME OrderInv, TypeInv', runner'.batch = runner.batch, runner'.lane = runner.lane,
         arrivals' \in {arrivals, arrivals + 1},
         \A l \in Lanes : (\E S : Loses(l, S)) \/ (\E i \in Inputs : Enters(l, i))
  PROVE  OrderInv'
<1>0. /\ \A l \in Lanes : lanes[l] \in Seq(Items) /\ lanes'[l] \in Seq(Items)
      /\ arrivals \in Nat /\ arrivals' \in Nat /\ arrivals <= arrivals'
      /\ runner.lane \in Lanes /\ runner.batch \in Seq(Items)
  BY DEF OrderInv, TypeInv, TypeOK
<1>1. ASSUME NEW l \in Lanes
      PROVE  /\ Ordered(lanes'[l])
             /\ \A y \in ToSet(lanes'[l]) :
                  \/ y.at = arrivals' /\ arrivals' = arrivals + 1
                  \/ \E z \in ToSet(lanes[l]) : Alike(y, z)
  <2>0. Ordered(lanes[l]) /\ \A y \in ToSet(lanes[l]) : y.at <= arrivals /\ y.at \in Nat
    BY <1>0, LaneFacts, ItemFacts DEF OrderInv, Stamped
  <2>1. CASE \E S : Loses(l, S)
    BY <1>0, <2>0, <2>1, ComesFromKeeps DEF Loses
  <2>2. CASE \E i \in Inputs : Enters(l, i)
    <3>1. PICK x \in Items, n \in 0..Len(lanes[l]) :
            /\ x.at = arrivals + 1 /\ lanes'[l] = InsertedAfter(lanes[l], n, x)
            /\ \A j \in (n + 1)..Len(lanes[l]) : Rank(lanes[l][j]) < Rank(x)
      BY <2>2 DEF Enters
    <3>2. arrivals' = arrivals + 1
      BY <2>2 DEF Enters
    <3>3. \A y \in ToSet(lanes[l]) : y.at < x.at
      BY <1>0, <2>0, <3>1
    <3>4. Ordered(lanes'[l]) /\ ToSet(lanes'[l]) = ToSet(lanes[l]) \cup {x}
      BY SMTT(30), <1>0, <2>0, <3>1, <3>3, InsertedKeeps
    <3> QED BY <3>1, <3>2, <3>4 DEF Alike
  <2> QED BY <1>1, <2>1, <2>2
<1>2. ASSUME NEW l \in Lanes PROVE \A y \in ToSet(lanes'[l]) : y.at <= arrivals'
  <2> SUFFICES ASSUME NEW y \in ToSet(lanes'[l]) PROVE y.at <= arrivals'
    OBVIOUS
  <2>1. CASE y.at = arrivals'
    BY <1>0, <2>1
  <2>2. CASE \E z \in ToSet(lanes[l]) : Alike(y, z)
    <3>1. PICK z \in ToSet(lanes[l]) : Alike(y, z)
      BY <2>2
    <3>2. z.at <= arrivals /\ z.at \in Nat
      BY <1>0, LaneFacts, ItemFacts DEF OrderInv, Stamped
    <3> QED BY <1>0, <3>1, <3>2 DEF Alike
  <2> QED BY <1>1, <2>1, <2>2
<1>3. ASSUME NEW x \in ToSet(runner'.batch) PROVE x.at <= arrivals /\ x.at \in Nat /\ x \in ToSet(runner.batch)
  BY <1>0, LaneFacts, ItemFacts DEF OrderInv, Stamped
<1>4. InOrder'
  <2> SUFFICES ASSUME NEW x \in ToSet(runner'.batch), NEW y \in ToSet(lanes'[runner.lane]),
                      Rank(y) >= Rank(x)
               PROVE  x.at < y.at
    BY DEF InOrder
  <2>1. CASE y.at = arrivals' /\ arrivals' = arrivals + 1
    BY <1>0, <1>3, <2>1
  <2>2. CASE \E z \in ToSet(lanes[runner.lane]) : Alike(y, z)
    <3>1. PICK z \in ToSet(lanes[runner.lane]) : Alike(y, z)
      BY <2>2
    <3>2. Rank(z) >= Rank(x)
      BY <3>1 DEF Alike, Rank
    <3>3. x.at < z.at
      BY <1>3, <3>2 DEF OrderInv, InOrder
    <3> QED BY <3>1, <3>3 DEF Alike
  <2> QED BY <1>0, <1>1, <2>1, <2>2
<1>5. Stamped(runner.batch)'
  BY <1>0, <1>3 DEF Stamped
<1>6. \A l \in Lanes : Stamped(lanes[l])'
  BY <1>2 DEF Stamped
<1>7. (\A l \in Lanes : Ordered(lanes[l]) /\ Stamped(lanes[l]))'
  BY <1>1, <1>6
<1> QED BY <1>4, <1>5, <1>7 DEF OrderInv

\* A pickup takes what came first.
LEMMA OrderPickUp ==
  ASSUME OrderInv, TypeInv', NEW l \in Lanes, lanes[l] # <<>>, PickUp(l), UNCHANGED arrivals
  PROVE  OrderInv'
<1> DEFINE q == lanes[l]
<1>0. /\ lanes \in [Lanes -> Seq(Items)] /\ q \in Seq(Items) /\ arrivals \in Nat
      /\ Ordered(q) /\ Stamped(q)
  BY DEF OrderInv, TypeInv, TypeOK
<1>1. PICK n \in 1..Len(q) :
        /\ runner' = [pc |-> "picked", batch |-> SubSeq(q, 1, n), lane |-> l]
        /\ lanes' = [lanes EXCEPT ![l] = SubSeq(q, n + 1, Len(q))]
  BY PickUpIs DEF OrderInv
<1> DEFINE front == SubSeq(q, 1, n)
           rest == SubSeq(q, n + 1, Len(q))
<1>2. runner'.batch = front /\ runner'.lane = l
  BY <1>1
<1>3. \A k \in Lanes : lanes'[k] = IF k = l THEN rest ELSE lanes[k]
  BY <1>0, <1>1
<1>4. /\ front \in Seq(Items) /\ rest \in Seq(Items)
      /\ ComesFrom(front, q) /\ ComesFrom(rest, q)
      /\ \A x \in ToSet(front), y \in ToSet(rest) : Rank(y) >= Rank(x) => x.at < y.at
  BY <1>0, SplitIs
<1> HIDE DEF q, front, rest
<1>5. /\ Ordered(rest)
      /\ \A y \in ToSet(rest) : \E z \in ToSet(q) : Alike(y, z)
      /\ \A y \in ToSet(front) : \E z \in ToSet(q) : Alike(y, z)
  BY <1>0, <1>4, ComesFromKeeps
<1>6. \A y \in ToSet(rest) \cup ToSet(front) : y.at <= arrivals
  BY <1>0, <1>5 DEF Alike, Stamped
<1>7. InOrder'
  BY <1>2, <1>3, <1>4 DEF InOrder
<1>8. Stamped(runner.batch)'
  BY <1>2, <1>6 DEF Stamped
<1>9. (\A k \in Lanes : Ordered(lanes[k]) /\ Stamped(lanes[k]))'
  BY <1>3, <1>5, <1>6 DEF OrderInv, Stamped
<1> QED BY <1>7, <1>8, <1>9 DEF OrderInv

LEMMA OrderKept ==
  ASSUME OrderInv, [Next /\ UNCHANGED load]_<<vars, load>>
  PROVE  OrderInv'
<1>0. TypeInv /\ TypeInv'
  BY TypesKept DEF OrderInv
<1>1. arrivals \in Nat /\ \A l \in Lanes : lanes[l] \in Seq(Items)
  BY <1>0 DEF TypeInv, TypeOK
<1>2. ASSUME UNCHANGED <<lanes, arrivals>>, runner'.batch = runner.batch, runner'.lane = runner.lane
      PROVE  OrderInv'
  BY <1>0, <1>2, LanesStay, OrderLanes
<1>3. ASSUME NEW S, Withdraw(S), UNCHANGED <<runner, arrivals>> PROVE OrderInv'
  BY <1>0, <1>3, WithdrawLoses, OrderLanes
<1>4. CASE Runner
  <2>1. CASE RunnerCheck
    <3>1. ASSUME NEW l \in Lanes, lanes[l] # <<>>, PickUp(l) PROVE OrderInv'
      BY <1>0, <2>1, <3>1, OrderPickUp DEF RunnerCheck
    <3>2. ASSUME runner' = [runner EXCEPT !.pc = "leave"] \/ runner' = [runner EXCEPT !.pc = "park"],
                 UNCHANGED lanes
          PROVE  OrderInv'
      <4>1. runner'.batch = runner.batch /\ runner'.lane = runner.lane
        BY <1>0, <3>2 DEF TypeInv, TypeOK
      <4> QED BY <1>2, <2>1, <3>2, <4>1 DEF RunnerCheck
    <3>3. "steering" \in Lanes /\ "followUp" \in Lanes
      BY DEF Lanes
    <3> QED BY <2>1, <3>1, <3>2, <3>3 DEF RunnerCheck
  <2>2. CASE TurnSettles
    <3>1. /\ runner'.batch = <<>> /\ runner'.lane = runner.lane
          /\ UNCHANGED <<lanes, arrivals>>
      BY <1>0, <2>2 DEF TurnSettles, TypeInv, TypeOK
    <3>2. ToSet(<<>>) = {}
      BY DEF ToSet
    <3> QED BY <1>0, <3>1, <3>2 DEF OrderInv, InOrder, Stamped
  <2>3. CASE TurnStarts \/ TurnEnds \/ RunnerParks \/ RunnerWakes
    <3>1. /\ runner'.batch = runner.batch /\ runner'.lane = runner.lane
          /\ UNCHANGED <<lanes, arrivals>>
      BY <1>0, <2>3 DEF TurnStarts, TurnEnds, RunnerParks, RunnerWakes, TypeInv, TypeOK
    <3> QED BY <1>2, <3>1
  <2> QED BY <1>4, <2>1, <2>2, <2>3 DEF Runner
<1>5. ASSUME NEW i \in Inputs, Input(i) PROVE OrderInv'
  <2>1. CASE Enqueue(i)
    <3>1. \A l \in Lanes : Loses(l, {}) \/ Enters(l, i)
      BY <1>0, <2>1, EnqueueEnters
    <3>2. arrivals' = arrivals + 1 /\ UNCHANGED runner
      BY <2>1 DEF Enqueue
    <3> QED BY <1>0, <3>1, <3>2, OrderLanes
  <2>2. CASE ~Enqueue(i)
    <3>1. UNCHANGED <<lanes, arrivals, runner>>
      BY <1>5, <2>2 DEF Input, PromptGate, QueueResume, MessageGate, InjectGate, Register,
                        NotifyWork
    <3> QED BY <1>2, <3>1
  <2> QED BY <2>1, <2>2
<1>6. ASSUME NEW o \in Slots, Arrival(o) PROVE OrderInv'
  <2>1. ASSUME NEW i \in Inputs, MutateLane(o, i) PROVE OrderInv'
    <3>1. \A l \in Lanes : Loses(l, {i}) \/ Enters(l, i)
      BY <1>0, <2>1, RelaneEnters
    <3>2. arrivals' = arrivals + 1 /\ UNCHANGED runner
      BY <2>1 DEF MutateLane
    <3> QED BY <1>0, <3>1, <3>2, OrderLanes
  <2>2. CASE AbortSend(o)
    <3>1. \A l \in Lanes : Loses(l, {})
      BY <1>0, <2>2, ArmingLoses
    <3>2. UNCHANGED <<runner, arrivals>>
      BY <2>2 DEF AbortSend
    <3> QED BY <1>0, <3>1, <3>2, OrderLanes
  <2>3. CASE ~AbortSend(o) /\ \A i \in Inputs : ~MutateLane(o, i)
    <3>1. /\ UNCHANGED <<runner, arrivals>>
          /\ UNCHANGED lanes \/ \E S : Withdraw(S)
      BY <1>6, <2>3 DEF Arrival, Abort, ClearQueue, ResumeQueue, MutateDelete, Cancel, Pause,
                        Compact, WaitForIdle, Kill, Shutdown
    <3> QED BY <1>2, <1>3, <3>1
  <2> QED BY <2>1, <2>2, <2>3
<1>7. ASSUME NEW o \in Slots, Step(o) PROVE OrderInv'
  <2>1. /\ UNCHANGED <<runner, arrivals>>
        /\ UNCHANGED lanes \/ \E S : Withdraw(S)
    BY <1>7 DEF Step, AbortSuspends, AbortWithdraws, AbortFlows, ResumeQueuedInput,
         ClearSuspends, CancelDrops, CancelStops, Wake, CompactDrains, CompactBegins,
         CompactEnds, CompactNotifies, WaitLooks, WaitRegisters, WaitWakes, KillClears,
         SettleRegisters, SettleLooks
  <2> QED BY <1>2, <1>3, <2>1
<1>8. CASE UNCHANGED <<vars, load>>
  BY <1>2, <1>8 DEF vars
<1> QED BY <1>4, <1>5, <1>6, <1>7, <1>8 DEF Next

LEMMA OrderInit ==
  ASSUME Init
  PROVE  OrderInv
<1>1. TypeInv
  BY InitTypes
<1>2. runner.batch = <<>> /\ \A l \in Lanes : lanes[l] = <<>>
  BY DEF Init
<1>3. ToSet(<<>>) = {} /\ Ordered(<<>>)
  BY DEF ToSet, Ordered
<1> QED BY <1>1, <1>2, <1>3 DEF OrderInv, InOrder, Stamped

\* Within its rank, what came first to a lane is delivered first: nothing that
\* enqueues, withdraws, arms or moves a row disturbs the order.
THEOREM DeliveredInOrder == Spec => []InOrder
<1>1. Init => OrderInv
  BY OrderInit
<1>2. OrderInv /\ [Next /\ UNCHANGED load]_<<vars, load>> => OrderInv'
  BY OrderKept
<1>3. OrderInv => InOrder
  BY DEF OrderInv
<1> QED BY <1>1, <1>2, <1>3, PTL DEF Spec

-----------------------------------------------------------------------------
(* An input is in one place, and the ledger *)

\* An input is in one lane, once, or in the batch of the turn.
OnePlace ==
  /\ \A l \in Lanes : Single(lanes[l])
  /\ QueuedIn("steering") \cap QueuedIn("followUp") = {}
  /\ Queued \cap Batch = {}

\* What is queued or runs was enqueued once and is not answered yet, and what
\* is on its way to a lane is not answered either.
Sent(i) == task[i].pc \in {"notify", "end"}
Untold ==
  /\ \A i \in Queued \cup Batch : fate[i] = "new" /\ Sent(i)
  /\ \A i \in Inputs : ~Sent(i) => fate[i] = "new"

PlaceInv == FlowInv /\ OnePlace /\ Untold

LEMMA ToldNow ==
  ASSUME Untold, NEW i \in Inputs
  PROVE  Told[i] = IF i \in Batch THEN "running" ELSE IF i \in Queued THEN "queued" ELSE fate[i]
BY DEF Untold, Told

LEMMA ToldThen ==
  ASSUME Untold', NEW i \in Inputs
  PROVE  Told'[i] = IF i \in Batch' THEN "running" ELSE IF i \in Queued' THEN "queued" ELSE fate'[i]
BY DEF Untold, Told

LEMMA ToldIsFunction ==
  Told = [i \in Inputs |-> Told[i]] /\ Told' = [i \in Inputs |-> Told'[i]]
BY DEF Told

LEMMA QueuedTypes ==
  ASSUME TypeInv
  PROVE  /\ Queued \subseteq Inputs /\ Batch \subseteq Inputs
         /\ Queued = QueuedIn("steering") \cup QueuedIn("followUp")
         /\ \A l \in Lanes : lanes[l] \in Seq(Items) /\ QueuedIn(l) \subseteq Queued
         /\ Lanes = {"steering", "followUp"}
<1>1. /\ lanes["steering"] \in Seq(Items) /\ lanes["followUp"] \in Seq(Items)
      /\ runner.batch \in Seq(Items)
  BY DEF TypeInv, TypeOK, Lanes
<1> QED BY <1>1, LaneFacts DEF Queued, QueuedIn, Batch, Lanes

\* The inputs of S are withdrawn from their lanes; without any, nothing changes
\* for a client.
LEMMA PlaceLoses ==
  ASSUME PlaceInv, FlowInv', runner'.batch = runner.batch,
         \A i \in Inputs : Sent(i)' <=> Sent(i),
         NEW S \in SUBSET Queued, \A l \in Lanes : Loses(l, S),
         \A i \in Inputs : fate'[i] = IF i \in S THEN "withdrawn" ELSE fate[i]
  PROVE  PlaceInv' /\ [Ledger!LedgerNext]_Told
<1>0. TypeInv /\ TypeInv' /\ OnePlace /\ Untold
  BY DEF PlaceInv, FlowInv
<1>1. \A l \in Lanes : lanes[l] \in Seq(Items) /\ lanes'[l] \in Seq(Items)
  BY <1>0 DEF TypeInv, TypeOK
<1>2. \A l \in Lanes : Single(lanes[l])'
  BY <1>0, <1>1, ComesFromKeeps DEF OnePlace, Loses
<1>3. /\ QueuedIn("steering")' = QueuedIn("steering") \ S
      /\ QueuedIn("followUp")' = QueuedIn("followUp") \ S
  BY DEF Loses, QueuedIn, Lanes
<1>4. Queued' = Queued \ S /\ Batch' = Batch
  BY <1>3 DEF Queued, Batch
<1>5. OnePlace'
  BY <1>0, <1>2, <1>3, <1>4 DEF OnePlace
<1>6. S \cap Batch = {} /\ Queued \subseteq Inputs /\ Batch \subseteq Inputs
  BY <1>0, QueuedTypes DEF OnePlace
<1>7. Untold'
  <2>1. ASSUME NEW i \in Queued' \cup Batch' PROVE fate'[i] = "new" /\ Sent(i)'
    BY <1>0, <1>4, <1>6, <2>1 DEF Untold
  <2>2. ASSUME NEW i \in Inputs, ~Sent(i)' PROVE fate'[i] = "new"
    BY <1>0, <2>2 DEF Untold
  <2> HIDE DEF Sent
  <2> QED BY <2>1, <2>2 DEF Untold
<1>8. \A i \in Inputs : Told'[i] = IF i \in S THEN "withdrawn" ELSE Told[i]
  BY <1>0, <1>4, <1>6, <1>7, ToldNow, ToldThen
<1>9. CASE S = {}
  <2>1. Told' = Told
    BY <1>8, <1>9, ToldIsFunction
  <2> QED BY <2>1, <1>5, <1>7 DEF PlaceInv
<1>10. CASE S # {}
  <2>1. Told' = [i \in Inputs |-> IF i \in S THEN "withdrawn" ELSE Told[i]]
    BY <1>8, ToldIsFunction
  <2>2. \A i \in S : Told[i] = "queued"
    BY <1>0, <1>6, ToldNow
  <2>3. Ledger!Withdraw(S) /\ S \in SUBSET Inputs
    BY <2>1, <2>2, <1>6, <1>10 DEF Ledger!Withdraw, Ledger!Move
  <2>4. Ledger!LedgerNext
    BY <2>3 DEF Ledger!LedgerNext
  <2> QED BY <2>4, <1>5, <1>7 DEF PlaceInv
<1> QED BY <1>9, <1>10

\* A gate refuses an input.
LEMMA PlaceRefused ==
  ASSUME PlaceInv, FlowInv', UNCHANGED <<lanes, runner>>, NEW i \in Inputs, ~Sent(i), Sent(i)',
         \A j \in Inputs \ {i} : Sent(j)' <=> Sent(j),
         fate' = [fate EXCEPT ![i] = "refused"]
  PROVE  PlaceInv' /\ Ledger!LedgerNext
<1>0. /\ TypeInv /\ OnePlace /\ Untold
      /\ fate \in [Inputs -> {"new", "settled", "withdrawn", "refused"}]
  BY DEF PlaceInv, FlowInv, TypeInv, TypeOK
<1>1. Queued' = Queued /\ Batch' = Batch /\ OnePlace'
  BY <1>0 DEF Queued, QueuedIn, Batch, OnePlace
<1>2. i \notin Queued \cup Batch /\ fate[i] = "new"
  BY <1>0 DEF Untold
<1>3. fate'[i] = "refused" /\ \A j \in Inputs \ {i} : fate'[j] = fate[j]
  BY <1>0
<1>4. Queued \subseteq Inputs /\ Batch \subseteq Inputs
  BY <1>0, QueuedTypes
<1>5. Untold'
  <2>1. ASSUME NEW j \in Queued' \cup Batch' PROVE fate'[j] = "new" /\ Sent(j)'
    BY <1>0, <1>1, <1>2, <1>3, <1>4, <2>1 DEF Untold
  <2>2. ASSUME NEW j \in Inputs, ~Sent(j)' PROVE fate'[j] = "new"
    BY <1>0, <1>3, <2>2 DEF Untold
  <2> HIDE DEF Sent
  <2> QED BY <2>1, <2>2 DEF Untold
<1>6. \A j \in Inputs : Told'[j] = IF j \in {i} THEN "refused" ELSE Told[j]
  BY <1>0, <1>1, <1>2, <1>3, <1>5, ToldNow, ToldThen
<1>7. Told[i] = "new"
  BY <1>0, <1>2, ToldNow
<1>8. Told' = [j \in Inputs |-> IF j \in {i} THEN "refused" ELSE Told[j]]
  BY <1>6, ToldIsFunction
<1>9. Ledger!Refuse(i)
  BY <1>7, <1>8 DEF Ledger!Refuse, Ledger!Move
<1> QED BY <1>1, <1>5, <1>9 DEF PlaceInv, Ledger!LedgerNext

\* An input enters a lane.
LEMMA PlaceEnqueued ==
  ASSUME PlaceInv, FlowInv', NEW i \in Inputs, Enqueue(i)
  PROVE  PlaceInv' /\ Ledger!LedgerNext
<1>0. TypeInv /\ TypeInv' /\ OnePlace /\ Untold
  BY DEF PlaceInv, FlowInv
<1>1. \A l \in Lanes : lanes[l] \in Seq(Items) /\ Single(lanes[l])
  BY <1>0, QueuedTypes DEF OnePlace
<1>2. /\ ~Sent(i) /\ Sent(i)' /\ UNCHANGED <<fate, runner>>
      /\ \A j \in Inputs \ {i} : Sent(j)' <=> Sent(j)
  BY <1>0 DEF Enqueue, Goto, TypeInv, TypeOK, Sent
<1>3. i \notin Queued /\ i \notin Batch /\ fate[i] = "new"
  BY <1>0, <1>2 DEF Untold
<1>4. PICK l \in Lanes : Enters(l, i) /\ \A k \in Lanes \ {l} : Loses(k, {}) /\ lanes'[k] = lanes[k]
  BY <1>0, EnqueueEnters
<1>5. i \notin IdsOf(lanes[l])
  BY <1>0, <1>3, QueuedTypes DEF QueuedIn
<1>6. IdsOf(lanes'[l]) = IdsOf(lanes[l]) \cup {i} /\ Single(lanes'[l])
  BY <1>1, <1>4, <1>5, InsertedKeeps DEF Enters
<1>7. \A k \in Lanes \ {l} : IdsOf(lanes'[k]) = IdsOf(lanes[k]) /\ Single(lanes'[k])
  BY <1>1, <1>4
<1>8. Queued' = Queued \cup {i} /\ Batch' = Batch
  BY <1>2, <1>6, <1>7 DEF Queued, QueuedIn, Batch, Lanes
<1>9. QueuedIn("steering")' \cap QueuedIn("followUp")' = {}
  BY <1>0, <1>3, <1>6, <1>7 DEF OnePlace, QueuedIn, Queued, Lanes
<1>10. OnePlace'
  <2>1. Queued' \cap Batch' = {}
    BY <1>0, <1>3, <1>8 DEF OnePlace
  <2> QED BY <2>1, <1>6, <1>7, <1>9 DEF OnePlace
<1>11. Queued \subseteq Inputs /\ Batch \subseteq Inputs
  BY <1>0, QueuedTypes
<1>12. Untold'
  <2>1. ASSUME NEW j \in Queued' \cup Batch' PROVE fate'[j] = "new" /\ Sent(j)'
    BY <1>0, <1>2, <1>3, <1>8, <1>11, <2>1 DEF Untold
  <2>2. ASSUME NEW j \in Inputs, ~Sent(j)' PROVE fate'[j] = "new"
    BY <1>0, <1>2, <2>2 DEF Untold
  <2> HIDE DEF Sent
  <2> QED BY <2>1, <2>2 DEF Untold
<1>13. \A j \in Inputs : Told'[j] = IF j \in {i} THEN "queued" ELSE Told[j]
  BY <1>0, <1>2, <1>3, <1>8, <1>12, ToldNow, ToldThen
<1>14. Told[i] = "new"
  BY <1>0, <1>3, ToldNow
<1>15. Told' = [j \in Inputs |-> IF j \in {i} THEN "queued" ELSE Told[j]]
  BY <1>13, ToldIsFunction
<1>16. Ledger!Queue(i)
  BY <1>14, <1>15 DEF Ledger!Queue, Ledger!Move
<1> QED BY <1>10, <1>12, <1>16 DEF PlaceInv, Ledger!LedgerNext

\* A row that moves to the other lane stays one row.
LEMMA PlaceRelaned ==
  ASSUME PlaceInv, FlowInv', NEW o \in Slots, NEW i \in Inputs, MutateLane(o, i)
  PROVE  PlaceInv' /\ UNCHANGED Told
<1>0. TypeInv /\ TypeInv' /\ OnePlace /\ Untold
  BY DEF PlaceInv, FlowInv
<1>1. \A l \in Lanes : lanes[l] \in Seq(Items) /\ lanes'[l] \in Seq(Items) /\ Single(lanes[l])
  BY <1>0, QueuedTypes DEF OnePlace, TypeInv, TypeOK
<1>2. UNCHANGED <<runner, task, fate>>
  BY DEF MutateLane
<1>3. PICK from \in Lanes, to \in Lanes :
        /\ from # to /\ \A l \in Lanes : l \in {from, to}
        /\ i \in IdsOf(lanes[from])
        /\ Loses(from, {i}) /\ Enters(to, i)
  BY <1>0, RelaneEnters
<1>4. IdsOf(lanes[from]) \cap IdsOf(lanes[to]) = {}
  BY <1>0, <1>3 DEF OnePlace, QueuedIn, Lanes
<1>5. IdsOf(lanes'[from]) = IdsOf(lanes[from]) \ {i} /\ Single(lanes'[from])
  BY <1>1, <1>3, ComesFromKeeps DEF Loses
<1>6. IdsOf(lanes'[to]) = IdsOf(lanes[to]) \cup {i} /\ Single(lanes'[to])
  BY <1>1, <1>3, <1>4, InsertedKeeps DEF Enters
<1>7. /\ Queued = IdsOf(lanes[from]) \cup IdsOf(lanes[to])
      /\ Queued' = IdsOf(lanes'[from]) \cup IdsOf(lanes'[to])
      /\ QueuedIn("steering")' \cap QueuedIn("followUp")'
           = IdsOf(lanes'[from]) \cap IdsOf(lanes'[to])
  BY <1>3 DEF Queued, QueuedIn, Lanes
<1>8. Queued' = Queued /\ Batch' = Batch
  BY <1>2, <1>3, <1>5, <1>6, <1>7 DEF Batch
<1>9. OnePlace'
  BY <1>0, <1>3, <1>4, <1>5, <1>6, <1>7, <1>8 DEF OnePlace
<1>10. Untold'
  BY <1>0, <1>2, <1>8 DEF Untold, Sent
<1>11. Told' = Told
  BY <1>2, <1>8 DEF Told
<1> QED BY <1>9, <1>10, <1>11 DEF PlaceInv

\* A pickup starts what it takes, and nothing was running.
LEMMA PlacePickedUp ==
  ASSUME PlaceInv, FlowInv', NEW l \in Lanes, runner.pc = "check", lanes[l] # <<>>, PickUp(l),
         UNCHANGED <<task, fate>>
  PROVE  PlaceInv' /\ Ledger!LedgerNext
<1> DEFINE q == lanes[l]
<1>0. /\ TypeInv /\ TypeInv' /\ OnePlace /\ Untold /\ RunnerShape
      /\ q \in Seq(Items) /\ Single(q) /\ lanes \in [Lanes -> Seq(Items)]
      /\ fate \in [Inputs -> {"new", "settled", "withdrawn", "refused"}]
  BY DEF PlaceInv, FlowInv, TypeInv, TypeOK, OnePlace
<1>1. Batch = {}
  BY <1>0 DEF RunnerShape, Batch, IdsOf, ToSet
<1>2. PICK n \in 1..Len(q) :
        /\ runner' = [pc |-> "picked", batch |-> SubSeq(q, 1, n), lane |-> l]
        /\ lanes' = [lanes EXCEPT ![l] = SubSeq(q, n + 1, Len(q))]
  BY <1>0, PickUpIs
<1> DEFINE front == SubSeq(q, 1, n)
           rest == SubSeq(q, n + 1, Len(q))
           S == IdsOf(front)
<1>3. /\ front \in Seq(Items) /\ front # <<>> /\ rest \in Seq(Items)
      /\ IdsOf(q) = S \cup IdsOf(rest) /\ S \cap IdsOf(rest) = {}
      /\ Single(rest)
  BY ZenonT(60), <1>0, SplitIs, ComesFromKeeps
<1>4. Batch' = S
  BY <1>2 DEF Batch
<1>5. \A k \in Lanes : lanes'[k] = IF k = l THEN rest ELSE lanes[k]
  BY <1>0, <1>2
<1>6. S # {} /\ S \subseteq Inputs
  <2>1. Len(front) \in Nat /\ Len(front) # 0 /\ DOMAIN front = 1..Len(front)
    BY <1>3, EmptySeq, LaneFacts
  <2>2. 1 \in DOMAIN front
    BY <2>1
  <2> HIDE DEF front
  <2> QED BY <1>3, <2>2, LaneFacts
<1> HIDE DEF q, front, rest, S
<1>7. IdsOf(lanes[l]) = S \cup IdsOf(rest) /\ IdsOf(lanes'[l]) = IdsOf(rest)
  BY <1>3, <1>5 DEF q
<1>8. \A k \in Lanes \ {l} : IdsOf(lanes'[k]) = IdsOf(lanes[k]) /\ S \cap IdsOf(lanes[k]) = {}
  BY <1>0, <1>5, <1>7 DEF OnePlace, QueuedIn, Lanes
<1>9. Queued' = Queued \ S /\ S \subseteq Queued
  BY <1>3, <1>7, <1>8 DEF Queued, QueuedIn, Lanes
<1>10. OnePlace'
  <2>1. QueuedIn("steering")' \cap QueuedIn("followUp")' = {}
    BY <1>0, <1>7, <1>8 DEF OnePlace, QueuedIn, Lanes
  <2>2. \A k \in Lanes : Single(lanes'[k])
    BY <1>0, <1>3, <1>5 DEF OnePlace
  <2> QED BY <2>1, <2>2, <1>4, <1>9 DEF OnePlace
<1>11. Untold'
  <2>1. \A i \in Inputs : Sent(i)' <=> Sent(i)
    BY DEF Sent
  <2>2. Queued' \cup Batch' \subseteq Queued /\ Queued \subseteq Inputs
    BY <1>0, <1>4, <1>9, QueuedTypes
  <2> HIDE DEF Sent
  <2> QED BY <1>0, <2>1, <2>2 DEF Untold
<1>12. \A i \in Inputs : Told'[i] = IF i \in S THEN "running" ELSE Told[i]
  BY <1>0, <1>1, <1>4, <1>9, <1>11, ToldNow, ToldThen
<1>13. Told' = [i \in Inputs |-> IF i \in S THEN "running" ELSE Told[i]]
  BY <1>12, ToldIsFunction
<1>14. \A i \in S : Told[i] = "queued"
  BY <1>0, <1>1, <1>6, <1>9, ToldNow
<1>15. Ledger!Running = {}
  <2>1. \A i \in Inputs : Told[i] # "running"
    BY <1>0, <1>1, ToldNow
  <2> QED BY <2>1 DEF Ledger!Running
<1>16. Ledger!Start(S) /\ S \in SUBSET Inputs
  BY <1>6, <1>13, <1>14, <1>15 DEF Ledger!Start, Ledger!Move
<1> QED BY <1>10, <1>11, <1>16 DEF PlaceInv, Ledger!LedgerNext

\* The settling of a turn answers its batch.
LEMMA PlaceSettled ==
  ASSUME PlaceInv, FlowInv', TurnSettles
  PROVE  PlaceInv' /\ Ledger!LedgerNext
<1>0. /\ TypeInv /\ OnePlace /\ Untold /\ RunnerShape /\ runner.batch \in Seq(Items)
      /\ fate \in [Inputs -> {"new", "settled", "withdrawn", "refused"}]
  BY DEF PlaceInv, FlowInv, TypeInv, TypeOK
<1>1. /\ runner.pc = "settle" /\ runner'.batch = <<>>
      /\ UNCHANGED <<lanes, task>>
      /\ fate' = [i \in Inputs |-> IF i \in Batch THEN "settled" ELSE fate[i]]
  BY <1>0 DEF TurnSettles, TypeInv, TypeOK
<1>2. Batch # {}
  <2>1. runner.batch # <<>>
    BY <1>0, <1>1 DEF RunnerShape
  <2>2. Len(runner.batch) \in Nat /\ Len(runner.batch) # 0
        /\ DOMAIN runner.batch = 1..Len(runner.batch)
    BY <1>0, <2>1, EmptySeq, LaneFacts
  <2>3. 1 \in DOMAIN runner.batch
    BY <2>2
  <2>4. IdsOf(runner.batch) = {runner.batch[j].id : j \in DOMAIN runner.batch}
    BY <1>0, LaneFacts
  <2> QED BY <2>3, <2>4 DEF Batch
<1>3. Batch' = {} /\ Queued' = Queued
  BY <1>1 DEF Batch, IdsOf, ToSet, Queued, QueuedIn
<1>4. OnePlace'
  BY <1>0, <1>1, <1>3 DEF OnePlace, QueuedIn
<1>5. Queued \subseteq Inputs /\ Batch \subseteq Inputs /\ Queued \cap Batch = {}
  BY <1>0, QueuedTypes DEF OnePlace
<1>6. \A i \in Inputs : Sent(i)' <=> Sent(i)
  BY <1>1 DEF Sent
<1>7. Untold'
  <2> HIDE DEF Sent
  <2>1. \A i \in Inputs : i \notin Batch => fate'[i] = fate[i]
    BY <1>1
  <2> QED BY <1>0, <1>3, <1>5, <1>6, <2>1 DEF Untold
<1>8. \A i \in Inputs : Told'[i] = IF i \in Batch THEN "settled" ELSE Told[i]
  BY <1>0, <1>1, <1>3, <1>5, <1>7, ToldNow, ToldThen
<1>9. Told' = [i \in Inputs |-> IF i \in Batch THEN "settled" ELSE Told[i]]
  BY <1>8, ToldIsFunction
<1>10. Ledger!Running = Batch
  <2>1. \A i \in Inputs : Told[i] = "running" <=> i \in Batch
    BY <1>0, ToldNow
  <2> QED BY <2>1, <1>5 DEF Ledger!Running
<1>11. \A i \in Batch : Told[i] = "running"
  BY <1>0, <1>5, ToldNow
<1>12. Ledger!Settle
  BY <1>2, <1>9, <1>10, <1>11 DEF Ledger!Settle, Ledger!Move
<1> QED BY <1>4, <1>7, <1>12 DEF PlaceInv, Ledger!LedgerNext

LEMMA PlaceKept ==
  ASSUME PlaceInv, [Next /\ UNCHANGED load]_<<vars, load>>
  PROVE  PlaceInv' /\ [Ledger!LedgerNext]_Told
<1>0. /\ TypeInv /\ FlowInv' /\ OnePlace /\ Untold /\ RunnerShape
      /\ fate \in [Inputs -> {"new", "settled", "withdrawn", "refused"}]
      /\ task \in [Inputs -> [pc : {"new", "register", "resume", "enqueue", "notify", "end"},
                              cmd : {"prompt", "queue", "message", "inject"},
                              lane : Lanes \cup {"none"}]]
  BY FlowKept DEF PlaceInv, FlowInv, TypeInv, TypeOK
<1>1. ASSUME UNCHANGED <<lanes, fate>>, runner'.batch = runner.batch,
             \A i \in Inputs : Sent(i)' <=> Sent(i)
      PROVE  PlaceInv' /\ [Ledger!LedgerNext]_Told
  <2>1. {} \in SUBSET Queued /\ \A l \in Lanes : Loses(l, {})
    BY <1>0, <1>1, LanesStay
  <2>2. \A i \in Inputs : fate'[i] = IF i \in {} THEN "withdrawn" ELSE fate[i]
    BY <1>1
  <2> QED BY <1>0, <1>1, <2>1, <2>2, PlaceLoses
<1>2. ASSUME NEW S \in SUBSET Queued, Withdraw(S), UNCHANGED <<runner, task>>
      PROVE  PlaceInv' /\ [Ledger!LedgerNext]_Told
  <2>1. \A l \in Lanes : Loses(l, S)
    BY <1>0, <1>2, WithdrawLoses
  <2>2. \A i \in Inputs : fate'[i] = IF i \in S THEN "withdrawn" ELSE fate[i]
    BY <1>2 DEF Withdraw
  <2>3. \A i \in Inputs : Sent(i)' <=> Sent(i)
    BY <1>2 DEF Sent
  <2> QED BY <1>0, <1>2, <2>1, <2>2, <2>3, PlaceLoses
<1>3. CASE Runner
  <2>1. CASE RunnerCheck
    <3>0. runner.pc = "check" /\ UNCHANGED <<task, fate>>
      BY <2>1 DEF RunnerCheck
    <3>1. ASSUME NEW l \in Lanes, lanes[l] # <<>>, PickUp(l)
          PROVE  PlaceInv' /\ [Ledger!LedgerNext]_Told
      BY <1>0, <3>0, <3>1, PlacePickedUp
    <3>2. ASSUME runner' = [runner EXCEPT !.pc = "leave"] \/ runner' = [runner EXCEPT !.pc = "park"],
                 UNCHANGED lanes
          PROVE  PlaceInv' /\ [Ledger!LedgerNext]_Told
      <4>1. runner'.batch = runner.batch
        BY <1>0, <3>2 DEF TypeInv, TypeOK
      <4> QED BY <1>1, <3>0, <3>2, <4>1 DEF Sent
    <3>3. "steering" \in Lanes /\ "followUp" \in Lanes
      BY DEF Lanes
    <3> QED BY <2>1, <3>1, <3>2, <3>3 DEF RunnerCheck
  <2>2. CASE TurnSettles
    BY <1>0, <2>2, PlaceSettled
  <2>3. CASE TurnStarts \/ TurnEnds \/ RunnerParks \/ RunnerWakes
    <3>1. runner'.batch = runner.batch /\ UNCHANGED <<lanes, task, fate>>
      BY <1>0, <2>3 DEF TurnStarts, TurnEnds, RunnerParks, RunnerWakes, TypeInv, TypeOK
    <3> QED BY <1>1, <3>1 DEF Sent
  <2> QED BY <1>3, <2>1, <2>2, <2>3 DEF Runner
<1>4. ASSUME NEW i \in Inputs, Input(i)
      PROVE  PlaceInv' /\ [Ledger!LedgerNext]_Told
  <2>1. CASE Enqueue(i)
    BY <1>0, <2>1, PlaceEnqueued
  <2>2. CASE ~Enqueue(i)
    <3>1. UNCHANGED <<lanes, runner>>
      BY <1>4, <2>2 DEF Input, PromptGate, QueueResume, MessageGate, InjectGate, Register,
                        NotifyWork
    <3>2. \/ /\ task[i].pc = "new" /\ Goto(i, "end")
             /\ fate' = [fate EXCEPT ![i] = "refused"]
          \/ /\ task[i].pc \in {"new", "register"}
             /\ Goto(i, "register") \/ Goto(i, "enqueue") \/ Goto(i, "resume")
             /\ fate' = fate
          \/ task[i].pc = "notify" /\ Goto(i, "end") /\ fate' = fate
      BY <1>4, <2>2 DEF Input, PromptGate, QueueResume, MessageGate, InjectGate, Register,
                        NotifyWork
    <3>3. \A p : Goto(i, p) => task'[i].pc = p /\ \A j \in Inputs \ {i} : task'[j] = task[j]
      BY <1>0 DEF Goto
    <3>4. CASE task[i].pc = "new" /\ Goto(i, "end") /\ fate' = [fate EXCEPT ![i] = "refused"]
      <4>1. ~Sent(i) /\ Sent(i)' /\ \A j \in Inputs \ {i} : Sent(j)' <=> Sent(j)
        BY <3>3, <3>4 DEF Sent
      <4> QED BY <1>0, <3>1, <3>4, <4>1, PlaceRefused
    <3>5. CASE /\ task[i].pc \in {"new", "register"}
               /\ Goto(i, "register") \/ Goto(i, "enqueue") \/ Goto(i, "resume")
               /\ fate' = fate
      <4>1. \A j \in Inputs : Sent(j)' <=> Sent(j)
        BY <3>3, <3>5 DEF Sent
      <4> QED BY <1>1, <3>1, <3>5, <4>1
    <3>6. CASE task[i].pc = "notify" /\ Goto(i, "end") /\ fate' = fate
      <4>1. \A j \in Inputs : Sent(j)' <=> Sent(j)
        BY <3>3, <3>6 DEF Sent
      <4> QED BY <1>1, <3>1, <3>6, <4>1
    <3> QED BY <3>2, <3>4, <3>5, <3>6
  <2> QED BY <2>1, <2>2
<1>5. ASSUME NEW o \in Slots, Arrival(o)
      PROVE  PlaceInv' /\ [Ledger!LedgerNext]_Told
  <2>1. ASSUME NEW i \in Inputs, MutateLane(o, i)
        PROVE  PlaceInv' /\ [Ledger!LedgerNext]_Told
    BY <1>0, <2>1, PlaceRelaned
  <2>2. CASE AbortSend(o)
    <3>1. {} \in SUBSET Queued /\ \A l \in Lanes : Loses(l, {})
      BY <1>0, <2>2, ArmingLoses
    <3>2. UNCHANGED <<runner, task, fate>>
      BY <2>2 DEF AbortSend
    <3>3. \A j \in Inputs : Sent(j)' <=> Sent(j)
      BY <3>2 DEF Sent
    <3>4. \A j \in Inputs : fate'[j] = IF j \in {} THEN "withdrawn" ELSE fate[j]
      BY <3>2
    <3> QED BY <1>0, <3>1, <3>2, <3>3, <3>4, PlaceLoses
  <2>3. CASE ~AbortSend(o) /\ \A i \in Inputs : ~MutateLane(o, i)
    <3>1. /\ UNCHANGED <<runner, task>>
          /\ UNCHANGED <<lanes, fate>> \/ \E S \in SUBSET Queued : Withdraw(S)
      BY <1>5, <2>3 DEF Arrival, Abort, ClearQueue, ResumeQueue, MutateDelete, Cancel, Pause,
                        Compact, WaitForIdle, Kill, Shutdown
    <3> QED BY <1>1, <1>2, <3>1 DEF Sent
  <2> QED BY <2>1, <2>2, <2>3
<1>6. ASSUME NEW o \in Slots, Step(o)
      PROVE  PlaceInv' /\ [Ledger!LedgerNext]_Told
  <2>1. CASE AbortWithdraws(o)
    <3> DEFINE S == {x.id : x \in {y \in ToSet(lanes["steering"] \o lanes["followUp"]) : ~y.visible}}
    <3>1. Withdraw(S) /\ UNCHANGED <<runner, task>>
      BY <2>1 DEF AbortWithdraws
    <3>2. S \subseteq Queued
      <4> DEFINE a == lanes["steering"]
                 b == lanes["followUp"]
      <4>1. a \in Seq(Items) /\ b \in Seq(Items)
        BY <1>0 DEF TypeInv, TypeOK, Lanes
      <4> HIDE DEF a, b
      <4>2. /\ a \o b \in Seq(Items) /\ Len(a \o b) = Len(a) + Len(b)
            /\ \A j \in 1..(Len(a) + Len(b)) :
                 (a \o b)[j] = IF j <= Len(a) THEN a[j] ELSE b[j - Len(a)]
        BY <4>1, ConcatProperties
      <4>3. ASSUME NEW y \in ToSet(a \o b) PROVE y \in ToSet(a) \cup ToSet(b)
        <5>1. PICK j \in 1..(Len(a) + Len(b)) : y = (a \o b)[j]
          BY <4>2, LaneFacts
        <5>2. /\ Len(a) \in Nat /\ Len(b) \in Nat
              /\ ToSet(a) = {a[k] : k \in 1..Len(a)} /\ ToSet(b) = {b[k] : k \in 1..Len(b)}
          BY <4>1, LaneFacts
        <5>3. CASE j <= Len(a)
          BY <4>2, <5>1, <5>2, <5>3
        <5>4. CASE ~(j <= Len(a))
          <6>1. j - Len(a) \in 1..Len(b)
            BY <5>2, <5>4
          <6> QED BY <4>2, <5>1, <5>2, <5>4, <6>1
        <5> QED BY <5>3, <5>4
      <4>4. \A y \in ToSet(a \o b) : y.id \in IdsOf(a) \cup IdsOf(b)
        BY <4>3 DEF IdsOf
      <4> QED BY <4>4 DEF Queued, QueuedIn, a, b
    <3> HIDE DEF S
    <3> QED BY <1>2, <3>1, <3>2
  <2>2. CASE ~AbortWithdraws(o)
    <3>1. /\ UNCHANGED <<runner, task>>
          /\ UNCHANGED <<lanes, fate>> \/ \E S \in SUBSET Queued : Withdraw(S)
      BY <1>6, <2>2 DEF Step, AbortSuspends, AbortFlows, ResumeQueuedInput,
         ClearSuspends, CancelDrops, CancelStops, Wake, CompactDrains, CompactBegins,
         CompactEnds, CompactNotifies, WaitLooks, WaitRegisters, WaitWakes, KillClears,
         SettleRegisters, SettleLooks
    <3> QED BY <1>1, <1>2, <3>1 DEF Sent
  <2> QED BY <2>1, <2>2
<1>7. CASE UNCHANGED <<vars, load>>
  BY <1>1, <1>7 DEF vars, Sent
<1> QED BY <1>3, <1>4, <1>5, <1>6, <1>7 DEF Next

LEMMA PlaceInit ==
  ASSUME Init
  PROVE  PlaceInv /\ Ledger!LedgerInit
<1>1. /\ runner.batch = <<>> /\ lanes["steering"] = <<>> /\ lanes["followUp"] = <<>>
      /\ \A l \in Lanes : lanes[l] = <<>>
      /\ fate = [i \in Inputs |-> "new"]
  BY DEF Init, Lanes
<1>2. IdsOf(<<>>) = {} /\ Single(<<>>)
  BY DEF IdsOf, ToSet, Single
<1>3. Queued = {} /\ Batch = {} /\ QueuedIn("steering") = {}
  BY <1>1, <1>2 DEF Queued, QueuedIn, Batch
<1>4. OnePlace
  BY <1>1, <1>2, <1>3 DEF OnePlace
<1>5. Untold
  BY <1>1, <1>3 DEF Untold
<1>6. Told = [i \in Inputs |-> "new"]
  BY <1>1, <1>3 DEF Told
<1> QED BY <1>4, <1>5, <1>6, FlowInit DEF PlaceInv, Ledger!LedgerInit

\* The queue implements its ledger: whatever is withdrawn, moved, aborted or
\* restarted meanwhile, an input runs at most once, is answered at most once, and
\* never both runs and is withdrawn.
THEOREM QueueKeepsLedger == Spec => RunsOnce
<1>1. Init => PlaceInv /\ Ledger!LedgerInit
  BY PlaceInit
<1>2. PlaceInv /\ [Next /\ UNCHANGED load]_<<vars, load>> => PlaceInv' /\ [Ledger!LedgerNext]_Told
  BY PlaceKept
<1> QED BY <1>1, <1>2, PTL DEF Spec, RunsOnce, Ledger!LedgerSpec

-----------------------------------------------------------------------------
(* abort_and_send_queued *)

\* Clients send rows only: no prompt is handed to the runner in front of or
\* between rows, and no row changes its lane.
RowsOnly ==
  \A L \in Loads : (\A s \in L.sources : s.cmd # "prompt") /\ "relane" \notin L.commands

\* An armed item is a row of the steering lane.
Row(l, x) ==
  /\ x.policy \in {"queued", "injected"} /\ (x.policy = "queued" => x.visible)
  /\ x.armed => x.policy = "queued" /\ l = "steering"

\* Rows stand before what is injected, and armed rows before the others.
RowsFirst(q) ==
  \A j, k \in DOMAIN q : j < k =>
    Rank(q[j]) >= Rank(q[k]) /\ (q[k].armed => q[j].armed)

\* The flag holds as long as an armed row waits.
ForceInv ==
  /\ FlowInv /\ load \in Loads
  /\ \A i \in Inputs : task[i].cmd # "prompt"
  /\ \A l \in Lanes : \A x \in ToSet(lanes[l]) : Row(l, x) /\ (x.armed => core.forced)
  /\ RowsFirst(lanes["steering"])

LEMMA PartOfSelf ==
  ASSUME NEW q \in Seq(Items)
  PROVE  PartOf(q, q)
<1> DEFINE f == [j \in DOMAIN q |-> j]
<1>1. f \in [DOMAIN q -> DOMAIN q]
  OBVIOUS
<1>2. /\ \A j, k \in DOMAIN q : j < k => f[j] < f[k]
      /\ \A k \in DOMAIN q : q[k] = q[f[k]]
  OBVIOUS
<1> HIDE DEF f
<1> QED BY <1>1, <1>2 DEF PartOf

LEMMA PartOfKeeps ==
  ASSUME NEW q \in Seq(Items), NEW r \in Seq(Items), PartOf(r, q)
  PROVE  ToSet(r) \subseteq ToSet(q) /\ (RowsFirst(q) => RowsFirst(r))
<1>1. PICK f \in [DOMAIN r -> DOMAIN q] :
        /\ \A j, k \in DOMAIN r : j < k => f[j] < f[k]
        /\ \A k \in DOMAIN r : r[k] = q[f[k]]
  BY DEF PartOf
<1>2. ToSet(r) \subseteq ToSet(q)
  BY <1>1, LaneFacts
<1>3. ASSUME RowsFirst(q), NEW j \in DOMAIN r, NEW k \in DOMAIN r, j < k
      PROVE  Rank(r[j]) >= Rank(r[k]) /\ (r[k].armed => r[j].armed)
  <2>1. f[j] \in DOMAIN q /\ f[k] \in DOMAIN q /\ f[j] < f[k] /\ r[j] = q[f[j]] /\ r[k] = q[f[k]]
    BY <1>1, <1>3
  <2> QED BY <1>3, <2>1 DEF RowsFirst
<1> QED BY <1>2, <1>3 DEF RowsFirst

\* Each lane keeps a part of its items, in order.
LEMMA ForceFrame ==
  ASSUME ForceInv, FlowInv', UNCHANGED load, core'.forced = core.forced,
         \A i \in Inputs : task'[i].cmd = task[i].cmd,
         \A l \in Lanes : PartOf(lanes'[l], lanes[l])
  PROVE  ForceInv'
<1>1. \A l \in Lanes : lanes[l] \in Seq(Items) /\ lanes'[l] \in Seq(Items)
  BY DEF ForceInv, FlowInv, TypeInv, TypeOK
<1>2. \A l \in Lanes : ToSet(lanes'[l]) \subseteq ToSet(lanes[l])
  BY <1>1, PartOfKeeps
<1>3. RowsFirst(lanes'["steering"])
  BY <1>1, PartOfKeeps DEF ForceInv, Lanes
<1> QED BY <1>2, <1>3 DEF ForceInv

\* A new row stands behind the armed ones.
LEMMA ForceEnqueue ==
  ASSUME ForceInv, FlowInv', UNCHANGED load, NEW i \in Inputs, Enqueue(i)
  PROVE  ForceInv'
<1>0. /\ TypeInv /\ lanes \in [Lanes -> Seq(Items)]
      /\ \A l \in Lanes : lanes[l] \in Seq(Items) /\ lanes'[l] \in Seq(Items)
      /\ task \in [Inputs -> [pc : {"new", "register", "resume", "enqueue", "notify", "end"},
                              cmd : {"prompt", "queue", "message", "inject"},
                              lane : Lanes \cup {"none"}]]
  BY DEF ForceInv, FlowInv, TypeInv, TypeOK
<1> DEFINE x == ItemOf(i)
<1>1. PICK l \in Lanes : \E n \in 0..Len(lanes[l]) :
        /\ x \in Items
        /\ lanes' = [lanes EXCEPT ![l] = InsertedAfter(lanes[l], n, x)]
        /\ n = 0 \/ Rank(lanes[l][n]) >= Rank(x)
        /\ \A j \in (n + 1)..Len(lanes[l]) : Rank(lanes[l][j]) < Rank(x)
  BY <1>0, EnqueueIs
<1>2. PICK n \in 0..Len(lanes[l]) :
        /\ x \in Items
        /\ lanes' = [lanes EXCEPT ![l] = InsertedAfter(lanes[l], n, x)]
        /\ n = 0 \/ Rank(lanes[l][n]) >= Rank(x)
        /\ \A j \in (n + 1)..Len(lanes[l]) : Rank(lanes[l][j]) < Rank(x)
  BY <1>1
<1>3. /\ x.policy \in {"queued", "injected"} /\ x.armed = FALSE
      /\ x.policy = "queued" => x.visible
  BY <1>0 DEF ForceInv, ItemOf
<1> HIDE DEF x
<1> DEFINE q == lanes[l]
           r == lanes'[l]
<1>4. /\ r = InsertedAfter(q, n, x)
      /\ \A k \in Lanes \ {l} : lanes'[k] = lanes[k]
  BY <1>0, <1>2
<1>5. /\ Len(r) = Len(q) + 1
      /\ \A j \in 1..n : r[j] = q[j]
      /\ r[n + 1] = x
      /\ \A j \in (n + 2)..(Len(q) + 1) : r[j] = q[j - 1]
  <2>1. q \in Seq(Items) /\ x \in Items /\ n \in 0..Len(q)
    BY <1>0, <1>2
  <2> HIDE DEF q, r
  <2> QED BY <1>4, <2>1, InsertedIs
<1>6. ToSet(r) = ToSet(q) \cup {x}
  BY <1>0, <1>2, <1>4, InsertedKeeps
<1>7. /\ \A j \in DOMAIN q : q[j] \in Items /\ Rank(q[j]) \in {0, 1}
      /\ Rank(x) \in {0, 1} /\ (Rank(x) = 1 => x.policy = "queued")
      /\ DOMAIN q = 1..Len(q) /\ DOMAIN r = 1..Len(r) /\ Len(q) \in Nat
  BY <1>0, <1>2, <1>3, LaneFacts, ItemFacts DEF Rank
<1>8. ASSUME l = "steering" PROVE RowsFirst(r)
  <2>0. RowsFirst(q) /\ \A j \in DOMAIN q : Row(l, q[j])
    BY <1>0, <1>8, LaneFacts DEF ForceInv
  <2> SUFFICES ASSUME NEW j \in DOMAIN r, NEW k \in DOMAIN r, j < k
               PROVE  Rank(r[j]) >= Rank(r[k]) /\ (r[k].armed => r[j].armed)
    BY DEF RowsFirst
  <2> HIDE DEF r, q
  <2>1. j \in 1..(Len(q) + 1) /\ k \in 1..(Len(q) + 1) /\ n \in 0..Len(q)
    BY <1>5, <1>7, <1>2 DEF q
  <2>2. CASE k <= n
    <3>1. j \in DOMAIN q /\ k \in DOMAIN q /\ r[j] = q[j] /\ r[k] = q[k]
      BY <1>5, <1>7, <2>1, <2>2
    <3> QED BY <2>0, <3>1 DEF RowsFirst
  <2>3. CASE k = n + 1
    <3>1. j \in 1..n /\ n \in DOMAIN q /\ j \in DOMAIN q /\ r[j] = q[j] /\ r[k] = x
      BY <1>5, <1>7, <2>1, <2>3
    <3>2. Rank(q[n]) >= Rank(x)
      BY <1>2, <2>1, <3>1 DEF q
    <3>3. j = n \/ Rank(q[j]) >= Rank(q[n])
      BY <2>0, <2>1, <3>1 DEF RowsFirst
    <3>4. Rank(q[j]) \in {0, 1} /\ Rank(q[n]) \in {0, 1}
      BY <1>7, <3>1
    <3> QED BY <1>3, <1>7, <3>1, <3>2, <3>3, <3>4
  <2>4. CASE k > n + 1
    <3>1. k - 1 \in (n + 1)..Len(q) /\ k - 1 \in DOMAIN q /\ r[k] = q[k - 1]
      BY <1>5, <1>7, <2>1, <2>4
    <3>2. Rank(q[k - 1]) < Rank(x)
      BY <1>2, <3>1 DEF q
    <3>3. CASE j <= n
      <4>1. j \in DOMAIN q /\ r[j] = q[j] /\ j < k - 1
        BY <1>5, <1>7, <2>1, <2>4, <3>3
      <4> QED BY <2>0, <3>1, <4>1 DEF RowsFirst
    <3>4. CASE j = n + 1
      <4>1. r[j] = x /\ Rank(q[k - 1]) = 0 /\ Rank(x) = 1
        BY <1>5, <1>7, <3>1, <3>2, <3>4
      <4>2. q[k - 1].policy = "injected"
        BY <4>1 DEF Rank
      <4>3. q[k - 1].armed => q[k - 1].policy = "queued"
        BY <2>0, <3>1 DEF Row
      <4>4. ~q[k - 1].armed
        BY <4>2, <4>3
      <4> QED BY <3>1, <4>1, <4>4
    <3>5. CASE j > n + 1
      <4>1. j - 1 \in DOMAIN q /\ r[j] = q[j - 1] /\ j - 1 < k - 1
        BY <1>5, <1>7, <2>1, <3>5
      <4> QED BY <2>0, <3>1, <4>1 DEF RowsFirst
    <3> QED BY <2>1, <3>3, <3>4, <3>5
  <2> QED BY <2>1, <2>2, <2>3, <2>4
<1>9. RowsFirst(lanes'["steering"])
  BY <1>4, <1>8 DEF ForceInv, Lanes
<1>10. UNCHANGED <<core, load>> /\ \A j \in Inputs : task'[j].cmd = task[j].cmd
  BY <1>0 DEF Enqueue, Goto
<1>11. \A k \in Lanes : \A y \in ToSet(lanes'[k]) : Row(k, y) /\ (y.armed => core.forced)
  <2>1. Row(l, x) /\ ~x.armed
    BY <1>3 DEF Row
  <2> QED BY <1>4, <1>6, <2>1 DEF ForceInv
<1> QED BY <1>9, <1>10, <1>11 DEF ForceInv

\* Arming marks every row of the steering lane.
LEMMA ForceArm ==
  ASSUME ForceInv, FlowInv', UNCHANGED load, NEW o \in Slots, AbortSend(o)
  PROVE  ForceInv'
<1> DEFINE q == lanes["steering"]
           resumes == ~paused /\ ~core.closing
           arms == resumes /\ \E x \in ToSet(q) : Armable(x)
           e(j) == [q[j] EXCEPT !.armed = q[j].armed \/ Armable(q[j])]
<1>0. /\ lanes \in [Lanes -> Seq(Items)] /\ q \in Seq(Items) /\ "steering" \in Lanes
      /\ core \in [CoreFlags -> BOOLEAN] /\ "forced" \in CoreFlags
  BY DEF ForceInv, FlowInv, TypeInv, TypeOK, Lanes, CoreFlags
<1>1. /\ core' = [core EXCEPT !.forced = core.forced \/ arms]
      /\ lanes' = IF ~arms THEN lanes ELSE [lanes EXCEPT !["steering"] = Armed(q)]
      /\ UNCHANGED task
  BY DEF AbortSend
<1>2. core'.forced = (core.forced \/ arms)
  <2> HIDE DEF arms
  <2> QED BY <1>0, <1>1
<1>3. CASE ~arms
  <2> HIDE DEF arms
  <2>1. lanes' = lanes /\ core'.forced = core.forced
    BY <1>0, <1>1, <1>2, <1>3
  <2>2. \A l \in Lanes : PartOf(lanes'[l], lanes[l])
    BY <1>0, <2>1, PartOfSelf
  <2> QED BY <1>1, <2>1, <2>2, ForceFrame
<1>4. CASE arms
  <2> HIDE DEF arms
  <2>1. /\ lanes'["steering"] = Armed(q) /\ core'.forced
        /\ \A l \in Lanes \ {"steering"} : lanes'[l] = lanes[l]
    BY <1>0, <1>1, <1>2, <1>4
  <2>2. /\ Len(q) \in Nat /\ DOMAIN q = 1..Len(q) /\ ToSet(q) = {q[j] : j \in DOMAIN q}
        /\ \A j \in DOMAIN q : q[j] \in Items
    BY <1>0, LaneFacts
  <2>3. \A j \in DOMAIN q : Row("steering", q[j])
    BY <1>0, <2>2 DEF ForceInv
  <2>4. Armed(q) = [j \in 1..Len(q) |-> e(j)]
    BY <2>2 DEF Armed
  <2>5. ASSUME NEW j \in DOMAIN q
        PROVE  /\ e(j).policy = q[j].policy /\ e(j).visible = q[j].visible
               /\ e(j).armed <=> q[j].policy = "queued"
               /\ Rank(e(j)) = Rank(q[j]) /\ Row("steering", e(j))
    <3> DEFINE b == q[j].armed \/ Armable(q[j])
    <3>1. q[j] \in Items /\ b \in BOOLEAN
      BY <2>2
    <3>2. b <=> q[j].policy = "queued"
      BY <2>3 DEF Row, Armable
    <3> HIDE DEF b
    <3>3. e(j) = [q[j] EXCEPT !.armed = b]
      BY DEF b
    <3> HIDE DEF e, q
    <3>4. e(j).policy = q[j].policy /\ e(j).visible = q[j].visible /\ e(j).armed = b
      BY <3>1, <3>3 DEF Items
    <3>5. Rank(e(j)) = Rank(q[j])
      BY <3>4 DEF Rank
    <3>6. Row("steering", e(j))
      BY <3>2, <3>4, <2>3 DEF Row
    <3> QED BY <3>2, <3>4, <3>5, <3>6
  <2> HIDE DEF e
  <2>6. DOMAIN Armed(q) = DOMAIN q /\ \A j \in DOMAIN q : Armed(q)[j] = e(j)
    BY <2>2, <2>4
  <2>7. RowsFirst(Armed(q))
    <3>1. RowsFirst(q)
      BY DEF ForceInv
    <3> SUFFICES ASSUME NEW j \in DOMAIN q, NEW k \in DOMAIN q, j < k
                 PROVE  /\ Rank(e(j)) >= Rank(e(k))
                        /\ e(k).armed => e(j).armed
      BY <2>6 DEF RowsFirst
    <3>2. Rank(q[j]) >= Rank(q[k])
      BY <3>1 DEF RowsFirst
    <3>3. q[k].policy = "queued" => q[j].policy = "queued"
      BY <3>2, <2>3 DEF Rank, Row
    <3> QED BY <2>5, <3>2, <3>3
  <2>8. \A x \in ToSet(Armed(q)) : Row("steering", x)
    <3>1. Armed(q) \in Seq(Items)
      BY <1>0, ArmedIs
    <3>2. ToSet(Armed(q)) = {e(j) : j \in DOMAIN q}
      BY <3>1, <2>6, LaneFacts
    <3> QED BY <3>2, <2>5
  <2>9. \A l \in Lanes : \A x \in ToSet(lanes'[l]) : Row(l, x) /\ (x.armed => core'.forced)
    BY <2>1, <2>8 DEF ForceInv
  <2> QED BY <1>1, <2>1, <2>7, <2>9 DEF ForceInv
<1> QED BY <1>3, <1>4

\* A pickup from the steering lane leaves no armed row behind.
LEMMA ForcePickUp ==
  ASSUME ForceInv, NEW l \in Lanes, lanes[l] # <<>>, PickUp(l),
         l = "followUp" => lanes["steering"] = <<>>
  PROVE  /\ \A y \in ToSet(lanes'["steering"]) : ~y.armed
         /\ \A k \in Lanes : PartOf(lanes'[k], lanes[k])
         /\ \A k \in Lanes : lanes'[k] \in Seq(Items)
<1> DEFINE q == lanes[l]
<1>0. /\ TypeInv /\ lanes \in [Lanes -> Seq(Items)] /\ q \in Seq(Items)
  BY DEF ForceInv, FlowInv, TypeInv, TypeOK
<1>1. PICK n \in 1..Len(q) :
        /\ lanes' = [lanes EXCEPT ![l] = SubSeq(q, n + 1, Len(q))]
        /\ l = "steering" /\ core.forced /\ q[1].armed /\ q[1].policy = "queued"
             => n = Len(q) \/ ~(q[n + 1].policy = "queued" /\ q[n + 1].armed)
  BY <1>0, PickUpIs
<1> DEFINE rest == SubSeq(q, n + 1, Len(q))
<1>2. \A k \in Lanes : lanes'[k] = IF k = l THEN rest ELSE lanes[k]
  BY <1>0, <1>1
<1>3. rest \in Seq(Items) /\ PartOf(rest, q)
  BY <1>0, SplitIs
<1>4. \A k \in Lanes : PartOf(lanes'[k], lanes[k]) /\ lanes'[k] \in Seq(Items)
  <2> HIDE DEF rest
  <2>1. \A k \in Lanes : lanes[k] \in Seq(Items)
    BY <1>0
  <2> QED BY <1>2, <1>3, <2>1, PartOfSelf
<1>5. CASE l = "followUp"
  <2>1. lanes'["steering"] = <<>>
    BY <1>2, <1>5 DEF Lanes
  <2>2. ToSet(<<>>) = {}
    BY DEF ToSet
  <2> QED BY <1>4, <2>1, <2>2
<1>6. CASE l = "steering"
  <2>0. /\ Len(q) \in Nat /\ DOMAIN q = 1..Len(q) /\ ToSet(q) = {q[j] : j \in DOMAIN q}
        /\ n \in Nat /\ n <= Len(q) /\ 1 <= n
    BY <1>0, LaneFacts
  <2>1. RowsFirst(q) /\ \A j \in DOMAIN q : Row(l, q[j]) /\ (q[j].armed => core.forced)
    BY <1>6, <2>0 DEF ForceInv
  <2>2. ASSUME NEW k \in (n + 1)..Len(q) PROVE ~q[k].armed
    <3> SUFFICES ASSUME q[k].armed PROVE FALSE
      OBVIOUS
    <3>1. 1 \in DOMAIN q /\ n + 1 \in DOMAIN q /\ k \in DOMAIN q /\ 1 < k /\ n # Len(q)
          /\ (n + 1 = k \/ n + 1 < k)
      BY <2>0
    <3>2. q[1].armed /\ q[n + 1].armed
      BY <3>1, <2>1 DEF RowsFirst
    <3>3. core.forced /\ q[1].policy = "queued" /\ q[n + 1].policy = "queued"
      BY <3>1, <3>2, <2>1 DEF Row
    <3> QED BY <1>1, <1>6, <3>1, <3>2, <3>3
  <2>3. ASSUME NEW y \in ToSet(rest) PROVE ~y.armed
    <3>1. \A j \in (n + 1)..Len(q) : q[j] \in Items
      BY <1>0, <2>0, LaneFacts
    <3>2. /\ Len(rest) = IF n + 1 <= Len(q) THEN Len(q) - (n + 1) + 1 ELSE 0
          /\ \A j \in 1..(Len(q) - (n + 1) + 1) : rest[j] = q[(n + 1) + j - 1]
      BY <2>0, <3>1, SubSeqProperties
    <3> HIDE DEF rest
    <3>3. PICK j \in 1..Len(rest) : y = rest[j]
      BY <2>3, <1>3, LaneFacts
    <3>4. n + 1 <= Len(q) /\ j \in 1..(Len(q) - (n + 1) + 1)
      BY <2>0, <3>2, <3>3
    <3>5. (n + 1) + j - 1 \in (n + 1)..Len(q)
      BY <2>0, <3>4
    <3> QED BY <2>2, <3>2, <3>3, <3>4, <3>5
  <2> QED BY <1>2, <1>4, <1>6, <2>3
<1> QED BY <1>5, <1>6 DEF Lanes

LEMMA ForceKept ==
  ASSUME RowsOnly, ForceInv, [Next /\ UNCHANGED load]_<<vars, load>>
  PROVE  /\ ForceInv'
         /\ runner.pc = "check" /\ (\E x \in ToSet(runner'.batch) : x.armed) =>
              \A y \in ToSet(lanes'["steering"]) : ~y.armed
<1> DEFINE Together == runner.pc = "check" /\ (\E x \in ToSet(runner'.batch) : x.armed) =>
                         \A y \in ToSet(lanes'["steering"]) : ~y.armed
<1>0. /\ TypeInv /\ FlowInv /\ FlowInv' /\ UNCHANGED load /\ load \in Loads
      /\ \A l \in Lanes : lanes[l] \in Seq(Items)
      /\ core \in [CoreFlags -> BOOLEAN] /\ "forced" \in CoreFlags
      /\ task \in [Inputs -> [pc : {"new", "register", "resume", "enqueue", "notify", "end"},
                              cmd : {"prompt", "queue", "message", "inject"},
                              lane : Lanes \cup {"none"}]]
      /\ runner \in [pc : {"check", "picked", "turn", "settle", "park", "asleep", "leave", "gone"},
                     batch : Seq(Items), lane : Lanes]
  BY FlowKept DEF ForceInv, FlowInv, TypeInv, TypeOK, CoreFlags
<1>1. runner.pc = "check" => runner.batch = <<>>
  BY <1>0 DEF FlowInv, RunnerShape
<1>2. ASSUME \/ runner'.batch = runner.batch
             \/ runner.pc # "check"
      PROVE  Together
  <2>1. ToSet(<<>>) = {}
    BY DEF ToSet
  <2> QED BY <1>1, <1>2, <2>1
<1> HIDE DEF Together
<1> SUFFICES ForceInv' /\ Together
  BY DEF Together
<1>3. ASSUME UNCHANGED <<lanes, task>>, core'.forced = core.forced
      PROVE  ForceInv'
  BY <1>0, <1>3, PartOfSelf, ForceFrame
<1>4. ASSUME NEW S, Withdraw(S), UNCHANGED task, core'.forced = core.forced
      PROVE  ForceInv'
  <2>1. \A l \in Lanes : lanes'[l] = Without(lanes[l], S)
    BY <1>4 DEF Withdraw
  <2>2. \A l \in Lanes : PartOf(lanes'[l], lanes[l])
    BY <1>0, <2>1, WithoutIs
  <2> QED BY <1>0, <1>4, <2>2, ForceFrame
<1>5. CASE Runner
  <2>1. CASE RunnerCheck
    <3>1. UNCHANGED task
      BY <2>1 DEF RunnerCheck
    <3>2. ASSUME NEW l \in Lanes, lanes[l] # <<>>, PickUp(l),
                 l = "followUp" => lanes["steering"] = <<>>
          PROVE  ForceInv' /\ Together
      <4>1. /\ \A y \in ToSet(lanes'["steering"]) : ~y.armed
            /\ \A k \in Lanes : PartOf(lanes'[k], lanes[k])
            /\ \A k \in Lanes : lanes'[k] \in Seq(Items)
        BY <3>2, ForcePickUp
      <4>2. \A k \in Lanes : ToSet(lanes'[k]) \subseteq ToSet(lanes[k])
        BY <1>0, <4>1, PartOfKeeps
      <4>3. RowsFirst(lanes'["steering"])
        BY <1>0, <4>1, PartOfKeeps DEF ForceInv, Lanes
      <4>4. \A k \in Lanes : \A x \in ToSet(lanes'[k]) : Row(k, x) /\ ~x.armed
        <5> SUFFICES ASSUME NEW k \in Lanes, NEW x \in ToSet(lanes'[k])
                     PROVE  Row(k, x) /\ ~x.armed
          OBVIOUS
        <5>1. Row(k, x)
          BY <4>2 DEF ForceInv
        <5>2. k = "steering" => ~x.armed
          BY <4>1
        <5> QED BY <5>1, <5>2 DEF Row
      <4> QED BY <1>0, <3>1, <4>1, <4>3, <4>4 DEF ForceInv, Together
    <3>3. ASSUME runner' = [runner EXCEPT !.pc = "leave"] \/ runner' = [runner EXCEPT !.pc = "park"],
                 core' = core \/ core' = [core EXCEPT !.busy = FALSE], UNCHANGED lanes
          PROVE  ForceInv' /\ Together
      <4>1. runner'.batch = runner.batch
        BY <1>0, <3>3
      <4>2. core'.forced = core.forced
        BY <1>0, <3>3
      <4> QED BY <1>2, <1>3, <3>1, <3>3, <4>1, <4>2
    <3>4. "steering" \in Lanes /\ "followUp" \in Lanes
      BY DEF Lanes
    <3> QED BY <2>1, <3>2, <3>3, <3>4 DEF RunnerCheck
  <2>2. CASE TurnStarts \/ TurnEnds \/ TurnSettles \/ RunnerParks \/ RunnerWakes
    <3>1. UNCHANGED <<lanes, task>> /\ (core' = core \/ core' = [core EXCEPT !.busy = FALSE])
      BY <2>2 DEF TurnStarts, TurnEnds, TurnSettles, RunnerParks, RunnerWakes
    <3>2. runner.pc # "check"
      BY <2>2 DEF TurnStarts, TurnEnds, TurnSettles, RunnerParks, RunnerWakes
    <3>3. core'.forced = core.forced
      BY <1>0, <3>1
    <3> QED BY <1>2, <1>3, <3>1, <3>2, <3>3
  <2> QED BY <1>5, <2>1, <2>2 DEF Runner
<1>6. ASSUME NEW i \in Inputs, Input(i) PROVE ForceInv' /\ Together
  <2>1. UNCHANGED runner
    BY <1>6 DEF Input, PromptGate, QueueResume, MessageGate, InjectGate, Register, Enqueue,
                NotifyWork
  <2>2. CASE Enqueue(i)
    BY <1>0, <1>2, <2>1, <2>2, ForceEnqueue
  <2>3. CASE ~Enqueue(i)
    <3>1. UNCHANGED lanes
      BY <1>6, <2>3 DEF Input, PromptGate, QueueResume, MessageGate, InjectGate, Register,
                        NotifyWork
    <3>2. core' = core \/ \E b : core' = [core EXCEPT !.suspended = b]
      BY <1>6, <2>3 DEF Input, PromptGate, QueueResume, MessageGate, InjectGate, Register,
                        NotifyWork
    <3>3. \E p : task' = [task EXCEPT ![i].pc = p]
      BY <1>6, <2>3 DEF Input, PromptGate, QueueResume, MessageGate, InjectGate, Register,
                        NotifyWork, Goto
    <3>4. core'.forced = core.forced
      BY <1>0, <3>2
    <3>5. \A j \in Inputs : task'[j].cmd = task[j].cmd
      BY <1>0, <3>3
    <3>6. \A l \in Lanes : PartOf(lanes'[l], lanes[l])
      BY <1>0, <3>1, PartOfSelf
    <3> QED BY <1>0, <1>2, <2>1, <3>4, <3>5, <3>6, ForceFrame
  <2> QED BY <2>2, <2>3
<1>7. ASSUME NEW o \in Slots, Arrival(o) PROVE ForceInv' /\ Together
  <2>1. UNCHANGED runner
    BY <1>7 DEF Arrival, Abort, AbortSend, ClearQueue, ResumeQueue, MutateDelete, MutateLane,
           Cancel, Pause, Compact, WaitForIdle, Kill, Shutdown
  <2>2. CASE AbortSend(o)
    BY <1>0, <1>2, <2>1, <2>2, ForceArm
  <2>3. ASSUME NEW i \in Inputs, MutateLane(o, i) PROVE FALSE
    BY <1>0, <2>3 DEF MutateLane, Arrives, RowsOnly
  <2>4. CASE ~AbortSend(o)
    <3>1. /\ UNCHANGED task
          /\ UNCHANGED lanes \/ \E S : Withdraw(S)
      BY <1>7, <2>3, <2>4 DEF Arrival, Abort, ClearQueue, ResumeQueue, MutateDelete,
           Cancel, Pause, Compact, WaitForIdle, Kill, Shutdown
    <3>2. \/ core' = core
          \/ core' = [core EXCEPT !.suspended = TRUE]
          \/ core' = [core EXCEPT !.created = FALSE]
          \/ core' = [core EXCEPT !.closing = TRUE, !.abort = TRUE]
      BY <1>7, <2>3, <2>4 DEF Arrival, Abort, ClearQueue, ResumeQueue, MutateDelete,
           Cancel, Pause, Compact, WaitForIdle, Kill, Shutdown
    <3>3. core'.forced = core.forced
      BY <1>0, <3>2
    <3> QED BY <1>2, <1>3, <1>4, <2>1, <3>1, <3>3
  <2> QED BY <2>2, <2>4
<1>8. ASSUME NEW o \in Slots, Step(o) PROVE ForceInv' /\ Together
  <2>1. /\ UNCHANGED <<runner, task>>
        /\ UNCHANGED lanes \/ \E S : Withdraw(S)
    BY <1>8 DEF Step, AbortSuspends, AbortWithdraws, AbortFlows, ResumeQueuedInput,
         ClearSuspends, CancelDrops, CancelStops, Wake, CompactDrains, CompactBegins,
         CompactEnds, CompactNotifies, WaitLooks, WaitRegisters, WaitWakes, KillClears,
         SettleRegisters, SettleLooks
  <2>2. \/ core' = core
        \/ core' = [core EXCEPT !.abort = TRUE, !.suspended = TRUE]
        \/ core' = [core EXCEPT !.suspended = FALSE]
        \/ core' = [core EXCEPT !.abort = TRUE]
        \/ core' = [core EXCEPT !.compacting = TRUE]
        \/ core' = [core EXCEPT !.compacting = FALSE]
    BY <1>8 DEF Step, AbortSuspends, AbortWithdraws, AbortFlows, ResumeQueuedInput,
         ClearSuspends, CancelDrops, CancelStops, Wake, CompactDrains, CompactBegins,
         CompactEnds, CompactNotifies, WaitLooks, WaitRegisters, WaitWakes, KillClears,
         SettleRegisters, SettleLooks
  <2>3. core'.forced = core.forced
    BY <1>0, <2>2
  <2> QED BY <1>2, <1>3, <1>4, <2>1, <2>3
<1>9. CASE UNCHANGED <<vars, load>>
  BY <1>2, <1>3, <1>9 DEF vars
<1> QED BY <1>5, <1>6, <1>7, <1>8, <1>9 DEF Next

LEMMA ForceInit ==
  ASSUME RowsOnly, Init
  PROVE  ForceInv
<1>1. \A l \in Lanes : lanes[l] = <<>>
  BY DEF Init
<1>2. lanes["steering"] = <<>> /\ ToSet(<<>>) = {} /\ RowsFirst(<<>>)
  BY <1>1 DEF Lanes, ToSet, RowsFirst
<1>3. load \in Loads /\ \A i \in Inputs : task[i].cmd # "prompt"
  <2> SUFFICES ASSUME NEW i \in Inputs, load \in Loads PROVE task[i].cmd # "prompt"
    BY DEF Init
  <2>1. [cmd |-> task[i].cmd, lane |-> task[i].lane] \in load.sources
    BY DEF Init
  <2>2. [cmd |-> task[i].cmd, lane |-> task[i].lane].cmd # "prompt"
    BY <2>1 DEF RowsOnly
  <2> QED BY <2>2
<1> QED BY <1>1, <1>2, <1>3, FlowInit DEF ForceInv

\* As long as clients send rows only, the rows that one abort_and_send_queued
\* armed go out in one turn, whatever arrives, parks or is withdrawn before.
THEOREM ArmedGoTogether ==
  ASSUME RowsOnly
  PROVE  Spec => ForcedTogether
<1>1. Init => ForceInv
  BY ForceInit
<1>2. ForceInv /\ [Next /\ UNCHANGED load]_<<vars, load>> => ForceInv'
  BY ForceKept
<1>3. ForceInv /\ [Next /\ UNCHANGED load]_<<vars, load>> =>
        [runner.pc = "check" /\ (\E x \in ToSet(runner'.batch) : x.armed) =>
           \A y \in ToSet(lanes'["steering"]) : ~y.armed]_vars
  BY ForceKept
<1> QED BY <1>1, <1>2, <1>3, PTL DEF Spec, ForcedTogether

=============================================================================
