-------------------------- MODULE TripContentProofs --------------------------
(***************************************************************************)
(* Theorems about TripContent, for every set of bodies, whatever their     *)
(* texts, dates, coordinates and artifacts.                                *)
(*                                                                         *)
(* The invariant says that what is stored is what the backend makes of     *)
(* some trip that it accepts.  Most of the rest is about the way there and *)
(* back: that the columns of a location and the rows of the artifacts,     *)
(* read in the order of their positions, give back what was put in.        *)
(***************************************************************************)
EXTENDS TripContent, FiniteSetTheorems, FunctionTheorems, WellFoundedInduction, TLAPS

-----------------------------------------------------------------------------
(* Sequences in the order of a key *)

\* s lists the n elements of S, one after the other as key has them.
SortedBy(s, n, S, key) ==
  /\ s \in Bijection(1..n, S)
  /\ \A i, j \in 1..n : i <= j => key[s[i]] <= key[s[j]]

LEMMA LeastNat ==
  ASSUME NEW T \in SUBSET Nat, T # {}
  PROVE  \E x \in T : \A y \in T : x <= y
<1>1. \E R : IsWellFoundedOn(R, Nat) /\ \A x, y \in Nat : y < x => <<y, x>> \in R
  <2>1. \A x, y \in Nat : y < x => <<y, x>> \in OpToRel(<, Nat)
    BY DEF OpToRel
  <2> QED
    BY <2>1, NatLessThanWellFounded
<1>2. PICK R : IsWellFoundedOn(R, Nat) /\ \A x, y \in Nat : y < x => <<y, x>> \in R
  BY <1>1
<1>3. PICK x \in T : \A y \in T : <<y, x>> \notin R
  BY <1>2, WFMin
<1>4. \A y \in T : x <= y
  <2> TAKE y \in T
  <2>1. x \in Nat /\ y \in Nat
    OBVIOUS
  <2>2. ~(y < x)
    BY <1>2, <1>3, <2>1
  <2> QED
    BY <2>1, <2>2
<1> QED
  BY <1>4

LEMMA GreatestNat ==
  ASSUME NEW n \in Nat, NEW T \in SUBSET (1..n), T # {}
  PROVE  \E x \in T : \A y \in T : x >= y
<1> DEFINE U == {n - x : x \in T}
<1>1. U \in SUBSET Nat /\ U # {}
  <2>1. \A x \in T : n - x \in Nat
    OBVIOUS
  <2> QED
    BY <2>1
<1>2. PICK u \in U : \A y \in U : u <= y
  <2> HIDE DEF U
  <2> QED
    BY <1>1, LeastNat
<1>3. PICK x \in T : u = n - x
  OBVIOUS
<1>4. \A y \in T : n - y \in U
  OBVIOUS
<1>5. \A y \in T : x >= y
  BY <1>2, <1>3, <1>4
<1> QED
  BY <1>5

\* Where the keys are distinct there is one order.
LEMMA OneOrder ==
  ASSUME NEW S, NEW key \in [S -> Nat], IsInjective(key), NEW n \in Nat,
         NEW s, SortedBy(s, n, S, key), NEW t, SortedBy(t, n, S, key)
  PROVE  s = t
<1>1. ASSUME NEW u, SortedBy(u, n, S, key)
      PROVE  /\ u \in [1..n -> S]
             /\ \A i, j \in 1..n : u[i] = u[j] => i = j
             /\ \A a \in S : \E i \in 1..n : u[i] = a
  BY <1>1 DEF SortedBy, Bijection, Injection, Surjection, IsInjective
<1>s. /\ s \in [1..n -> S]
      /\ \A i, j \in 1..n : s[i] = s[j] => i = j
      /\ \A a \in S : \E i \in 1..n : s[i] = a
  BY <1>1
<1>t. /\ t \in [1..n -> S]
      /\ \A i, j \in 1..n : t[i] = t[j] => i = j
      /\ \A a \in S : \E i \in 1..n : t[i] = a
  BY <1>1
<1>2. SUFFICES ASSUME s # t
               PROVE  FALSE
  OBVIOUS
<1> DEFINE Differ == {i \in 1..n : s[i] # t[i]}
<1>3. Differ \in SUBSET Nat /\ Differ # {}
  <2>1. \E i \in 1..n : s[i] # t[i]
    BY <1>s, <1>t, <1>2
  <2> QED
    BY <2>1
<1>4. PICK i \in Differ : \A j \in Differ : i <= j
  <2> HIDE DEF Differ
  <2> QED
    BY <1>3, LeastNat
<1>5. \A j \in 1..n : j < i => s[j] = t[j]
  BY <1>4
<1>6. PICK k \in 1..n : t[k] = s[i]
  BY <1>s, <1>t
<1>7. PICK m \in 1..n : s[m] = t[i]
  BY <1>s, <1>t
<1>8. i <= k /\ i <= m
  <2>1. s[i] # t[i] /\ i \in 1..n
    BY <1>4
  <2>2. ~(k < i)
    BY <1>s, <1>5, <1>6, <2>1
  <2>3. ~(m < i)
    BY <1>t, <1>5, <1>7, <2>1
  <2> QED
    BY <2>1, <2>2, <2>3
<1>9. key[t[i]] <= key[s[i]] /\ key[s[i]] <= key[t[i]]
  BY <1>6, <1>7, <1>8 DEF SortedBy
<1>10. key[s[i]] \in Nat /\ key[t[i]] \in Nat /\ s[i] \in S /\ t[i] \in S
  BY <1>s, <1>t
<1>11. s[i] = t[i]
  BY <1>9, <1>10 DEF IsInjective
<1> QED
  BY <1>11

\* A finite set can be put in the order of any distinct keys: an element comes
\* where there are as many up to it.
LEMMA SomeOrder ==
  ASSUME NEW S, IsFiniteSet(S), NEW key \in [S -> Nat], IsInjective(key)
  PROVE  \E s : SortedBy(s, Cardinality(S), S, key)
<1> DEFINE n       == Cardinality(S)
           UpTo(a) == {b \in S : key[b] <= key[a]}
           rank    == [a \in S |-> Cardinality(UpTo(a))]
<1>1. n \in Nat
  BY FS_CardinalityType
<1>2. \A a \in S : IsFiniteSet(UpTo(a)) /\ Cardinality(UpTo(a)) \in Nat /\ Cardinality(UpTo(a)) <= n
  BY FS_Subset, FS_CardinalityType
<1>3. \A a \in S : a \in UpTo(a) /\ Cardinality(UpTo(a)) # 0
  <2> TAKE a \in S
  <2>1. a \in UpTo(a)
    OBVIOUS
  <2> QED
    BY <1>2, <2>1, FS_EmptySet
<1>4. \A a, b \in S : key[a] < key[b] => rank[a] < rank[b]
  <2> SUFFICES ASSUME NEW a \in S, NEW b \in S, key[a] < key[b]
               PROVE  Cardinality(UpTo(a)) < Cardinality(UpTo(b))
    OBVIOUS
  <2>1. UpTo(a) \in SUBSET UpTo(b) /\ b \in UpTo(b) /\ b \notin UpTo(a)
    OBVIOUS
  <2>2. /\ Cardinality(UpTo(a)) <= Cardinality(UpTo(b))
        /\ Cardinality(UpTo(b)) = Cardinality(UpTo(a)) => UpTo(b) = UpTo(a)
    BY <1>2, <2>1, FS_Subset
  <2>3. UpTo(a) # UpTo(b)
    BY <2>1
  <2>4. Cardinality(UpTo(a)) \in Nat /\ Cardinality(UpTo(b)) \in Nat
    BY <1>2
  <2> HIDE DEF UpTo
  <2> QED
    BY <2>2, <2>3, <2>4
<1>5. rank \in [S -> 1..n]
  BY <1>1, <1>2, <1>3
<1> HIDE DEF rank
<1>6. \A a, b \in S : rank[a] = rank[b] => a = b
  <2> SUFFICES ASSUME NEW a \in S, NEW b \in S, a # b
               PROVE  rank[a] # rank[b]
    OBVIOUS
  <2>1. key[a] \in Nat /\ key[b] \in Nat /\ rank[a] \in Nat /\ rank[b] \in Nat
    BY <1>5
  <2>2. key[a] # key[b]
    BY DEF IsInjective
  <2> QED
    BY <1>4, <2>1, <2>2
<1>7. rank \in Injection(S, 1..n)
  BY <1>5, <1>6, Fun_IsInj
<1>8. IsFiniteSet(1..n) /\ Cardinality(1..n) = n
  BY <1>1, FS_Interval
<1>9. rank \in Bijection(S, 1..n)
  <2>1. rank \in Surjection(S, 1..n)
    BY <1>7, <1>8, FS_Injection
  <2> QED
    BY <1>7, <2>1, Fun_IsBij
<1> DEFINE s == Inverse(rank, S, 1..n)
<1>10. s \in Bijection(1..n, S)
  BY <1>9, Fun_BijInverse
<1>11. \A i \in 1..n : rank[s[i]] = i
  <2> TAKE i \in 1..n
  <2>1. PICK a \in S : rank[a] = i
    BY <1>9 DEF Bijection, Surjection
  <2>2. s[rank[a]] = a
    BY <1>9, Fun_BijInverse
  <2> QED
    BY <2>1, <2>2
<1> HIDE DEF s, n
<1>12. s \in [1..n -> S]
  BY <1>10, Fun_BijectionProperties
<1>13. \A i, j \in 1..n : i <= j => key[s[i]] <= key[s[j]]
  <2> SUFFICES ASSUME NEW i \in 1..n, NEW j \in 1..n, ~(key[s[i]] <= key[s[j]])
               PROVE  ~(i <= j)
    OBVIOUS
  <2>1. s[i] \in S /\ s[j] \in S /\ key[s[i]] \in Nat /\ key[s[j]] \in Nat
    BY <1>12
  <2>2. rank[s[j]] < rank[s[i]]
    BY <1>4, <2>1
  <2> QED
    BY <1>1, <1>11, <2>2
<1> QED
  BY <1>10, <1>13 DEF SortedBy, n

\* InOrder is that order.
LEMMA InOrderSorts ==
  ASSUME NEW S, IsFiniteSet(S), NEW key \in [S -> Nat], IsInjective(key)
  PROVE  SortedBy(InOrder(key), Cardinality(S), S, key)
<1> DEFINE n == Cardinality(S)
<1>1. n \in Nat /\ DOMAIN key = S
  BY FS_CardinalityType
<1>2. \E s : SortedBy(s, n, S, key)
  BY SomeOrder
<1>3. \E s \in Bijection(1..n, S) : \A i, j \in DOMAIN s : i <= j => key[s[i]] <= key[s[j]]
  BY <1>2 DEF SortedBy, Bijection, Injection
<1>4. InOrder(key) = CHOOSE s \in Bijection(1..n, S) :
                       \A i, j \in DOMAIN s : i <= j => key[s[i]] <= key[s[j]]
  BY <1>1 DEF InOrder
<1>5. /\ InOrder(key) \in Bijection(1..n, S)
      /\ \A i, j \in DOMAIN InOrder(key) : i <= j => key[InOrder(key)[i]] <= key[InOrder(key)[j]]
  BY <1>3, <1>4
<1>6. DOMAIN InOrder(key) = 1..n
  BY <1>5, Fun_BijectionProperties
<1> QED
  BY <1>5, <1>6 DEF SortedBy

-----------------------------------------------------------------------------
(* Artifacts: identifiers without repetition *)

LastAt(s, a) == SelectLastInSeq(s, LAMBDA x : x = a)

LEMMA LastPosition ==
  ASSUME NEW S, NEW s \in Seq(S), NEW a
  PROVE  /\ LastAt(s, a) \in Nat
         /\ a \in ToSet(s) => LastAt(s, a) \in DOMAIN s /\ s[LastAt(s, a)] = a
         /\ a \notin ToSet(s) => LastAt(s, a) = 0
<1> DEFINE I == {i \in 1..Len(s) : s[i] = a}
<1>1. LastAt(s, a) = IF I # {} THEN Max(I) ELSE 0
  BY DEF LastAt, SelectLastInSeq
<1>2. Len(s) \in Nat /\ DOMAIN s = 1..Len(s)
  OBVIOUS
<1>3. I \in SUBSET (1..Len(s))
  OBVIOUS
<1>4. I # {} <=> a \in ToSet(s)
  BY <1>2 DEF ToSet
<1>5. ASSUME I # {}
      PROVE  Max(I) \in I
  <2>1. \E x \in I : \A y \in I : x >= y
    <3> HIDE DEF I
    <3> QED
      BY <1>2, <1>3, <1>5, GreatestNat
  <2> QED
    BY <2>1 DEF Max
<1>6. CASE a \in ToSet(s)
  <2>1. LastAt(s, a) \in I
    BY <1>1, <1>4, <1>5, <1>6
  <2> QED
    BY <1>2, <1>6, <2>1
<1>7. CASE a \notin ToSet(s)
  <2>1. LastAt(s, a) = 0
    BY <1>1, <1>4, <1>7
  <2> QED
    BY <1>7, <2>1
<1> QED
  BY <1>6, <1>7

\* A sequence without repetition lists its elements.
LEMMA Listing ==
  ASSUME NEW S, NEW s \in Seq(S)
  PROVE  /\ IsFiniteSet(ToSet(s))
         /\ IsInjective(s) => /\ s \in Bijection(1..Len(s), ToSet(s))
                              /\ Cardinality(ToSet(s)) = Len(s)
<1>1. Len(s) \in Nat /\ DOMAIN s = 1..Len(s)
  OBVIOUS
<1>2. s \in [1..Len(s) -> ToSet(s)] /\ \A a \in ToSet(s) : \E i \in 1..Len(s) : s[i] = a
  BY <1>1 DEF ToSet
<1>3. s \in Surjection(1..Len(s), ToSet(s))
  BY <1>2 DEF Surjection
<1>4. IsFiniteSet(ToSet(s))
  BY <1>1, <1>3, FS_Surjection, FS_Interval
<1>5. ASSUME IsInjective(s)
      PROVE  s \in Bijection(1..Len(s), ToSet(s)) /\ Cardinality(ToSet(s)) = Len(s)
  <2>1. s \in Bijection(1..Len(s), ToSet(s))
    BY <1>2, <1>3, <1>5 DEF Bijection, Injection
  <2>2. ExistsBijection(1..Len(s), ToSet(s))
    BY <2>1 DEF ExistsBijection
  <2> QED
    BY <1>1, <2>1, <2>2, FS_CountingElements
<1> QED
  BY <1>4, <1>5

Positions(s) == [a \in ToSet(s) |-> LastAt(s, a)]

LEMMA DistinctByPosition ==
  ASSUME NEW S, NEW s \in Seq(S)
  PROVE  Distinct(s) = InOrder(Positions(s))
BY DEF Distinct, Positions, LastAt

LEMMA PositionsDiffer ==
  ASSUME NEW S, NEW s \in Seq(S)
  PROVE  /\ Positions(s) \in [ToSet(s) -> Nat] /\ IsInjective(Positions(s))
         /\ \A a \in ToSet(s) : Positions(s)[a] \in 1..Len(s) /\ s[Positions(s)[a]] = a
<1>1. \A a \in ToSet(s) : LastAt(s, a) \in Nat /\ LastAt(s, a) \in DOMAIN s /\ s[LastAt(s, a)] = a
  BY LastPosition
<1>2. Positions(s) \in [ToSet(s) -> Nat]
  BY <1>1 DEF Positions
<1>3. \A a \in ToSet(s) : Positions(s)[a] \in 1..Len(s) /\ s[Positions(s)[a]] = a
  BY <1>1 DEF Positions
<1>4. IsInjective(Positions(s))
  BY <1>2, <1>3 DEF IsInjective
<1> QED
  BY <1>2, <1>3, <1>4

\* Distinct names what the sequence names, each once.
LEMMA DistinctLists ==
  ASSUME NEW S, NEW s \in Seq(S)
  PROVE  /\ Distinct(s) \in Seq(ToSet(s))
         /\ ToSet(Distinct(s)) = ToSet(s)
         /\ IsInjective(Distinct(s))
<1> DEFINE n == Cardinality(ToSet(s))
           d == Distinct(s)
<1>1. IsFiniteSet(ToSet(s)) /\ n \in Nat
  BY Listing, FS_CardinalityType
<1>2. SortedBy(d, n, ToSet(s), Positions(s))
  BY <1>1, DistinctByPosition, PositionsDiffer, InOrderSorts
<1> HIDE DEF n, d
<1>3. /\ d \in [1..n -> ToSet(s)]
      /\ \A i, j \in 1..n : d[i] = d[j] => i = j
      /\ \A a \in ToSet(s) : \E i \in 1..n : d[i] = a
  BY <1>2 DEF SortedBy, Bijection, Injection, Surjection, IsInjective
<1>4. d \in Seq(ToSet(s))
  BY <1>1, <1>3
<1>5. ToSet(d) = ToSet(s)
  BY <1>3 DEF ToSet
<1>6. IsInjective(d)
  BY <1>3 DEF IsInjective
<1> QED
  BY <1>4, <1>5, <1>6 DEF d

\* It leaves a sequence alone that repeats nothing.
LEMMA DistinctKeeps ==
  ASSUME NEW S, NEW s \in Seq(S), IsInjective(s)
  PROVE  Distinct(s) = s
<1> DEFINE T == ToSet(s)
           n == Cardinality(T)
<1>1. IsFiniteSet(T) /\ s \in Bijection(1..n, T) /\ n = Len(s) /\ n \in Nat /\ DOMAIN s = 1..n
  BY Listing
<1>2. /\ Positions(s) \in [T -> Nat] /\ IsInjective(Positions(s))
      /\ \A a \in T : Positions(s)[a] \in 1..n /\ s[Positions(s)[a]] = a
  BY <1>1, PositionsDiffer
<1>3. \A i \in 1..n : s[i] \in T /\ Positions(s)[s[i]] = i
  <2> TAKE i \in 1..n
  <2>1. s[i] \in T
    BY <1>1 DEF ToSet
  <2>2. Positions(s)[s[i]] \in 1..n /\ s[Positions(s)[s[i]]] = s[i]
    BY <1>2, <2>1
  <2> QED
    BY <1>1, <2>1, <2>2 DEF IsInjective
<1>4. SortedBy(s, n, T, Positions(s))
  BY <1>1, <1>3 DEF SortedBy
<1>5. SortedBy(Distinct(s), n, T, Positions(s))
  BY <1>1, <1>2, DistinctByPosition, InOrderSorts
<1> HIDE DEF n, T
<1> QED
  BY <1>1, <1>2, <1>4, <1>5, OneOrder

\* What Postgres makes of the artifacts it stores.
LEMMA LoadedArtifacts ==
  ASSUME NEW s \in Seq(ToSet(Artifacts))
  PROVE  loadArtifacts(syncArtifacts(s)) = Distinct(s)
<1> DEFINE p == syncArtifacts(s)
<1>1. p = [a \in ToSet(Artifacts) |-> LastAt(s, a)]
  BY DEF syncArtifacts, LastAt
<1>2. ToSet(s) \subseteq ToSet(Artifacts)
  BY DEF ToSet
<1>3. \A a \in ToSet(Artifacts) : p[a] # 0 <=> a \in ToSet(s)
  <2> TAKE a \in ToSet(Artifacts)
  <2>1. p[a] = LastAt(s, a)
    BY <1>1
  <2>2. a \in ToSet(s) => LastAt(s, a) \in 1..Len(s)
    BY LastPosition
  <2>3. a \notin ToSet(s) => LastAt(s, a) = 0
    BY LastPosition
  <2> QED
    BY <2>1, <2>2, <2>3
<1>4. {a \in DOMAIN p : p[a] # 0} = ToSet(s)
  BY <1>1, <1>2, <1>3
<1>5. Restrict(p, {a \in DOMAIN p : p[a] # 0}) = Positions(s)
  <2>1. Restrict(p, ToSet(s)) = Positions(s)
    BY <1>1, <1>2 DEF Restrict, Positions
  <2> QED
    BY <1>4, <2>1
<1> QED
  BY <1>5, DistinctByPosition DEF loadArtifacts

-----------------------------------------------------------------------------
(* Types, and the way to a backend and back *)

LEMMA ArtifactsOfTrip ==
  ASSUME NEW t \in Trip
  PROVE  /\ t.artifacts \in Seq(ToSet(Artifacts)) /\ t.artifacts \in Seq(ArtifactIDs)
         /\ ToSet(t.artifacts) \subseteq ToSet(Artifacts)
<1>1. ToSet(Artifacts) \subseteq ArtifactIDs
  BY ArtifactsAssumption DEF ToSet
<1>2. t.artifacts \in Seq(ToSet(Artifacts))
  BY DEF Trip
<1> QED
  BY <1>1, <1>2 DEF ToSet

\* Columns bring a location back as it was.
LEMMA LocationComesBack ==
  ASSUME NEW l \in Nullable(Location)
  PROVE  meetingFromColumns(Columns(l)) = l
<1>1. CASE l = Null
  BY <1>1 DEF meetingFromColumns, Columns
<1>2. CASE l \in Location
  <2>1. l # Null /\ l.label # Null /\ "label" \in DOMAIN l
    BY <1>2, NullAssumption DEF Location
  <2>2. Columns(l) = l
    BY <2>1 DEF Columns
  <2>3. meetingFromColumns(l) = [l EXCEPT !.label = l.label]
    BY <2>1 DEF meetingFromColumns
  <2> QED
    BY <1>2, <2>2, <2>3 DEF Location
<1> QED
  BY <1>1, <1>2 DEF Nullable

\* A trip comes back from memory as it was, from Postgres with each artifact once.
Kept(b, t) == IF b = "memory" THEN t ELSE [t EXCEPT !.artifacts = Distinct(@)]

LEMMA TripComesBack ==
  ASSUME NEW b \in {"memory", "postgres"}, NEW t \in Trip
  PROVE  Loaded(b, Stored(b, t)) = Kept(b, t)
<1>1. CASE b = "memory"
  BY <1>1 DEF Loaded, Stored, Kept
<1>2. CASE b = "postgres"
  <2>1. PICK l \in Nullable(Location) : l = t.location
    BY DEF Trip
  <2>2. meetingFromColumns(Columns(l)) = l
    BY LocationComesBack
  <2>3. PICK a : a = t.artifacts
    OBVIOUS
  <2>4. loadArtifacts(syncArtifacts(a)) = Distinct(a)
    BY <2>3, ArtifactsOfTrip, LoadedArtifacts
  <2>5. Stored(b, t) = [t EXCEPT !.location = Columns(l), !.artifacts = syncArtifacts(a)]
    BY <1>2, <2>1, <2>3 DEF Stored
  <2>6. Loaded(b, Stored(b, t)) = [t EXCEPT !.location = l, !.artifacts = Distinct(a)]
    BY <1>2, <2>2, <2>4, <2>5 DEF Loaded, Trip
  <2>7. [t EXCEPT !.location = l, !.artifacts = Distinct(a)] = [t EXCEPT !.artifacts = Distinct(a)]
    BY <2>1 DEF Trip
  <2> QED
    BY <1>2, <2>3, <2>6, <2>7 DEF Kept
<1> QED
  BY <1>1, <1>2

\* What comes back names the same artifacts, and is the same but for them.
LEMMA KeptIsTrip ==
  ASSUME NEW b \in {"memory", "postgres"}, NEW t \in Trip, NEW k, k = Kept(b, t)
  PROVE  /\ k \in Trip
         /\ k.name = t.name /\ k.description = t.description
         /\ k.startDate = t.startDate /\ k.endDate = t.endDate /\ k.location = t.location
         /\ Distinct(k.artifacts) = Distinct(t.artifacts)
         /\ ToSet(k.artifacts) = ToSet(t.artifacts)
         /\ IsInjective(t.artifacts) => k = t
<1>1. CASE b = "memory"
  BY <1>1 DEF Kept
<1>2. CASE b = "postgres"
  <2>1. PICK a : a = t.artifacts
    OBVIOUS
  <2>2. a \in Seq(ToSet(Artifacts)) /\ ToSet(a) \subseteq ToSet(Artifacts)
    BY <2>1, ArtifactsOfTrip
  <2>3. PICK d : d = Distinct(a)
    OBVIOUS
  <2>4. d \in Seq(ToSet(a)) /\ ToSet(d) = ToSet(a) /\ IsInjective(d)
    BY <2>2, <2>3, DistinctLists
  <2>5. d \in Seq(ToSet(Artifacts)) /\ Distinct(d) = d /\ (IsInjective(a) => d = a)
    BY <2>2, <2>3, <2>4, DistinctKeeps
  <2>6. k = [t EXCEPT !.artifacts = d]
    BY <1>2, <2>1, <2>3 DEF Kept
  <2>7. /\ k \in Trip
        /\ k.name = t.name /\ k.description = t.description
        /\ k.startDate = t.startDate /\ k.endDate = t.endDate /\ k.location = t.location
        /\ k.artifacts = d
    BY <2>5, <2>6 DEF Trip
  <2>8. d = a => k = t
    BY <2>1, <2>6 DEF Trip
  <2> QED
    BY <2>1, <2>3, <2>4, <2>5, <2>7, <2>8
<1> QED
  BY <1>1, <1>2

LEMMA PatchOfPlace ==
  ASSUME NEW l \in Place, NEW p, p = LocationPatch(l)
  PROVE  /\ p \in LocationInput /\ p # Absent
         /\ p.label = l.label /\ p.address = l.address
         /\ p.clear = (l.coordinates = Null)
         /\ p.latitude = IF Sent(l.coordinates) THEN l.coordinates.latitude ELSE Absent
         /\ p.longitude = IF Sent(l.coordinates) THEN l.coordinates.longitude ELSE Absent
<1>1. PICK at \in Optional(Point) : at = l.coordinates
  BY DEF Place
<1>2. Sent(at) => at.latitude \in Optional(Int) /\ at.longitude \in Optional(Int)
  BY DEF Optional, Sent, Point
<1>3. PICK x \in Optional(Int), y \in Optional(Int) :
        /\ x = IF Sent(at) THEN at.latitude ELSE Absent
        /\ y = IF Sent(at) THEN at.longitude ELSE Absent
  BY <1>2 DEF Optional
<1>4. l.label \in Optional(Texts) /\ l.address \in Optional(Texts)
  BY DEF Place
<1>5. PICK c \in BOOLEAN : c = (at = Null)
  OBVIOUS
<1>6. p = [label |-> l.label, address |-> l.address, clear |-> c, latitude |-> x, longitude |-> y]
  BY <1>1, <1>3, <1>5 DEF LocationPatch
<1>7. p \in LocationInput
  BY <1>4, <1>6 DEF LocationInput
<1>8. p # Absent
  BY <1>7, NullAssumption
<1> QED
  BY <1>1, <1>3, <1>5, <1>6, <1>7, <1>8

\* The input that a body becomes.
LEMMA InputOfBody ==
  ASSUME NEW body \in UpdateTripRequest, NEW in, in = updateTripInputFromOAS(body)
  PROVE  /\ in.name = NullAsAbsent(body.name) /\ in.name \in Texts \cup {Absent}
         /\ in.description = body.description /\ in.description \in Optional(Texts)
         /\ in.startDate = body.startDate /\ in.startDate \in Optional(Nat)
         /\ in.endDate = body.endDate /\ in.endDate \in Optional(Nat)
         /\ in.artifacts = body.artifacts /\ in.artifacts \in Optional(Seq(ArtifactIDs))
         /\ ~Sent(body.location) => in.location = Absent
         /\ Sent(body.location) => /\ body.location \in Place /\ in.location # Absent
                                   /\ in.location = LocationPatch(body.location)
<1>1. /\ body.name \in Optional(Texts) /\ body.description \in Optional(Texts)
      /\ body.startDate \in Optional(Nat) /\ body.endDate \in Optional(Nat)
      /\ body.location \in Optional(Place) /\ body.artifacts \in Optional(Seq(ArtifactIDs))
  BY DEF UpdateTripRequest
<1>2. /\ in.name = NullAsAbsent(body.name) /\ in.description = body.description
      /\ in.startDate = body.startDate /\ in.endDate = body.endDate
      /\ in.artifacts = body.artifacts
      /\ in.location = IF Sent(body.location) THEN LocationPatch(body.location) ELSE Absent
  BY DEF updateTripInputFromOAS
<1>3. in.name \in Texts \cup {Absent}
  BY <1>1, <1>2 DEF NullAsAbsent, Optional
<1>4. Sent(body.location) => body.location \in Place /\ LocationPatch(body.location) # Absent
  <2>1. Sent(body.location) => body.location \in Place
    BY <1>1 DEF Sent, Optional
  <2> QED
    BY <2>1, PatchOfPlace
<1> QED
  BY <1>1, <1>2, <1>3, <1>4

-----------------------------------------------------------------------------
(* The service's edit *)

\* Where an edit finds no location it starts from one that says nothing.
Current(l) == IF l = Null THEN NowhereYet ELSE l

LEMMA CurrentIsLocation ==
  ASSUME NEW l \in Nullable(Location)
  PROVE  Current(l) \in Location
<1>1. NowhereYet \in Location
  <2>1. Blank \in Texts
    BY TextsAssumption
  <2>2. Null \in Nullable(Texts) /\ Null \in Nullable(Int)
    BY DEF Nullable
  <2> QED
    BY <2>1, <2>2 DEF NowhereYet, Location
<1> QED
  BY <1>1 DEF Current, Nullable

\* Null coordinates clear both, coordinates that are there override one by one.
LEMMA PatchedLocation ==
  ASSUME NEW old \in Nullable(Location), NEW p \in LocationInput,
         NEW l, l = applyLocationPatch(old, p)
  PROVE  /\ l \in Location /\ l # Null
         /\ l.label = IF Sent(p.label) THEN p.label ELSE Current(old).label
         /\ l.address = applyNullable(Current(old).address, p.address)
         /\ l.latitude = applyNullable(IF p.clear THEN Null ELSE Current(old).latitude, p.latitude)
         /\ l.longitude = applyNullable(IF p.clear THEN Null ELSE Current(old).longitude, p.longitude)
<1>1. PICK cur \in Location : cur = Current(old)
  BY CurrentIsLocation
<1>2. /\ cur.label \in Texts /\ cur.address \in Nullable(Texts)
      /\ cur.latitude \in Nullable(Int) /\ cur.longitude \in Nullable(Int)
  BY DEF Location
<1>3. /\ p.label \in Optional(Texts) /\ p.address \in Optional(Texts)
      /\ p.latitude \in Optional(Int) /\ p.longitude \in Optional(Int)
  BY DEF LocationInput
<1>a. (IF Sent(p.label) THEN p.label ELSE cur.label) \in Texts
  BY <1>2, <1>3 DEF Optional, Sent
<1>b. applyNullable(cur.address, p.address) \in Nullable(Texts)
  BY <1>2, <1>3 DEF applyNullable, Optional, Nullable
<1>c. /\ applyNullable(IF p.clear THEN Null ELSE cur.latitude, p.latitude) \in Nullable(Int)
      /\ applyNullable(IF p.clear THEN Null ELSE cur.longitude, p.longitude) \in Nullable(Int)
  BY <1>2, <1>3 DEF applyNullable, Optional, Nullable
<1>4. PICK b \in Texts, a \in Nullable(Texts), x \in Nullable(Int), y \in Nullable(Int) :
        /\ b = IF Sent(p.label) THEN p.label ELSE cur.label
        /\ a = applyNullable(cur.address, p.address)
        /\ x = applyNullable(IF p.clear THEN Null ELSE cur.latitude, p.latitude)
        /\ y = applyNullable(IF p.clear THEN Null ELSE cur.longitude, p.longitude)
  BY <1>a, <1>b, <1>c
<1>5. l = [label |-> b, address |-> a, latitude |-> x, longitude |-> y]
  BY <1>1, <1>4 DEF applyLocationPatch, Current
<1>6. l \in Location
  BY <1>5 DEF Location
<1>7. l # Null
  BY <1>6, NullAssumption
<1> QED
  BY <1>1, <1>4, <1>5, <1>6, <1>7

LEMMA EditedFields ==
  ASSUME NEW t, NEW in, NEW new, new = Edited(t, in)
  PROVE  /\ new.name = applyNullable(t.name, in.name)
         /\ new.description = applyNullable(t.description, in.description)
         /\ new.startDate = applyNullable(t.startDate, in.startDate)
         /\ new.endDate = applyNullable(t.endDate, in.endDate)
         /\ new.location = IF in.location = Absent THEN t.location
                           ELSE applyLocationPatch(t.location, in.location)
BY DEF Edited

\* The artifacts of an edit that names none but the trip's own.
LEMMA EditedArtifacts ==
  ASSUME NEW t \in Trip, NEW in, in.artifacts \in Optional(Seq(ArtifactIDs)), ~NamesUnknown(t, in),
         NEW new, new = Edited(t, in)
  PROVE  /\ new.artifacts = IF in.artifacts = Absent THEN t.artifacts
                            ELSE IF in.artifacts = Null THEN <<>> ELSE in.artifacts
         /\ new.artifacts \in Seq(ToSet(t.artifacts))
<1>1. PICK a, ids : a = t.artifacts /\ ids = in.artifacts
  OBVIOUS
<1>2. a \in Seq(ToSet(Artifacts)) /\ a \in Seq(ToSet(a))
  BY <1>1, ArtifactsOfTrip DEF ToSet
<1>3. Null # Absent
  BY NullAssumption
<1>4. CASE ids = Absent
  <2>1. new.artifacts = a
    BY <1>1, <1>3, <1>4 DEF Edited
  <2> QED
    BY <1>1, <1>2, <1>4, <2>1
<1>5. CASE ids = Null
  <2>1. new.artifacts = <<>>
    BY <1>1, <1>3, <1>5 DEF Edited
  <2> QED
    BY <1>1, <1>3, <1>5, <2>1
<1>6. CASE Sent(ids)
  <2>1. ids \in Seq(ArtifactIDs) /\ ToSet(ids) \subseteq ToSet(a)
    BY <1>1, <1>6 DEF NamesUnknown, Sent, Optional
  <2>2. new.artifacts = reorderArtifactsByID(a, ids)
    BY <1>1, <1>6 DEF Edited, Sent
  <2>3. \A i \in DOMAIN ids : ids[i] \in ToSet(a)
    BY <2>1 DEF ToSet
  <2>4. reorderArtifactsByID(a, ids) = [i \in DOMAIN ids |-> ids[i]]
    BY <2>3 DEF reorderArtifactsByID
  <2>5. [i \in DOMAIN ids |-> ids[i]] = ids
    BY <2>1
  <2>6. ids \in Seq(ToSet(a))
    BY <2>1, <2>3
  <2> QED
    BY <1>1, <1>6, <2>2, <2>4, <2>5, <2>6 DEF Sent
<1> QED
  BY <1>4, <1>5, <1>6 DEF Sent

\* An edit that names a trip and none but its own artifacts makes a trip of a trip.
LEMMA EditedIsTrip ==
  ASSUME NEW t \in Trip, NEW body \in UpdateTripRequest,
         NEW in, in = updateTripInputFromOAS(body),
         in.name # Blank, ~NamesUnknown(t, in), NEW new, new = Edited(t, in)
  PROVE  new \in Trip /\ ToSet(new.artifacts) \subseteq ToSet(t.artifacts)
<1>1. /\ in.name \in Texts \cup {Absent} /\ in.description \in Optional(Texts)
      /\ in.startDate \in Optional(Nat) /\ in.endDate \in Optional(Nat)
      /\ in.artifacts \in Optional(Seq(ArtifactIDs))
      /\ in.location # Absent => in.location \in LocationInput
  BY InputOfBody, PatchOfPlace
<1>2. /\ t.name \in Texts \ {Blank} /\ t.description \in Nullable(Texts)
      /\ t.startDate \in Nullable(Nat) /\ t.endDate \in Nullable(Nat)
      /\ t.location \in Nullable(Location)
  BY DEF Trip
<1>3. /\ new.name \in Texts \ {Blank} /\ new.description \in Nullable(Texts)
      /\ new.startDate \in Nullable(Nat) /\ new.endDate \in Nullable(Nat)
  BY <1>1, <1>2, EditedFields DEF applyNullable, Optional, Nullable
<1>4. new.location \in Nullable(Location)
  <2>1. CASE in.location = Absent
    BY <1>2, <2>1, EditedFields
  <2>2. CASE in.location # Absent
    <3>1. PICK l : l = applyLocationPatch(t.location, in.location)
      OBVIOUS
    <3>2. l \in Location
      BY <1>1, <1>2, <2>2, <3>1, PatchedLocation
    <3> QED
      BY <2>2, <3>1, <3>2, EditedFields DEF Nullable
  <2> QED
    BY <2>1, <2>2
<1>5. new.artifacts \in Seq(ToSet(t.artifacts)) /\ ToSet(t.artifacts) \subseteq ToSet(Artifacts)
  BY <1>1, EditedArtifacts, ArtifactsOfTrip
<1>6. new.artifacts \in Seq(ToSet(Artifacts)) /\ ToSet(new.artifacts) \subseteq ToSet(t.artifacts)
  <2>1. PICK a : a = new.artifacts
    OBVIOUS
  <2>2. a \in Seq(ToSet(t.artifacts)) /\ \A i \in DOMAIN a : a[i] \in ToSet(t.artifacts)
    BY <1>5, <2>1
  <2>3. a \in Seq(ToSet(Artifacts))
    BY <1>5, <2>2
  <2>4. ToSet(a) \subseteq ToSet(t.artifacts)
    BY <2>2 DEF ToSet
  <2> QED
    BY <2>1, <2>3, <2>4
<1>7. \E n, d, s, e, l, a : new = [name |-> n, description |-> d, startDate |-> s, endDate |-> e,
                                   location |-> l, artifacts |-> a]
  BY DEF Edited
<1> QED
  BY <1>3, <1>4, <1>6, <1>7 DEF Trip

-----------------------------------------------------------------------------
(* The invariant: what is stored is a trip that the backend accepted *)

Accepted(t) == ~EndsBeforeStart(t) /\ SaveAccepted(backend, t)

TripInv ==
  /\ backend \in {"memory", "postgres"} /\ campaign \in Campaigns
  /\ \E t \in Trip : Accepted(t) /\ stored = Stored(backend, t)

LEMMA DraftIsTrip == Draft \in Trip
<1>1. Null \in Nullable(Texts) /\ Null \in Nullable(Nat) /\ Null \in Nullable(Location)
  BY DEF Nullable
<1>2. Artifacts \in Seq(ToSet(Artifacts))
  BY ArtifactsAssumption DEF ToSet
<1> QED
  BY <1>1, <1>2, TextsAssumption DEF Draft, Trip

LEMMA TripInit == Init => TripInv
<1> SUFFICES ASSUME Init
             PROVE  TripInv
  OBVIOUS
<1>1. Accepted(Draft)
  BY DEF Draft, Accepted, SaveAccepted, RowAccepted, EndsBeforeStart, LoneCoordinate
<1> QED
  BY <1>1, DraftIsTrip DEF Init, TripInv

\* What a request finds is as good as what was stored.
LEMMA ContentIsTrip ==
  ASSUME TripInv
  PROVE  Content \in Trip /\ Accepted(Content)
<1>1. PICK t \in Trip : Accepted(t) /\ stored = Stored(backend, t)
  BY DEF TripInv
<1>2. backend \in {"memory", "postgres"}
  BY DEF TripInv
<1>3. Content = Kept(backend, t)
  BY <1>1, <1>2, TripComesBack DEF Content
<1>4. /\ Content \in Trip
      /\ Content.startDate = t.startDate /\ Content.endDate = t.endDate
      /\ Content.location = t.location
  BY <1>2, <1>3, KeptIsTrip
<1>5. Accepted(Content)
  BY <1>1, <1>4 DEF Accepted, SaveAccepted, RowAccepted, EndsBeforeStart
<1> QED
  BY <1>4, <1>5

\* The three ends of a request.
Refused(body) ==
  /\ Invalid(Content, updateTripInputFromOAS(body))
  /\ Tell(body, 422, Absent) /\ UNCHANGED <<backend, campaign, stored>>

Failed(body, new) ==
  /\ new \in Trip /\ ~EndsBeforeStart(new) /\ ~SaveAccepted(backend, new)
  /\ Tell(body, 500, Absent) /\ UNCHANGED <<backend, campaign, stored>>

Saved(body, new) ==
  /\ new \in Trip /\ Accepted(new)
  /\ Tell(body, 200, tripDetailsFromDomain(new))
  /\ stored' = Stored(backend, new) /\ UNCHANGED <<backend, campaign>>

LEMMA UpdateEnds ==
  ASSUME TripInv, NEW body \in UpdateTripRequest, UpdateTrip(body),
         NEW in, in = updateTripInputFromOAS(body), NEW new, new = Edited(Content, in)
  PROVE  \/ Refused(body)
         \/ ~Invalid(Content, in) /\ (Failed(body, new) \/ Saved(body, new))
<1>1. \/ Refused(body)
      \/ /\ ~Invalid(Content, in) /\ ~SaveAccepted(backend, new)
         /\ Tell(body, 500, Absent) /\ UNCHANGED <<backend, campaign, stored>>
      \/ /\ ~Invalid(Content, in) /\ SaveAccepted(backend, new)
         /\ Tell(body, 200, tripDetailsFromDomain(new))
         /\ stored' = Stored(backend, new) /\ UNCHANGED <<backend, campaign>>
  BY DEF UpdateTrip, Content, Refused
<1>2. ASSUME ~Invalid(Content, in)
      PROVE  new \in Trip /\ ~EndsBeforeStart(new)
  <2>1. in.name # Blank /\ ~NamesUnknown(Content, in) /\ ~EndsBeforeStart(new)
    BY <1>2 DEF Invalid
  <2> QED
    BY <2>1, ContentIsTrip, EditedIsTrip
<1> QED
  BY <1>1, <1>2 DEF Failed, Saved, Accepted

\* Requests come from the campaign.
LEMMA NextUpdates ==
  ASSUME TripInv, Next
  PROVE  \E body \in UpdateTripRequest : UpdateTrip(body)
BY BodiesAssumption DEF Next, TripInv

LEMMA TripStep == TripInv /\ [Next]_vars => TripInv'
<1> SUFFICES ASSUME TripInv, [Next]_vars
             PROVE  TripInv'
  OBVIOUS
<1>1. CASE UNCHANGED <<backend, campaign, stored>>
  BY <1>1 DEF TripInv, Accepted, SaveAccepted
<1>2. CASE Next
  <2>1. PICK body \in UpdateTripRequest : UpdateTrip(body)
    BY <1>2, NextUpdates
  <2>2. PICK in, new : in = updateTripInputFromOAS(body) /\ new = Edited(Content, in)
    OBVIOUS
  <2>3. CASE Saved(body, new)
    BY <2>3 DEF Saved, TripInv, Accepted, SaveAccepted
  <2> QED
    BY <1>1, <2>1, <2>2, <2>3, UpdateEnds DEF Refused, Failed
<1> QED
  BY <1>1, <1>2 DEF vars

\* A trip's artifact is read back from a position of its own.
LEMMA InvTypes == TripInv => Content \in Trip /\ DOMAIN stored = DOMAIN Draft
<1> SUFFICES ASSUME TripInv
             PROVE  DOMAIN stored = DOMAIN Draft
  BY ContentIsTrip
<1>1. PICK t \in Trip : stored = Stored(backend, t)
  BY DEF TripInv
<1>2. DOMAIN t = DOMAIN Draft
  BY DEF Trip, Draft
<1> QED
  BY <1>1, <1>2 DEF Stored

LEMMA InvPositions ==
  ASSUME TripInv, backend = "postgres", NEW a \in ToSet(Artifacts), NEW b \in ToSet(Artifacts),
         a # b, stored.artifacts[a] # 0
  PROVE  stored.artifacts[a] # stored.artifacts[b]
<1>1. PICK t \in Trip : stored = Stored(backend, t)
  BY DEF TripInv
<1>2. PICK s : s = t.artifacts
  OBVIOUS
<1>3. s \in Seq(ToSet(Artifacts))
  BY <1>2, ArtifactsOfTrip
<1>4. stored.artifacts = syncArtifacts(s)
  BY <1>1, <1>2 DEF Stored, Trip
<1>5. stored.artifacts[a] = LastAt(s, a) /\ stored.artifacts[b] = LastAt(s, b)
  BY <1>4 DEF syncArtifacts, LastAt
<1>6. s[LastAt(s, a)] = a
  BY <1>3, <1>5, LastPosition
<1>7. LastAt(s, b) # 0 => s[LastAt(s, b)] = b
  BY <1>3, LastPosition
<1> QED
  BY <1>5, <1>6, <1>7

StatusInv == answer.status \in {0, 200, 422, 500}

LEMMA StatusStep == StatusInv /\ [Next]_vars => StatusInv'
BY DEF StatusInv, Next, UpdateTrip, Tell, vars

\* What a backend holds is of the right kind, and in Postgres each artifact has
\* a position of its own, whatever artifacts the requests name and repeat.
THEOREM TypeCorrect == Spec => []TypeOK
<1>1. Init => StatusInv
  BY DEF Init, NoAnswer, StatusInv
<1>2. TripInv /\ StatusInv => TypeOK
  <2> SUFFICES ASSUME TripInv, StatusInv
               PROVE  TypeOK
    OBVIOUS
  <2>1. backend \in {"memory", "postgres"} /\ campaign \in Campaigns
    BY DEF TripInv
  <2>2. Content \in Trip /\ DOMAIN stored = DOMAIN Draft
    BY InvTypes
  <2>3. backend = "postgres" =>
          \A a, b \in ToSet(Artifacts) :
            a # b /\ stored.artifacts[a] # 0 => stored.artifacts[a] # stored.artifacts[b]
    BY InvPositions
  <2> QED
    BY <2>1, <2>2, <2>3 DEF TypeOK, StatusInv
<1> QED
  BY <1>1, <1>2, TripInit, TripStep, StatusStep, PTL DEF Spec

-----------------------------------------------------------------------------
(* Dates *)

\* On either backend the stored trip never ends before it starts, whatever
\* requests set, clear or move its dates.
THEOREM StoredDatesOrdered == Spec => []DatesOrdered
<1>1. TripInv => DatesOrdered
  BY ContentIsTrip DEF DatesOrdered, Accepted
<1> QED
  BY <1>1, TripInit, TripStep, PTL DEF Spec

-----------------------------------------------------------------------------
(* Failures *)

\* A request with a coordinate of its own for each, or none for either, leaves
\* a pair a pair.
LEMMA PatchedInPairs ==
  ASSUME NEW old \in Nullable(Location), ~LoneCoordinate(old), NEW p \in LocationInput,
         TreatedAlike(p.latitude, p.longitude), NEW l, l = applyLocationPatch(old, p)
  PROVE  ~LoneCoordinate(l)
<1>1. Current(old).latitude = Null <=> Current(old).longitude = Null
  BY DEF Current, LoneCoordinate, NowhereYet
<1>2. /\ l.latitude = applyNullable(IF p.clear THEN Null ELSE Current(old).latitude, p.latitude)
      /\ l.longitude = applyNullable(IF p.clear THEN Null ELSE Current(old).longitude, p.longitude)
  BY PatchedLocation
<1> QED
  BY <1>1, <1>2, NullAssumption DEF applyNullable, TreatedAlike, Sent, LoneCoordinate

LEMMA FailureIsLone ==
  ASSUME TripInv, NEW body \in UpdateTripRequest, NEW new,
         new = Edited(Content, updateTripInputFromOAS(body)), Failed(body, new)
  PROVE  /\ backend = "postgres"
         /\ Sent(body.location) /\ Sent(body.location.coordinates)
         /\ ~TreatedAlike(body.location.coordinates.latitude, body.location.coordinates.longitude)
<1>1. PICK in : in = updateTripInputFromOAS(body)
  OBVIOUS
<1>2. backend = "postgres" /\ LoneCoordinate(new.location)
  BY DEF Failed, SaveAccepted, RowAccepted
<1>3. PICK old \in Nullable(Location) : old = Content.location
  BY ContentIsTrip DEF Trip
<1>4. ~LoneCoordinate(old)
  BY <1>2, <1>3, ContentIsTrip DEF Accepted, SaveAccepted, RowAccepted
<1>5. in.location # Absent /\ new.location = applyLocationPatch(old, in.location)
  BY <1>1, <1>2, <1>3, <1>4, EditedFields
<1>6. /\ Sent(body.location) /\ body.location \in Place
      /\ in.location = LocationPatch(body.location)
  BY <1>1, <1>5, InputOfBody
<1>7. PICK p \in LocationInput : p = in.location
  BY <1>6, PatchOfPlace
<1>8. ~TreatedAlike(p.latitude, p.longitude)
  BY <1>2, <1>3, <1>4, <1>5, <1>7, PatchedInPairs
<1>9. /\ p.latitude = IF Sent(body.location.coordinates) THEN body.location.coordinates.latitude ELSE Absent
      /\ p.longitude = IF Sent(body.location.coordinates) THEN body.location.coordinates.longitude ELSE Absent
  BY <1>6, <1>7, PatchOfPlace
<1> QED
  BY <1>2, <1>6, <1>8, <1>9 DEF TreatedAlike

LEMMA FailureStep ==
  TripInv /\ OnlyLoneCoordinatesFail /\ [Next]_vars => OnlyLoneCoordinatesFail'
<1> SUFFICES ASSUME TripInv, OnlyLoneCoordinatesFail, [Next]_vars
             PROVE  OnlyLoneCoordinatesFail'
  OBVIOUS
<1>1. CASE UNCHANGED vars
  BY <1>1 DEF vars, OnlyLoneCoordinatesFail, TreatedAlike, Sent
<1>2. CASE Next
  <2>1. PICK body \in UpdateTripRequest : UpdateTrip(body)
    BY <1>2, NextUpdates
  <2>2. PICK new : new = Edited(Content, updateTripInputFromOAS(body))
    OBVIOUS
  <2>3. CASE answer'.status # 500
    BY <2>3 DEF OnlyLoneCoordinatesFail
  <2>4. CASE answer'.status = 500
    <3>1. Failed(body, new)
      BY <2>1, <2>2, <2>4, UpdateEnds DEF Refused, Saved, Tell
    <3>2. answer'.body = body /\ UNCHANGED backend
      BY <3>1 DEF Failed, Tell
    <3> QED
      BY <2>2, <3>1, <3>2, FailureIsLone DEF OnlyLoneCoordinatesFail, TreatedAlike, Sent
  <2> QED
    BY <2>3, <2>4
<1> QED
  BY <1>1, <1>2

\* A constraint of the database refuses no request but one that treats one
\* coordinate otherwise than the other.
THEOREM FailuresAreLone == Spec => []OnlyLoneCoordinatesFail
<1>1. Init => OnlyLoneCoordinatesFail
  BY DEF Init, NoAnswer, OnlyLoneCoordinatesFail
<1> QED
  BY <1>1, TripInit, TripStep, FailureStep, PTL DEF Spec

-----------------------------------------------------------------------------
(* What a client is told *)

LEMMA ToldIsStored ==
  ASSUME TripInv, NEW body, NEW new, Saved(body, new)
  PROVE  AnswerIsStored'
<1>1. /\ answer'.details = tripDetailsFromDomain(new) /\ new \in Trip
      /\ UNCHANGED backend /\ stored' = Stored(backend, new)
  BY DEF Saved, Tell
<1>2. backend \in {"memory", "postgres"}
  BY DEF TripInv
<1>3. Content' = Kept(backend, new)
  BY <1>1, <1>2, TripComesBack DEF Content
<1>4. answer'.details.artifacts = new.artifacts
  BY <1>1 DEF tripDetailsFromDomain
<1>5. CASE backend = "memory" \/ IsInjective(new.artifacts)
  <2>1. Content' = new
    BY <1>1, <1>2, <1>3, <1>5, KeptIsTrip DEF Kept
  <2> QED
    BY <1>1, <2>1 DEF AnswerIsStored
<1>6. CASE backend = "postgres" /\ ~IsInjective(new.artifacts)
  BY <1>1, <1>4, <1>6 DEF AnswerIsStored
<1> QED
  BY <1>2, <1>5, <1>6

LEMMA AnswerStep == TripInv /\ AnswerIsStored /\ [Next]_vars => AnswerIsStored'
<1> SUFFICES ASSUME TripInv, AnswerIsStored, [Next]_vars
             PROVE  AnswerIsStored'
  OBVIOUS
<1>1. CASE UNCHANGED vars
  BY <1>1 DEF vars, AnswerIsStored, Content
<1>2. CASE Next
  <2>1. PICK body \in UpdateTripRequest : UpdateTrip(body)
    BY <1>2, NextUpdates
  <2>2. PICK in, new : in = updateTripInputFromOAS(body) /\ new = Edited(Content, in)
    OBVIOUS
  <2>3. CASE Saved(body, new)
    BY <2>3, ToldIsStored
  <2>4. CASE Refused(body) \/ Failed(body, new)
    BY <2>4 DEF Refused, Failed, Tell, AnswerIsStored
  <2> QED
    BY <2>1, <2>2, <2>3, <2>4, UpdateEnds
<1> QED
  BY <1>1, <1>2

\* What a client is told after a PATCH is what its next GET shows, unless it
\* named an artifact twice to Postgres.
THEOREM AnswersAreStored == Spec => []AnswerIsStored
<1>1. Init => AnswerIsStored
  BY DEF Init, NoAnswer, AnswerIsStored
<1> QED
  BY <1>1, TripInit, TripStep, AnswerStep, PTL DEF Spec

\* A location that a client was shown and sends back patches nothing.
LEMMA EchoedLocation ==
  ASSUME NEW l \in Location, NEW shown, shown = locationFromDomain(l)
  PROVE  /\ Sent(shown)
         /\ LocationPatch(shown) # Absent
         /\ applyLocationPatch(l, LocationPatch(shown)) = l
<1>1. /\ l.label \in Texts /\ l.address \in Nullable(Texts)
      /\ l.latitude \in Nullable(Int) /\ l.longitude \in Nullable(Int) /\ l # Null
  BY NullAssumption DEF Location
<1>2. PICK b \in Optional(Texts), a \in Optional(Texts), x \in Optional(Int), y \in Optional(Int) :
        b = l.label /\ a = nullable(l.address) /\ x = nullable(l.latitude) /\ y = nullable(l.longitude)
  <2>1. l.label \in Optional(Texts) /\ nullable(l.address) \in Optional(Texts)
    BY <1>1 DEF nullable, Nullable, Optional
  <2>2. nullable(l.latitude) \in Optional(Int) /\ nullable(l.longitude) \in Optional(Int)
    BY <1>1 DEF nullable, Nullable, Optional
  <2> QED
    BY <2>1, <2>2
<1>3. [latitude |-> x, longitude |-> y] \in Point
  BY <1>2 DEF Point
<1>4. PICK at \in Optional(Point) :
        at = IF l.latitude = Null /\ l.longitude = Null THEN Absent
             ELSE [latitude |-> x, longitude |-> y]
  BY <1>3 DEF Optional
<1>5. shown = [label |-> b, address |-> a, coordinates |-> at]
  BY <1>2, <1>4 DEF locationFromDomain
<1>6. shown \in Place /\ Sent(shown)
  <2>1. shown \in Place
    BY <1>5 DEF Place
  <2> QED
    BY <2>1, NullAssumption DEF Sent
<1>7. PICK p \in LocationInput : p = LocationPatch(shown)
  BY <1>6, PatchOfPlace
<1>8. at # Null /\ (Sent(at) <=> ~(l.latitude = Null /\ l.longitude = Null))
  <2>1. [latitude |-> x, longitude |-> y] \notin {Absent, Null}
    BY <1>3, NullAssumption
  <2> QED
    BY <1>4, <2>1, NullAssumption DEF Sent
<1>9. /\ p.label = b /\ p.address = a /\ ~p.clear
      /\ p.latitude = x /\ p.longitude = y
  <2>1. shown.label = b /\ shown.address = a /\ shown.coordinates = at
    BY <1>5
  <2>2. p.label = b /\ p.address = a /\ ~p.clear
    BY <1>6, <1>7, <1>8, <2>1, PatchOfPlace
  <2>3. /\ p.latitude = IF Sent(at) THEN at.latitude ELSE Absent
        /\ p.longitude = IF Sent(at) THEN at.longitude ELSE Absent
    BY <1>6, <1>7, <2>1, PatchOfPlace
  <2>4. Sent(at) => at.latitude = x /\ at.longitude = y
    BY <1>4, <1>8
  <2>5. ~Sent(at) => x = Absent /\ y = Absent
    BY <1>2, <1>8 DEF nullable
  <2> QED
    BY <2>2, <2>3, <2>4, <2>5
<1>10. PICK r : r = applyLocationPatch(l, p)
  OBVIOUS
<1>11. Current(l) = l /\ l \in Nullable(Location)
  BY <1>1 DEF Current, Nullable
<1>12. /\ r \in Location
       /\ r.label = IF Sent(b) THEN b ELSE l.label
       /\ r.address = applyNullable(l.address, a)
       /\ r.latitude = applyNullable(l.latitude, x)
       /\ r.longitude = applyNullable(l.longitude, y)
  BY <1>9, <1>10, <1>11, PatchedLocation
<1>13. /\ r.label = l.label /\ r.address = l.address
       /\ r.latitude = l.latitude /\ r.longitude = l.longitude
  BY <1>1, <1>2, <1>12, NullAssumption DEF Sent, applyNullable, nullable, Nullable
<1>14. r = l
  BY <1>12, <1>13 DEF Location
<1> QED
  BY <1>6, <1>7, <1>10, <1>14, PatchOfPlace

\* No more does the whole content.
LEMMA EchoKeeps ==
  ASSUME NEW t \in Trip, ~EndsBeforeStart(t),
         NEW in, in = updateTripInputFromOAS(tripDetailsFromDomain(t))
  PROVE  ~Invalid(t, in) /\ Edited(t, in) = t
<1>1. /\ t.name \in Texts \ {Blank} /\ t.description \in Nullable(Texts)
      /\ t.startDate \in Nullable(Nat) /\ t.endDate \in Nullable(Nat)
      /\ t.location \in Nullable(Location) /\ t.artifacts \in Seq(ArtifactIDs)
  BY ArtifactsOfTrip DEF Trip
<1>2. PICK d : d = tripDetailsFromDomain(t)
  OBVIOUS
<1>3. /\ d.name = nullable(t.name) /\ d.description = nullable(t.description)
      /\ d.startDate = nullable(t.startDate) /\ d.endDate = nullable(t.endDate)
      /\ d.location = IF t.location = Null THEN Absent ELSE locationFromDomain(t.location)
      /\ d.artifacts = t.artifacts
  BY <1>2 DEF tripDetailsFromDomain
<1>4. /\ in.name = NullAsAbsent(d.name) /\ in.description = d.description
      /\ in.startDate = d.startDate /\ in.endDate = d.endDate
      /\ in.location = IF Sent(d.location) THEN LocationPatch(d.location) ELSE Absent
      /\ in.artifacts = d.artifacts
  BY <1>2 DEF updateTripInputFromOAS
<1>5. PICK new : new = Edited(t, in)
  OBVIOUS
<1>6. in.name = t.name /\ new.name = t.name
  BY <1>1, <1>3, <1>4, <1>5, EditedFields, NullAssumption DEF nullable, NullAsAbsent, applyNullable
<1>7. new.description = t.description
  BY <1>1, <1>3, <1>4, <1>5, EditedFields, NullAssumption DEF nullable, applyNullable, Nullable
<1>8. new.startDate = t.startDate /\ new.endDate = t.endDate
  BY <1>1, <1>3, <1>4, <1>5, EditedFields, NullAssumption DEF nullable, applyNullable, Nullable
<1>9. new.location = t.location
  <2>1. CASE t.location = Null
    BY <1>3, <1>4, <1>5, <2>1, EditedFields DEF Sent
  <2>2. CASE t.location \in Location
    <3>1. d.location = locationFromDomain(t.location)
      BY <1>3, <2>2, NullAssumption
    <3>2. /\ in.location = LocationPatch(d.location) /\ in.location # Absent
          /\ applyLocationPatch(t.location, in.location) = t.location
      BY <1>4, <2>2, <3>1, EchoedLocation
    <3> QED
      BY <1>5, <3>2, EditedFields
  <2> QED
    BY <1>1, <2>1, <2>2 DEF Nullable
<1>10. Sent(in.artifacts) /\ in.artifacts = t.artifacts /\ ~NamesUnknown(t, in)
  BY <1>1, <1>3, <1>4, NullAssumption DEF Sent, NamesUnknown
<1>11. new.artifacts = t.artifacts
  BY <1>1, <1>5, <1>10, EditedArtifacts DEF Sent, Optional
<1>12. new \in Trip
  <2>1. \E n, e, s, f, l, a : new = [name |-> n, description |-> e, startDate |-> s, endDate |-> f,
                                     location |-> l, artifacts |-> a]
    BY <1>5 DEF Edited
  <2> QED
    BY <1>6, <1>7, <1>8, <1>9, <1>11, <2>1 DEF Trip
<1>13. new = t
  BY <1>6, <1>7, <1>8, <1>9, <1>11, <1>12 DEF Trip
<1>14. ~Invalid(t, in)
  BY <1>1, <1>5, <1>6, <1>10, <1>13 DEF Invalid
<1> QED
  BY <1>5, <1>13, <1>14

\* A client that sends back the content it was shown changes nothing, whatever
\* the content has become.
THEOREM EchoesChangeNothing == Spec => []EchoChangesNothing
<1>1. TripInv => EchoChangesNothing
  BY ContentIsTrip, EchoKeeps DEF Accepted, EchoChangesNothing
<1> QED
  BY <1>1, TripInit, TripStep, PTL DEF Spec

-----------------------------------------------------------------------------
(* The document *)

LEMMA FlatFields ==
  ASSUME NEW t, NEW d, d = Flat(t)
  PROVE  /\ d = [f \in Document!Fields |-> d[f]]
         /\ d.name = t.name /\ d.description = t.description
         /\ d.startDate = t.startDate /\ d.endDate = t.endDate
         /\ d.artifacts = Distinct(t.artifacts)
BY DEF Flat, Document!Fields

LEMMA FlatLocation ==
  ASSUME NEW t, NEW d, d = Flat(t), NEW l, l = Current(t.location)
  PROVE  /\ d.located = IF t.location = Null THEN 0 ELSE 1
         /\ d.label = l.label /\ d.address = l.address
         /\ d.latitude = l.latitude /\ d.longitude = l.longitude
BY DEF Flat, Current

\* What a body asks for, in terms of the input it becomes.
LEMMA AskedFields ==
  ASSUME NEW body \in UpdateTripRequest, NEW ask, ask = Asked(body),
         NEW in, in = updateTripInputFromOAS(body)
  PROVE  /\ ask.name = in.name /\ ask.description = in.description
         /\ ask.startDate = in.startDate /\ ask.endDate = in.endDate
         /\ ask.artifacts = IF in.artifacts = Absent THEN Absent
                            ELSE IF in.artifacts = Null THEN <<>> ELSE Distinct(in.artifacts)
<1>1. /\ ask.name = UnlessNull(body.name) /\ ask.description = body.description
      /\ ask.startDate = body.startDate /\ ask.endDate = body.endDate
      /\ ask.artifacts = CASE body.artifacts = Absent -> Absent
                           [] body.artifacts = Null   -> <<>>
                           [] OTHER -> Distinct(body.artifacts)
  BY DEF Asked
<1>2. /\ in.name = NullAsAbsent(body.name) /\ in.description = body.description
      /\ in.startDate = body.startDate /\ in.endDate = body.endDate
      /\ in.artifacts = body.artifacts
  BY InputOfBody
<1> QED
  BY <1>1, <1>2, NullAssumption DEF UnlessNull, NullAsAbsent

LEMMA AskedLocation ==
  ASSUME NEW body \in UpdateTripRequest, NEW ask, ask = Asked(body)
  PROVE  /\ ~Sent(body.location) =>
              /\ ask.located = Absent /\ ask.label = Absent /\ ask.address = Absent
              /\ ask.latitude = Absent /\ ask.longitude = Absent
         /\ Sent(body.location) => \E p \in LocationInput :
              /\ p = LocationPatch(body.location)
              /\ p.clear => p.latitude = Absent /\ p.longitude = Absent
              /\ ask.located = 1 /\ ask.label = UnlessNull(p.label) /\ ask.address = p.address
              /\ ask.latitude = IF p.clear THEN Null ELSE p.latitude
              /\ ask.longitude = IF p.clear THEN Null ELSE p.longitude
<1>1. CASE ~Sent(body.location)
  BY <1>1, NullAssumption DEF Asked, UnlessNull
<1>2. CASE Sent(body.location)
  <2>1. PICK l \in Place : l = body.location
    BY <1>2, InputOfBody
  <2>2. PICK p \in LocationInput : p = LocationPatch(l)
    BY PatchOfPlace
  <2>3. /\ p.label = l.label /\ p.address = l.address /\ p.clear = (l.coordinates = Null)
        /\ p.latitude = IF Sent(l.coordinates) THEN l.coordinates.latitude ELSE Absent
        /\ p.longitude = IF Sent(l.coordinates) THEN l.coordinates.longitude ELSE Absent
    BY <2>2, PatchOfPlace
  <2>4. PICK at : at = CASE l.coordinates = Absent -> [latitude |-> Absent, longitude |-> Absent]
                         [] l.coordinates = Null   -> [latitude |-> Null, longitude |-> Null]
                         [] OTHER                  -> l.coordinates
    OBVIOUS
  <2>5. /\ ask.located = 1 /\ ask.label = UnlessNull(l.label) /\ ask.address = l.address
        /\ ask.latitude = at.latitude /\ ask.longitude = at.longitude
    BY <1>2, <2>1, <2>4 DEF Asked
  <2>6. /\ at.latitude = IF l.coordinates = Null THEN Null ELSE p.latitude
        /\ at.longitude = IF l.coordinates = Null THEN Null ELSE p.longitude
    BY <2>3, <2>4, NullAssumption DEF Sent
  <2> QED
    BY <1>2, <2>1, <2>2, <2>3, <2>5, <2>6 DEF Sent
<1> QED
  BY <1>1, <1>2

\* The document with a body's fields in it, and the edit of the trip, field by
\* field; the artifacts apart.
LEMMA OverriddenFields ==
  ASSUME NEW d, NEW ask, NEW o, o = Document!Overridden(d, ask)
  PROVE  /\ o = [f \in Document!Fields |-> o[f]]
         /\ \A f \in Document!Fields : o[f] = applyNullable(d[f], ask[f])
BY DEF Document!Overridden, applyNullable

LEMMA OverriddenScalars ==
  ASSUME NEW t \in Trip, NEW body \in UpdateTripRequest,
         NEW in, in = updateTripInputFromOAS(body), NEW new, new = Edited(t, in),
         NEW o, o = Document!Overridden(Flat(t), Asked(body))
  PROVE  /\ o.name = new.name /\ o.description = new.description
         /\ o.startDate = new.startDate /\ o.endDate = new.endDate
         /\ o.artifacts = applyNullable(Distinct(t.artifacts), Asked(body).artifacts)
<1>1. PICK d, ask : d = Flat(t) /\ ask = Asked(body)
  OBVIOUS
<1>2. /\ o.name = applyNullable(d.name, ask.name)
      /\ o.description = applyNullable(d.description, ask.description)
      /\ o.startDate = applyNullable(d.startDate, ask.startDate)
      /\ o.endDate = applyNullable(d.endDate, ask.endDate)
      /\ o.artifacts = applyNullable(d.artifacts, ask.artifacts)
  BY <1>1, OverriddenFields DEF Document!Fields
<1>3. /\ d.name = t.name /\ d.description = t.description
      /\ d.startDate = t.startDate /\ d.endDate = t.endDate
      /\ d.artifacts = Distinct(t.artifacts)
  BY <1>1, FlatFields
<1>4. /\ ask.name = in.name /\ ask.description = in.description
      /\ ask.startDate = in.startDate /\ ask.endDate = in.endDate
  BY <1>1, AskedFields
<1> QED
  BY <1>1, <1>2, <1>3, <1>4, EditedFields

LEMMA OverriddenLocation ==
  ASSUME NEW t \in Trip, NEW body \in UpdateTripRequest,
         NEW in, in = updateTripInputFromOAS(body), NEW new, new = Edited(t, in),
         NEW o, o = Document!Overridden(Flat(t), Asked(body)), NEW n, n = Flat(new)
  PROVE  /\ o.located = n.located /\ o.label = n.label /\ o.address = n.address
         /\ o.latitude = n.latitude /\ o.longitude = n.longitude
<1>1. PICK d, ask : d = Flat(t) /\ ask = Asked(body)
  OBVIOUS
<1>2. /\ o.located = applyNullable(d.located, ask.located)
      /\ o.label = applyNullable(d.label, ask.label)
      /\ o.address = applyNullable(d.address, ask.address)
      /\ o.latitude = applyNullable(d.latitude, ask.latitude)
      /\ o.longitude = applyNullable(d.longitude, ask.longitude)
  BY <1>1, OverriddenFields DEF Document!Fields
<1>3. PICK old \in Nullable(Location), cur \in Location : old = t.location /\ cur = Current(old)
  BY CurrentIsLocation DEF Trip
<1>4. /\ d.located = IF old = Null THEN 0 ELSE 1
      /\ d.label = cur.label /\ d.address = cur.address
      /\ d.latitude = cur.latitude /\ d.longitude = cur.longitude
  BY <1>1, <1>3, FlatLocation
<1>5. CASE ~Sent(body.location)
  <2>1. new.location = old
    BY <1>3, <1>5, InputOfBody, EditedFields
  <2>2. /\ n.located = IF old = Null THEN 0 ELSE 1
        /\ n.label = cur.label /\ n.address = cur.address
        /\ n.latitude = cur.latitude /\ n.longitude = cur.longitude
    BY <1>3, <2>1 DEF Flat, Current
  <2>3. /\ ask.located = Absent /\ ask.label = Absent /\ ask.address = Absent
        /\ ask.latitude = Absent /\ ask.longitude = Absent
    BY <1>1, <1>5, AskedLocation
  <2> QED
    BY <1>2, <1>4, <2>2, <2>3 DEF applyNullable
<1>6. CASE Sent(body.location)
  <2>1. PICK p \in LocationInput :
          /\ p = LocationPatch(body.location)
          /\ p.clear => p.latitude = Absent /\ p.longitude = Absent
          /\ ask.located = 1 /\ ask.label = UnlessNull(p.label) /\ ask.address = p.address
          /\ ask.latitude = IF p.clear THEN Null ELSE p.latitude
          /\ ask.longitude = IF p.clear THEN Null ELSE p.longitude
    BY <1>1, <1>6, AskedLocation
  <2>2. PICK r : r = applyLocationPatch(old, p)
    OBVIOUS
  <2>3. new.location = r
    BY <1>3, <1>6, <2>1, <2>2, InputOfBody, EditedFields
  <2>4. /\ r # Null
        /\ r.label = IF Sent(p.label) THEN p.label ELSE cur.label
        /\ r.address = applyNullable(cur.address, p.address)
        /\ r.latitude = applyNullable(IF p.clear THEN Null ELSE cur.latitude, p.latitude)
        /\ r.longitude = applyNullable(IF p.clear THEN Null ELSE cur.longitude, p.longitude)
    BY <1>3, <2>2, PatchedLocation
  <2>5. /\ n.located = 1 /\ n.label = r.label /\ n.address = r.address
        /\ n.latitude = r.latitude /\ n.longitude = r.longitude
    BY <2>3, <2>4, FlatLocation DEF Current
  <2>6. o.located = 1
    BY <1>2, <2>1, NullAssumption DEF applyNullable
  <2>7. o.label = r.label /\ o.address = r.address
    BY <1>2, <1>4, <2>1, <2>4, NullAssumption DEF applyNullable, UnlessNull, Sent
  <2>8. o.latitude = r.latitude /\ o.longitude = r.longitude
    BY <1>2, <1>4, <2>1, <2>4, NullAssumption DEF applyNullable
  <2> QED
    BY <2>5, <2>6, <2>7, <2>8
<1> QED
  BY <1>5, <1>6

LEMMA OverriddenArtifacts ==
  ASSUME NEW t \in Trip, NEW body \in UpdateTripRequest,
         NEW in, in = updateTripInputFromOAS(body), NEW new, new = Edited(t, in),
         NEW a, a = applyNullable(Distinct(t.artifacts), Asked(body).artifacts)
  PROVE  /\ ~NamesUnknown(t, in) => a = Distinct(new.artifacts)
         /\ NamesUnknown(t, in) => ~(ToSet(a) \subseteq ToSet(Distinct(t.artifacts)))
<1>1. PICK ids \in Optional(Seq(ArtifactIDs)) : ids = in.artifacts
  BY InputOfBody
<1>2. PICK s : s = t.artifacts
  OBVIOUS
<1>3. a = IF ids = Absent THEN Distinct(s)
          ELSE applyNullable(Distinct(s), IF ids = Null THEN <<>> ELSE Distinct(ids))
  BY <1>1, <1>2, AskedFields DEF applyNullable
<1>4. ToSet(Distinct(s)) = ToSet(s)
  BY <1>2, ArtifactsOfTrip, DistinctLists
<1>5. ASSUME ids \in Seq(ArtifactIDs)
      PROVE  a = Distinct(ids) /\ ToSet(a) = ToSet(ids) /\ Sent(ids)
  <2>1. Distinct(ids) \in Seq(ToSet(ids)) /\ ToSet(Distinct(ids)) = ToSet(ids)
    BY <1>5, DistinctLists
  <2>2. ToSet(ids) \subseteq ArtifactIDs
    BY <1>5 DEF ToSet
  <2>3. PICK q : q = Distinct(ids)
    OBVIOUS
  <2>4. q \in Seq(ArtifactIDs)
    BY <2>1, <2>2, <2>3
  <2>5. q # Absent /\ Sent(ids)
    BY <1>5, <2>4, NullAssumption DEF Sent
  <2> QED
    BY <1>3, <2>1, <2>3, <2>5 DEF applyNullable, Sent
<1>6. CASE NamesUnknown(t, in)
  BY <1>1, <1>2, <1>4, <1>5, <1>6 DEF NamesUnknown, Sent, Optional
<1>7. CASE ~NamesUnknown(t, in)
  <2>1. new.artifacts = IF ids = Absent THEN s ELSE IF ids = Null THEN <<>> ELSE ids
    BY <1>1, <1>2, <1>7, EditedArtifacts
  <2>2. CASE ids = Null
    <3>1. <<>> \in Seq(ArtifactIDs) /\ IsInjective(<<>>)
      BY DEF IsInjective
    <3>2. Distinct(<<>>) = <<>> /\ <<>> # Absent
      BY <3>1, DistinctKeeps, NullAssumption
    <3> QED
      BY <1>3, <1>7, <2>1, <2>2, <3>2, NullAssumption DEF applyNullable
  <2>3. CASE ids = Absent
    BY <1>3, <1>7, <2>1, <2>3
  <2>4. CASE ids \in Seq(ArtifactIDs)
    BY <1>5, <1>7, <2>1, <2>4 DEF Sent
  <2> QED
    BY <1>1, <2>2, <2>3, <2>4 DEF Optional
<1> QED
  BY <1>6, <1>7

\* A body that names none but the trip's own artifacts makes of the document
\* what the edit makes of the trip.
LEMMA OverriddenIsFlat ==
  ASSUME NEW t \in Trip, NEW body \in UpdateTripRequest,
         NEW in, in = updateTripInputFromOAS(body), ~NamesUnknown(t, in),
         NEW new, new = Edited(t, in)
  PROVE  Document!Overridden(Flat(t), Asked(body)) = Flat(new)
<1>1. PICK o, n : o = Document!Overridden(Flat(t), Asked(body)) /\ n = Flat(new)
  OBVIOUS
<1>2. /\ o.name = n.name /\ o.description = n.description
      /\ o.startDate = n.startDate /\ o.endDate = n.endDate
  BY <1>1, OverriddenScalars, FlatFields
<1>3. /\ o.located = n.located /\ o.label = n.label /\ o.address = n.address
      /\ o.latitude = n.latitude /\ o.longitude = n.longitude
  BY <1>1, OverriddenLocation
<1>4. o.artifacts = n.artifacts
  BY <1>1, OverriddenScalars, OverriddenArtifacts, FlatFields
<1>5. \A f \in Document!Fields : o[f] = n[f]
  BY <1>2, <1>3, <1>4 DEF Document!Fields
<1>6. o = [f \in Document!Fields |-> o[f]] /\ n = [f \in Document!Fields |-> n[f]]
  BY <1>1, OverriddenFields, FlatFields
<1> QED
  BY <1>1, <1>5, <1>6

\* The document of what comes back from a backend is that of what was stored.
LEMMA KeptIsFlat ==
  ASSUME NEW b \in {"memory", "postgres"}, NEW t \in Trip
  PROVE  Flat(Kept(b, t)) = Flat(t)
<1>1. PICK k : k = Kept(b, t)
  OBVIOUS
<1>2. /\ k.name = t.name /\ k.description = t.description
      /\ k.startDate = t.startDate /\ k.endDate = t.endDate /\ k.location = t.location
      /\ Distinct(k.artifacts) = Distinct(t.artifacts)
  BY <1>1, KeptIsTrip
<1> QED
  BY <1>1, <1>2 DEF Flat

LEMMA SavedIsPatch ==
  ASSUME TripInv, NEW body \in UpdateTripRequest,
         NEW in, in = updateTripInputFromOAS(body), NEW new, new = Edited(Content, in),
         ~Invalid(Content, in), Saved(body, new)
  PROVE  Document!Patch
<1>1. PICK d, n : d = Flat(Content) /\ n = Flat(new)
  OBVIOUS
<1>2. Content \in Trip /\ new \in Trip /\ ~EndsBeforeStart(new)
  BY ContentIsTrip DEF Saved, Accepted
<1>3. ~NamesUnknown(Content, in)
  BY DEF Invalid
<1>4. Document!Overridden(d, Asked(body)) = n
  BY <1>1, <1>2, <1>3, OverriddenIsFlat
<1>5. Flat(Content') = n
  <2>1. Content' = Kept(backend, new) /\ backend \in {"memory", "postgres"}
    BY <1>2, TripComesBack DEF Saved, Content, TripInv
  <2> QED
    BY <1>1, <1>2, <2>1, KeptIsFlat
<1>6. /\ n.name = new.name /\ n.startDate = new.startDate /\ n.endDate = new.endDate
      /\ n.artifacts = Distinct(new.artifacts) /\ d.artifacts = Distinct(Content.artifacts)
  BY <1>1, FlatFields
<1>7. /\ new.name # Blank
      /\ new.startDate \in Nullable(Nat) /\ new.endDate \in Nullable(Nat)
  BY <1>2 DEF Trip
<1>8. ToSet(n.artifacts) \subseteq ToSet(d.artifacts)
  <2>1. in.name # Blank /\ ToSet(new.artifacts) \subseteq ToSet(Content.artifacts)
    BY <1>2, <1>3, EditedIsTrip DEF Invalid
  <2>2. /\ ToSet(Distinct(new.artifacts)) = ToSet(new.artifacts)
        /\ ToSet(Distinct(Content.artifacts)) = ToSet(Content.artifacts)
    BY <1>2, ArtifactsOfTrip, DistinctLists
  <2> QED
    BY <1>6, <2>1, <2>2
<1>9. Document!Sound(d, n)
  <2>1. Null \notin {n.startDate, n.endDate} => n.startDate <= n.endDate
    BY <1>2, <1>6, <1>7 DEF EndsBeforeStart, Nullable
  <2>2. n.name # Blank
    BY <1>6, <1>7
  <2> QED
    BY <1>8, <2>1, <2>2 DEF Document!Sound, Document!ToSet, ToSet
<1>10. answer'.status = 200 /\ answer'.body = body
  BY DEF Saved, Tell
<1> QED
  BY <1>1, <1>4, <1>5, <1>9, <1>10 DEF Document!Patch

LEMMA RefusedIsPatch ==
  ASSUME TripInv, NEW body \in UpdateTripRequest, Refused(body)
  PROVE  Document!Patch
<1>1. PICK in, new, d, o :
        /\ in = updateTripInputFromOAS(body) /\ new = Edited(Content, in)
        /\ d = Flat(Content) /\ o = Document!Overridden(d, Asked(body))
  OBVIOUS
<1>2. Content \in Trip
  BY ContentIsTrip
<1>3. /\ o.name = new.name /\ o.startDate = new.startDate /\ o.endDate = new.endDate
      /\ o.artifacts = applyNullable(Distinct(Content.artifacts), Asked(body).artifacts)
  BY <1>1, <1>2, OverriddenScalars
<1>4. Invalid(Content, in)
  BY <1>1 DEF Refused
<1>5. ~Document!Sound(d, o)
  <2>1. CASE in.name = Blank
    <3>1. Blank # Absent
      BY TextsAssumption, NullAssumption
    <3>2. new.name = Blank
      BY <1>1, <2>1, <3>1, EditedFields DEF applyNullable
    <3> QED
      BY <1>3, <3>2 DEF Document!Sound
  <2>2. CASE NamesUnknown(Content, in)
    <3>1. ~(ToSet(o.artifacts) \subseteq ToSet(Distinct(Content.artifacts)))
      BY <1>1, <1>2, <1>3, <2>2, OverriddenArtifacts
    <3>2. d.artifacts = Distinct(Content.artifacts)
      BY <1>1, FlatFields
    <3>3. ~(ToSet(o.artifacts) \subseteq ToSet(d.artifacts))
      BY <3>1, <3>2
    <3> QED
      BY <3>3 DEF Document!Sound, Document!ToSet, ToSet
  <2>3. CASE EndsBeforeStart(new)
    <3>1. /\ in.startDate \in Optional(Nat) /\ in.endDate \in Optional(Nat)
          /\ Content.startDate \in Nullable(Nat) /\ Content.endDate \in Nullable(Nat)
      BY <1>1, <1>2, InputOfBody DEF Trip
    <3>2. new.startDate \in Nullable(Nat) /\ new.endDate \in Nullable(Nat)
      BY <1>1, <3>1, EditedFields DEF applyNullable, Optional, Nullable
    <3> QED
      BY <1>3, <2>3, <3>2 DEF Document!Sound, EndsBeforeStart, Nullable
  <2> QED
    BY <1>1, <1>4, <2>1, <2>2, <2>3 DEF Invalid
<1>6. answer'.status = 422 /\ answer'.body = body /\ Content' = Content
  BY DEF Refused, Tell, Content
<1> QED
  BY <1>1, <1>5, <1>6 DEF Document!Patch

LEMMA FailedIsPatch ==
  ASSUME TripInv, NEW body \in UpdateTripRequest,
         NEW in, in = updateTripInputFromOAS(body), NEW new, new = Edited(Content, in),
         ~Invalid(Content, in), Failed(body, new)
  PROVE  Document!Patch
<1>1. PICK d, n : d = Flat(Content) /\ n = Flat(new)
  OBVIOUS
<1>2. Document!Overridden(d, Asked(body)) = n
  BY <1>1, ContentIsTrip, OverriddenIsFlat DEF Invalid
<1>3. LoneCoordinate(new.location)
  BY DEF Failed, SaveAccepted, RowAccepted
<1>4. PICK l : l = Current(new.location)
  OBVIOUS
<1>5. n.latitude = l.latitude /\ n.longitude = l.longitude /\ l = new.location
  BY <1>1, <1>3, <1>4, FlatLocation DEF Current, LoneCoordinate
<1>6. Document!Lone(n)
  BY <1>3, <1>5 DEF Document!Lone, LoneCoordinate
<1>7. answer'.status = 500 /\ answer'.body = body /\ Content' = Content
  BY DEF Failed, Tell, Content
<1> QED
  BY <1>1, <1>2, <1>6, <1>7 DEF Document!Patch

LEMMA DocumentInit == Init => Document!Init
<1> SUFFICES ASSUME Init
             PROVE  Document!Init
  OBVIOUS
<1>1. PICK c, d, b : c = Content /\ d = Flat(c) /\ b = answer.body
  OBVIOUS
<1>2. c \in Trip /\ ~EndsBeforeStart(c)
  BY <1>1, TripInit, ContentIsTrip DEF Accepted
<1>3. Document!Sound(d, d)
  BY <1>1, <1>2, FlatFields DEF Document!Sound, Trip, EndsBeforeStart, Nullable
<1>4. /\ b.name = Absent /\ b.description = Absent /\ b.startDate = Absent
      /\ b.endDate = Absent /\ b.location = Absent /\ b.artifacts = Absent
      /\ answer.status = 0
  BY <1>1 DEF Init, NoAnswer, Draft
<1>5. Asked(b) = Document!Nothing
  BY <1>4, NullAssumption DEF Asked, Sent, UnlessNull, Document!Nothing, Document!Fields
<1> QED
  BY <1>1, <1>3, <1>4, <1>5 DEF Document!Init

\* On either backend a PATCH does to the content what the document's contract
\* says: it overrides the fields it names and no other, or leaves the document
\* alone because the result would not be sound.
THEOREM ContentImplementsDocument == Spec => ImplementsDocument
<1>1. TripInv /\ [Next]_vars => [Document!Patch]_(Document!vars)
  <2> SUFFICES ASSUME TripInv, [Next]_vars
               PROVE  Document!Patch \/ UNCHANGED Document!vars
    OBVIOUS
  <2>1. CASE UNCHANGED vars
    BY <2>1 DEF vars, Document!vars, Content
  <2>2. CASE Next
    <3>1. PICK body \in UpdateTripRequest : UpdateTrip(body)
      BY <2>2, NextUpdates
    <3>2. PICK in, new : in = updateTripInputFromOAS(body) /\ new = Edited(Content, in)
      OBVIOUS
    <3> QED
      BY <3>1, <3>2, UpdateEnds, SavedIsPatch, RefusedIsPatch, FailedIsPatch
  <2> QED
    BY <2>1, <2>2
<1> QED
  BY <1>1, DocumentInit, TripInit, TripStep, PTL DEF Spec, ImplementsDocument, Document!Spec

=============================================================================
