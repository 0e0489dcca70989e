-------------------------- MODULE StakePools_proofs --------------------------
(***************************************************************************)
(* Theorems about StakePools, for any numbers of pools, epochs and         *)
(* certificates.                                                           *)
(***************************************************************************)
EXTENDS StakePools, FiniteSetTheorems, SequenceTheorems, WellFoundedInduction, TLAPS

USE PoolsAssumption

LEMMA UpToIsFinite ==
  ASSUME NEW n \in Nat
  PROVE  IsFiniteSet(1..n) /\ Cardinality(1..n) = n
<1>1. 1 \in Int /\ n \in Int
  OBVIOUS
<1>2. IsFiniteSet(1..n) /\ Cardinality(1..n) = IF 1 > n THEN 0 ELSE n - 1 + 1
  BY <1>1, FS_Interval
<1>3. QED
  BY <1>2

LEMMA PoolSets ==
  ASSUME NEW S \in SUBSET Pools
  PROVE  IsFiniteSet(S) /\ Cardinality(S) \in 0..NumPools
<1>1. IsFiniteSet(Pools) /\ Cardinality(Pools) = NumPools
  BY UpToIsFinite DEF Pools
<1>2. IsFiniteSet(S) /\ Cardinality(S) <= NumPools
  BY <1>1, FS_Subset
<1>3. Cardinality(S) \in Nat
  BY <1>2, FS_CardinalityType
<1>4. QED
  BY <1>2, <1>3

-----------------------------------------------------------------------------
(***************************************************************************)
(* Every set of pools can be put in ascending order: each at its rank.     *)
(***************************************************************************)
Below(S, p) == {q1 \in S : q1 <= p}

LEMMA RanksAre ==
  ASSUME NEW S \in SUBSET Pools, NEW p \in S
  PROVE  /\ Cardinality(Below(S, p)) \in 1..Cardinality(S)
         /\ \A r \in S : p < r => Cardinality(Below(S, p)) < Cardinality(Below(S, r))
<1>1. IsFiniteSet(S) /\ Cardinality(S) \in Nat
  BY PoolSets
<1>2. ASSUME NEW T \in SUBSET S, p \in T PROVE IsFiniteSet(T) /\ Cardinality(T) \in 1..Cardinality(S)
  <2>1. IsFiniteSet(T) /\ Cardinality(T) <= Cardinality(S)
    BY <1>1, FS_Subset
  <2>2. Cardinality(T) \in Nat /\ Cardinality(T) # 0
    BY <1>2, <2>1, FS_CardinalityType, FS_EmptySet
  <2>3. QED
    BY <1>1, <2>1, <2>2
<1>3. S \subseteq Nat
  BY DEF Pools
<1>4. Below(S, p) \in SUBSET S /\ p \in Below(S, p)
  BY <1>3 DEF Below
<1>5. ASSUME NEW r \in S, p < r PROVE Cardinality(Below(S, p)) < Cardinality(Below(S, r))
  <2>1. Below(S, p) \in SUBSET Below(S, r) /\ r \in Below(S, r) /\ r \notin Below(S, p) /\ p \in Below(S, r)
    <3>1. r \in Nat /\ p \in Nat /\ S \subseteq Nat
      BY <1>3
    <3>2. \A a \in S : a <= p => a <= r
      BY <1>5, <3>1
    <3>3. r <= r /\ ~(r <= p) /\ p <= r
      BY <1>5, <3>1
    <3>4. QED
      BY <3>2, <3>3 DEF Below
  <2>2. Below(S, r) \in SUBSET S
    BY DEF Below
  <2>3. IsFiniteSet(Below(S, r)) /\ Cardinality(Below(S, r)) \in Nat
    <3> DEFINE V == Below(S, r)
    <3>1. V \in SUBSET Pools
      BY <2>2
    <3> HIDE DEF V
    <3>2. IsFiniteSet(V) /\ Cardinality(V) \in Nat
      BY <3>1, PoolSets
    <3>3. QED
      BY <3>2 DEF V
  <2>4. /\ Cardinality(Below(S, p)) <= Cardinality(Below(S, r))
        /\ Cardinality(Below(S, p)) # Cardinality(Below(S, r))
    <3> DEFINE U == Below(S, p)
               V == Below(S, r)
    <3>1. U \in SUBSET V /\ IsFiniteSet(V) /\ U # V
      BY <2>1, <2>3
    <3> HIDE DEF U, V
    <3>2. Cardinality(U) <= Cardinality(V) /\ Cardinality(V) # Cardinality(U)
      BY <3>1, FS_Subset
    <3>3. QED
      BY <3>2 DEF U, V
  <2>5. Cardinality(Below(S, p)) \in Nat
    BY <1>2, <1>4
  <2>6. QED
    BY <2>3, <2>4, <2>5
<1>6. QED
  BY <1>2, <1>4, <1>5

IsAscending(s, S) ==
  /\ s \in [1..Cardinality(S) -> S]
  /\ \A i, j \in 1..Cardinality(S) : i < j => s[i] < s[j]

LEMMA AscendingExists ==
  ASSUME NEW S \in SUBSET Pools
  PROVE  \E s : IsAscending(s, S)
<1> DEFINE n == Cardinality(S)
           rank == [p \in S |-> Cardinality(Below(S, p))]
           s == [k \in 1..n |-> CHOOSE p \in S : rank[p] = k]
<1>1. n \in Nat /\ IsFiniteSet(1..n) /\ Cardinality(1..n) = n /\ S \subseteq Nat
  BY PoolSets, UpToIsFinite DEF Pools
<1>2. rank \in Injection(S, 1..n)
  <2>1. rank \in [S -> 1..n]
    BY RanksAre
  <2>2. \A p, r \in S : rank[p] = rank[r] => p = r
    <3>1. \A p, r \in S : p < r => rank[p] < rank[r]
      BY RanksAre
    <3>2. \A p \in S : rank[p] \in Nat
      BY <1>1, <2>1
    <3> HIDE DEF rank
    <3>3. QED
      BY <1>1, <3>1, <3>2
  <2>3. QED
    BY <2>1, <2>2 DEF Injection, IsInjective
<1>3. rank \in Surjection(S, 1..n)
  <2> HIDE DEF rank
  <2>1. QED
    BY <1>1, <1>2, FS_Injection
<1>4. \A k \in 1..n : \E p \in S : rank[p] = k
  <2> HIDE DEF rank
  <2>1. QED
    BY <1>3 DEF Surjection
<1>5. \A k \in 1..n : s[k] \in S /\ rank[s[k]] = k
  <2> HIDE DEF rank
  <2>1. QED
    BY <1>4
<1>6. \A p, r \in S : p < r => rank[p] < rank[r]
  BY RanksAre
<1>7. s \in [1..n -> S]
  <2> HIDE DEF rank
  <2>1. QED
    BY <1>5
<1>8. ASSUME NEW i \in 1..n, NEW j \in 1..n, i < j PROVE s[i] < s[j]
  <2> HIDE DEF s, rank
  <2>1. s[i] \in Nat /\ s[j] \in Nat /\ s[i] \in S /\ s[j] \in S
    BY <1>1, <1>5
  <2>2. ~(s[j] < s[i])
    BY <1>1, <1>5, <1>6, <1>8, <2>1
  <2>3. s[i] # s[j]
    BY <1>5, <1>8
  <2>4. QED
    BY <2>1, <2>2, <2>3
<1>9. IsAscending(s, S)
  BY <1>7, <1>8 DEF IsAscending
<1>10. QED
  BY <1>9

LEMMA AscendingIs ==
  ASSUME NEW S \in SUBSET Pools
  PROVE  /\ IsAscending(Ascending(S), S)
         /\ \A p \in S : \E i \in 1..Cardinality(S) : Ascending(S)[i] = p
<1> DEFINE n == Cardinality(S)
           A == Ascending(S)
<1>1. \E s \in [1..n -> S] : \A i, j \in DOMAIN s : i < j => s[i] < s[j]
  BY AscendingExists DEF IsAscending
<1>2. A \in [1..n -> S] /\ \A i, j \in DOMAIN A : i < j => A[i] < A[j]
  BY <1>1 DEF Ascending
<1> HIDE DEF A
<1>3. IsAscending(A, S)
  BY <1>2 DEF IsAscending
<1>4. n \in Nat /\ IsFiniteSet(1..n) /\ Cardinality(1..n) = n /\ S \subseteq Nat /\ IsFiniteSet(S)
  BY PoolSets, UpToIsFinite DEF Pools
<1>5. A \in Injection(1..n, S)
  <2>1. ASSUME NEW i \in 1..n, NEW j \in 1..n, A[i] = A[j] PROVE i = j
    <3>1. A[i] \in Nat /\ A[j] \in Nat
      BY <1>2, <1>4
    <3>2. ~(i < j) /\ ~(j < i)
      BY <1>2, <2>1, <3>1
    <3>3. QED
      BY <1>4, <3>2
  <2>2. QED
    BY <1>2, <2>1 DEF Injection, IsInjective
<1>6. A \in Surjection(1..n, S)
  BY <1>4, <1>5, FS_Injection
<1>7. QED
  BY <1>3, <1>6 DEF Surjection, A

-----------------------------------------------------------------------------
(***************************************************************************)
(* A page of the pools in ascending order.                                 *)
(***************************************************************************)
LEMMA AscendingFacts ==
  ASSUME NEW S \in SUBSET Pools
  PROVE  LET A == Ascending(S)
             n == Cardinality(S)
         IN  /\ n \in Nat /\ n <= NumPools
             /\ A \in Seq(S) /\ Len(A) = n /\ DOMAIN A = 1..n
             /\ \A i \in 1..n : A[i] \in S /\ A[i] \in Nat
             /\ \A i, j \in 1..n : i < j => A[i] < A[j]
             /\ \A p \in S : \E i \in 1..n : A[i] = p
<1> DEFINE A == Ascending(S)
           n == Cardinality(S)
<1>1. n \in Nat /\ n <= NumPools /\ S \subseteq Nat
  <2>1. n \in 0..NumPools
    BY PoolSets
  <2> HIDE DEF n
  <2>2. QED
    BY <2>1 DEF Pools
<1>2. A \in [1..n -> S] /\ (\A i, j \in 1..n : i < j => A[i] < A[j])
  BY AscendingIs DEF IsAscending
<1>3. \A p \in S : \E i \in 1..n : A[i] = p
  BY AscendingIs
<1> HIDE DEF A, n
<1>4. A \in Seq(S) /\ Len(A) = n /\ DOMAIN A = 1..n /\ (\A i \in 1..n : A[i] \in S /\ A[i] \in Nat)
  <2>1. DOMAIN A = 1..n /\ \A i \in 1..n : A[i] \in S
    BY <1>2
  <2>2. A \in Seq(S)
    BY <1>1, <1>2
  <2>3. Len(A) = n
    BY <1>1, <2>1, <2>2
  <2>4. QED
    BY <1>1, <2>1, <2>2, <2>3
<1>5. QED
  BY <1>1, <1>2, <1>3, <1>4 DEF A, n

Before(S, x) == {p \in S : p < x}

LEMMA PageIs ==
  ASSUME NEW S \in SUBSET Pools, NEW offset \in 0..NumPools, NEW limit \in Pools,
         NEW s, s = Page(Ascending(S), offset, limit)
  PROVE  /\ s \in Seq(S) /\ Len(s) <= limit
         /\ \A n, m \in DOMAIN s : n < m => s[n] < s[m]
         /\ s # << >> => /\ Cardinality(Before(S, s[1])) = offset
                         /\ Len(s) = limit \/ \A p \in S : p <= Last(s)
<1> DEFINE A == Ascending(S)
           n == Cardinality(S)
           m == IF offset + limit < n THEN offset + limit ELSE n
<1>1. /\ n \in Nat /\ Len(A) = n
      /\ \A i \in 1..n : A[i] \in S /\ A[i] \in Nat
      /\ \A i, j \in 1..n : i < j => A[i] < A[j]
      /\ \A p \in S : \E i \in 1..n : A[i] = p
  BY AscendingFacts
<1>2. offset \in Nat /\ limit \in Nat
  BY DEF Pools
<1>3. s = SubSeq(A, offset + 1, m)
  BY <1>1 DEF Page
<1> HIDE DEF A, n
<1>4. m \in Int /\ m <= n /\ m <= offset + limit
  BY <1>1, <1>2
<1>5. /\ s \in Seq(S)
      /\ Len(s) = IF offset + 1 <= m THEN m - (offset + 1) + 1 ELSE 0
      /\ \A i \in 1..(m - (offset + 1) + 1) : s[i] = A[offset + 1 + i - 1]
  <2>1. \A i \in (offset + 1)..m : A[i] \in S
    BY <1>1, <1>2, <1>4
  <2> HIDE DEF m
  <2>2. QED
    BY <1>2, <1>3, <1>4, <2>1, SubSeqProperties
<1> HIDE DEF m
<1>6. /\ Len(s) \in Nat /\ Len(s) <= limit /\ DOMAIN s = 1..Len(s)
      /\ Len(s) > 0 => Len(s) = m - offset
  BY <1>2, <1>4, <1>5
<1>7. ASSUME NEW i \in DOMAIN s PROVE s[i] = A[offset + i] /\ offset + i \in 1..n
  <2>1. i \in Nat /\ i >= 1 /\ i <= Len(s) /\ Len(s) = m - offset
    BY <1>6
  <2>2. i \in 1..(m - (offset + 1) + 1) /\ offset + 1 + i - 1 = offset + i /\ offset + i \in 1..n
    <3>1. n \in Nat /\ m <= n /\ m \in Int /\ offset \in Nat
      BY <1>1, <1>2, <1>4
    <3>2. offset + i <= m
      BY <2>1, <3>1
    <3>3. QED
      BY <2>1, <3>1, <3>2
  <2>3. s[i] = A[offset + 1 + i - 1]
    BY <1>5, <2>2
  <2>4. QED
    BY <2>2, <2>3
<1>8. ASSUME NEW i \in DOMAIN s, NEW j \in DOMAIN s, i < j PROVE s[i] < s[j]
  <2>1. offset + i < offset + j
    BY <1>2, <1>6, <1>8
  <2>2. QED
    BY <1>1, <1>7, <2>1
<1>9. ASSUME s # << >> PROVE Cardinality(Before(S, s[1])) = offset
  <2> DEFINE B == Before(S, s[1])
             f == [i \in 1..offset |-> A[i]]
  <2>1. Len(s) > 0 /\ 1 \in DOMAIN s
    BY <1>5, <1>6, <1>9
  <2>2. s[1] = A[offset + 1] /\ offset + 1 \in 1..n
    BY <1>7, <2>1
  <2>3. \A i \in 1..offset : i \in 1..n /\ A[i] \in B
    BY <1>1, <1>2, <2>2 DEF Before
  <2>4. \A p \in B : \E i \in 1..offset : A[i] = p
    <3> SUFFICES ASSUME NEW p \in B PROVE \E i \in 1..offset : A[i] = p
      OBVIOUS
    <3>0. p \in S /\ p < A[offset + 1]
      BY <2>2 DEF Before
    <3>1. PICK i \in 1..n : A[i] = p
      BY <1>1, <3>0
    <3>2. ~(offset + 1 < i) /\ i # offset + 1
      <4>1. A[i] < A[offset + 1] /\ A[i] \in Nat /\ A[offset + 1] \in Nat
        BY <1>1, <2>2, <3>0, <3>1
      <4>2. QED
        BY <1>1, <2>2, <4>1
    <3>3. i \in 1..offset
      BY <1>1, <1>2, <3>2
    <3>4. QED
      BY <3>1, <3>3
  <2> HIDE DEF B
  <2>5. f \in Surjection(1..offset, B)
    BY <2>3, <2>4 DEF Surjection
  <2>6. f \in Injection(1..offset, B)
    <3>1. \A i, j \in 1..offset : A[i] = A[j] => i = j
      <4> SUFFICES ASSUME NEW i \in 1..offset, NEW j \in 1..offset, A[i] = A[j] PROVE i = j
        OBVIOUS
      <4>1. ~(i < j) /\ ~(j < i)
        BY <1>1, <2>3
      <4>2. QED
        BY <1>2, <4>1
    <3>2. QED
      BY <2>3, <3>1 DEF Injection, IsInjective
  <2> HIDE DEF f
  <2>7. IsFiniteSet(1..offset) /\ Cardinality(1..offset) = offset
    BY <1>2, UpToIsFinite
  <2>8. Cardinality(B) = Cardinality(1..offset)
    <3> DEFINE D == 1..offset
    <3>1. f \in Surjection(D, B) /\ f \in Injection(D, B) /\ IsFiniteSet(D)
      BY <2>5, <2>6, <2>7
    <3> HIDE DEF D
    <3>2. Cardinality(B) = Cardinality(D)
      BY <3>1, FS_Surjection
    <3>3. QED
      BY <3>2 DEF D
  <2>9. QED
    BY <2>7, <2>8 DEF B
<1>10. ASSUME s # << >>, Len(s) # limit, NEW p \in S PROVE p <= Last(s)
  <2>1. Len(s) > 0 /\ Len(s) \in DOMAIN s
    BY <1>5, <1>6, <1>10
  <2>2. m = n /\ offset + Len(s) = n
    <3>1. Len(s) = m - offset /\ n \in Nat
      BY <1>1, <1>6, <2>1
    <3>2. m = n
      BY <1>2, <1>10, <3>1 DEF m
    <3>3. QED
      BY <1>2, <3>1, <3>2
  <2>3. Last(s) = A[n] /\ n \in 1..n
    BY <1>7, <2>1, <2>2 DEF Last
  <2>4. PICK i \in 1..n : A[i] = p
    BY <1>1
  <2>5. i < n \/ i = n
    BY <1>1
  <2>6. QED
    BY <1>1, <2>3, <2>4, <2>5
<1>11. QED
  BY <1>5, <1>6, <1>8, <1>9, <1>10

-----------------------------------------------------------------------------
(***************************************************************************)
(* What the queries return.                                                *)
(***************************************************************************)
CertsOK == certs \in Seq(Certs) /\ Len(certs) <= MaxCerts

LEMMA CertFacts ==
  ASSUME CertsOK
  PROVE  /\ Len(certs) \in Nat /\ DOMAIN certs = 1..Len(certs) /\ DOMAIN certs \subseteq 1..MaxCerts
         /\ \A i \in DOMAIN certs : /\ certs[i] \in Certs /\ certs[i].pool \in Pools
                                    /\ certs[i].epoch \in Nat /\ certs[i].epoch \in 0..(MaxEpoch + 3)
                                    /\ certs[i].meta \in BOOLEAN
<1>1. Len(certs) \in Nat /\ DOMAIN certs = 1..Len(certs) /\ Len(certs) <= MaxCerts
  BY DEF CertsOK
<1>2. DOMAIN certs \subseteq 1..MaxCerts
  BY <1>1
<1>3. ASSUME NEW i \in DOMAIN certs
      PROVE  /\ certs[i] \in Certs /\ certs[i].pool \in Pools /\ certs[i].epoch \in 0..(MaxEpoch + 3)
             /\ certs[i].meta \in BOOLEAN
  <2>1. certs[i] \in Certs
    BY DEF CertsOK
  <2>2. QED
    BY <2>1 DEF Certs
<1>4. QED
  BY <1>1, <1>2, <1>3

\* The earliest epoch but 0 of some certificates.
LEMMA LeastExists ==
  ASSUME NEW T \in SUBSET Nat, T # {}
  PROVE  \E e \in T : \A f \in T : e <= f
<1> DEFINE R == OpToRel(<, Nat)
<1>1. R = {ss \in Nat \X Nat : ss[1] < ss[2]}
  BY Zenon DEF OpToRel
<1>2. IsWellFoundedOn(R, Nat)
  BY NatLessThanWellFounded
<1> HIDE DEF R
<1>3. PICK e \in T : \A f \in T : ~(<<f, e>> \in R)
  BY <1>2, WFMin
<1>4. \A f \in T : ~(f < e)
  BY <1>1, <1>3
<1>5. QED
  BY <1>4

LEMMA SinceIs ==
  ASSUME CertsOK, NEW S \in SUBSET DOMAIN certs
  PROVE  /\ Since(S) \in 0..(MaxEpoch + 3)
         /\ S # {} /\ (\A i \in S : certs[i].epoch > 0) =>
              \E i \in S : Since(S) = certs[i].epoch /\ \A j \in S : Since(S) <= certs[j].epoch
<1> DEFINE later == {certs[i].epoch : i \in S} \ {0}
<1>1. later \in SUBSET Nat /\ later \subseteq 0..(MaxEpoch + 3)
  BY CertFacts
<1>2. CASE later = {}
  <2>1. Since(S) = 0
    BY <1>2 DEF Since
  <2>2. \A i \in S : certs[i].epoch = 0
    BY <1>2
  <2>3. S # {} => ~(\A i \in S : certs[i].epoch > 0)
    BY <2>2
  <2>4. QED
    BY <2>1, <2>3
<1>3. CASE later # {}
  <2>1. Since(S) \in later /\ \A f \in later : Since(S) <= f
    <3>1. \E e \in later : \A f \in later : e <= f
      BY <1>1, <1>3, LeastExists
    <3>2. Since(S) = CHOOSE e \in later : \A f \in later : e <= f
      BY <1>3 DEF Since
    <3> HIDE DEF later
    <3>3. QED
      BY <3>1, <3>2
  <2>2. ASSUME \A i \in S : certs[i].epoch > 0
        PROVE  \E i \in S : Since(S) = certs[i].epoch /\ \A j \in S : Since(S) <= certs[j].epoch
    <3>1. \A j \in S : certs[j].epoch \in later
      BY <2>2
    <3>2. PICK i \in S : Since(S) = certs[i].epoch
      BY <2>1
    <3>3. QED
      BY <2>1, <3>1, <3>2
  <2>3. QED
    BY <1>1, <2>1, <2>2
<1>4. QED
  BY <1>2, <1>3

\* What is read of a pool's updates comes from updates of the tables.
LEMMA FoldedIs ==
  ASSUME CertsOK, NEW p, NEW e, NEW d \in Folded(p, e)
  PROVE  /\ UpToEpoch(p, e) # {}
         /\ d.terms \in Newest(UpToEpoch(p, e)) /\ d.terms \in 1..MaxCerts
         /\ d.since = Since(UpToEpoch(p, e)) /\ d.since \in 0..(MaxEpoch + 3)
         /\ d.url \in 0..MaxCerts
         /\ (\A i \in UpToEpoch(p, e) : References(i) \subseteq {i}) =>
              d.url \in IF {i \in UpToEpoch(p, e) : certs[i].meta} = {} THEN {NoUrl}
                        ELSE Newest({i \in UpToEpoch(p, e) : certs[i].meta})
<1> DEFINE S == UpToEpoch(p, e)
           withUrl == {i \in S : References(i) # {}}
           M == {i \in S : certs[i].meta}
           urls(last) == IF last \in withUrl THEN References(last) ELSE UNION {References(i) : i \in Newest(withUrl)}
<1>1. PICK last \in Newest(S) : \E u \in IF withUrl = {} THEN {NoUrl} ELSE urls(last) :
               d = [since |-> Since(S), terms |-> last, url |-> u]
  BY DEF Folded
<1>2. d.terms = last /\ d.since = Since(S) /\ d.url \in IF withUrl = {} THEN {NoUrl} ELSE urls(last)
  <2> HIDE DEF S, withUrl, urls
  <2>1. QED
    BY <1>1
<1>3. S \subseteq DOMAIN certs /\ (\A i \in S : certs[i].kind = "update") /\ last \in S
  BY DEF UpToEpoch, Updates, Newest
<1>4. \A i : References(i) \subseteq DOMAIN certs
  BY DEF References
<1>5. d.url \in {0} \cup DOMAIN certs
  <2>1. urls(last) \subseteq DOMAIN certs
    BY <1>4
  <2> HIDE DEF withUrl, urls
  <2>2. QED
    BY <1>2, <2>1 DEF NoUrl
<1>6. ASSUME \A i \in S : References(i) \subseteq {i}
      PROVE  d.url \in IF M = {} THEN {NoUrl} ELSE Newest(M)
  <2>1. \A i \in S : i \in References(i) <=> certs[i].meta
    BY <1>3 DEF References
  <2>2. withUrl = M /\ \A i \in M : References(i) = {i}
    BY <1>6, <2>1, CertFacts, <1>3
  <2>3. ASSUME M # {} PROVE urls(last) \subseteq Newest(M)
    <3>1. CASE last \in M
      <4>1. last \in Newest(M)
        <5>1. \A j \in S : certs[j].epoch <= certs[last].epoch
          BY DEF Newest
        <5>2. \A j \in M : certs[j].epoch <= certs[last].epoch
          BY <5>1
        <5> HIDE DEF M, S
        <5>3. QED
          BY <3>1, <5>2 DEF Newest
      <4>2. urls(last) = {last}
        BY <2>2, <3>1
      <4>3. QED
        BY <4>1, <4>2
    <3>2. CASE last \notin M
      <4>1. urls(last) = UNION {References(i) : i \in Newest(M)}
        BY <2>2, <3>2
      <4>2. \A i \in Newest(M) : References(i) = {i}
        BY <2>2 DEF Newest
      <4> HIDE DEF M, urls, S
      <4>3. QED
        BY <4>1, <4>2
    <3>3. QED
      BY <3>1, <3>2
  <2> HIDE DEF urls, M, S
  <2>4. QED
    BY <1>2, <2>2, <2>3
<1>7. Since(S) \in 0..(MaxEpoch + 3)
  <2> HIDE DEF S
  <2>1. QED
    BY <1>3, SinceIs
<1>8. last \in 1..MaxCerts /\ d.url \in 0..MaxCerts
  BY <1>3, <1>5, CertFacts
<1>9. QED
  BY <1>1, <1>2, <1>3, <1>6, <1>7, <1>8

\* A pool has at most one stake in each epoch.
LEMMA StakeRowsFit ==
  ASSUME stakes \subseteq Stakes, NEW p, NEW e
  PROVE  Cardinality(StakeRows(p, e)) \in 0..(MaxEpoch + 1)
<1> DEFINE R == StakeRows(p, e)
           f == [s \in R |-> s.epoch]
<1>1. \A s \in R : s \in Stakes /\ s.epoch \in Epochs /\ s.pool = p /\ s = [pool |-> s.pool, epoch |-> s.epoch]
  BY DEF StakeRows, Stakes
<1> HIDE DEF R
<1>2. f \in Injection(R, Epochs)
  <2>1. f \in [R -> Epochs]
    BY <1>1
  <2>2. \A s, r \in R : f[s] = f[r] => s = r
    BY <1>1
  <2>3. QED
    BY <2>1, <2>2 DEF Injection, IsInjective
<1>3. IsFiniteSet(Epochs) /\ Cardinality(Epochs) = MaxEpoch + 1
  <2>1. 0 \in Int /\ MaxEpoch \in Int /\ ~(0 > MaxEpoch) /\ MaxEpoch - 0 + 1 = MaxEpoch + 1
    OBVIOUS
  <2>2. IsFiniteSet(0..MaxEpoch) /\ Cardinality(0..MaxEpoch) = IF 0 > MaxEpoch THEN 0 ELSE MaxEpoch - 0 + 1
    BY <2>1, FS_Interval
  <2>3. QED
    BY <2>1, <2>2 DEF Epochs
<1>4. IsFiniteSet(R) /\ Cardinality(R) <= Cardinality(Epochs)
  BY <1>2, <1>3, FS_Injection
<1>5. Cardinality(R) \in Nat
  BY <1>4, FS_CardinalityType
<1>6. QED
  BY <1>3, <1>4, <1>5 DEF R

-----------------------------------------------------------------------------
(***************************************************************************)
(* Types: what a request holds at each of its queries.                     *)
(***************************************************************************)
Idle == q = [kind |-> "none", pc |-> "idle"]

Asked ==
  /\ q = [kind |-> q.kind, pc |-> q.pc, epoch |-> q.epoch, began |-> q.began, rolled |-> q.rolled,
          offset |-> q.offset, limit |-> q.limit, total |-> q.total, found |-> q.found, rows |-> q.rows]
  /\ q.kind \in {"list", "get"} /\ q.pc \in PCs
  /\ q.epoch \in Epochs \cup {Unknown} /\ q.began \in Epochs /\ q.rolled \in 0..MaxRollbacks
  /\ q.offset \in 0..NumPools /\ q.limit \in Pools
  /\ q.total \in 0..NumPools
  /\ q.found \in Seq(Pools) /\ Len(q.found) <= q.limit
  /\ q.rows \in Seq(Rows) /\ Len(q.rows) <= Len(q.found)

\* What the types do not say of a request.
Follows ==
  /\ q.rolled <= rollbacks /\ q.began <= epoch
  /\ q.pc # "epoch" => q.epoch # Unknown
  /\ q.pc \in {"epoch", "search"} => q.rows = << >>
  /\ q.pc = "epoch" /\ q.kind = "get" => Len(q.found) = 1
  /\ q.pc = "updates" => Len(q.rows) < Len(q.found)
  /\ q.pc = "stake" => q.rows # << >>
  /\ q.kind = "get" => q.pc \notin {"search", "thrown", "noAddress"}
  /\ q.kind = "list" => q.pc \notin {"notFound", "badUri"}

Tables == /\ epoch \in Epochs /\ CertsOK /\ stakes \subseteq Stakes /\ rollbacks \in 0..MaxRollbacks

TypeInv == Tables /\ (Idle \/ (Asked /\ Follows))

LEMMA TypeInvImplies ==
  ASSUME TypeInv
  PROVE  TypeOK
BY DEF TypeInv, Tables, CertsOK, Idle, Asked, TypeOK

\* What is registered or announced counts from a later epoch.
LEMMA CertsGrow ==
  ASSUME Tables, Register \/ Retire
  PROVE  /\ UNCHANGED <<epoch, stakes, rollbacks, q>>
         /\ Len(certs) < MaxCerts
         /\ \E c \in Certs : /\ certs' = Append(certs, c) /\ c.epoch > epoch
                             /\ c.kind = "retire" =>
                                  \E i \in Updates(c.pool) : \A j \in Retires(c.pool) : j < i \/ certs[j].epoch > epoch
<1>1. epoch \in Nat /\ epoch <= MaxEpoch /\ Len(certs) \in Nat /\ DOMAIN certs = 1..Len(certs)
  BY DEF Tables, Epochs, CertsOK
<1>2. CASE Register
  <2>1. PICK p \in Pools, m \in BOOLEAN, d \in {2, 3} : \E t \in {NewTx} \cup SameTx(p) :
              Certify([kind |-> "update", pool |-> p, epoch |-> epoch + d, meta |-> m, tx |-> t])
    BY <1>2 DEF Register
  <2>2. PICK t \in {NewTx} \cup SameTx(p) :
              Certify([kind |-> "update", pool |-> p, epoch |-> epoch + d, meta |-> m, tx |-> t])
    BY <2>1
  <2> DEFINE c == [kind |-> "update", pool |-> p, epoch |-> epoch + d, meta |-> m, tx |-> t]
  <2>3. Len(certs) < MaxCerts /\ certs' = Append(certs, c) /\ UNCHANGED <<epoch, stakes, rollbacks, q>>
    BY <2>2 DEF Certify
  <2>4. t \in (-1..MaxEpoch) \X (1..MaxCerts)
    <3>1. CASE t = NewTx
      BY <1>1, <2>3, <3>1 DEF NewTx
    <3>2. CASE t \in SameTx(p)
      <4>1. certs # << >> /\ t = certs[Len(certs)].tx
        BY <3>2 DEF SameTx, Last
      <4>2. Len(certs) \in DOMAIN certs
        BY <1>1, <4>1 DEF Tables, CertsOK
      <4>3. QED
        BY <4>1, <4>2, CertFacts DEF Tables, Certs
    <3>3. QED
      BY <3>1, <3>2
  <2>5. epoch + d \in 0..(MaxEpoch + 3) /\ epoch + d > epoch
    BY <1>1
  <2>6. c \in Certs
    BY <2>4, <2>5 DEF Certs
  <2>7. c.kind # "retire" /\ c.epoch > epoch
    BY <2>5
  <2>8. QED
    BY <2>3, <2>6, <2>7
<1>3. CASE Retire
  <2>1. PICK p \in Pools, e \in (epoch + 1)..MaxEpoch :
              /\ \E i \in Updates(p) : \A j \in Retires(p) : j < i \/ certs[j].epoch > epoch
              /\ Certify([kind |-> "retire", pool |-> p, epoch |-> e, meta |-> FALSE, tx |-> NewTx])
    BY <1>3 DEF Retire
  <2> DEFINE c == [kind |-> "retire", pool |-> p, epoch |-> e, meta |-> FALSE, tx |-> NewTx]
  <2>2. Len(certs) < MaxCerts /\ certs' = Append(certs, c) /\ UNCHANGED <<epoch, stakes, rollbacks, q>>
    BY <2>1 DEF Certify
  <2>3. NewTx \in (-1..MaxEpoch) \X (1..MaxCerts)
    BY <1>1, <2>2 DEF NewTx
  <2>4. e \in 0..(MaxEpoch + 3) /\ e > epoch
    BY <1>1
  <2>5. c \in Certs
    BY <2>3, <2>4 DEF Certs
  <2>6. QED
    BY <2>1, <2>2, <2>4, <2>5
<1>4. QED
  BY <1>2, <1>3

LEMMA TablesStep ==
  ASSUME Tables, Register \/ Retire \/ NewEpoch \/ Rollback
  PROVE  Tables' /\ q' = q /\ epoch' >= epoch /\ rollbacks' >= rollbacks
<1>1. epoch \in Nat /\ rollbacks \in Nat /\ certs \in Seq(Certs) /\ Len(certs) \in Nat /\ Len(certs) <= MaxCerts
  BY DEF Tables, Epochs, CertsOK
<1>2. CASE Register \/ Retire
  <2>1. PICK c \in Certs : certs' = Append(certs, c)
    BY <1>2, CertsGrow
  <2>2. UNCHANGED <<epoch, stakes, rollbacks, q>> /\ Len(certs) < MaxCerts
    BY <1>2, CertsGrow
  <2>3. certs' \in Seq(Certs) /\ Len(certs') <= MaxCerts
    BY <1>1, <2>1, <2>2
  <2>4. QED
    BY <1>1, <2>2, <2>3 DEF Tables, CertsOK
<1>3. CASE NewEpoch
  <2>1. epoch + 1 \in Epochs
    BY <1>3, <1>1 DEF NewEpoch, Epochs
  <2>2. stakes' \subseteq Stakes
    BY <1>3, <2>1 DEF NewEpoch, Tables, Stakes
  <2>3. QED
    BY <1>1, <1>3, <2>1, <2>2 DEF NewEpoch, Tables, CertsOK
<1>4. CASE Rollback
  <2>1. PICK n \in 0..(Len(certs) - 1) : certs' = SubSeq(certs, 1, n)
    BY <1>4 DEF Rollback
  <2>2. certs' \in Seq(Certs) /\ Len(certs') <= MaxCerts
    BY <1>1, <2>1
  <2>3. stakes' \subseteq Stakes
    BY <1>4 DEF Rollback, Tables
  <2>4. QED
    BY <1>1, <1>4, <2>2, <2>3 DEF Rollback, Tables, CertsOK
<1>5. QED
  BY <1>2, <1>3, <1>4

Queries == AskList \/ AskPool \/ ReadEpoch \/ SearchPools \/ ReadUpdates \/ ReadStake

LEMMA SearchedPools ==
  ASSUME NEW e
  PROVE  Search(e) \in SUBSET Pools
BY DEF Search

LEMMA FoundPage ==
  ASSUME TypeInv, q.pc = "search", NEW page, page = Page(Ascending(Search(q.epoch)), q.offset, q.limit)
  PROVE  /\ page \in Seq(Pools) /\ Len(page) <= q.limit
         /\ Total(q.epoch, page) \in 0..NumPools
<1>1. Asked
  BY DEF TypeInv, Idle
<1> DEFINE S == Search(q.epoch)
<1>2. S \in SUBSET Pools
  BY SearchedPools
<1> HIDE DEF S
<1>3. page \in Seq(S) /\ Len(page) <= q.limit
  BY <1>1, <1>2, PageIs DEF Asked, S
<1>4. page \in Seq(Pools)
  BY <1>2, <1>3
<1>5. Cardinality(S) \in 0..NumPools
  BY <1>2, PoolSets
<1>6. QED
  BY <1>3, <1>4, <1>5 DEF Total, S

\* The row that is read for the next pool.
LEMMA RowRead ==
  ASSUME TypeInv, ReadUpdates, Updates(ThisPool) # {}
  PROVE  /\ q.pc = "updates" /\ Asked /\ Follows /\ UNCHANGED tables
         /\ Len(q.rows) + 1 \in DOMAIN q.found /\ ThisPool \in Pools
         /\ \E r \in Rows :
              /\ q' = [q EXCEPT !.pc = "stake", !.rows = Append(@, r)]
              /\ \/ UpToEpoch(ThisPool, q.epoch) = {}
                 \/ \E d \in Folded(ThisPool, q.epoch) :
                      r = [pool |-> ThisPool, since |-> d.since, terms |-> d.terms, url |-> d.url, delegation |-> 0]
<1>1. q.pc = "updates" /\ Asked /\ Follows /\ UNCHANGED tables
  <2>1. q.pc = "updates" /\ UNCHANGED tables
    BY DEF ReadUpdates
  <2>2. QED
    BY <2>1 DEF TypeInv, Idle
<1>2. Len(q.rows) + 1 \in DOMAIN q.found /\ ThisPool \in Pools
  BY <1>1 DEF Asked, Follows, ThisPool
<1>3. CASE UpToEpoch(ThisPool, q.epoch) = {} /\
           q' = [q EXCEPT !.pc = "stake", !.rows = Append(@,
                   [pool |-> IF q.kind = "list" THEN ThisPool ELSE 0, since |-> 0, terms |-> 0, url |-> NoUrl, delegation |-> 0])]
  <2> DEFINE r == [pool |-> IF q.kind = "list" THEN ThisPool ELSE 0, since |-> 0, terms |-> 0, url |-> NoUrl, delegation |-> 0]
  <2>1. r \in Rows
    BY <1>2 DEF Rows, NoUrl
  <2> HIDE DEF r
  <2>2. q' = [q EXCEPT !.pc = "stake", !.rows = Append(@, r)]
    BY <1>3 DEF r
  <2>3. QED
    BY <1>1, <1>2, <1>3, <2>1, <2>2
<1>4. CASE \E d \in Folded(ThisPool, q.epoch) :
             q' = [q EXCEPT !.pc = "stake", !.rows = Append(@,
                     [pool |-> ThisPool, since |-> d.since, terms |-> d.terms, url |-> d.url, delegation |-> 0])]
  <2>1. PICK d \in Folded(ThisPool, q.epoch) :
             q' = [q EXCEPT !.pc = "stake", !.rows = Append(@,
                     [pool |-> ThisPool, since |-> d.since, terms |-> d.terms, url |-> d.url, delegation |-> 0])]
    BY <1>4
  <2> DEFINE r == [pool |-> ThisPool, since |-> d.since, terms |-> d.terms, url |-> d.url, delegation |-> 0]
  <2>2. d.since \in 0..(MaxEpoch + 3) /\ d.terms \in 1..MaxCerts /\ d.url \in 0..MaxCerts
    BY FoldedIs DEF TypeInv, Tables
  <2>3. r \in Rows
    BY <1>2, <2>2 DEF Rows
  <2>4. \E x \in Folded(ThisPool, q.epoch) :
           r = [pool |-> ThisPool, since |-> x.since, terms |-> x.terms, url |-> x.url, delegation |-> 0]
    OBVIOUS
  <2> HIDE DEF r
  <2>5. q' = [q EXCEPT !.pc = "stake", !.rows = Append(@, r)]
    BY <2>1 DEF r
  <2>6. QED
    BY <1>1, <1>2, <2>3, <2>4, <2>5
<1>5. QED
  BY <1>3, <1>4 DEF ReadUpdates

LEMMA QueryTypes ==
  ASSUME TypeInv, Queries
  PROVE  UNCHANGED tables /\ Asked' /\ Follows'
<1> USE DEF Unknown
<1>1. UNCHANGED tables
  BY DEF Queries, AskList, AskPool, ReadEpoch, SearchPools, ReadUpdates, ReadStake, Step
<1>2. UNCHANGED <<epoch, certs, stakes, rollbacks>>
  BY <1>1 DEF tables
<1>3. epoch \in Epochs /\ epoch \in Nat /\ rollbacks \in 0..MaxRollbacks /\ rollbacks \in Nat /\ Pools \subseteq Nat
  BY DEF TypeInv, Tables, Epochs, Pools
<1>4. CASE AskList
  <2>1. PICK e \in Epochs \cup {Unknown}, offset \in 0..NumPools, limit \in Pools :
          q' = [kind |-> "list", pc |-> IF e = Unknown THEN "epoch" ELSE "search", epoch |-> e, began |-> epoch,
                rolled |-> rollbacks, offset |-> offset, limit |-> limit, total |-> 0, found |-> << >>, rows |-> << >>]
    BY <1>4 DEF AskList
  <2>2. limit \in Nat /\ limit >= 0 /\ Len(<< >>) = 0 /\ << >> \in Seq(Pools) /\ << >> \in Seq(Rows) /\ 0 \in 0..NumPools
    BY <1>3
  <2>3. Asked'
    BY <1>3, <2>1, <2>2 DEF Asked, PCs
  <2>4. Follows'
    BY <1>2, <1>3, <2>1 DEF Follows
  <2>5. QED
    BY <1>1, <2>3, <2>4
<1>5. CASE AskPool
  <2>1. PICK p \in Pools :
          q' = [kind |-> "get", pc |-> "epoch", epoch |-> Unknown, began |-> epoch, rolled |-> rollbacks,
                offset |-> 0, limit |-> 1, total |-> 0, found |-> <<p>>, rows |-> << >>]
    BY <1>5 DEF AskPool
  <2>2. 1 \in Pools /\ Len(<<p>>) = 1 /\ <<p>> \in Seq(Pools) /\ << >> \in Seq(Rows) /\ Len(<< >>) = 0 /\ 0 \in 0..NumPools
    BY DEF Pools
  <2>3. Asked'
    BY <1>3, <2>1, <2>2 DEF Asked, PCs
  <2>4. Follows'
    BY <1>2, <1>3, <2>1, <2>2 DEF Follows
  <2>5. QED
    BY <1>1, <2>3, <2>4
<1>6. ASSUME ~AskList, ~AskPool PROVE Asked' /\ Follows'
  <2>1. Asked /\ Follows
    <3>1. ReadEpoch \/ SearchPools \/ ReadUpdates \/ ReadStake
      BY <1>6 DEF Queries
    <3>2. ReadEpoch => q.pc = "epoch"
      BY DEF ReadEpoch, Step
    <3>3. SearchPools => q.pc = "search"
      BY DEF SearchPools, Step
    <3>4. ReadUpdates => q.pc = "updates"
      BY DEF ReadUpdates
    <3>5. ReadStake => q.pc = "stake"
      BY DEF ReadStake
    <3>6. q.pc # "idle"
      BY <3>1, <3>2, <3>3, <3>4, <3>5
    <3>7. QED
      BY <3>6 DEF TypeInv, Idle
  <2>2. CASE ReadEpoch
    <3>1. q.pc = "epoch" /\ q.rows = << >> /\ Len(q.rows) = 0
      BY <2>1, <2>2 DEF ReadEpoch, Step, Follows
    <3>2. q' = [q EXCEPT !.epoch = epoch, !.began = epoch, !.pc = IF q.kind = "list" THEN "search" ELSE "updates"]
      BY <2>2 DEF ReadEpoch, Step
    <3>3. Asked'
      BY <1>3, <2>1, <3>2 DEF Asked, PCs
    <3>4. Follows'
      <4>1. /\ q'.epoch = epoch /\ q'.began = epoch /\ q'.rolled = q.rolled /\ q'.kind = q.kind
            /\ q'.found = q.found /\ q'.rows = q.rows
            /\ q'.pc = IF q.kind = "list" THEN "search" ELSE "updates"
        BY <2>1, <3>2 DEF Asked
      <4>2. q.kind = "list" \/ (q.kind = "get" /\ Len(q.found) = 1)
        BY <2>1, <3>1 DEF Asked, Follows
      <4>3. epoch # Unknown /\ epoch <= epoch /\ q.rolled <= rollbacks /\ Len(q.rows) < 1
        BY <1>3, <2>1, <3>1 DEF Follows
      <4>4. QED
        BY <1>2, <3>1, <4>1, <4>2, <4>3 DEF Follows
    <3>5. QED
      BY <3>3, <3>4
  <2>3. CASE SearchPools
    <3> DEFINE page == Page(Ascending(Search(q.epoch)), q.offset, q.limit)
               total == Total(q.epoch, page)
    <3>1. q.pc = "search" /\ q.kind = "list" /\ q.rows = << >> /\ Len(q.rows) = 0
      BY <2>1, <2>3 DEF SearchPools, Step, Follows, Asked
    <3>2. q' = [q EXCEPT !.found = page, !.total = total, !.pc = IF page = << >> THEN "done" ELSE "updates"]
      BY <2>3 DEF SearchPools, Step
    <3>3. page \in Seq(Pools) /\ Len(page) <= q.limit /\ total \in 0..NumPools
      BY <3>1, FoundPage
    <3> HIDE DEF page, total
    <3>4. Len(page) \in Nat /\ (page # << >> => Len(page) > 0)
      BY <3>3
    <3>5. Asked'
      <4>1. q' = [kind |-> q.kind, pc |-> IF page = << >> THEN "done" ELSE "updates", epoch |-> q.epoch, began |-> q.began,
                  rolled |-> q.rolled, offset |-> q.offset, limit |-> q.limit, total |-> total, found |-> page, rows |-> q.rows]
        BY <2>1, <3>2 DEF Asked
      <4>2. Len(q.rows) <= Len(page)
        BY <3>1, <3>4
      <4>3. QED
        BY <2>1, <3>1, <3>3, <4>1, <4>2 DEF Asked, PCs
    <3>6. Follows'
      <4>1. /\ q'.epoch = q.epoch /\ q'.began = q.began /\ q'.rolled = q.rolled /\ q'.kind = q.kind
            /\ q'.found = page /\ q'.rows = q.rows
            /\ q'.pc = IF page = << >> THEN "done" ELSE "updates"
        BY <2>1, <3>2 DEF Asked
      <4>2. QED
        BY <1>2, <2>1, <3>1, <3>4, <4>1 DEF Follows
    <3>7. QED
      BY <3>5, <3>6
  <2>4. CASE ReadUpdates
    <3>1. CASE Updates(ThisPool) # {}
      <4>1. PICK r \in Rows : q' = [q EXCEPT !.pc = "stake", !.rows = Append(@, r)]
        BY <2>4, <3>1, RowRead
      <4>2. q.pc = "updates" /\ q.rows \in Seq(Rows)
            /\ Len(q.rows) < Len(q.found) /\ Len(q.rows) \in Nat /\ Len(q.found) \in Nat
        <5>1. q.pc = "updates"
          BY <2>4, <3>1, RowRead
        <5>2. QED
          BY <2>1, <5>1 DEF Asked, Follows
      <4>3. Append(q.rows, r) \in Seq(Rows) /\ Len(Append(q.rows, r)) = Len(q.rows) + 1
        BY <4>2
      <4>4. Len(q.rows) + 1 <= Len(q.found)
        BY <4>2
      <4>5. Asked'
        BY <2>1, <4>1, <4>3, <4>4 DEF Asked, PCs
      <4>6. Append(q.rows, r) # << >>
        BY <4>2, <4>3
      <4>7. Follows'
        <5>1. /\ q'.epoch = q.epoch /\ q'.began = q.began /\ q'.rolled = q.rolled /\ q'.kind = q.kind
              /\ q'.rows = Append(q.rows, r) /\ q'.pc = "stake"
          BY <2>1, <4>1 DEF Asked
        <5>2. QED
          BY <1>2, <2>1, <4>2, <4>6, <5>1 DEF Follows
      <4>8. QED
        BY <4>5, <4>7
    <3>2. CASE Updates(ThisPool) = {}
      <4>1. Folded(ThisPool, q.epoch) = {}
        BY <3>2 DEF Folded, UpToEpoch, Newest
      <4>2. q' = [q EXCEPT !.pc = IF q.kind = "list" THEN "thrown" ELSE "notFound"]
        BY <2>4, <3>2, <4>1 DEF ReadUpdates
      <4>3. Asked'
        BY <2>1, <4>2 DEF Asked, PCs
      <4>4. Follows'
        BY <1>2, <2>1, <2>4, <4>2 DEF Follows, Asked, ReadUpdates
      <4>5. QED
        BY <4>3, <4>4
    <3>3. QED
      BY <3>1, <3>2
  <2>5. CASE ReadStake
    <3>1. q.pc = "stake" /\ q.rows \in Seq(Rows) /\ q.rows # << >> /\ Len(q.rows) <= Len(q.found)
          /\ Len(q.rows) \in DOMAIN q.rows /\ Len(q.rows) \in Nat /\ Len(q.found) \in Nat
      BY <2>1, <2>5 DEF ReadStake, Asked, Follows
    <3> DEFINE n == Len(q.rows)
               amount == StakeRows(q.rows[n].pool, q.epoch)
               next == IF n < Len(q.found) THEN "updates" ELSE Sendable
    <3>2. next \in PCs /\ next \notin {"epoch", "search", "stake", "thrown", "notFound"}
          /\ (next = "updates" => n < Len(q.found)) /\ (next = "noAddress" => q.kind = "list")
          /\ (next = "badUri" => q.kind = "get")
      BY DEF Sendable, PCs
    <3>3. CASE q' = [q EXCEPT !.rows[n].delegation = Cardinality(amount), !.pc = next]
      <4> DEFINE row == [q.rows[n] EXCEPT !.delegation = Cardinality(amount)]
                 rows == [q.rows EXCEPT ![n] = row]
      <4>1. Cardinality(amount) \in 0..(MaxEpoch + 1)
        BY StakeRowsFit DEF TypeInv, Tables
      <4>2. row \in Rows
        <5>1. q.rows[n] \in Rows
          BY <3>1
        <5> HIDE DEF amount
        <5>2. QED
          BY <4>1, <5>1 DEF Rows
      <4> HIDE DEF row
      <4>3. rows \in Seq(Rows) /\ Len(rows) = Len(q.rows)
        BY <3>1, <4>2
      <4>4. q' = [q EXCEPT !.rows = rows, !.pc = next]
        BY <2>1, <3>3 DEF Asked, row
      <4> HIDE DEF rows, next
      <4>5. Asked'
        BY <2>1, <3>1, <3>2, <4>3, <4>4 DEF Asked
      <4>6. Follows'
        BY <1>2, <2>1, <3>1, <3>2, <4>3, <4>4 DEF Follows, Asked
      <4>7. QED
        BY <4>5, <4>6
    <3>4. CASE q' = [q EXCEPT !.pc = "noStake"]
      BY <1>2, <2>1, <3>1, <3>4 DEF Asked, PCs, Follows
    <3>5. QED
      BY <2>5, <3>3, <3>4 DEF ReadStake
  <2>6. QED
    BY <1>6, <2>2, <2>3, <2>4, <2>5 DEF Queries
<1>7. QED
  BY <1>1, <1>4, <1>5, <1>6

LEMMA TypeStep ==
  ASSUME TypeInv, [Next]_vars
  PROVE  TypeInv'
<1>1. CASE UNCHANGED vars
  BY <1>1 DEF vars, tables, TypeInv, Tables, CertsOK, Idle, Asked, Follows
<1>2. CASE Register \/ Retire \/ NewEpoch \/ Rollback
  <2>1. Tables' /\ q' = q /\ epoch' >= epoch /\ rollbacks' >= rollbacks
    BY <1>2, TablesStep DEF TypeInv
  <2>2. CASE Idle
    BY <2>1, <2>2 DEF TypeInv, Idle
  <2>3. CASE Asked /\ Follows
    <3>1. Asked'
      BY <2>1, <2>3 DEF Asked
    <3>2. q.rolled \in Int /\ q.began \in Int /\ epoch \in Int /\ rollbacks \in Int /\ epoch' \in Int /\ rollbacks' \in Int
      BY <2>1, <2>3 DEF Asked, TypeInv, Tables, Epochs
    <3>3. Follows'
      BY <2>1, <2>3, <3>2 DEF Follows
    <3>4. QED
      BY <2>1, <3>1, <3>3 DEF TypeInv
  <2>4. QED
    BY <2>2, <2>3 DEF TypeInv
<1>3. CASE Queries
  <2>1. UNCHANGED tables /\ Asked' /\ Follows'
    BY <1>3, QueryTypes
  <2>2. QED
    BY <2>1 DEF TypeInv, Tables, CertsOK, tables
<1>4. QED
  BY <1>1, <1>2, <1>3 DEF Next, Queries

LEMMA TypeInit ==
  ASSUME Init
  PROVE  TypeInv
<1>1. CASE certs = << >>
  <2>1. certs \in Seq(Certs) /\ Len(certs) <= MaxCerts
    BY <1>1
  <2>2. QED
    BY <2>1 DEF Init, TypeInv, Tables, CertsOK, Epochs, Idle
<1>2. CASE \E p \in Pools, m \in BOOLEAN :
             certs = <<[kind |-> "update", pool |-> p, epoch |-> 0, meta |-> m, tx |-> <<-1, 1>>]>>
  <2>1. PICK p \in Pools, m \in BOOLEAN :
             certs = <<[kind |-> "update", pool |-> p, epoch |-> 0, meta |-> m, tx |-> <<-1, 1>>]>>
    BY <1>2
  <2>2. <<-1, 1>> \in (-1..MaxEpoch) \X (1..MaxCerts) /\ 0 \in 0..(MaxEpoch + 3)
    OBVIOUS
  <2>3. [kind |-> "update", pool |-> p, epoch |-> 0, meta |-> m, tx |-> <<-1, 1>>] \in Certs
    BY <2>2 DEF Certs
  <2>4. certs \in Seq(Certs) /\ Len(certs) <= MaxCerts
    BY <2>1, <2>3
  <2>5. QED
    BY <2>4 DEF Init, TypeInv, Tables, CertsOK, Epochs, Idle
<1>3. QED
  BY <1>1, <1>2 DEF Init

\* The type invariant, for any number of pools, epochs, certificates and
\* rollbacks: a request never reads a row before it has found the pools, nor a
\* pool more than it has found, and every column keeps to its bounds.
THEOREM TypeCorrect == Spec => []TypeOK
<1>1. Init => TypeInv
  BY TypeInit
<1>2. TypeInv /\ [Next]_vars => TypeInv'
  BY TypeStep
<1>3. TypeInv => TypeOK
  BY TypeInvImplies
<1>4. QED
  BY <1>1, <1>2, <1>3, PTL DEF Spec

-----------------------------------------------------------------------------
(***************************************************************************)
(* The inductive invariant of an answer: of a request for an epoch that    *)
(* has begun, and unless a rollback has come, each row is right from the   *)
(* moment it is read on.                                                   *)
(***************************************************************************)
Sure == q.kind = "list" /\ q.pc \notin {"idle", "epoch", "search"} /\ Undisturbed

\* RowAsOf but for the delegation, which is read later.
UpdatesAsOf(r, p, e) ==
  LET S == UpToEpoch(p, e)
      M == {i \in S : certs[i].meta} IN
  /\ r.pool = p
  /\ r.terms \in Newest(S)
  /\ (\A i \in S : certs[i].epoch > 0) =>
       \E i \in S : r.since = certs[i].epoch /\ \A j \in S : r.since <= certs[j].epoch
  /\ (\A i \in S : References(i) \subseteq {i}) => r.url \in IF M = {} THEN {NoUrl} ELSE Newest(M)

AllHaveUpdates == \A n \in DOMAIN q.found : UpToEpoch(q.found[n], q.epoch) # {}

RowsRead == \A n \in DOMAIN q.rows : UpdatesAsOf(q.rows[n], q.found[n], q.epoch)

StakesRead ==
  \A n \in DOMAIN q.rows :
    n < Len(q.rows) \/ q.pc \notin {"stake", "noStake"} =>
      q.rows[n].delegation = Cardinality(StakeRows(q.found[n], q.epoch))

PageFound ==
  NobodyReturned => /\ q.found = Page(Ascending(Search(q.epoch)), q.offset, q.limit)
                    /\ q.total = Total(q.epoch, q.found)

AnswerInv ==
  Sure => /\ q.pc \notin {"thrown", "noAddress"}
          /\ AllHaveUpdates /\ RowsRead /\ StakesRead /\ PageFound

\* Certificates of later epochs change nothing that is read of this one.
LEMMA PastStays ==
  ASSUME Tables, Register \/ Retire, NEW e \in Int, e <= epoch
  PROVE  /\ UNCHANGED <<epoch, stakes, rollbacks, q>>
         /\ DOMAIN certs \subseteq DOMAIN certs'
         /\ \A i \in DOMAIN certs : certs'[i] = certs[i]
         /\ \A p : {i \in DOMAIN certs' : certs'[i].kind = "update" /\ certs'[i].pool = p /\ certs'[i].epoch <= e}
                   = UpToEpoch(p, e)
         /\ NobodyReturned' => NobodyReturned /\ \A p \in Pools : p \in Search(e) <=>
              /\ \E i \in DOMAIN certs' : certs'[i].kind = "update" /\ certs'[i].pool = p /\ certs'[i].epoch <= e
              /\ \/ {j \in DOMAIN certs' : certs'[j].kind = "retire" /\ certs'[j].pool = p} = {}
                 \/ \E j \in DOMAIN certs' : certs'[j].kind = "retire" /\ certs'[j].pool = p /\ certs'[j].epoch >= e
<1>1. PICK c \in Certs : /\ certs' = Append(certs, c) /\ c.epoch > epoch
                         /\ c.kind = "retire" =>
                              \E i \in Updates(c.pool) : \A j \in Retires(c.pool) : j < i \/ certs[j].epoch > epoch
  BY CertsGrow
<1>2. UNCHANGED <<epoch, stakes, rollbacks, q>>
  BY CertsGrow
<1> DEFINE n == Len(certs)
<1>3. n \in Nat /\ DOMAIN certs = 1..n /\ certs \in Seq(Certs)
  BY CertFacts DEF Tables, CertsOK
<1>4. DOMAIN certs' = 1..(n + 1) /\ certs'[n + 1] = c /\ (\A i \in 1..n : certs'[i] = certs[i])
  BY <1>1, <1>3
<1> HIDE DEF n
<1>5. n + 1 \notin 1..n /\ n + 1 \in 1..(n + 1) /\ 1..n \subseteq 1..(n + 1) /\ (\A i \in 1..(n + 1) : i = n + 1 \/ i \in 1..n)
  BY <1>3
<1>6. \A i \in DOMAIN certs : certs[i].epoch \in Nat
  BY CertFacts DEF Tables
<1>7. epoch \in Int /\ c.epoch \in Int /\ ~(c.epoch <= e) /\ c.epoch >= e /\ c.pool \in Pools /\ c.kind \in {"update", "retire"}
  <2>1. epoch \in Int /\ c.epoch \in Int /\ c.pool \in Pools /\ c.kind \in {"update", "retire"}
    BY <1>3 DEF Tables, Epochs, Certs
  <2>2. QED
    BY <1>1, <2>1
<1>8. ASSUME NEW p
      PROVE  {i \in DOMAIN certs' : certs'[i].kind = "update" /\ certs'[i].pool = p /\ certs'[i].epoch <= e}
             = UpToEpoch(p, e)
  BY <1>3, <1>4, <1>5, <1>7 DEF UpToEpoch, Updates
<1>9. ASSUME NEW p
      PROVE  {j \in DOMAIN certs' : certs'[j].kind = "retire" /\ certs'[j].pool = p}
             = Retires(p) \cup (IF c.kind = "retire" /\ c.pool = p THEN {n + 1} ELSE {})
  BY <1>3, <1>4, <1>5 DEF Retires
<1>10. ASSUME NobodyReturned' PROVE NobodyReturned
  <2>1. \A p \in Pools : \A i, j \in 1..(n + 1) :
           certs'[i].kind = "retire" /\ certs'[i].pool = p /\ certs'[j].kind = "update" /\ certs'[j].pool = p => j < i
    BY <1>4, <1>10 DEF NobodyReturned, Updates, Retires
  <2>2. \A p \in Pools : \A i, j \in 1..n :
           certs[i].kind = "retire" /\ certs[i].pool = p /\ certs[j].kind = "update" /\ certs[j].pool = p => j < i
    BY <1>4, <1>5, <2>1
  <2>3. QED
    BY <1>3, <2>2 DEF NobodyReturned, Updates, Retires
<1>11. ASSUME NobodyReturned, NEW p \in Pools
       PROVE  p \in Search(e) <=>
              /\ \E i \in DOMAIN certs' : certs'[i].kind = "update" /\ certs'[i].pool = p /\ certs'[i].epoch <= e
              /\ \/ {j \in DOMAIN certs' : certs'[j].kind = "retire" /\ certs'[j].pool = p} = {}
                 \/ \E j \in DOMAIN certs' : certs'[j].kind = "retire" /\ certs'[j].pool = p /\ certs'[j].epoch >= e
  <2>1. (\E i \in DOMAIN certs' : certs'[i].kind = "update" /\ certs'[i].pool = p /\ certs'[i].epoch <= e)
        <=> \E i \in Updates(p) : certs[i].epoch <= e
    BY <1>8 DEF UpToEpoch
  <2>2. CASE c.kind = "retire" /\ c.pool = p
    <3>1. Retires(p) = {} \/ \E j \in Retires(p) : certs[j].epoch >= e
      <4>1. PICK i \in Updates(p) : \A j \in Retires(p) : j < i \/ certs[j].epoch > epoch
        BY <1>1, <2>2
      <4>2. \A j \in Retires(p) : i < j
        BY <1>11 DEF NobodyReturned
      <4>3. \A j \in Retires(p) : j \in Int /\ i \in Int /\ certs[j].epoch \in Int
        BY <1>3, <1>6 DEF Retires, Updates
      <4>4. \A j \in Retires(p) : certs[j].epoch >= e
        BY <1>7, <4>1, <4>2, <4>3
      <4>5. QED
        BY <4>4
    <3>2. \E j \in DOMAIN certs' : certs'[j].kind = "retire" /\ certs'[j].pool = p /\ certs'[j].epoch >= e
      BY <1>4, <1>5, <1>7, <2>2
    <3>3. QED
      BY <2>1, <3>1, <3>2 DEF Search
  <2>3. CASE ~(c.kind = "retire" /\ c.pool = p)
    <3>1. {j \in DOMAIN certs' : certs'[j].kind = "retire" /\ certs'[j].pool = p} = Retires(p)
      BY <1>9, <2>3
    <3>2. (\E j \in DOMAIN certs' : certs'[j].kind = "retire" /\ certs'[j].pool = p /\ certs'[j].epoch >= e)
          <=> \E j \in Retires(p) : certs[j].epoch >= e
      <4>1. \A j \in Retires(p) : certs'[j] = certs[j]
        BY <1>3, <1>4 DEF Retires
      <4>2. QED
        BY <3>1, <4>1
    <3>3. QED
      BY <2>1, <3>1, <3>2 DEF Search
  <2>4. QED
    BY <2>2, <2>3
<1>12. QED
  BY <1>2, <1>3, <1>4, <1>5, <1>8, <1>10, <1>11

\* Of a request that is sure, and of its epoch.
LEMMA SureFacts ==
  ASSUME TypeInv, Sure
  PROVE  /\ Asked /\ Follows
         /\ q.epoch \in Int /\ epoch \in Int /\ q.epoch <= epoch /\ q.rolled = rollbacks /\ rollbacks \in Int
<1>1. Asked /\ Follows
  BY DEF TypeInv, Sure, Idle
<1>2. q.epoch \in Int /\ epoch \in Int /\ q.began \in Int
  BY <1>1 DEF Asked, Unknown, Epochs, TypeInv, Tables
<1>3. q.epoch <= q.began /\ q.began <= epoch /\ q.rolled = rollbacks /\ rollbacks \in Int
  BY <1>1 DEF Sure, Undisturbed, Follows, TypeInv, Tables
<1>4. QED
  BY <1>1, <1>2, <1>3

\* A row that was right stays so while nothing that is read of it changes.
LEMMA RowStays ==
  ASSUME UNCHANGED q, NEW n, UpdatesAsOf(q.rows[n], q.found[n], q.epoch),
         DOMAIN certs \subseteq DOMAIN certs',
         \A i \in DOMAIN certs : certs'[i] = certs[i],
         UpToEpoch(q.found[n], q.epoch)' = UpToEpoch(q.found[n], q.epoch)
  PROVE  UpdatesAsOf(q.rows[n], q.found[n], q.epoch)'
<1> DEFINE r == q.rows[n]
           S == UpToEpoch(q.found[n], q.epoch)
           M == {i \in S : certs[i].meta}
<1>1. UpdatesAsOf(q.rows[n], q.found[n], q.epoch)
  OBVIOUS
<1>2. r' = r /\ (q.found[n])' = q.found[n]
  OBVIOUS
<1>3. S' = S
  OBVIOUS
<1>4. S \subseteq DOMAIN certs
  BY DEF UpToEpoch, Updates
<1>5. /\ r.pool = q.found[n]
      /\ r.terms \in Newest(S)
      /\ (\A i \in S : certs[i].epoch > 0) =>
            \E i \in S : r.since = certs[i].epoch /\ \A j \in S : r.since <= certs[j].epoch
      /\ (\A i \in S : References(i) \subseteq {i}) => r.url \in IF M = {} THEN {NoUrl} ELSE Newest(M)
  BY <1>1 DEF UpdatesAsOf
<1>6. \A i \in S : References(i) \subseteq References(i)'
  BY <1>4 DEF References
<1> HIDE DEF S, r
<1>7. M' = M /\ M \subseteq S
  BY <1>3, <1>4
<1> HIDE DEF M
<1>8. Newest(S)' = Newest(S)
  BY <1>3, <1>4 DEF Newest
<1>9. Newest(M)' = Newest(M)
  BY <1>4, <1>7 DEF Newest
<1>10. (r.pool)' = (q.found[n])' /\ (r.terms)' \in Newest(S)'
  BY <1>2, <1>5, <1>8
<1>11. ASSUME \A i \in S' : certs'[i].epoch > 0
       PROVE  \E i \in S' : (r.since)' = certs'[i].epoch /\ \A j \in S' : (r.since)' <= certs'[j].epoch
  <2>1. \A i \in S : certs'[i] = certs[i]
    BY <1>4
  <2>2. PICK i \in S : r.since = certs[i].epoch /\ \A j \in S : r.since <= certs[j].epoch
    BY <1>3, <1>5, <1>11, <2>1
  <2>3. QED
    BY <1>2, <1>3, <2>1, <2>2
<1>12. ASSUME \A i \in S' : References(i)' \subseteq {i}
       PROVE  (r.url)' \in IF M' = {} THEN {NoUrl} ELSE Newest(M)'
  <2>1. \A i \in S : References(i) \subseteq {i}
    BY <1>3, <1>6, <1>12
  <2>2. r.url \in IF M = {} THEN {NoUrl} ELSE Newest(M)
    BY <1>5, <2>1
  <2>3. QED
    BY <1>2, <1>7, <1>9, <2>2
<1>13. QED
  BY <1>10, <1>11, <1>12 DEF UpdatesAsOf, S, M, r

LEMMA RowsStay ==
  ASSUME UNCHANGED q, RowsRead,
         DOMAIN certs \subseteq DOMAIN certs',
         \A i \in DOMAIN certs : certs'[i] = certs[i],
         \A n : UpToEpoch(q.found[n], q.epoch)' = UpToEpoch(q.found[n], q.epoch)
  PROVE  RowsRead'
<1>1. \A n \in DOMAIN q.rows : UpdatesAsOf(q.rows[n], q.found[n], q.epoch)'
  BY RowStays DEF RowsRead
<1>2. QED
  BY <1>1 DEF RowsRead

LEMMA AnswerOverCerts ==
  ASSUME TypeInv, AnswerInv, Register \/ Retire, Sure
  PROVE  AnswerInv'
<1>1. UNCHANGED <<epoch, stakes, rollbacks, q>>
  BY CertsGrow DEF TypeInv
<1>2. q.epoch \in Int /\ q.epoch <= epoch /\ Asked
  BY SureFacts
<1>3. PICK e \in Int : e = q.epoch /\ e <= epoch
  BY <1>2
<1>4. /\ DOMAIN certs \subseteq DOMAIN certs'
      /\ \A i \in DOMAIN certs : certs'[i] = certs[i]
      /\ \A p : {i \in DOMAIN certs' : certs'[i].kind = "update" /\ certs'[i].pool = p /\ certs'[i].epoch <= e}
                = UpToEpoch(p, e)
  BY <1>3, PastStays DEF TypeInv
<1>5. NobodyReturned' => NobodyReturned /\ \A p \in Pools : p \in Search(e) <=>
              /\ \E i \in DOMAIN certs' : certs'[i].kind = "update" /\ certs'[i].pool = p /\ certs'[i].epoch <= e
              /\ \/ {j \in DOMAIN certs' : certs'[j].kind = "retire" /\ certs'[j].pool = p} = {}
                 \/ \E j \in DOMAIN certs' : certs'[j].kind = "retire" /\ certs'[j].pool = p /\ certs'[j].epoch >= e
  BY <1>3, PastStays DEF TypeInv
<1>6. AllHaveUpdates /\ RowsRead /\ StakesRead /\ PageFound /\ q.pc \notin {"thrown", "noAddress"}
  BY DEF AnswerInv
<1>7. ASSUME NEW n PROVE UpToEpoch(q.found[n], q.epoch)' = UpToEpoch(q.found[n], q.epoch)
  <2>1. UpToEpoch(q.found[n], q.epoch)'
        = {i \in DOMAIN certs' : certs'[i].kind = "update" /\ certs'[i].pool = q.found[n] /\ certs'[i].epoch <= e}
    BY <1>1, <1>3 DEF UpToEpoch, Updates
  <2>2. QED
    BY <1>3, <1>4, <2>1
<1>8. AllHaveUpdates'
  BY <1>1, <1>6, <1>7 DEF AllHaveUpdates
<1>9. RowsRead'
  BY <1>1, <1>4, <1>6, <1>7, RowsStay
<1>10. StakesRead'
  BY <1>1, <1>6 DEF StakesRead, StakeRows
<1>11. PageFound'
  <2> SUFFICES ASSUME NobodyReturned'
               PROVE  q'.found = Page(Ascending(Search(q.epoch)), q.offset, q.limit)' /\ q'.total = Total(q.epoch, q.found)'
    BY DEF PageFound
  <2>1. Search(q.epoch)' = Search(q.epoch)
    <3>1. Search(q.epoch)' =
            {p \in Pools : /\ \E i \in DOMAIN certs' : certs'[i].kind = "update" /\ certs'[i].pool = p /\ certs'[i].epoch <= e
                           /\ \/ {j \in DOMAIN certs' : certs'[j].kind = "retire" /\ certs'[j].pool = p} = {}
                              \/ \E j \in DOMAIN certs' :
                                   certs'[j].kind = "retire" /\ certs'[j].pool = p /\ certs'[j].epoch >= e}
      BY <1>1, <1>3 DEF Search, Updates, Retires
    <3>2. Search(e) \subseteq Pools
      BY DEF Search
    <3>3. QED
      BY <1>3, <1>5, <3>1, <3>2
  <2>2. q.found = Page(Ascending(Search(q.epoch)), q.offset, q.limit) /\ q.total = Total(q.epoch, q.found)
    BY <1>5, <1>6 DEF PageFound
  <2>3. Page(Ascending(Search(q.epoch)), q.offset, q.limit)' = Page(Ascending(Search(q.epoch)), q.offset, q.limit)
    BY <1>1, <2>1 DEF Page, Ascending
  <2>4. Total(q.epoch, q.found)' = Total(q.epoch, q.found)
    BY <1>1, <2>1 DEF Total
  <2>5. QED
    BY <1>1, <2>2, <2>3, <2>4
<1>12. QED
  BY <1>1, <1>6, <1>8, <1>9, <1>10, <1>11 DEF AnswerInv

LEMMA AnswerOverEnvironment ==
  ASSUME TypeInv, AnswerInv, Register \/ Retire \/ NewEpoch \/ Rollback
  PROVE  AnswerInv'
<1>1. q' = q
  BY TablesStep DEF TypeInv
<1> SUFFICES ASSUME Sure' PROVE AnswerInv'
  BY DEF AnswerInv
<1>2. CASE Register \/ Retire
  <2>1. rollbacks' = rollbacks
    BY <1>2, CertsGrow DEF TypeInv
  <2>2. Sure
    BY <1>1, <2>1 DEF Sure, Undisturbed
  <2>3. QED
    BY <1>2, <2>2, AnswerOverCerts
<1>3. CASE NewEpoch
  <2>1. certs' = certs /\ rollbacks' = rollbacks
    BY <1>3 DEF NewEpoch
  <2>2. Sure
    BY <1>1, <2>1 DEF Sure, Undisturbed
  <2>3. q.epoch \in Int /\ epoch \in Int /\ q.epoch <= epoch
    BY <2>2, SureFacts
  <2>4. AllHaveUpdates /\ RowsRead /\ StakesRead /\ PageFound /\ q.pc \notin {"thrown", "noAddress"}
    BY <2>2 DEF AnswerInv
  <2>5. AllHaveUpdates'
    BY <1>1, <2>1, <2>4 DEF AllHaveUpdates, UpToEpoch, Updates
  <2>6. RowsRead'
    <3>1. \A n : UpToEpoch(q.found[n], q.epoch)' = UpToEpoch(q.found[n], q.epoch)
      BY <1>1, <2>1 DEF UpToEpoch, Updates
    <3>2. QED
      BY <1>1, <2>1, <2>4, <3>1, RowsStay
  <2>7. StakesRead'
    <3>1. \A p : StakeRows(p, q.epoch)' = StakeRows(p, q.epoch)
      <4>1. PICK S \in SUBSET Pools : stakes' = stakes \cup {[pool |-> p, epoch |-> epoch + 1] : p \in S}
        BY <1>3 DEF NewEpoch
      <4>2. \A s \in stakes' : s \in stakes \/ s.epoch = epoch + 1
        BY <4>1
      <4>3. \A s \in stakes' : s.epoch <= q.epoch => s \in stakes
        BY <2>3, <4>2
      <4>4. stakes \subseteq stakes'
        BY <4>1
      <4>5. QED
        BY <1>1, <4>3, <4>4 DEF StakeRows
    <3>2. \A n : StakeRows(q.found[n], q.epoch)' = StakeRows(q.found[n], q.epoch)
      <4> SUFFICES ASSUME NEW n PROVE StakeRows(q.found[n], q.epoch)' = StakeRows(q.found[n], q.epoch)
        OBVIOUS
      <4>1. PICK p : p = q.found[n]
        OBVIOUS
      <4>2. StakeRows(p, q.epoch)' = StakeRows(p, q.epoch)
        BY <3>1
      <4>3. QED
        BY <1>1, <4>1, <4>2 DEF StakeRows
    <3>3. QED
      BY <1>1, <2>4, <3>2 DEF StakesRead
  <2>8. PageFound'
    <3>1. NobodyReturned' => NobodyReturned
      BY <2>1 DEF NobodyReturned, Updates, Retires
    <3>2. Search(q.epoch)' = Search(q.epoch)
      BY <1>1, <2>1 DEF Search, Updates, Retires
    <3>3. Page(Ascending(Search(q.epoch)), q.offset, q.limit)' = Page(Ascending(Search(q.epoch)), q.offset, q.limit)
      BY <1>1, <3>2 DEF Page, Ascending
    <3>4. Total(q.epoch, q.found)' = Total(q.epoch, q.found)
      BY <1>1, <3>2 DEF Total
    <3>5. QED
      BY <1>1, <2>4, <3>1, <3>3, <3>4 DEF PageFound
  <2>9. QED
    BY <1>1, <2>4, <2>5, <2>6, <2>7, <2>8 DEF AnswerInv
<1>4. CASE Rollback
  <2>1. rollbacks' = rollbacks + 1 /\ rollbacks \in Int
    BY <1>4 DEF Rollback, TypeInv, Tables
  <2>2. q.kind = "list" /\ q.rolled = rollbacks'
    BY <1>1 DEF Sure, Undisturbed
  <2>3. Asked /\ Follows
    BY <2>2 DEF TypeInv, Idle
  <2>4. q.rolled <= rollbacks
    BY <2>3 DEF Follows
  <2>5. FALSE
    BY <2>1, <2>2, <2>4
  <2>6. QED
    BY <2>5
<1>5. QED
  BY <1>2, <1>3, <1>4

LEMMA AnswerSearch ==
  ASSUME TypeInv, SearchPools, Sure'
  PROVE  AnswerInv'
<1> DEFINE page == Page(Ascending(Search(q.epoch)), q.offset, q.limit)
           total == Total(q.epoch, page)
<1>1. /\ q.pc = "search" /\ UNCHANGED <<epoch, certs, stakes, rollbacks>>
      /\ q' = [q EXCEPT !.found = page, !.total = total, !.pc = IF page = << >> THEN "done" ELSE "updates"]
  BY DEF SearchPools, Step, tables
<1>2. Asked /\ Follows
  BY <1>1 DEF TypeInv, Idle
<1>3. q.rows = << >>
  BY <1>1, <1>2 DEF Follows
<1> HIDE DEF page, total
<1>4. /\ q'.found = page /\ q'.total = total /\ q'.pc \in {"done", "updates"}
      /\ q'.rows = << >> /\ q'.epoch = q.epoch /\ q'.offset = q.offset /\ q'.limit = q.limit
  BY <1>1, <1>2, <1>3 DEF Asked
<1>5. page \in Seq(Search(q.epoch))
  <2> DEFINE S == Search(q.epoch)
  <2>1. S \in SUBSET Pools
    BY SearchedPools
  <2> HIDE DEF S
  <2>2. QED
    BY <1>2, <2>1, PageIs DEF Asked, page, S
<1>6. AllHaveUpdates'
  <2> SUFFICES ASSUME NEW n \in DOMAIN page PROVE UpToEpoch(q.found[n], q.epoch)' # {}
    BY <1>4 DEF AllHaveUpdates
  <2>1. page[n] \in Search(q.epoch)
    BY <1>5
  <2>2. PICK i \in DOMAIN certs : certs[i].kind = "update" /\ certs[i].pool = page[n] /\ certs[i].epoch <= q.epoch
    BY <2>1 DEF Search, Updates
  <2>3. i \in UpToEpoch(q.found[n], q.epoch)'
    BY <1>1, <1>4, <2>2 DEF UpToEpoch, Updates
  <2>4. QED
    BY <2>3
<1>7. RowsRead' /\ StakesRead'
  BY <1>4 DEF RowsRead, StakesRead
<1>8. PageFound'
  <2>1. Search(q.epoch)' = Search(q.epoch)
    BY <1>1, <1>4 DEF Search, Updates, Retires
  <2>2. Page(Ascending(Search(q.epoch)), q.offset, q.limit)' = page
    BY <1>4, <2>1 DEF page, Page, Ascending
  <2>3. Total(q.epoch, q.found)' = total
    BY <1>1, <1>4, <2>1 DEF Total, total
  <2>4. QED
    BY <1>4, <2>2, <2>3 DEF PageFound
<1>9. QED
  BY <1>4, <1>6, <1>7, <1>8 DEF AnswerInv

\* While a request reads on, what it has found stays as right as it was.
LEMMA FoundKept ==
  ASSUME AllHaveUpdates, PageFound, UNCHANGED <<epoch, certs, stakes, rollbacks>>,
         q'.found = q.found, q'.epoch = q.epoch, q'.offset = q.offset, q'.limit = q.limit, q'.total = q.total
  PROVE  AllHaveUpdates' /\ PageFound'
<1>1. AllHaveUpdates'
  BY DEF AllHaveUpdates, UpToEpoch, Updates
<1>2. NobodyReturned' => NobodyReturned
  BY DEF NobodyReturned, Updates, Retires
<1>3. Search(q.epoch)' = Search(q.epoch)
  BY DEF Search, Updates, Retires
<1>4. Page(Ascending(Search(q.epoch)), q.offset, q.limit)' = Page(Ascending(Search(q.epoch)), q.offset, q.limit)
  BY <1>3 DEF Page, Ascending
<1>5. Total(q.epoch, q.found)' = Total(q.epoch, q.found)
  BY <1>3 DEF Total
<1>6. QED
  BY <1>1, <1>2, <1>4, <1>5 DEF PageFound

\* A row of the answer as it is at the next state, over the same tables.
LEMMA RowKept ==
  ASSUME UNCHANGED certs, NEW n, NEW r, NEW p, NEW e, UpdatesAsOf(r, p, e),
         q'.epoch = e, q'.found[n] = p,
         q'.rows[n].pool = r.pool, q'.rows[n].terms = r.terms, q'.rows[n].since = r.since, q'.rows[n].url = r.url
  PROVE  UpdatesAsOf(q.rows[n], q.found[n], q.epoch)'
<1> DEFINE S == UpToEpoch(p, e)
           T == UpToEpoch(q.found[n], q.epoch)
           M == {i \in S : certs[i].meta}
           N == {i \in T : certs[i].meta}
<1>1. T' = S
  BY DEF UpToEpoch, Updates
<1>2. \A i : References(i)' = References(i)
  BY DEF References
<1>3. /\ r.pool = p
      /\ r.terms \in Newest(S)
      /\ (\A i \in S : certs[i].epoch > 0) =>
            \E i \in S : r.since = certs[i].epoch /\ \A j \in S : r.since <= certs[j].epoch
      /\ (\A i \in S : References(i) \subseteq {i}) => r.url \in IF M = {} THEN {NoUrl} ELSE Newest(M)
  BY DEF UpdatesAsOf
<1> HIDE DEF S, T
<1>4. N' = M
  BY <1>1
<1> HIDE DEF M, N
<1>5. Newest(T)' = Newest(S) /\ Newest(N)' = Newest(M)
  BY <1>1, <1>4 DEF Newest
<1>6. (\A i \in T' : References(i)' \subseteq {i}) => (q.rows[n].url)' \in IF N' = {} THEN {NoUrl} ELSE Newest(N)'
  BY <1>1, <1>2, <1>3, <1>4, <1>5
<1>7. (\A i \in T' : certs'[i].epoch > 0) =>
         \E i \in T' : (q.rows[n].since)' = certs'[i].epoch /\ \A j \in T' : (q.rows[n].since)' <= certs'[j].epoch
  BY <1>1, <1>3
<1>8. (q.rows[n].pool)' = (q.found[n])' /\ (q.rows[n].terms)' \in Newest(T)'
  BY <1>3, <1>5
<1>9. QED
  BY <1>6, <1>7, <1>8 DEF UpdatesAsOf, T, N

\* The row that is read of a pool's updates is right when it is read.
LEMMA RowIsRight ==
  ASSUME CertsOK, NEW p, NEW e, UpToEpoch(p, e) # {}, NEW d \in Folded(p, e), NEW r,
         r = [pool |-> p, since |-> d.since, terms |-> d.terms, url |-> d.url, delegation |-> 0]
  PROVE  UpdatesAsOf(r, p, e)
<1> DEFINE S == UpToEpoch(p, e)
           M == {i \in S : certs[i].meta}
<1>1. /\ d.terms \in Newest(S) /\ d.since = Since(S)
      /\ (\A i \in S : References(i) \subseteq {i}) => d.url \in IF M = {} THEN {NoUrl} ELSE Newest(M)
  BY FoldedIs
<1>2. S \in SUBSET DOMAIN certs /\ S # {}
  BY DEF UpToEpoch, Updates
<1> HIDE DEF S
<1>3. (\A i \in S : certs[i].epoch > 0) =>
         \E i \in S : Since(S) = certs[i].epoch /\ \A j \in S : Since(S) <= certs[j].epoch
  BY <1>2, SinceIs
<1> HIDE DEF M
<1>4. r.pool = p /\ r.terms = d.terms /\ r.since = d.since /\ r.url = d.url
  OBVIOUS
<1>5. QED
  BY <1>1, <1>3, <1>4 DEF UpdatesAsOf, S, M

LEMMA AnswerUpdates ==
  ASSUME TypeInv, AnswerInv, ReadUpdates, Sure'
  PROVE  AnswerInv'
<1>1. q.pc = "updates" /\ UNCHANGED <<epoch, certs, stakes, rollbacks>>
  BY DEF ReadUpdates, tables
<1>2. Asked /\ Follows
  BY <1>1 DEF TypeInv, Idle
<1>3. /\ q'.kind = q.kind /\ q'.epoch = q.epoch /\ q'.began = q.began /\ q'.rolled = q.rolled
      /\ q'.found = q.found /\ q'.offset = q.offset /\ q'.limit = q.limit /\ q'.total = q.total
  <2>1. \/ q' = [q EXCEPT !.pc = q'.pc]
        \/ q' = [q EXCEPT !.pc = q'.pc, !.rows = q'.rows]
    BY <1>2 DEF ReadUpdates, Asked
  <2>2. QED
    BY <1>2, <2>1 DEF Asked
<1>4. Sure
  BY <1>1, <1>3 DEF Sure, Undisturbed
<1>5. AllHaveUpdates /\ RowsRead /\ StakesRead /\ PageFound
  BY <1>4 DEF AnswerInv
<1> DEFINE k == Len(q.rows) + 1
<1>6. k \in DOMAIN q.found /\ ThisPool = q.found[k] /\ Len(q.rows) \in Nat /\ q.rows \in Seq(Rows) /\ DOMAIN q.rows = 1..Len(q.rows)
      /\ DOMAIN q.found = 1..Len(q.found) /\ Len(q.rows) <= Len(q.found) /\ Len(q.found) \in Nat
  BY <1>1, <1>2 DEF Asked, Follows, ThisPool
<1>7. UpToEpoch(ThisPool, q.epoch) # {}
  BY <1>5, <1>6 DEF AllHaveUpdates
<1>8. Updates(ThisPool) # {}
  BY <1>7 DEF UpToEpoch
<1>9. PICK r \in Rows : /\ q' = [q EXCEPT !.pc = "stake", !.rows = Append(@, r)]
                        /\ \E d \in Folded(ThisPool, q.epoch) :
                             r = [pool |-> ThisPool, since |-> d.since, terms |-> d.terms, url |-> d.url, delegation |-> 0]
  BY <1>7, <1>8, RowRead
<1>10. PICK d \in Folded(ThisPool, q.epoch) :
          r = [pool |-> ThisPool, since |-> d.since, terms |-> d.terms, url |-> d.url, delegation |-> 0]
  BY <1>9
<1>11. q'.pc = "stake" /\ q'.rows = Append(q.rows, r)
  BY <1>2, <1>9 DEF Asked
<1>12. /\ DOMAIN q'.rows = 1..k /\ Len(q'.rows) = k /\ q'.rows[k] = r
       /\ \A n \in 1..Len(q.rows) : q'.rows[n] = q.rows[n]
  BY <1>6, <1>11
<1>13. CertsOK
  BY DEF TypeInv, Tables
<1>14. UpdatesAsOf(r, ThisPool, q.epoch)
  <2>1. PICK p, e : p = ThisPool /\ e = q.epoch
    OBVIOUS
  <2>2. QED
    BY <1>7, <1>10, <1>13, <2>1, RowIsRight
<1>15. RowsRead'
  <2> SUFFICES ASSUME NEW n \in 1..k PROVE UpdatesAsOf(q.rows[n], q.found[n], q.epoch)'
    BY <1>12 DEF RowsRead
  <2>1. CASE n = k
    <3>1. PICK p, e : p = ThisPool /\ e = q.epoch
      OBVIOUS
    <3>2. UpdatesAsOf(r, p, e) /\ q'.epoch = e /\ q'.found[n] = p /\ q'.rows[n] = r
      BY <1>3, <1>6, <1>12, <1>14, <2>1, <3>1
    <3>3. QED
      BY <1>1, <3>2, RowKept
  <2>2. CASE n \in 1..Len(q.rows)
    <3>1. PICK s, p, e : s = q.rows[n] /\ p = q.found[n] /\ e = q.epoch
      OBVIOUS
    <3>2. UpdatesAsOf(s, p, e)
      BY <1>5, <1>6, <2>2, <3>1 DEF RowsRead
    <3>3. q'.epoch = e /\ q'.found[n] = p /\ q'.rows[n] = s
      BY <1>3, <1>12, <2>2, <3>1
    <3>4. QED
      BY <1>1, <3>2, <3>3, RowKept
  <2>3. QED
    BY <1>6, <2>1, <2>2
<1>16. StakesRead'
  <2> SUFFICES ASSUME NEW n \in 1..k, n < k
               PROVE  q'.rows[n].delegation = Cardinality(StakeRows(q.found[n], q.epoch)')
    BY <1>11, <1>12 DEF StakesRead
  <2>1. n \in 1..Len(q.rows) /\ n \in DOMAIN q.rows
    BY <1>6
  <2>2. q.rows[n].delegation = Cardinality(StakeRows(q.found[n], q.epoch))
    BY <1>1, <1>5, <2>1 DEF StakesRead
  <2>3. StakeRows(q.found[n], q.epoch)' = StakeRows(q.found[n], q.epoch)
    BY <1>1, <1>3 DEF StakeRows
  <2>4. QED
    BY <1>12, <2>1, <2>2, <2>3
<1>17. AllHaveUpdates' /\ PageFound'
  BY <1>1, <1>3, <1>5, FoundKept
<1>18. QED
  BY <1>11, <1>15, <1>16, <1>17 DEF AnswerInv

LEMMA AnswerStake ==
  ASSUME TypeInv, AnswerInv, ReadStake, Sure'
  PROVE  AnswerInv'
<1> DEFINE n == Len(q.rows)
           amount == StakeRows(q.rows[n].pool, q.epoch)
           next == IF n < Len(q.found) THEN "updates" ELSE Sendable
<1>1. /\ q.pc = "stake" /\ UNCHANGED <<epoch, certs, stakes, rollbacks>>
      /\ \/ q' = [q EXCEPT !.rows[n].delegation = Cardinality(amount), !.pc = next]
         \/ q' = [q EXCEPT !.pc = "noStake"]
  BY DEF ReadStake, tables
<1>2. Asked /\ Follows
  BY <1>1 DEF TypeInv, Idle
<1>3. q.rows \in Seq(Rows) /\ n \in Nat /\ n \in DOMAIN q.rows /\ DOMAIN q.rows = 1..n
      /\ DOMAIN q.found = 1..Len(q.found) /\ Len(q.found) \in Nat /\ n <= Len(q.found)
  BY <1>1, <1>2 DEF Asked, Follows
<1> HIDE DEF next, amount
<1>4. /\ q'.kind = q.kind /\ q'.epoch = q.epoch /\ q'.began = q.began /\ q'.rolled = q.rolled
      /\ q'.found = q.found /\ q'.offset = q.offset /\ q'.limit = q.limit /\ q'.total = q.total
      /\ \/ /\ q'.rows = [q.rows EXCEPT ![n] = [q.rows[n] EXCEPT !.delegation = Cardinality(amount)]]
            /\ q'.pc = next
         \/ q'.rows = q.rows /\ q'.pc = "noStake"
  BY <1>1, <1>2 DEF Asked
<1>5. Sure
  BY <1>1, <1>4 DEF Sure, Undisturbed
<1>6. AllHaveUpdates /\ RowsRead /\ StakesRead /\ PageFound
  BY <1>5 DEF AnswerInv
<1>7. \A m \in DOMAIN q.rows : q.rows[m] \in Rows /\ UpdatesAsOf(q.rows[m], q.found[m], q.epoch)
  BY <1>3, <1>6 DEF RowsRead
<1>8. q'.pc \in {"updates", "done", "noStake"}
  <2>1. \A m \in DOMAIN q.rows : q.rows[m].terms # 0
    <3>1. \A m \in DOMAIN q.rows : q.rows[m].terms \in DOMAIN certs
      BY <1>7 DEF UpdatesAsOf, Newest, UpToEpoch, Updates
    <3>2. DOMAIN certs \subseteq 1..MaxCerts
      BY CertFacts DEF TypeInv, Tables
    <3>3. QED
      BY <3>1, <3>2
  <2>2. q.kind = "list"
    BY <1>5 DEF Sure
  <2>3. next \in {"updates", "done"}
    BY <2>1, <2>2 DEF next, Sendable
  <2>4. QED
    BY <1>4, <2>3
<1>9. /\ DOMAIN q'.rows = 1..n /\ Len(q'.rows) = n
      /\ \A m \in 1..n : /\ q'.rows[m].pool = q.rows[m].pool /\ q'.rows[m].terms = q.rows[m].terms
                         /\ q'.rows[m].since = q.rows[m].since /\ q'.rows[m].url = q.rows[m].url
                         /\ m < n => q'.rows[m] = q.rows[m]
      /\ q'.pc # "noStake" => q'.rows[n].delegation = Cardinality(amount)
  <2>1. CASE q'.rows = q.rows /\ q'.pc = "noStake"
    BY <1>3, <2>1
  <2>2. CASE /\ q'.rows = [q.rows EXCEPT ![n] = [q.rows[n] EXCEPT !.delegation = Cardinality(amount)]]
             /\ q'.pc = next
    <3> DEFINE row == [q.rows[n] EXCEPT !.delegation = Cardinality(amount)]
    <3>1. /\ row.pool = q.rows[n].pool /\ row.terms = q.rows[n].terms /\ row.since = q.rows[n].since
          /\ row.url = q.rows[n].url /\ row.delegation = Cardinality(amount)
      BY <1>3, <1>7 DEF Rows
    <3>2. q'.rows = [q.rows EXCEPT ![n] = row]
      BY <2>2
    <3> HIDE DEF row
    <3>3. DOMAIN q'.rows = 1..n /\ q'.rows[n] = row /\ \A m \in 1..n : m # n => q'.rows[m] = q.rows[m]
      BY <1>3, <3>2
    <3>4. Len(q'.rows) = n
      BY <1>3, <3>3, <1>2, QueryTypes DEF Queries, Asked
    <3>5. \A m \in 1..n : m < n => m # n
      BY <1>3
    <3>6. QED
      BY <3>1, <3>3, <3>4, <3>5
  <2>3. QED
    BY <1>4, <2>1, <2>2
<1>10. RowsRead'
  <2> SUFFICES ASSUME NEW m \in 1..n PROVE UpdatesAsOf(q.rows[m], q.found[m], q.epoch)'
    BY <1>9 DEF RowsRead
  <2>1. PICK s, p, e : s = q.rows[m] /\ p = q.found[m] /\ e = q.epoch
    OBVIOUS
  <2>2. UpdatesAsOf(s, p, e)
    BY <1>3, <1>7, <2>1
  <2>3. /\ q'.epoch = e /\ q'.found[m] = p /\ q'.rows[m].pool = s.pool /\ q'.rows[m].terms = s.terms
        /\ q'.rows[m].since = s.since /\ q'.rows[m].url = s.url
    BY <1>4, <1>9, <2>1
  <2>4. QED
    BY <1>1, <2>2, <2>3, RowKept
<1>11. StakesRead'
  <2> SUFFICES ASSUME NEW m \in 1..n, m < n \/ q'.pc \notin {"stake", "noStake"}
               PROVE  q'.rows[m].delegation = Cardinality(StakeRows(q.found[m], q.epoch)')
    BY <1>9 DEF StakesRead
  <2>1. StakeRows(q.found[m], q.epoch)' = StakeRows(q.found[m], q.epoch)
    BY <1>1, <1>4 DEF StakeRows
  <2>2. CASE m < n
    <3>1. q.rows[m].delegation = Cardinality(StakeRows(q.found[m], q.epoch))
      BY <1>3, <1>6, <2>2 DEF StakesRead
    <3>2. QED
      BY <1>9, <2>1, <2>2, <3>1
  <2>3. CASE m = n
    <3>1. q.rows[n].pool = q.found[n]
      BY <1>3, <1>7 DEF UpdatesAsOf
    <3>2. amount = StakeRows(q.found[m], q.epoch)
      BY <2>3, <3>1 DEF amount
    <3>3. q'.pc # "noStake"
      BY <1>3, <2>3
    <3>4. QED
      BY <1>9, <2>1, <2>3, <3>2, <3>3
  <2>4. QED
    BY <1>3, <2>2, <2>3
<1>12. AllHaveUpdates' /\ PageFound'
  BY <1>1, <1>4, <1>6, FoundKept
<1>13. QED
  BY <1>8, <1>10, <1>11, <1>12 DEF AnswerInv

LEMMA AnswerStep ==
  ASSUME TypeInv, AnswerInv, [Next]_vars
  PROVE  AnswerInv'
<1> SUFFICES ASSUME Sure' PROVE AnswerInv'
  BY DEF AnswerInv
<1>1. CASE UNCHANGED vars
  <2>1. UNCHANGED <<epoch, certs, stakes, rollbacks>> /\ q' = q
    BY <1>1 DEF vars, tables
  <2>2. Sure
    BY <2>1 DEF Sure, Undisturbed
  <2>3. AllHaveUpdates /\ RowsRead /\ StakesRead /\ PageFound /\ q.pc \notin {"thrown", "noAddress"}
    BY <2>2 DEF AnswerInv
  <2>4. AllHaveUpdates' /\ PageFound'
    BY <2>1, <2>3, FoundKept
  <2>5. \A n : UpToEpoch(q.found[n], q.epoch)' = UpToEpoch(q.found[n], q.epoch)
    BY <2>1 DEF UpToEpoch, Updates
  <2>6. RowsRead'
    BY <2>1, <2>3, <2>5, RowsStay
  <2>7. StakesRead'
    BY <2>1, <2>3 DEF StakesRead, StakeRows
  <2>8. QED
    BY <2>1, <2>3, <2>4, <2>6, <2>7 DEF AnswerInv
<1>2. CASE Register \/ Retire \/ NewEpoch \/ Rollback
  BY <1>2, AnswerOverEnvironment
<1>3. CASE AskList
  <2>1. q'.pc \in {"epoch", "search"}
    BY <1>3 DEF AskList
  <2>2. QED
    BY <2>1 DEF Sure
<1>4. CASE AskPool
  <2>1. q'.kind = "get"
    BY <1>4 DEF AskPool
  <2>2. QED
    BY <2>1 DEF Sure
<1>5. CASE ReadEpoch
  <2>1. q.pc = "epoch" /\ q' = [q EXCEPT !.epoch = epoch, !.began = epoch, !.pc = IF q.kind = "list" THEN "search" ELSE "updates"]
    BY <1>5 DEF ReadEpoch, Step
  <2>2. Asked
    BY <2>1 DEF TypeInv, Idle
  <2>3. q'.kind = q.kind /\ (q.kind = "list" => q'.pc = "search")
    BY <2>1, <2>2 DEF Asked
  <2>4. QED
    BY <2>3 DEF Sure
<1>6. CASE SearchPools
  BY <1>6, AnswerSearch
<1>7. CASE ReadUpdates
  BY <1>7, AnswerUpdates
<1>8. CASE ReadStake
  BY <1>8, AnswerStake
<1>9. QED
  BY <1>1, <1>2, <1>3, <1>4, <1>5, <1>6, <1>7, <1>8 DEF Next

-----------------------------------------------------------------------------
(***************************************************************************)
(* The same for a single pool, whose row may have nothing set: its updates *)
(* may all count from later epochs.                                        *)
(***************************************************************************)
SurePool == q.kind = "get" /\ q.pc \notin {"idle", "epoch"} /\ Undisturbed

NothingSet(r) == r.terms = 0 /\ r.url = NoUrl

RowRight(n) ==
  \/ NothingSet(q.rows[n])
  \/ /\ UpdatesAsOf(q.rows[n], q.found[n], q.epoch)
     /\ q.pc \notin {"stake", "noStake"} =>
          q.rows[n].delegation = Cardinality(StakeRows(q.found[n], q.epoch))

PoolInv ==
  SurePool => /\ Len(q.found) = 1
              /\ q.pc = "notFound" => UpToEpoch(q.found[1], q.epoch) = {}
              /\ q.pc = "done" => \A n \in DOMAIN q.rows : q.rows[n].url # NoUrl
              /\ \A n \in DOMAIN q.rows : RowRight(n)

LEMMA SurePoolFacts ==
  ASSUME TypeInv, SurePool
  PROVE  /\ Asked /\ Follows
         /\ q.epoch \in Int /\ epoch \in Int /\ q.epoch <= epoch /\ q.rolled = rollbacks /\ rollbacks \in Int
<1>1. Asked /\ Follows
  BY DEF TypeInv, SurePool, Idle
<1>2. q.epoch \in Int /\ epoch \in Int /\ q.began \in Int
  BY <1>1 DEF Asked, Unknown, Epochs, TypeInv, Tables
<1>3. q.epoch <= q.began /\ q.began <= epoch /\ q.rolled = rollbacks /\ rollbacks \in Int
  BY <1>1 DEF SurePool, Undisturbed, Follows, TypeInv, Tables
<1>4. QED
  BY <1>1, <1>2, <1>3

\* What is read of an epoch that has begun does not change but by a rollback.
LEMMA EpochStays ==
  ASSUME TypeInv, Register \/ Retire \/ NewEpoch, NEW e \in Int, e <= epoch
  PROVE  /\ q' = q /\ rollbacks' = rollbacks
         /\ DOMAIN certs \subseteq DOMAIN certs'
         /\ \A i \in DOMAIN certs : certs'[i] = certs[i]
         /\ \A p : UpToEpoch(p, e)' = UpToEpoch(p, e) /\ StakeRows(p, e)' = StakeRows(p, e)
<1>1. CASE Register \/ Retire
  <2>1. UNCHANGED <<epoch, stakes, rollbacks, q>>
    BY <1>1, CertsGrow DEF TypeInv
  <2>2. /\ DOMAIN certs \subseteq DOMAIN certs'
        /\ \A i \in DOMAIN certs : certs'[i] = certs[i]
        /\ \A p : {i \in DOMAIN certs' : certs'[i].kind = "update" /\ certs'[i].pool = p /\ certs'[i].epoch <= e}
                  = UpToEpoch(p, e)
    BY <1>1, PastStays DEF TypeInv
  <2>3. ASSUME NEW p PROVE UpToEpoch(p, e)' = UpToEpoch(p, e)
    <3>1. UpToEpoch(p, e)'
          = {i \in DOMAIN certs' : certs'[i].kind = "update" /\ certs'[i].pool = p /\ certs'[i].epoch <= e}
      BY DEF UpToEpoch, Updates
    <3>2. QED
      BY <2>2, <3>1
  <2>4. \A p : StakeRows(p, e)' = StakeRows(p, e)
    BY <2>1 DEF StakeRows
  <2>5. QED
    BY <2>1, <2>2, <2>3, <2>4
<1>2. CASE NewEpoch
  <2>1. UNCHANGED <<certs, rollbacks, q>> /\ epoch \in Int
    BY <1>2 DEF NewEpoch, TypeInv, Tables, Epochs
  <2>2. PICK S \in SUBSET Pools : stakes' = stakes \cup {[pool |-> p, epoch |-> epoch + 1] : p \in S}
    BY <1>2 DEF NewEpoch
  <2>3. \A s \in stakes' : s \in stakes \/ s.epoch = epoch + 1
    BY <2>2
  <2>4. stakes \subseteq stakes' /\ \A s \in stakes' : s.epoch <= e => s \in stakes
    BY <2>1, <2>2, <2>3
  <2>5. \A p : StakeRows(p, e)' = StakeRows(p, e)
    BY <2>4 DEF StakeRows
  <2>6. \A p : UpToEpoch(p, e)' = UpToEpoch(p, e)
    BY <2>1 DEF UpToEpoch, Updates
  <2>7. QED
    BY <2>1, <2>5, <2>6
<1>3. QED
  BY <1>1, <1>2

LEMMA PoolOverEnvironment ==
  ASSUME TypeInv, PoolInv, Register \/ Retire \/ NewEpoch \/ Rollback, SurePool'
  PROVE  PoolInv'
<1>1. q' = q
  BY TablesStep DEF TypeInv
<1>2. Asked /\ Follows
  BY <1>1 DEF TypeInv, SurePool, Idle
<1>3. ~Rollback
  <2> SUFFICES ASSUME Rollback PROVE FALSE
    OBVIOUS
  <2>1. rollbacks' = rollbacks + 1 /\ rollbacks \in Int /\ q.rolled \in Int
    BY <1>2 DEF Rollback, TypeInv, Tables, Asked
  <2>2. q.rolled = rollbacks' /\ q.rolled <= rollbacks
    BY <1>1, <1>2 DEF SurePool, Undisturbed, Follows
  <2>3. QED
    BY <2>1, <2>2
<1>4. rollbacks' = rollbacks
  BY <1>3, CertsGrow DEF TypeInv, NewEpoch
<1>5. SurePool
  BY <1>1, <1>4 DEF SurePool, Undisturbed
<1>6. q.epoch \in Int /\ q.epoch <= epoch
  BY <1>5, SurePoolFacts
<1>7. PICK e \in Int : e = q.epoch /\ e <= epoch
  BY <1>6
<1>8. /\ DOMAIN certs \subseteq DOMAIN certs'
      /\ \A i \in DOMAIN certs : certs'[i] = certs[i]
      /\ \A p : UpToEpoch(p, e)' = UpToEpoch(p, e) /\ StakeRows(p, e)' = StakeRows(p, e)
  BY <1>3, <1>7, EpochStays
<1>9. ASSUME NEW n PROVE /\ UpToEpoch(q.found[n], q.epoch)' = UpToEpoch(q.found[n], q.epoch)
                         /\ StakeRows(q.found[n], q.epoch)' = StakeRows(q.found[n], q.epoch)
  <2>1. PICK p : p = q.found[n]
    OBVIOUS
  <2>2. UpToEpoch(q.found[n], q.epoch)' = UpToEpoch(p, e)' /\ StakeRows(q.found[n], q.epoch)' = StakeRows(p, e)'
    BY <1>1, <1>7, <2>1 DEF UpToEpoch, Updates, StakeRows
  <2>3. QED
    BY <1>7, <1>8, <2>1, <2>2
<1>10. ASSUME NEW n \in DOMAIN q.rows PROVE RowRight(n)'
  <2>1. RowRight(n)
    BY <1>5 DEF PoolInv
  <2>2. CASE NothingSet(q.rows[n])
    BY <1>1, <2>2 DEF RowRight, NothingSet
  <2>3. CASE ~NothingSet(q.rows[n])
    <3>1. UpdatesAsOf(q.rows[n], q.found[n], q.epoch)'
      BY <1>1, <1>8, <1>9, <2>1, <2>3, RowStays DEF RowRight
    <3>2. QED
      BY <1>1, <1>9, <2>1, <2>3, <3>1 DEF RowRight
  <2>4. QED
    BY <2>2, <2>3
<1>11. UpToEpoch(q.found[1], q.epoch)' = UpToEpoch(q.found[1], q.epoch)
  BY <1>9
<1>12. QED
  BY <1>1, <1>5, <1>10, <1>11 DEF PoolInv

LEMMA PoolReadEpoch ==
  ASSUME TypeInv, ReadEpoch, SurePool'
  PROVE  PoolInv'
<1>1. q.pc = "epoch" /\ q' = [q EXCEPT !.epoch = epoch, !.began = epoch, !.pc = IF q.kind = "list" THEN "search" ELSE "updates"]
  BY DEF ReadEpoch, Step
<1>2. Asked /\ Follows
  BY <1>1 DEF TypeInv, Idle
<1>3. q'.kind = q.kind /\ q'.found = q.found /\ q'.rows = q.rows /\ (q.kind = "get" => q'.pc = "updates")
  BY <1>1, <1>2 DEF Asked
<1>4. q.kind = "get"
  BY <1>3 DEF SurePool
<1>5. Len(q'.found) = 1 /\ DOMAIN q'.rows = {} /\ q'.pc = "updates"
  BY <1>1, <1>2, <1>3, <1>4 DEF Follows
<1>6. QED
  BY <1>5 DEF PoolInv

LEMMA PoolUpdates ==
  ASSUME TypeInv, PoolInv, ReadUpdates, SurePool'
  PROVE  PoolInv'
<1>1. q.pc = "updates" /\ UNCHANGED <<epoch, certs, stakes, rollbacks>>
  BY DEF ReadUpdates, tables
<1>2. Asked /\ Follows
  BY <1>1 DEF TypeInv, Idle
<1>3. /\ q'.kind = q.kind /\ q'.epoch = q.epoch /\ q'.began = q.began /\ q'.rolled = q.rolled
      /\ q'.found = q.found
  <2>1. \/ q' = [q EXCEPT !.pc = q'.pc]
        \/ q' = [q EXCEPT !.pc = q'.pc, !.rows = q'.rows]
    BY <1>2 DEF ReadUpdates, Asked
  <2>2. QED
    BY <1>2, <2>1 DEF Asked
<1>4. SurePool
  BY <1>1, <1>3 DEF SurePool, Undisturbed
<1>5. Len(q.found) = 1 /\ q.kind = "get"
  BY <1>4 DEF PoolInv, SurePool
<1>6. q.rows = << >> /\ ThisPool = q.found[1]
  <2>1. q.rows \in Seq(Rows) /\ Len(q.rows) < 1
    BY <1>1, <1>2, <1>5 DEF Asked, Follows
  <2>2. Len(q.rows) = 0 /\ q.rows = << >>
    BY <2>1
  <2>3. QED
    BY <2>2 DEF ThisPool
<1>7. CASE Updates(ThisPool) = {}
  <2>1. Folded(ThisPool, q.epoch) = {}
    BY <1>7 DEF Folded, UpToEpoch, Newest
  <2>2. q' = [q EXCEPT !.pc = "notFound"]
    BY <1>5, <1>7, <2>1 DEF ReadUpdates
  <2>3. q'.pc = "notFound" /\ q'.rows = << >>
    BY <1>2, <1>6, <2>2 DEF Asked
  <2>4. UpToEpoch(q.found[1], q.epoch)' = {}
    BY <1>1, <1>3, <1>6, <1>7 DEF UpToEpoch, Updates
  <2>5. QED
    BY <1>3, <1>5, <2>3, <2>4 DEF PoolInv
<1>8. CASE Updates(ThisPool) # {} /\ UpToEpoch(ThisPool, q.epoch) = {}
  <2> DEFINE r == [pool |-> 0, since |-> 0, terms |-> 0, url |-> NoUrl, delegation |-> 0]
  <2>1. Folded(ThisPool, q.epoch) = {}
    BY <1>8 DEF Folded, Newest
  <2>2. q' = [q EXCEPT !.pc = "stake", !.rows = Append(@, r)]
    BY <1>5, <1>8, <2>1 DEF ReadUpdates
  <2>3. NothingSet(r)
    BY DEF NothingSet
  <2> HIDE DEF r
  <2>4. q'.pc = "stake" /\ q'.rows = <<r>>
    BY <1>2, <1>6, <2>2 DEF Asked
  <2>5. DOMAIN q'.rows = {1} /\ q'.rows[1] = r
    BY <2>4
  <2>6. \A n \in DOMAIN q'.rows : RowRight(n)'
    BY <2>3, <2>5 DEF RowRight, NothingSet
  <2>7. QED
    BY <1>3, <1>5, <2>4, <2>6 DEF PoolInv
<1>9. CASE Updates(ThisPool) # {} /\ UpToEpoch(ThisPool, q.epoch) # {}
  <2>1. PICK r \in Rows : /\ q' = [q EXCEPT !.pc = "stake", !.rows = Append(@, r)]
                          /\ \E d \in Folded(ThisPool, q.epoch) :
                               r = [pool |-> ThisPool, since |-> d.since, terms |-> d.terms, url |-> d.url, delegation |-> 0]
    BY <1>9, RowRead
  <2>2. q'.pc = "stake" /\ q'.rows = <<r>>
    BY <1>2, <1>6, <2>1 DEF Asked
  <2>3. DOMAIN q'.rows = {1} /\ q'.rows[1] = r
    BY <2>2
  <2>4. PICK p, e : p = ThisPool /\ e = q.epoch
    OBVIOUS
  <2>5. UpdatesAsOf(r, p, e)
    BY <1>9, <2>1, <2>4, RowIsRight DEF TypeInv, Tables
  <2>6. UpdatesAsOf(q.rows[1], q.found[1], q.epoch)'
    <3>1. q'.epoch = e /\ q'.found[1] = p /\ q'.rows[1] = r
      BY <1>3, <1>6, <2>3, <2>4
    <3>2. QED
      BY <1>1, <2>5, <3>1, RowKept
  <2>7. \A n \in DOMAIN q'.rows : RowRight(n)'
    BY <2>2, <2>3, <2>6 DEF RowRight
  <2>8. QED
    BY <1>3, <1>5, <2>2, <2>7 DEF PoolInv
<1>10. QED
  BY <1>7, <1>8, <1>9

LEMMA PoolStake ==
  ASSUME TypeInv, PoolInv, ReadStake, SurePool'
  PROVE  PoolInv'
<1> DEFINE n == Len(q.rows)
           amount == StakeRows(q.rows[n].pool, q.epoch)
           next == IF n < Len(q.found) THEN "updates" ELSE Sendable
<1>1. /\ q.pc = "stake" /\ UNCHANGED <<epoch, certs, stakes, rollbacks>>
      /\ \/ q' = [q EXCEPT !.rows[n].delegation = Cardinality(amount), !.pc = next]
         \/ q' = [q EXCEPT !.pc = "noStake"]
  BY DEF ReadStake, tables
<1>2. Asked /\ Follows
  BY <1>1 DEF TypeInv, Idle
<1>3. /\ q'.kind = q.kind /\ q'.epoch = q.epoch /\ q'.began = q.began /\ q'.rolled = q.rolled
      /\ q'.found = q.found
  <2> HIDE DEF next, amount
  <2>1. QED
    BY <1>1, <1>2 DEF Asked
<1>4. SurePool
  BY <1>1, <1>3 DEF SurePool, Undisturbed
<1>5. Len(q.found) = 1 /\ q.kind = "get" /\ \A m \in DOMAIN q.rows : RowRight(m)
  BY <1>4 DEF PoolInv, SurePool
<1>6. n = 1 /\ DOMAIN q.rows = {1} /\ q.rows[1] \in Rows
  <2>1. q.rows \in Seq(Rows) /\ q.rows # << >> /\ n <= 1 /\ n \in Nat /\ n # 0
    BY <1>1, <1>2, <1>5 DEF Asked, Follows
  <2>2. DOMAIN q.rows = 1..n
    BY <2>1
  <2> HIDE DEF n
  <2>3. n = 1
    BY <2>1
  <2>4. q.rows[1] \in Rows /\ DOMAIN q.rows = {1}
    BY <2>1, <2>2, <2>3
  <2>5. QED
    BY <2>3, <2>4
<1>7. next = Sendable /\ next \in {"badUri", "done"} /\ (next = "done" => q.rows[1].url # NoUrl)
  BY <1>5, <1>6 DEF Sendable
<1>8. NothingSet(q.rows[1]) \/ UpdatesAsOf(q.rows[1], q.found[1], q.epoch)
  BY <1>5, <1>6 DEF RowRight
<1>9. amount = StakeRows(q.rows[1].pool, q.epoch)
  BY <1>6
<1> HIDE DEF next, amount, n
<1>10. CASE q' = [q EXCEPT !.pc = "noStake"]
  <2>1. q'.pc = "noStake" /\ q'.rows = q.rows
    BY <1>2, <1>10 DEF Asked
  <2>2. RowRight(1)'
    <3>1. CASE NothingSet(q.rows[1])
      BY <2>1, <3>1 DEF RowRight, NothingSet
    <3>2. CASE UpdatesAsOf(q.rows[1], q.found[1], q.epoch)
      <4>1. PICK r, p, e : r = q.rows[1] /\ p = q.found[1] /\ e = q.epoch
        OBVIOUS
      <4>2. UpdatesAsOf(r, p, e) /\ q'.epoch = e /\ q'.found[1] = p /\ q'.rows[1] = r
        BY <1>3, <2>1, <3>2, <4>1
      <4>3. UpdatesAsOf(q.rows[1], q.found[1], q.epoch)'
        BY <1>1, <4>2, RowKept
      <4>4. QED
        BY <2>1, <4>3 DEF RowRight
    <3>3. QED
      BY <1>8, <3>1, <3>2
  <2>3. QED
    BY <1>3, <1>5, <1>6, <2>1, <2>2 DEF PoolInv
<1>11. CASE q' = [q EXCEPT !.rows[n].delegation = Cardinality(amount), !.pc = next]
  <2> DEFINE row == [q.rows[1] EXCEPT !.delegation = Cardinality(amount)]
  <2>1. /\ row.pool = q.rows[1].pool /\ row.terms = q.rows[1].terms /\ row.since = q.rows[1].since
        /\ row.url = q.rows[1].url /\ row.delegation = Cardinality(amount)
    BY <1>6 DEF Rows
  <2>2. q'.rows = [q.rows EXCEPT ![1] = row] /\ q'.pc = next
    BY <1>2, <1>6, <1>11 DEF Asked
  <2> HIDE DEF row
  <2>3. DOMAIN q'.rows = {1} /\ q'.rows[1] = row
    BY <1>6, <2>2
  <2>4. RowRight(1)'
    <3>1. CASE NothingSet(q.rows[1])
      BY <2>1, <2>3, <3>1 DEF RowRight, NothingSet
    <3>2. CASE UpdatesAsOf(q.rows[1], q.found[1], q.epoch)
      <4>1. PICK r, p, e : r = q.rows[1] /\ p = q.found[1] /\ e = q.epoch
        OBVIOUS
      <4>2. /\ UpdatesAsOf(r, p, e) /\ q'.epoch = e /\ q'.found[1] = p
            /\ q'.rows[1].pool = r.pool /\ q'.rows[1].terms = r.terms
            /\ q'.rows[1].since = r.since /\ q'.rows[1].url = r.url
        BY <1>3, <2>1, <2>3, <3>2, <4>1
      <4>3. UpdatesAsOf(q.rows[1], q.found[1], q.epoch)'
        BY <1>1, <4>2, RowKept
      <4>4. q.rows[1].pool = q.found[1]
        BY <3>2 DEF UpdatesAsOf
      <4>5. StakeRows(q.found[1], q.epoch)' = amount
        BY <1>1, <1>3, <1>9, <4>4 DEF StakeRows
      <4>6. QED
        BY <2>1, <2>3, <4>3, <4>5 DEF RowRight
    <3>3. QED
      BY <1>8, <3>1, <3>2
  <2>5. q'.pc # "notFound" /\ (q'.pc = "done" => q'.rows[1].url # NoUrl)
    BY <1>7, <2>1, <2>2, <2>3
  <2>6. QED
    BY <1>3, <1>5, <2>3, <2>4, <2>5 DEF PoolInv
<1>12. QED
  BY <1>1, <1>10, <1>11

LEMMA PoolStep ==
  ASSUME TypeInv, PoolInv, [Next]_vars
  PROVE  PoolInv'
<1> SUFFICES ASSUME SurePool' PROVE PoolInv'
  BY DEF PoolInv
<1>1. CASE UNCHANGED vars
  <2>1. UNCHANGED <<epoch, certs, stakes, rollbacks, q>>
    BY <1>1 DEF vars, tables
  <2>2. Len(q.found) = 1 /\ (q.pc = "notFound" => UpToEpoch(q.found[1], q.epoch) = {})
        /\ (q.pc = "done" => \A n \in DOMAIN q.rows : q.rows[n].url # NoUrl)
        /\ \A n \in DOMAIN q.rows : RowRight(n)
    BY <2>1 DEF PoolInv, SurePool, Undisturbed
  <2>3. ASSUME NEW n PROVE /\ UpToEpoch(q.found[n], q.epoch)' = UpToEpoch(q.found[n], q.epoch)
                           /\ StakeRows(q.found[n], q.epoch)' = StakeRows(q.found[n], q.epoch)
    BY <2>1 DEF UpToEpoch, Updates, StakeRows
  <2>4. ASSUME NEW n \in DOMAIN q.rows PROVE RowRight(n)'
    <3>1. CASE NothingSet(q.rows[n])
      BY <2>1, <3>1 DEF RowRight, NothingSet
    <3>2. CASE ~NothingSet(q.rows[n])
      <4>1. UpdatesAsOf(q.rows[n], q.found[n], q.epoch)'
        BY <2>1, <2>2, <2>3, <3>2, RowStays DEF RowRight
      <4>2. QED
        BY <2>1, <2>2, <2>3, <3>2, <4>1 DEF RowRight
    <3>3. QED
      BY <3>1, <3>2
  <2>5. QED
    BY <2>1, <2>2, <2>3, <2>4 DEF PoolInv
<1>2. CASE Register \/ Retire \/ NewEpoch \/ Rollback
  BY <1>2, PoolOverEnvironment
<1>3. CASE AskList
  <2>1. q'.kind = "list"
    BY <1>3 DEF AskList
  <2>2. QED
    BY <2>1 DEF SurePool
<1>4. CASE AskPool
  <2>1. q'.pc = "epoch"
    BY <1>4 DEF AskPool
  <2>2. QED
    BY <2>1 DEF SurePool
<1>5. CASE ReadEpoch
  BY <1>5, PoolReadEpoch
<1>6. CASE SearchPools
  <2>1. q.pc = "search" /\ q'.kind = q.kind
    <3>1. q.pc = "search" /\ q' = [q EXCEPT !.found = q'.found, !.total = q'.total, !.pc = q'.pc]
      BY <1>6 DEF SearchPools, Step, TypeInv, Idle, Asked
    <3>2. QED
      BY <3>1 DEF TypeInv, Idle, Asked
  <2>2. q.kind = "list"
    BY <2>1 DEF TypeInv, Idle, Asked, Follows
  <2>3. QED
    BY <2>1, <2>2 DEF SurePool
<1>7. CASE ReadUpdates
  BY <1>7, PoolUpdates
<1>8. CASE ReadStake
  BY <1>8, PoolStake
<1>9. QED
  BY <1>1, <1>2, <1>3, <1>4, <1>5, <1>6, <1>7, <1>8 DEF Next

IInv == TypeInv /\ AnswerInv /\ PoolInv

LEMMA IInvAlways == Spec => []IInv
<1>1. Init => IInv
  BY TypeInit DEF Init, IInv, AnswerInv, Sure, PoolInv, SurePool
<1>2. IInv /\ [Next]_vars => IInv'
  BY TypeStep, AnswerStep, PoolStep DEF IInv
<1>3. QED
  BY <1>1, <1>2, PTL DEF Spec

\* A pool that the search has found has an update up to the epoch asked for when
\* its details are read: the throw of ListStakePools and a row without an address
\* need a rollback between the queries.
THEOREM FoundAlwaysStays == Spec => []FoundStaysFound
<1>1. IInv => FoundStaysFound
  <2> SUFFICES ASSUME IInv, q.pc \in {"thrown", "noAddress"}, Undisturbed PROVE FALSE
    BY DEF FoundStaysFound
  <2>1. Asked /\ Follows
    BY DEF IInv, TypeInv, Idle
  <2>2. Sure
    BY <2>1 DEF Sure, Asked, Follows
  <2>3. QED
    BY <2>2 DEF IInv, AnswerInv
<1>2. QED
  BY <1>1, IInvAlways, PTL

\* The rows of an answer, of either kind of request.
LEMMA RowsAreRight ==
  ASSUME IInv, q.pc = "done", Undisturbed, NEW n \in DOMAIN q.rows
  PROVE  RowAsOf(q.rows[n], q.found[n], q.epoch)
<1>1. Asked
  BY DEF IInv, TypeInv, Idle
<1>2. UpdatesAsOf(q.rows[n], q.found[n], q.epoch) /\ q.rows[n].delegation = Cardinality(StakeRows(q.found[n], q.epoch))
  <2>1. CASE q.kind = "list"
    <3>1. Sure
      BY <2>1 DEF Sure
    <3>2. QED
      BY <3>1 DEF IInv, AnswerInv, RowsRead, StakesRead
  <2>2. CASE q.kind = "get"
    <3>1. SurePool
      BY <2>2 DEF SurePool
    <3>2. RowRight(n) /\ q.rows[n].url # NoUrl
      BY <3>1 DEF IInv, PoolInv
    <3>3. QED
      BY <3>2 DEF RowRight, NothingSet
  <2>3. QED
    BY <1>1, <2>1, <2>2 DEF Asked
<1>3. QED
  BY <1>2 DEF RowAsOf, UpdatesAsOf, UpToEpoch, StakeRows

\* The page of a list.
LEMMA PageIsRight ==
  ASSUME IInv, q.pc = "done", q.kind = "list", Undisturbed, NobodyReturned
  PROVE  /\ \A n, m \in DOMAIN q.found : n < m => q.found[n] < q.found[m]
         /\ Range(q.found) \subseteq Search(q.epoch)
         /\ q.found # << >> =>
              /\ q.total = Cardinality(Search(q.epoch))
              /\ Cardinality({p \in Search(q.epoch) : p < q.found[1]}) = q.offset
              /\ Len(q.found) = q.limit \/ \A p \in Search(q.epoch) : p <= Last(q.found)
<1>1. Asked
  BY DEF IInv, TypeInv, Idle
<1>2. Sure
  BY DEF Sure
<1>3. PageFound
  BY <1>2 DEF IInv, AnswerInv
<1> DEFINE S == Search(q.epoch)
<1>4. S \in SUBSET Pools
  BY SearchedPools
<1>5. q.found = Page(Ascending(S), q.offset, q.limit) /\ q.total = Total(q.epoch, q.found)
  BY <1>3 DEF PageFound
<1>6. q.found # << >> => q.total = Cardinality(S)
  BY <1>5 DEF Total
<1> HIDE DEF S
<1>7. /\ q.found \in Seq(S)
      /\ \A n, m \in DOMAIN q.found : n < m => q.found[n] < q.found[m]
      /\ q.found # << >> => /\ Cardinality({p \in S : p < q.found[1]}) = q.offset
                            /\ Len(q.found) = q.limit \/ \A p \in S : p <= Last(q.found)
  <2>1. q.offset \in 0..NumPools /\ q.limit \in Pools
    BY <1>1 DEF Asked
  <2>2. PICK o \in 0..NumPools, l \in Pools, s \in {q.found} : o = q.offset /\ l = q.limit /\ s = q.found
    BY <2>1
  <2>3. s = Page(Ascending(S), o, l)
    BY <1>5, <2>2
  <2>4. /\ s \in Seq(S)
        /\ \A n, m \in DOMAIN s : n < m => s[n] < s[m]
        /\ s # << >> => /\ Cardinality(Before(S, s[1])) = o
                        /\ Len(s) = l \/ \A p \in S : p <= Last(s)
    BY <1>4, <2>3, PageIs
  <2>5. Before(S, s[1]) = {p \in S : p < q.found[1]}
    BY <2>2 DEF Before
  <2>6. QED
    BY <2>2, <2>4, <2>5
<1>8. Range(q.found) \subseteq S
  BY <1>7 DEF Range
<1>9. QED
  BY <1>6, <1>7, <1>8 DEF S

LEMMA AnswerIsRight ==
  ASSUME IInv
  PROVE  AnswersAsOfEpoch
<1>1. ASSUME q.pc = "notFound", Undisturbed PROVE UpToEpoch(q.found[1], q.epoch) = {}
  <2>1. Asked
    BY <1>1 DEF IInv, TypeInv, Idle
  <2>2. q.kind = "get"
    BY <1>1, <2>1 DEF IInv, TypeInv, Idle, Asked, Follows
  <2>3. SurePool
    BY <1>1, <2>2 DEF SurePool
  <2>4. QED
    BY <1>1, <2>3 DEF IInv, PoolInv
<1>2. QED
  BY <1>1, RowsAreRight, PageIsRight DEF AnswersAsOfEpoch

\* The answer for an epoch that has begun, of a list and of a single pool, is what
\* the tables say of that epoch when it is done, however many certificates and
\* epochs come between its queries.
THEOREM AlwaysAnswersAsOfEpoch == Spec => []AnswersAsOfEpoch
<1>1. IInv => AnswersAsOfEpoch
  BY AnswerIsRight
<1>2. QED
  BY <1>1, IInvAlways, PTL
=============================================================================
