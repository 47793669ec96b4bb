-------------------------- MODULE Excerpts_proofs --------------------------
(***************************************************************************)
(* Facts that the proofs share: least and greatest numbers, products and   *)
(* quotients, induction and recursion over numbers, what the lists of      *)
(* Excerpts and joined lists contain and in which order, and that a        *)
(* recursive definition whose recursion descends defines a function.       *)
(***************************************************************************)
EXTENDS Excerpts, SequencesExt, FiniteSetTheorems, SequenceTheorems, WellFoundedInduction, TLAPS

-----------------------------------------------------------------------------
\* Numbers

\* Every set of numbers has a least one.
LEMMA LeastNatural ==
  ASSUME NEW T \in SUBSET Nat, T # {}
  PROVE  \E m \in T : \A n \in T : m <= n
<1>1. PICK m \in T : \A n \in T : ~(<<n, m>> \in OpToRel(<, Nat))
  BY WFMin, NatLessThanWellFounded
<1>2. \A n \in T : ~(n < m)
  BY <1>1 DEF OpToRel
<1>3. \A n \in T : n \in Nat /\ m \in Nat
  OBVIOUS
<1> QED BY <1>2, <1>3

\* Induction, for a set of numbers.
LEMMA AllNumbers ==
  ASSUME NEW T, 0 \in T, \A n \in Nat : n \in T => n + 1 \in T
  PROVE  \A n \in Nat : n \in T
<1> SUFFICES ASSUME NEW x \in Nat, x \notin T PROVE FALSE
  OBVIOUS
<1> DEFINE bad == {n \in Nat : n \notin T}
<1>1. PICK m \in bad : \A n \in bad : m <= n
  BY LeastNatural
<1>2. m # 0 /\ m \in Nat
  BY <1>1
<1>3. m - 1 \in Nat /\ ~(m <= m - 1)
  BY <1>2
<1>4. m - 1 \in T
  BY <1>1, <1>3
<1>5. (m - 1) + 1 = m
  BY <1>2
<1> QED BY <1>1, <1>3, <1>4, <1>5

\* f has what D makes of a first value, step by step.
Iterated(f, V, first, D, N) ==
    /\ f \in [0..N -> V]
    /\ f[0] = first
    /\ \A n \in 1..N : f[n] = D[<<f[n - 1], n>>]

\* Recursion over numbers.
LEMMA Iterates ==
  ASSUME NEW V, NEW first \in V, NEW D \in [V \X Nat -> V], NEW N \in Nat
  PROVE  \E f : Iterated(f, V, first, D, N)
<1> DEFINE Good == {m \in Nat : \E f \in [0..m -> V] :
                       \A n \in 0..m : f[n] = IF n = 0 THEN first ELSE D[<<f[n - 1], n>>]}
<1>1. 0 \in Good
  <2> DEFINE f == [n \in 0..0 |-> first]
  <2>1. f \in [0..0 -> V] /\ \A n \in 0..0 : n = 0 /\ f[n] = first
    OBVIOUS
  <2> QED BY <2>1
<1>2. ASSUME NEW m \in Nat, m \in Good PROVE m + 1 \in Good
  <2>1. PICK f \in [0..m -> V] : \A n \in 0..m : f[n] = IF n = 0 THEN first ELSE D[<<f[n - 1], n>>]
    BY <1>2
  <2> DEFINE g == [n \in 0..(m + 1) |-> IF n = m + 1 THEN D[<<f[m], m + 1>>] ELSE f[n]]
  <2>2. \A n \in 0..(m + 1) : n = m + 1 \/ n \in 0..m
    OBVIOUS
  <2>3. m \in 0..m /\ m + 1 \in Nat /\ m + 1 # 0 /\ m + 1 \notin 0..m
    OBVIOUS
  <2>4. D[<<f[m], m + 1>>] \in V
    BY <2>3
  <2>5. g \in [0..(m + 1) -> V]
    BY <2>2, <2>4
  <2>6. \A n \in 0..m : n \in 0..(m + 1) /\ g[n] = f[n]
    BY <2>3
  <2>7. ASSUME NEW n \in 0..(m + 1)
        PROVE  g[n] = IF n = 0 THEN first ELSE D[<<g[n - 1], n>>]
    <3>1. CASE n = m + 1
      <4>1. g[n] = D[<<f[m], m + 1>>] /\ n - 1 = m /\ n # 0
        BY <3>1
      <4>2. g[n - 1] = f[m]
        BY <2>3, <2>6, <4>1
      <4> QED BY <3>1, <4>1, <4>2
    <3>2. CASE n \in 0..m
      <4>1. CASE n = 0
        BY <2>1, <2>6, <3>2, <4>1
      <4>2. CASE n # 0
        <5>1. n - 1 \in 0..m
          BY <3>2, <4>2
        <5>2. g[n - 1] = f[n - 1] /\ g[n] = f[n]
          BY <2>6, <3>2, <5>1
        <5> HIDE DEF g
        <5> QED BY <2>1, <3>2, <4>2, <5>2
      <4> QED BY <4>1, <4>2
    <3> QED BY <2>2, <3>1, <3>2
  <2> HIDE DEF g
  <2>8. \E h \in [0..(m + 1) -> V] :
           \A n \in 0..(m + 1) : h[n] = IF n = 0 THEN first ELSE D[<<h[n - 1], n>>]
    BY <2>5, <2>7
  <2> QED BY <2>8
<1> HIDE DEF Good
<1>3. N \in Good
  BY <1>1, <1>2, AllNumbers
<1>4. PICK f \in [0..N -> V] : \A n \in 0..N : f[n] = IF n = 0 THEN first ELSE D[<<f[n - 1], n>>]
  BY <1>3 DEF Good
<1>5. f[0] = first
  <2>1. 0 \in 0..N
    OBVIOUS
  <2> QED BY <1>4, <2>1
<1>6. ASSUME NEW n \in 1..N PROVE f[n] = D[<<f[n - 1], n>>]
  <2>1. n \in 0..N /\ n # 0
    OBVIOUS
  <2> QED BY <1>4, <2>1
<1> QED BY <1>4, <1>5, <1>6 DEF Iterated

\* Products and quotients.
LEMMA Times ==
  ASSUME NEW a \in Nat, NEW b \in Nat, NEW p \in Nat \ {0}
  PROVE  /\ a * p \in Nat /\ 0 * p = 0
         /\ (a + 1) * p = a * p + p
         /\ (a + b) * p = a * p + b * p
         /\ a <= b => a * p <= b * p
         /\ a * p <= b * p => a <= b
<1>1. a * p \in Nat /\ 0 * p = 0 /\ (a + 1) * p = a * p + p /\ (a + b) * p = a * p + b * p
  OBVIOUS
<1>2. ASSUME NEW x \in Nat, NEW y \in Nat, x <= y PROVE x * p <= y * p
  <2>1. PICK d \in Nat : y = x + d
    <3>1. y - x \in Nat /\ y = x + (y - x)
      BY <1>2
    <3> QED BY <3>1
  <2>2. y * p = x * p + d * p /\ d * p \in Nat /\ x * p \in Nat
    BY <2>1
  <2> QED BY <2>2
<1>3. a * p <= b * p => a <= b
  <2> SUFFICES ASSUME b < a PROVE b * p < a * p
    OBVIOUS
  <2>1. (b + 1) * p <= a * p
    BY <1>2
  <2>2. (b + 1) * p = b * p + p /\ b * p \in Nat /\ a * p \in Nat
    OBVIOUS
  <2> QED BY <2>1, <2>2
<1> QED BY <1>1, <1>2, <1>3

LEMMA Quotient ==
  ASSUME NEW a \in Nat, NEW p \in Nat \ {0}
  PROVE  /\ a \div p \in Nat
         /\ (a \div p) * p <= a /\ a < (a \div p) * p + p
         /\ \A m \in Nat : m <= a \div p <=> m * p <= a
<1> DEFINE q == a \div p
<1>1. q \in Nat /\ q * p <= a /\ a < (q + 1) * p
  OBVIOUS
<1> HIDE DEF q
<1>2. ASSUME NEW m \in Nat PROVE m <= q <=> m * p <= a
  <2>1. m <= q => m * p <= q * p
    BY <1>1, Times
  <2>2. (q + 1) * p <= m * p \/ m <= q
    <3>1. q + 1 <= m \/ m <= q
      BY <1>1
    <3>2. q + 1 \in Nat
      BY <1>1
    <3> QED BY <3>1, <3>2, Times
  <2>3. m * p \in Nat /\ q * p \in Nat /\ (q + 1) * p \in Nat
    BY <1>1, Times
  <2> QED BY <1>1, <2>1, <2>2, <2>3
<1>3. (q + 1) * p = q * p + p
  BY <1>1, Times
<1> QED BY <1>1, <1>2, <1>3 DEF q
-----------------------------------------------------------------------------
\* Excerpts

\* The members before an element of a finite set of numbers, and it.
Rank(places, i) == Cardinality({k \in places : k <= i})

LEMMA RankFacts ==
  ASSUME NEW places \in SUBSET Nat, IsFiniteSet(places)
  PROVE  /\ Cardinality(places) \in Nat
         /\ \A i \in places : Rank(places, i) \in 1..Cardinality(places)
         /\ \A i, j \in places : i < j => Rank(places, i) < Rank(places, j)
         /\ \A n \in 1..Cardinality(places) : \E i \in places : Rank(places, i) = n
<1> DEFINE upto(i) == {k \in places : k <= i}
<1>1. \A i \in places : /\ upto(i) \in SUBSET places /\ IsFiniteSet(upto(i))
                        /\ Cardinality(upto(i)) <= Cardinality(places)
                        /\ i \in upto(i)
  <2> TAKE i \in places
  <2>1. upto(i) \in SUBSET places /\ i \in upto(i)
    OBVIOUS
  <2> QED BY <2>1, FS_Subset
<1>2. /\ Cardinality(places) \in Nat
      /\ \A i \in places : Cardinality(upto(i)) \in Nat /\ Cardinality(upto(i)) # 0
  BY <1>1, FS_CardinalityType, FS_EmptySet
<1>3. \A i, j \in places : i < j => Cardinality(upto(i)) < Cardinality(upto(j))
  <2> TAKE i, j \in places
  <2> HAVE i < j
  <2>0. i \in Nat /\ j \in Nat /\ i < j
    OBVIOUS
  <2>1. upto(i) \in SUBSET upto(j) /\ j \in upto(j) /\ j \notin upto(i)
    <3>1. \A k \in places : k <= i => k <= j
      BY <2>0
    <3>2. j <= j /\ ~(j <= i)
      BY <2>0
    <3> QED BY <3>1, <3>2
  <2>2. Cardinality(upto(i)) <= Cardinality(upto(j)) /\ Cardinality(upto(i)) # Cardinality(upto(j))
    BY <1>1, <2>1, FS_Subset
  <2>3. \A x, y \in Nat : x <= y /\ x # y => x < y
    OBVIOUS
  <2>4. Cardinality(upto(i)) \in Nat /\ Cardinality(upto(j)) \in Nat
    BY <1>2
  <2> QED BY <2>2, <2>3, <2>4
<1>4. \A i \in places : Cardinality(upto(i)) \in 1..Cardinality(places)
  BY <1>1, <1>2
<1> DEFINE n == Cardinality(places)
           rank == [i \in places |-> Cardinality(upto(i))]
<1>5. rank \in Injection(places, 1..n)
  <2>1. rank \in [places -> 1..n]
    BY <1>4
  <2>2. ASSUME NEW i \in places, NEW j \in places, rank[i] = rank[j] PROVE i = j
    <3>1. ~(i < j) /\ ~(j < i)
      BY <1>2, <1>3, <2>2
    <3> QED BY <3>1
  <2> QED BY <2>1, <2>2 DEF Injection, IsInjective
<1>6. IsFiniteSet(1..n) /\ Cardinality(1..n) = n
  BY <1>2, FS_Interval
<1>7. rank \in Surjection(places, 1..n)
  BY <1>5, <1>6, FS_Injection
<1>8. \A m \in 1..n : \E i \in places : Cardinality(upto(i)) = m
  BY <1>7 DEF Surjection
<1> QED BY <1>2, <1>3, <1>4, <1>8 DEF Rank

\* A list has the members of s at some of its places, in order.
ListsPlaces(list, s, places) ==
    /\ ToSet(list) = {s[k] : k \in places}
    /\ \A i, j \in DOMAIN list : i < j =>
          \E k, l \in places : k < l /\ s[k] = list[i] /\ s[l] = list[j]

\* An excerpt has the members at the places, in order.
LEMMA ExcerptOf ==
  ASSUME NEW S, NEW s, NEW places \in SUBSET Nat, IsFiniteSet(places), \A i \in places : s[i] \in S
  PROVE  /\ Excerpt(s, places) \in Seq(S)
         /\ ListsPlaces(Excerpt(s, places), s, places)
         /\ Excerpt(s, places) = <<>> <=> places = {}
         /\ Len(Excerpt(s, places)) = Cardinality(places)
<1>2. IsFiniteSet(places) /\ places \in SUBSET Nat
  OBVIOUS
<1> DEFINE n == Cardinality(places)
           at(j) == CHOOSE i \in places : Rank(places, i) = j
           e == Excerpt(s, places)
<1>3. n \in Nat
  BY <1>2, RankFacts
<1>4. \A j \in 1..n : at(j) \in places /\ Rank(places, at(j)) = j
  BY <1>2, RankFacts
<1>5. \A i \in places : \E j \in 1..n : at(j) = i
  <2> TAKE i \in places
  <2> DEFINE j == Rank(places, i)
  <2>1. j \in 1..n
    BY <1>2, RankFacts
  <2>2. at(j) \in places /\ Rank(places, at(j)) = j
    BY <1>4, <2>1
  <2>3. PICK k \in places : k = at(j)
    BY <2>2
  <2>4. Rank(places, k) = Rank(places, i) /\ Rank(places, i) \in 1..n
    BY <2>1, <2>2, <2>3
  <2>5. ~(k < i) /\ ~(i < k)
    <3>1. \A x \in 1..n : ~(x < x)
      BY <1>3
    <3>2. \A x, y \in places : x < y => Rank(places, x) < Rank(places, y)
      BY <1>2, RankFacts
    <3> HIDE DEF j
    <3> QED BY <2>4, <3>1, <3>2
  <2>6. k \in Nat /\ i \in Nat
    BY <1>2
  <2>7. k = i
    BY <2>5, <2>6
  <2> QED BY <2>1, <2>3, <2>7
<1>6. \A i, j \in 1..n : i < j => at(i) < at(j)
  <2> TAKE i, j \in 1..n
  <2> HAVE i < j
  <2>0. PICK k \in places, l \in places : k = at(i) /\ l = at(j)
    BY <1>4
  <2>1. Rank(places, k) = i /\ Rank(places, l) = j
    BY <1>4, <2>0
  <2>2. ~(l < k) /\ k # l
    BY <1>2, <1>3, <2>1, RankFacts
  <2>3. k \in Nat /\ l \in Nat
    BY <1>2
  <2>4. k < l
    BY <2>2, <2>3
  <2> QED BY <2>0, <2>4
<1>7. e = [j \in 1..n |-> s[at(j)]]
  BY DEF Excerpt, Rank
<1> HIDE DEF at, e
<1>8. \A j \in 1..n : s[at(j)] \in S
  BY <1>4
<1>9. e \in Seq(S) /\ Len(e) = n /\ DOMAIN e = 1..n
  BY <1>3, <1>7, <1>8
<1>10. {e[j] : j \in DOMAIN e} = {s[i] : i \in places}
  BY <1>4, <1>5, <1>7, <1>9
<1>11. \A i, j \in DOMAIN e : i < j => \E k, l \in places : k < l /\ s[k] = e[i] /\ s[l] = e[j]
  BY <1>4, <1>6, <1>7, <1>9
<1>12. e = <<>> <=> places = {}
  <2>1. n = 0 <=> places = {}
    BY <1>2, FS_EmptySet
  <2>2. e = <<>> <=> Len(e) = 0
    BY <1>9
  <2> HIDE DEF n
  <2> QED BY <1>9, <2>1, <2>2
<1> QED BY <1>9, <1>10, <1>11, <1>12 DEF e, ListsPlaces, ToSet

LEMMA ExcerptFacts ==
  ASSUME NEW S, NEW s \in Seq(S), NEW places \in SUBSET DOMAIN s
  PROVE  /\ Excerpt(s, places) \in Seq(S)
         /\ ListsPlaces(Excerpt(s, places), s, places)
         /\ Excerpt(s, places) = <<>> <=> places = {}
         /\ Len(Excerpt(s, places)) = Cardinality(places)
<1>1. DOMAIN s = 1..Len(s) /\ Len(s) \in Nat /\ IsFiniteSet(DOMAIN s)
  BY FS_Interval
<1>2. IsFiniteSet(places) /\ places \in SUBSET Nat
  BY <1>1, FS_Subset
<1>3. \A i \in places : s[i] \in S
  BY <1>1
<1> QED BY <1>2, <1>3, ExcerptOf

LEMMA UpTo ==
  ASSUME NEW n \in Nat
  PROVE  IsFiniteSet(1..n) /\ Cardinality(1..n) = n
<1>1. 1 \in Int /\ n \in Int /\ (IF 1 > n THEN 0 ELSE n - 1 + 1) = n
  OBVIOUS
<1>2. IsFiniteSet(1..n) /\ Cardinality(1..n) = IF 1 > n THEN 0 ELSE n - 1 + 1
  BY <1>1, FS_Interval
<1> QED BY <1>1, <1>2

\* An excerpt of all places is the sequence.
LEMMA ExcerptWhole ==
  ASSUME NEW S, NEW s \in Seq(S), NEW n \in Nat, n = Len(s)
  PROVE  Excerpt(s, 1..n) = s
<1> DEFINE places == 1..n
           at(j) == CHOOSE i \in places : Rank(places, i) = j
<1>1. /\ places \in SUBSET Nat /\ IsFiniteSet(places) /\ Cardinality(places) = n
      /\ s = [j \in 1..n |-> s[j]]
  <2>1. IsFiniteSet(1..n) /\ Cardinality(1..n) = n
    BY UpTo
  <2>2. s = [j \in 1..n |-> s[j]]
    OBVIOUS
  <2> QED BY <2>1, <2>2
<1>2. \A i \in places : Rank(places, i) = i
  <2> TAKE i \in places
  <2>1. {k \in places : k <= i} = 1..i /\ i \in Nat
    OBVIOUS
  <2>2. Cardinality(1..i) = i
    BY <2>1, UpTo
  <2> QED BY <2>1, <2>2 DEF Rank
<1> HIDE DEF places
<1>3. \A j \in places : at(j) = j
  BY <1>2
<1>4. Excerpt(s, places) = [j \in 1..n |-> s[at(j)]]
  BY <1>1 DEF Excerpt, Rank
<1> HIDE DEF at
<1>5. Excerpt(s, places) = [j \in 1..n |-> s[j]]
  BY <1>3, <1>4 DEF places
<1> QED BY <1>1, <1>5 DEF places

\* An excerpt of different members has different members.
LEMMA ExcerptInjective ==
  ASSUME NEW S, NEW s, NEW places \in SUBSET Nat, IsFiniteSet(places), \A i \in places : s[i] \in S,
         \A i, j \in places : s[i] = s[j] => i = j
  PROVE  IsInjective(Excerpt(s, places))
<1> DEFINE e == Excerpt(s, places)
<1>1. e \in Seq(S) /\ ListsPlaces(e, s, places)
  BY ExcerptOf
<1> HIDE DEF e
<1>2. ASSUME NEW i \in DOMAIN e, NEW j \in DOMAIN e, i < j PROVE e[i] # e[j]
  <2>1. PICK k \in places, l \in places : k < l /\ s[k] = e[i] /\ s[l] = e[j]
    BY <1>1, <1>2 DEF ListsPlaces
  <2>2. k \in Nat /\ l \in Nat
    OBVIOUS
  <2> QED BY <2>1, <2>2
<1>3. ASSUME NEW i \in DOMAIN e, NEW j \in DOMAIN e, e[i] = e[j] PROVE i = j
  <2>1. i \in Nat /\ j \in Nat
    BY <1>1
  <2>2. ~(i < j) /\ ~(j < i)
    BY <1>2, <1>3
  <2> QED BY <2>1, <2>2
<1>4. IsInjective(e)
  BY <1>3 DEF IsInjective
<1> QED BY <1>4 DEF e

\* The members that are kept, each once when they were.
LEMMA KeepFacts ==
  ASSUME NEW S, NEW s \in Seq(S), NEW members
  PROVE  /\ Keep(s, members) \in Seq(S)
         /\ ToSet(Keep(s, members)) = ToSet(s) \cap members
         /\ IsInjective(s) => IsInjective(Keep(s, members))
<1> DEFINE places == {i \in DOMAIN s : s[i] \in members}
<1>1. /\ Excerpt(s, places) \in Seq(S)
      /\ ListsPlaces(Excerpt(s, places), s, places)
  BY ExcerptFacts
<1>2. {s[k] : k \in places} = ToSet(s) \cap members
  BY DEF ToSet
<1>3. ASSUME IsInjective(s) PROVE IsInjective(Excerpt(s, places))
  <2>1. DOMAIN s = 1..Len(s) /\ Len(s) \in Nat /\ IsFiniteSet(DOMAIN s)
    BY FS_Interval
  <2>2. IsFiniteSet(places) /\ places \in SUBSET Nat
    BY <2>1, FS_Subset
  <2>3. \A i \in places : s[i] \in S
    BY <2>1
  <2>4. \A i, j \in places : s[i] = s[j] => i = j
    BY <1>3 DEF IsInjective
  <2> HIDE DEF places
  <2> QED BY <2>2, <2>3, <2>4, ExcerptInjective
<1> QED BY <1>1, <1>2, <1>3 DEF Keep, ListsPlaces

\* Every mark has a first place, and no two first places have one mark.
LEMMA FirstPlacesFacts ==
  ASSUME NEW M, NEW marks \in Seq(M)
  PROVE  /\ FirstPlaces(marks) \in SUBSET DOMAIN marks
         /\ {marks[i] : i \in FirstPlaces(marks)} = ToSet(marks)
         /\ \A i, j \in FirstPlaces(marks) : marks[i] = marks[j] => i = j
<1>1. DOMAIN marks = 1..Len(marks) /\ Len(marks) \in Nat
  OBVIOUS
<1>2. FirstPlaces(marks) \in SUBSET DOMAIN marks
  BY DEF FirstPlaces
<1>3. ASSUME NEW i \in DOMAIN marks PROVE \E j \in FirstPlaces(marks) : marks[j] = marks[i]
  <2> DEFINE same == {j \in DOMAIN marks : marks[j] = marks[i]}
  <2>1. same \in SUBSET Nat /\ i \in same
    BY <1>1
  <2>2. PICK j \in same : \A k \in same : j <= k
    BY <2>1, LeastNatural
  <2>3. j \in DOMAIN marks /\ marks[j] = marks[i]
    BY <2>2
  <2>4. ASSUME NEW k \in 1..(j - 1) PROVE marks[k] # marks[j]
    <3>1. k \in DOMAIN marks /\ k < j
      BY <1>1, <2>3, <2>4
    <3>2. k \in Nat /\ j \in Nat
      BY <1>1, <2>3
    <3>3. ~(j <= k)
      BY <3>1, <3>2
    <3> QED BY <2>2, <2>3, <3>1, <3>3
  <2>5. j \in FirstPlaces(marks)
    BY <2>3, <2>4 DEF FirstPlaces
  <2> QED BY <2>3, <2>5
<1>4. {marks[i] : i \in FirstPlaces(marks)} = ToSet(marks)
  BY <1>2, <1>3 DEF ToSet
<1>5. ASSUME NEW i \in FirstPlaces(marks), NEW j \in FirstPlaces(marks), marks[i] = marks[j]
      PROVE  i = j
  <2>1. i \in 1..Len(marks) /\ j \in 1..Len(marks)
    BY <1>1, <1>2
  <2>2. ~(i < j)
    <3> SUFFICES ASSUME i < j PROVE FALSE
      OBVIOUS
    <3>1. i \in 1..(j - 1)
      BY <1>1, <2>1
    <3> QED BY <1>5, <3>1 DEF FirstPlaces
  <2>3. ~(j < i)
    <3> SUFFICES ASSUME j < i PROVE FALSE
      OBVIOUS
    <3>1. j \in 1..(i - 1)
      BY <1>1, <2>1
    <3> QED BY <1>5, <3>1 DEF FirstPlaces
  <2> QED BY <1>1, <2>1, <2>2, <2>3
<1> QED BY <1>2, <1>4, <1>5

\* The least and the greatest number of a set, and of two.
LEMMA MinFacts ==
  ASSUME NEW T \in SUBSET Nat, T # {}
  PROVE  Min(T) \in T /\ \A n \in T : Min(T) <= n
<1>1. \E m \in T : \A n \in T : m <= n
  BY LeastNatural
<1> QED BY <1>1 DEF Min

LEMMA MaxFacts ==
  ASSUME NEW T \in SUBSET Nat, T # {}, IsFiniteSet(T)
  PROVE  Max(T) \in T /\ \A n \in T : n <= Max(T)
<1> DEFINE c == Cardinality(T)
<1>1. /\ c \in Nat
      /\ \A i \in T : Rank(T, i) \in 1..c
      /\ \A i, j \in T : i < j => Rank(T, i) < Rank(T, j)
      /\ \A n \in 1..c : \E i \in T : Rank(T, i) = n
  BY RankFacts
<1>2. c # 0
  BY FS_EmptySet
<1> HIDE DEF c
<1>3. c \in 1..c
  BY <1>1, <1>2
<1>4. PICK m \in T : Rank(T, m) = c
  BY <1>1, <1>3
<1>5. ASSUME NEW n \in T PROVE n <= m
  <2>1. ~(m < n)
    <3> SUFFICES ASSUME m < n PROVE FALSE
      OBVIOUS
    <3>1. Rank(T, m) < Rank(T, n) /\ Rank(T, n) \in 1..c
      BY <1>1
    <3> QED BY <1>1, <1>4, <3>1
  <2>2. m \in Nat /\ n \in Nat
    OBVIOUS
  <2> QED BY <2>1, <2>2
<1>6. \E x \in T : \A n \in T : x >= n
  <2>1. \A n \in T : m >= n
    <3> TAKE n \in T
    <3>1. n <= m /\ m \in Nat /\ n \in Nat
      BY <1>5
    <3> QED BY <3>1
  <2> QED BY <2>1
<1>7. Max(T) \in T /\ \A n \in T : Max(T) >= n
  BY <1>6 DEF Max
<1>8. ASSUME NEW n \in T PROVE n <= Max(T)
  <2>1. Max(T) >= n /\ Max(T) \in Nat /\ n \in Nat
    BY <1>7
  <2> QED BY <2>1
<1> QED BY <1>7, <1>8

LEMMA LessFacts ==
  ASSUME NEW a \in Nat, NEW b \in Nat
  PROVE  Min({a, b}) = IF a <= b THEN a ELSE b
<1>1. {a, b} \in SUBSET Nat /\ {a, b} # {}
  OBVIOUS
<1>2. Min({a, b}) \in {a, b} /\ \A n \in {a, b} : Min({a, b}) <= n
  BY <1>1, MinFacts
<1>3. PICK m : m = Min({a, b})
  OBVIOUS
<1>4. (m = a \/ m = b) /\ m <= a /\ m <= b
  BY <1>2, <1>3
<1> QED BY <1>3, <1>4

LEMMA MoreFacts ==
  ASSUME NEW a \in Nat, NEW b \in Nat
  PROVE  Max({a, b}) = IF a <= b THEN b ELSE a
<1>1. {a, b} \in SUBSET Nat /\ {a, b} # {}
  OBVIOUS
<1>a. IsFiniteSet({a, b})
  <2>1. IsFiniteSet({}) /\ IsFiniteSet({} \cup {a}) /\ IsFiniteSet(({} \cup {a}) \cup {b})
    BY FS_EmptySet, FS_AddElement
  <2>2. {a, b} = ({} \cup {a}) \cup {b}
    OBVIOUS
  <2> QED BY <2>1, <2>2
<1>2. Max({a, b}) \in {a, b} /\ \A n \in {a, b} : n <= Max({a, b})
  BY <1>1, <1>a, MaxFacts
<1>3. PICK m : m = Max({a, b})
  OBVIOUS
<1>4. (m = a \/ m = b) /\ a <= m /\ b <= m
  BY <1>2, <1>3
<1> QED BY <1>3, <1>4
-----------------------------------------------------------------------------
\* Orders

\* A relation orders a set: no member precedes itself, of two one precedes, and
\* what precedes a predecessor precedes.
Ordering(before, S) ==
    /\ \A x \in S : <<x, x>> \notin before
    /\ \A x, y \in S : x # y => <<x, y>> \in before \/ <<y, x>> \in before
    /\ \A x, y, z \in S : <<x, y>> \in before /\ <<y, z>> \in before => <<x, z>> \in before

\* The ranked list of a finite set has every member once, in order.
LEMMA RankedFacts ==
  ASSUME NEW S, IsFiniteSet(S), NEW before, Ordering(before, S)
  PROVE  /\ Ranked(S, before) \in Seq(S)
         /\ ToSet(Ranked(S, before)) = S
         /\ IsInjective(Ranked(S, before))
         /\ \A i, j \in DOMAIN Ranked(S, before) :
               i < j => <<Ranked(S, before)[i], Ranked(S, before)[j]>> \in before
<1> DEFINE under(x) == {y \in S : <<y, x>> \in before}
           n == Cardinality(S)
           below(x) == Cardinality(under(x))
<1>0. \A a, b \in Nat : a + 1 = b + 1 => a = b
  OBVIOUS
<1>1. n \in Nat
  BY FS_CardinalityType
<1>2. ASSUME NEW x \in S
      PROVE  IsFiniteSet(under(x)) /\ Cardinality(under(x)) \in Nat /\ Cardinality(under(x)) < n
  <2>1. under(x) \in SUBSET S /\ under(x) # S
    BY DEF Ordering
  <2>2. IsFiniteSet(under(x)) /\ Cardinality(under(x)) <= n /\ Cardinality(under(x)) # n
    BY <2>1, FS_Subset
  <2>3. Cardinality(under(x)) \in Nat
    BY <2>2, FS_CardinalityType
  <2> HIDE DEF under
  <2> QED BY <1>1, <2>2, <2>3
<1>3. ASSUME NEW x \in S, NEW y \in S, <<x, y>> \in before
      PROVE  Cardinality(under(x)) < Cardinality(under(y))
  <2>1. under(x) \in SUBSET under(y)
    BY <1>3 DEF Ordering
  <2>2. x \in under(y) /\ x \notin under(x)
    BY <1>3 DEF Ordering
  <2>3. Cardinality(under(x)) <= Cardinality(under(y)) /\ Cardinality(under(x)) # Cardinality(under(y))
    BY <1>2, <2>1, <2>2, FS_Subset
  <2>4. Cardinality(under(x)) \in Nat /\ Cardinality(under(y)) \in Nat
    BY <1>2
  <2> HIDE DEF under
  <2> QED BY <2>3, <2>4
<1>a. \A x \in S : below(x) \in Nat /\ below(x) < n
  BY <1>2
<1>b. \A x, y \in S : <<x, y>> \in before => below(x) < below(y)
  BY <1>3
<1>c. Ranked(S, before) = [j \in 1..n |-> CHOOSE x \in S : below(x) = j - 1]
  BY DEF Ranked
<1> HIDE DEF below, n
<1>d. \A x, y \in S : below(x) = below(y) => x = y
  <2> SUFFICES ASSUME NEW x \in S, NEW y \in S, below(x) = below(y) PROVE x = y
    OBVIOUS
  <2>2. <<x, y>> \notin before /\ <<y, x>> \notin before
    BY <1>a, <1>b
  <2> QED BY <2>2 DEF Ordering
<1> DEFINE rank == [x \in S |-> below(x) + 1]
<1>4. rank \in [S -> 1..n]
  BY <1>1, <1>a
<1>5. ASSUME NEW x \in S, NEW y \in S, rank[x] = rank[y] PROVE x = y
  <2>1. below(x) = below(y)
    BY <1>0, <1>a, <1>5
  <2> QED BY <1>d, <2>1
<1>6. rank \in Injection(S, 1..n)
  BY <1>4, <1>5 DEF Injection, IsInjective
<1>7. IsFiniteSet(1..n) /\ Cardinality(1..n) = n
  BY <1>1, FS_Interval
<1>8. rank \in Surjection(S, 1..n)
  BY <1>6, <1>7, FS_Injection DEF n
<1>9. \A m \in 1..n : \E x \in S : rank[x] = m
  BY <1>8 DEF Surjection
<1> DEFINE at(j) == CHOOSE x \in S : below(x) = j - 1
           r == Ranked(S, before)
<1>10. ASSUME NEW j \in 1..n PROVE at(j) \in S /\ below(at(j)) = j - 1
  <2>1. PICK x \in S : rank[x] = j
    BY <1>9
  <2>2. below(x) = j - 1
    BY <1>a, <2>1
  <2> QED BY <2>2
<1>11. r = [j \in 1..n |-> at(j)]
  BY <1>c
<1> HIDE DEF at, r
<1>12. r \in Seq(S) /\ DOMAIN r = 1..n
  BY <1>1, <1>10, <1>11
<1>13. ASSUME NEW x \in S PROVE \E j \in 1..n : r[j] = x
  <2> DEFINE j == rank[x]
  <2>1. j \in 1..n /\ below(x) = j - 1
    BY <1>a, <1>4
  <2>2. at(j) \in S /\ below(at(j)) = below(x)
    BY <1>10, <2>1
  <2>3. at(j) = x
    BY <1>d, <2>2
  <2> QED BY <1>11, <2>1, <2>3
<1>14. ASSUME NEW i \in 1..n, NEW j \in 1..n, i < j PROVE <<r[i], r[j]>> \in before
  <2>1. PICK x \in S, y \in S : x = at(i) /\ y = at(j)
    BY <1>10
  <2>2. below(x) = i - 1 /\ below(y) = j - 1
    BY <1>10, <2>1
  <2>3. below(x) < below(y)
    BY <1>1, <1>14, <2>2
  <2>4. x # y /\ <<y, x>> \notin before
    BY <1>a, <1>b, <2>3
  <2>5. <<x, y>> \in before
    BY <2>4 DEF Ordering
  <2> QED BY <1>11, <2>1, <2>5
<1>15. ASSUME NEW i \in 1..n, NEW j \in 1..n, r[i] = r[j] PROVE i = j
  <2>1. i - 1 = j - 1
    BY <1>10, <1>11, <1>15
  <2>2. i \in Int /\ j \in Int
    BY <1>1
  <2> QED BY <2>1, <2>2
<1>16. ToSet(r) = S
  BY <1>10, <1>11, <1>12, <1>13 DEF ToSet
<1>17. IsInjective(r)
  BY <1>12, <1>15 DEF IsInjective
<1> QED BY <1>12, <1>14, <1>16, <1>17 DEF r
-----------------------------------------------------------------------------
\* Sequences

LEMMA ConcatFacts ==
  ASSUME NEW S, NEW a \in Seq(S), NEW b \in Seq(S)
  PROVE  /\ a \o b \in Seq(S)
         /\ ToSet(a \o b) = ToSet(a) \cup ToSet(b)
         /\ IsInjective(a) /\ IsInjective(b) /\ ToSet(a) \cap ToSet(b) = {} => IsInjective(a \o b)
<1> DEFINE c == a \o b
           m == Len(a)
           n == Len(b)
<1>1. c \in Seq(S) /\ m \in Nat /\ n \in Nat /\ Len(c) = m + n
  OBVIOUS
<1>2. DOMAIN a = 1..m /\ DOMAIN b = 1..n /\ DOMAIN c = 1..(m + n)
  BY <1>1
<1>3. \A i \in 1..m : c[i] = a[i]
  OBVIOUS
<1>4. \A i \in 1..n : c[m + i] = b[i] /\ m + i \in 1..(m + n)
  BY <1>1
<1>5. \A i \in 1..(m + n) : i \in 1..m \/ (i - m \in 1..n /\ m + (i - m) = i)
  BY <1>1
<1>6. \A i \in 1..m : i \in 1..(m + n)
  BY <1>1
<1> HIDE DEF c, m, n
<1>7. \A i \in 1..(m + n) : i \in 1..m \/ \E j \in 1..n : i = m + j
  BY <1>5
<1>8. ToSet(c) = ToSet(a) \cup ToSet(b)
  BY <1>2, <1>3, <1>4, <1>6, <1>7 DEF ToSet
<1>9. ASSUME IsInjective(a), IsInjective(b), ToSet(a) \cap ToSet(b) = {}
      PROVE  IsInjective(c)
  <2>1. \A i, j \in 1..m : a[i] = a[j] => i = j
    BY <1>2, <1>9 DEF IsInjective
  <2>2. \A i, j \in 1..n : b[i] = b[j] => i = j
    BY <1>2, <1>9 DEF IsInjective
  <2>3. \A i \in 1..m, j \in 1..n : a[i] # b[j]
    BY <1>2, <1>9 DEF ToSet
  <2>4. ASSUME NEW i \in 1..(m + n), NEW j \in 1..(m + n), c[i] = c[j] PROVE i = j
    <3>1. CASE i \in 1..m /\ j \in 1..m
      BY <1>3, <2>1, <2>4, <3>1
    <3>2. CASE i \in 1..m /\ j \notin 1..m
      BY <1>3, <1>4, <1>7, <2>3, <2>4, <3>2
    <3>3. CASE i \notin 1..m /\ j \in 1..m
      BY <1>3, <1>4, <1>7, <2>3, <2>4, <3>3
    <3>4. CASE i \notin 1..m /\ j \notin 1..m
      BY <1>4, <1>7, <2>2, <2>4, <3>4
    <3> QED BY <3>1, <3>2, <3>3, <3>4
  <2> QED BY <1>2, <2>4 DEF IsInjective
<1> QED BY <1>1, <1>8, <1>9 DEF c

\* A sequence is empty when it has no members.
LEMMA EmptyFacts ==
  ASSUME NEW S, NEW s \in Seq(S)
  PROVE  s = <<>> <=> ToSet(s) = {}
<1>1. DOMAIN s = 1..Len(s) /\ Len(s) \in Nat
  OBVIOUS
<1>2. ASSUME s # <<>> PROVE s[1] \in ToSet(s)
  <2>1. Len(s) # 0
    BY <1>2
  <2>2. 1 \in DOMAIN s
    BY <1>1, <2>1
  <2> QED BY <2>2 DEF ToSet
<1>3. ASSUME s = <<>> PROVE ToSet(s) = {}
  <2>1. DOMAIN s = {}
    BY <1>3
  <2> QED BY <2>1 DEF ToSet
<1> QED BY <1>2, <1>3

LEMMA WiderSeq ==
  ASSUME NEW S, NEW T, S \subseteq T, NEW s \in Seq(S)
  PROVE  s \in Seq(T)
<1>1. Len(s) \in Nat /\ s = [i \in 1..Len(s) |-> s[i]] /\ \A i \in 1..Len(s) : s[i] \in T
  OBVIOUS
<1> QED BY <1>1

LEMMA EmptyConcat ==
  ASSUME NEW S, NEW x \in Seq(S), NEW y \in Seq(S)
  PROVE  x \o y = <<>> <=> x = <<>> /\ y = <<>>
<1>1. x \o y \in Seq(S) /\ Len(x \o y) = Len(x) + Len(y) /\ Len(x) \in Nat /\ Len(y) \in Nat
  OBVIOUS
<1>2. \A z \in Seq(S) : z = <<>> <=> Len(z) = 0
  OBVIOUS
<1> QED BY <1>1, <1>2

LEMMA ThreeLists ==
  ASSUME NEW S, NEW x \in Seq(S), NEW y \in Seq(S), NEW z \in Seq(S)
  PROVE  /\ x \o y \o z \in Seq(S)
         /\ ToSet(x \o y \o z) = ToSet(x) \cup ToSet(y) \cup ToSet(z)
         /\ x \o y \o z = <<>> <=> x = <<>> /\ y = <<>> /\ z = <<>>
<1> DEFINE xy == x \o y
<1>1. xy \in Seq(S) /\ ToSet(xy) = ToSet(x) \cup ToSet(y)
  BY ConcatFacts
<1>2. xy = <<>> <=> x = <<>> /\ y = <<>>
  BY EmptyConcat
<1> HIDE DEF xy
<1>3. xy \o z \in Seq(S) /\ ToSet(xy \o z) = ToSet(xy) \cup ToSet(z)
  BY <1>1, ConcatFacts
<1>4. xy \o z = <<>> <=> xy = <<>> /\ z = <<>>
  BY <1>1, EmptyConcat
<1> QED BY <1>1, <1>2, <1>3, <1>4 DEF xy

LEMMA PrependFacts ==
  ASSUME NEW S, NEW key \in S, NEW p \in Seq(S)
  PROVE  <<key>> \o p \in Seq(S) /\ (<<key>> \o p)[1] = key
OBVIOUS

LEMMA PrependInjective ==
  ASSUME NEW S, NEW key \in S, NEW p \in Seq(S), NEW q \in Seq(S), <<key>> \o p = <<key>> \o q
  PROVE  p = q
<1>1. Len(<<key>> \o p) = 1 + Len(p) /\ Len(<<key>> \o q) = 1 + Len(q)
  OBVIOUS
<1>2. Len(p) = Len(q)
  BY <1>1
<1>3. ASSUME NEW i \in 1..Len(p) PROVE p[i] = q[i]
  <2>1. (<<key>> \o p)[i + 1] = p[i]
    OBVIOUS
  <2>2. (<<key>> \o q)[i + 1] = q[i]
    BY <1>2
  <2> QED BY <2>1, <2>2
<1> QED BY <1>2, <1>3

\* f has what the first n of some sequences make together, for every n.
Flattens(f, ss, S) ==
    /\ f \in [0..Len(ss) -> Seq(S)]
    /\ f[0] = <<>>
    /\ \A n \in 1..Len(ss) : f[n] = f[n - 1] \o ss[n]

LEMMA FlattenSteps ==
  ASSUME NEW S, NEW ss \in Seq(Seq(S))
  PROVE  \E f : Flattens(f, ss, S) /\ FlattenSeq(ss) = f[Len(ss)]
<1> DEFINE N == Len(ss)
           D == [c \in Seq(S) \X Nat |-> IF c[2] \in 1..N THEN c[1] \o ss[c[2]] ELSE c[1]]
<1>1. N \in Nat /\ \A n \in 1..N : ss[n] \in Seq(S)
  OBVIOUS
<1>2. D \in [Seq(S) \X Nat -> Seq(S)]
  <2>1. \A c \in Seq(S) \X Nat : c[1] \in Seq(S) /\ c[2] \in Nat
    OBVIOUS
  <2>2. \A a, b \in Seq(S) : a \o b \in Seq(S)
    OBVIOUS
  <2> HIDE DEF N
  <2> QED BY <1>1, <2>1, <2>2
<1>3. <<>> \in Seq(S)
  OBVIOUS
<1> HIDE DEF N, D
<1> DEFINE V == Seq(S)
           empty == <<>>
<1>a. N \in Nat /\ empty \in V /\ D \in [V \X Nat -> V]
  BY <1>1, <1>2, <1>3
<1> HIDE DEF V, empty
<1>b. PICK f : Iterated(f, V, empty, D, N)
  BY <1>a, Iterates
<1>4. f \in [0..N -> Seq(S)]
  BY <1>b DEF Iterated, V
<1>5. 0 \in 0..N /\ \A n \in 1..N : n \in 0..N /\ n - 1 \in 0..N /\ n # 0 /\ n \in Nat
  BY <1>1
<1>6. f[0] = <<>>
  BY <1>b DEF Iterated, empty
<1>7. ASSUME NEW n \in 1..N PROVE f[n] = f[n - 1] \o ss[n]
  <2>1. f[n] = D[<<f[n - 1], n>>]
    BY <1>b DEF Iterated
  <2>2. PICK g \in Seq(S) : g = f[n - 1]
    BY <1>4, <1>5
  <2>3. D[<<g, n>>] = g \o ss[n]
    BY <1>5 DEF D
  <2> QED BY <2>1, <2>2, <2>3
<1>8. Flattens(f, ss, S)
  BY <1>4, <1>6, <1>7 DEF Flattens, N
<1>9. FlattenSeq(ss) = f[N]
  <2>1. CASE N = 0
    <3>1. ss = <<>>
      BY <2>1 DEF N
    <3>2. FlattenSeq(ss) = ss
      BY <2>1 DEF FlattenSeq, N
    <3> QED BY <1>6, <2>1, <3>1, <3>2
  <2>2. CASE N # 0
    <3> DEFINE flatten[i \in 1..Len(ss)] == IF i = 1 THEN ss[i] ELSE flatten[i-1] \o ss[i]
    <3>1. FlattenSeq(ss) = flatten[N]
      BY <2>2 DEF FlattenSeq, N
    <3> DEFINE g == [i \in 1..N |-> f[i]]
    <3>2. g = [i \in 1..N |-> IF i = 1 THEN ss[i] ELSE g[i-1] \o ss[i]]
      <4>1. ASSUME NEW i \in 1..N PROVE f[i] = IF i = 1 THEN ss[i] ELSE g[i-1] \o ss[i]
        <5>1. CASE i = 1
          <6>0. f[i] = f[i - 1] \o ss[i]
            BY <1>7
          <6>1. i - 1 = 0
            BY <5>1
          <6>2. f[i] = <<>> \o ss[i]
            BY <1>6, <6>0, <6>1
          <6>3. \A s \in Seq(S) : <<>> \o s = s
            OBVIOUS
          <6> QED BY <1>1, <5>1, <6>2, <6>3
        <5>2. CASE i # 1
          <6>1. i - 1 \in 1..N
            BY <1>1, <5>2
          <6> QED BY <1>7, <5>2, <6>1
        <5> QED BY <5>1, <5>2
      <4> QED BY <4>1
    <3>3. \E h : h = [i \in 1..N |-> IF i = 1 THEN ss[i] ELSE h[i-1] \o ss[i]]
      BY <3>2
    <3> HIDE DEF g
    <3>4. flatten = [i \in 1..N |-> IF i = 1 THEN ss[i] ELSE flatten[i-1] \o ss[i]]
      BY <3>3 DEF N
    <3> HIDE DEF flatten
    <3> DEFINE T == {n \in Nat : n \in 1..N => flatten[n] = f[n]}
    <3>5. 0 \in T
      OBVIOUS
    <3>6. ASSUME NEW n \in Nat, n \in T PROVE n + 1 \in T
      <4> SUFFICES ASSUME n + 1 \in 1..N PROVE flatten[n + 1] = f[n + 1]
        OBVIOUS
      <4>1. flatten[n + 1] = IF n + 1 = 1 THEN ss[n + 1] ELSE flatten[(n + 1) - 1] \o ss[n + 1]
        BY <3>4
      <4>2. (n + 1) - 1 = n
        OBVIOUS
      <4>3. f[n + 1] = f[n] \o ss[n + 1]
        BY <1>7, <4>2
      <4>4. CASE n = 0
        <5>1. f[n + 1] = <<>> \o ss[n + 1]
          BY <1>6, <4>3, <4>4
        <5>2. \A s \in Seq(S) : <<>> \o s = s
          OBVIOUS
        <5> QED BY <1>1, <4>1, <4>4, <5>1, <5>2
      <4>5. CASE n # 0
        <5>1. n \in 1..N /\ n + 1 # 1
          BY <1>1, <4>5
        <5>2. flatten[n] = f[n]
          BY <3>6, <5>1
        <5> QED BY <4>1, <4>2, <4>3, <5>1, <5>2
      <4> QED BY <4>4, <4>5
    <3> HIDE DEF T
    <3>7. \A n \in Nat : n \in T
      BY <3>5, <3>6, AllNumbers
    <3>8. N \in 1..N /\ N \in T
      BY <1>1, <2>2, <3>7
    <3> QED BY <3>1, <3>8 DEF T
  <2> QED BY <2>1, <2>2
<1> QED BY <1>8, <1>9 DEF N

\* A flattened list has the members of the lists, each once when they are
\* apart and have their own members once.
LEMMA FlattenFacts ==
  ASSUME NEW S, NEW ss \in Seq(Seq(S))
  PROVE  /\ FlattenSeq(ss) \in Seq(S)
         /\ ToSet(FlattenSeq(ss)) = UNION {ToSet(ss[i]) : i \in 1..Len(ss)}
         /\ (\A i \in 1..Len(ss) : IsInjective(ss[i]))
            /\ (\A i, j \in 1..Len(ss) : i # j => ToSet(ss[i]) \cap ToSet(ss[j]) = {})
            => IsInjective(FlattenSeq(ss))
<1> DEFINE N == Len(ss)
           Members(m) == UNION {ToSet(ss[i]) : i \in 1..m}
           Apart == /\ \A i \in 1..N : IsInjective(ss[i])
                    /\ \A i, j \in 1..N : i # j => ToSet(ss[i]) \cap ToSet(ss[j]) = {}
<1>1. N \in Nat /\ \A n \in 1..N : ss[n] \in Seq(S)
  OBVIOUS
<1>2. PICK f : Flattens(f, ss, S) /\ FlattenSeq(ss) = f[N]
  BY FlattenSteps
<1> DEFINE Good(m) == /\ ToSet(f[m]) = Members(m)
                      /\ Apart => IsInjective(f[m])
           T == {m \in Nat : m <= N => Good(m)}
<1>3. 0 \in T
  <2>1. f[0] = <<>>
    BY <1>2 DEF Flattens
  <2>2. DOMAIN f[0] = {}
    BY <2>1
  <2>3. ToSet(f[0]) = {} /\ IsInjective(f[0])
    BY <2>2 DEF ToSet, IsInjective
  <2>4. Members(0) = {}
    OBVIOUS
  <2> QED BY <2>3, <2>4
<1>4. ASSUME NEW n \in Nat, n \in T PROVE n + 1 \in T
  <2> SUFFICES ASSUME n + 1 <= N PROVE Good(n + 1)
    <3> HIDE DEF Good, N
    <3> QED OBVIOUS
  <2>1. n + 1 \in 1..N /\ (n + 1) - 1 = n /\ n \in 0..N /\ n <= N
    BY <1>1
  <2>2. f[n + 1] = f[n] \o ss[n + 1]
    BY <1>2, <2>1 DEF Flattens
  <2>3. f[n] \in Seq(S) /\ ss[n + 1] \in Seq(S)
    BY <1>1, <1>2, <2>1 DEF Flattens
  <2>4. Good(n)
    BY <1>4, <2>1
  <2> HIDE DEF Apart
  <2>5. /\ ToSet(f[n + 1]) = ToSet(f[n]) \cup ToSet(ss[n + 1])
        /\ IsInjective(f[n]) /\ IsInjective(ss[n + 1]) /\ ToSet(f[n]) \cap ToSet(ss[n + 1]) = {}
           => IsInjective(f[n + 1])
    BY <2>2, <2>3, ConcatFacts
  <2>6. \A i : i \in 1..(n + 1) <=> i \in 1..n \/ i = n + 1
    OBVIOUS
  <2>7. Members(n + 1) = Members(n) \cup ToSet(ss[n + 1])
    <3> HIDE DEF N
    <3> QED BY <2>6
  <2>8. ASSUME Apart PROVE IsInjective(ss[n + 1]) /\ Members(n) \cap ToSet(ss[n + 1]) = {}
    <3>1. \A i \in 1..n : i \in 1..N /\ i # n + 1
      BY <1>1, <2>1
    <3> QED BY <2>1, <2>8, <3>1 DEF Apart
  <2> HIDE DEF Members
  <2> QED BY <2>4, <2>5, <2>7, <2>8
<1> HIDE DEF T
<1>5. \A n \in Nat : n \in T
  BY <1>3, <1>4, AllNumbers
<1>6. Good(N)
  <2>1. N \in T
    BY <1>1, <1>5
  <2> HIDE DEF Good, N
  <2> QED BY <1>1, <2>1 DEF T
<1>7. f[N] \in Seq(S)
  BY <1>1, <1>2 DEF Flattens
<1> QED BY <1>2, <1>6, <1>7
-----------------------------------------------------------------------------
\* Recursion

\* D makes functions on P of such functions, and what it makes at a place
\* depends on places of less depth only.
Descends(D, P, V, dep) ==
    /\ V # {} /\ dep \in [P -> Nat] /\ D \in [[P -> V] -> [P -> V]]
    /\ \A f, g \in [P -> V], c \in P :
          (\A d \in P : dep[d] < dep[c] => f[d] = g[d]) => D[f][c] = D[g][c]

Solvable(D, P, V) == \E F \in [P -> V] : D[F] = F

\* A recursive definition whose recursion descends defines a function.
LEMMA FixedPoint ==
  ASSUME NEW P, NEW V, NEW dep, NEW D, Descends(D, P, V, dep)
  PROVE  Solvable(D, P, V)
<1>0. dep \in [P -> Nat] /\ D \in [[P -> V] -> [P -> V]]
  BY DEF Descends
<1>a. PICK v : v \in V
  BY DEF Descends
<1> DEFINE E == [P -> V]
           Fixed(f, n) == \A c \in P : dep[c] < n => D[f][c] = f[c]
<1>1. \A c \in P : dep[c] \in Nat
  BY <1>0
<1>2. \A f \in E : D[f] \in E
  BY <1>0
<1>3. \A f, g \in E, c \in P : (\A d \in P : dep[d] < dep[c] => f[d] = g[d]) => D[f][c] = D[g][c]
  BY DEF Descends
<1> HIDE DEF E
<1> DEFINE Good == {n \in Nat : \E f \in E : Fixed(f, n)}
<1>4. 0 \in Good
  <2>1. [c \in P |-> v] \in E
    BY <1>a DEF E
  <2>2. Fixed([c \in P |-> v], 0)
    BY <1>1
  <2> HIDE DEF Fixed
  <2> QED BY <2>1, <2>2
<1>5. ASSUME NEW n \in Nat, n \in Good PROVE n + 1 \in Good
  <2>1. PICK f \in E : Fixed(f, n)
    BY <1>5
  <2>2. PICK g \in E : g = D[f]
    BY <1>2
  <2>3. ASSUME NEW c \in P, dep[c] < n + 1 PROVE D[g][c] = g[c]
    <3>1. ASSUME NEW d \in P, dep[d] < dep[c] PROVE g[d] = f[d]
      <4>1. dep[d] < n
        BY <1>1, <2>3, <3>1
      <4> QED BY <2>1, <2>2, <4>1
    <3>2. D[g][c] = D[f][c]
      BY <1>3, <3>1
    <3> QED BY <2>2, <3>2
  <2>4. Fixed(g, n + 1)
    BY <2>3
  <2> HIDE DEF Fixed
  <2> QED BY <2>4
<1> HIDE DEF Good
<1>6. \A n \in Nat : n \in Good
  BY <1>4, <1>5, AllNumbers
<1>7. ASSUME NEW f \in E, NEW g \in E, NEW n \in Nat, NEW m \in Nat, Fixed(f, n), Fixed(g, m)
      PROVE  \A c \in P : dep[c] < n /\ dep[c] < m => f[c] = g[c]
  <2> SUFFICES ASSUME NEW c \in P, dep[c] < n, dep[c] < m, f[c] # g[c] PROVE FALSE
    OBVIOUS
  <2> DEFINE bad == {a \in Nat : \E e \in P : dep[e] = a /\ a < n /\ a < m /\ f[e] # g[e]}
  <2>1. bad \in SUBSET Nat /\ dep[c] \in bad
    BY <1>1
  <2>2. PICK b \in bad : \A a \in bad : b <= a
    BY <2>1, LeastNatural
  <2>3. PICK d \in P : dep[d] = b /\ dep[d] < n /\ dep[d] < m /\ f[d] # g[d]
    OBVIOUS
  <2>4. ASSUME NEW e \in P, dep[e] < dep[d] PROVE f[e] = g[e]
    <3> SUFFICES ASSUME f[e] # g[e] PROVE FALSE
      OBVIOUS
    <3>1. dep[e] < n /\ dep[e] < m /\ ~(b <= dep[e])
      BY <1>1, <2>3, <2>4
    <3>2. dep[e] \in bad
      BY <1>1, <3>1
    <3> HIDE DEF bad
    <3> QED BY <2>2, <3>1, <3>2
  <2>5. D[f][d] = D[g][d]
    BY <1>3, <2>4
  <2>6. D[f][d] = f[d] /\ D[g][d] = g[d]
    BY <1>7, <2>3
  <2> QED BY <2>3, <2>5, <2>6
<1> DEFINE A(n) == CHOOSE f \in E : Fixed(f, n)
<1>8. ASSUME NEW n \in Nat PROVE A(n) \in E /\ Fixed(A(n), n)
  <2>1. \E f \in E : Fixed(f, n)
    BY <1>6 DEF Good
  <2> HIDE DEF Fixed
  <2> QED BY <2>1
<1> HIDE DEF A
<1> DEFINE F == [c \in P |-> A(dep[c] + 1)[c]]
<1>9. F \in E
  <2>1. \A c \in P : A(dep[c] + 1)[c] \in V
    BY <1>1, <1>8 DEF E
  <2> QED BY <2>1 DEF E
<1>10. ASSUME NEW c \in P PROVE D[F][c] = F[c]
  <2>1. PICK f \in E : f = A(dep[c] + 1)
    BY <1>1, <1>8
  <2>2. Fixed(f, dep[c] + 1) /\ dep[c] + 1 \in Nat
    BY <1>1, <1>8, <2>1
  <2>3. ASSUME NEW d \in P, dep[d] < dep[c] PROVE F[d] = f[d]
    <3>1. PICK g \in E : g = A(dep[d] + 1)
      BY <1>1, <1>8
    <3>2. Fixed(g, dep[d] + 1) /\ dep[d] + 1 \in Nat
      BY <1>1, <1>8, <3>1
    <3>3. dep[d] < dep[c] + 1 /\ dep[d] < dep[d] + 1
      BY <1>1, <2>3
    <3> HIDE DEF Fixed
    <3>4. g[d] = f[d]
      BY <1>7, <2>2, <3>2, <3>3
    <3> QED BY <3>1, <3>4
  <2> HIDE DEF F
  <2>4. D[F][c] = D[f][c]
    BY <1>3, <1>9, <2>3
  <2>5. dep[c] < dep[c] + 1
    BY <1>1
  <2>6. D[f][c] = f[c]
    BY <2>2, <2>5
  <2>7. F[c] = f[c]
    BY <2>1 DEF F
  <2> QED BY <2>4, <2>6, <2>7
<1> HIDE DEF F
<1>11. D[F] = F
  BY <1>2, <1>9, <1>10 DEF E
<1> QED BY <1>9, <1>11 DEF E, Solvable
=============================================================================
