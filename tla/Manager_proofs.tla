--------------------------- MODULE Manager_proofs ---------------------------
(***************************************************************************)
(* The sidebar of the manager for every fleet of instances, and its        *)
(* comparison for every two configurations.                                *)
(*                                                                         *)
(* The sidebar: a forest of parents whose paths end, in which a union      *)
(* joins two nodes and no others (Joins), so that the roots are those of   *)
(* the connected instances; lists of buckets that part the instances       *)
(* (Parting), whatever their order; sort keys of one length, so that a     *)
(* sort rearranges; and pages that divide a list.                          *)
(*                                                                         *)
(* The comparison: both walks end, because a part is nested less deep than *)
(* its whole, and what they tell is right by induction over that depth.    *)
(***************************************************************************)
EXTENDS MCGridBoard, GridBoard_proofs, Excerpts_proofs

-----------------------------------------------------------------------------
\* Union-find

\* A height proves that every path of parents ends.
Climbs(height, parent, A) ==
    /\ height \in [A -> Nat]
    /\ \A k \in A : parent[k] # k => height[parent[k]] < height[k]

Forest(parent, A) == parent \in [A -> A] /\ \E height : Climbs(height, parent, A)

\* What holds of the roots and of a node when it holds of its parent holds of all.
LEMMA ForestInduction ==
  ASSUME NEW A, NEW parent, Forest(parent, A), NEW T,
         \A k \in A : parent[k] = k \/ parent[k] \in T => k \in T
  PROVE  \A k \in A : k \in T
<1>1. PICK height : Climbs(height, parent, A)
  BY DEF Forest
<1>2. \A k \in A : height[k] \in Nat /\ parent[k] \in A /\ (parent[k] # k => height[parent[k]] < height[k])
  BY <1>1 DEF Climbs, Forest
<1> SUFFICES ASSUME NEW k \in A, k \notin T PROVE FALSE
  OBVIOUS
<1> DEFINE bad == {n \in Nat : \E l \in A : height[l] = n /\ l \notin T}
<1>3. bad \in SUBSET Nat /\ height[k] \in bad
  BY <1>2
<1>4. PICK n \in bad : \A m \in bad : n <= m
  BY <1>3, LeastNatural
<1>5. PICK l \in A : height[l] = n /\ l \notin T
  BY <1>4
<1>6. parent[l] # l /\ parent[l] \notin T
  BY <1>5
<1>7. height[parent[l]] \in bad /\ height[parent[l]] < n
  BY <1>2, <1>5, <1>6
<1>8. n \in Nat /\ height[parent[l]] \in Nat
  BY <1>2, <1>5
<1> HIDE DEF bad
<1> QED BY <1>4, <1>7, <1>8

\* The root of a node is where the path of its parents ends.
LEMMA RootFacts ==
  ASSUME NEW A, NEW parent, Forest(parent, A)
  PROVE  /\ Root(parent) \in [A -> A]
         /\ \A k \in A : Root(parent)[k] = IF parent[k] = k THEN k ELSE Root(parent)[parent[k]]
         /\ \A k \in A : parent[Root(parent)[k]] = Root(parent)[k]
<1> DEFINE V == A \cup {0}
           D == [r \in [A -> V] |-> [k \in A |-> IF parent[k] = k THEN k ELSE r[parent[k]]]]
           root == Root(parent)
<1>1. PICK height : Climbs(height, parent, A)
  BY DEF Forest
<1>2. parent \in [A -> A] /\ DOMAIN parent = A
  BY DEF Forest
<1>3. Descends(D, A, V, height)
  <2>1. V # {} /\ height \in [A -> Nat]
    BY <1>1 DEF Climbs
  <2>2. D \in [[A -> V] -> [A -> V]]
    BY <1>2
  <2>3. ASSUME NEW f \in [A -> V], NEW g \in [A -> V], NEW c \in A,
               \A d \in A : height[d] < height[c] => f[d] = g[d]
        PROVE  D[f][c] = D[g][c]
    BY <1>1, <1>2, <2>3 DEF Climbs
  <2> HIDE DEF D, V
  <2> QED BY <2>1, <2>2, <2>3 DEF Descends
<1>4. \E F \in [A -> V] : D[F] = F
  <2> HIDE DEF D, V
  <2> QED BY <1>3, FixedPoint DEF Solvable
<1>5. \E F : F = [k \in DOMAIN parent |-> IF parent[k] = k THEN k ELSE F[parent[k]]]
  BY <1>2, <1>4
<1>6. root = [k \in DOMAIN parent |-> IF parent[k] = k THEN k ELSE root[parent[k]]]
  BY <1>5 DEF Root
<1> HIDE DEF root
<1>7. DOMAIN root = A /\ \A k \in A : root[k] = IF parent[k] = k THEN k ELSE root[parent[k]]
  BY <1>2, <1>6
<1> DEFINE T == {k \in A : root[k] \in A /\ parent[root[k]] = root[k]}
<1>8. \A k \in A : parent[k] = k \/ parent[k] \in T => k \in T
  BY <1>2, <1>7
<1> HIDE DEF T
<1>9. \A k \in A : k \in T
  BY <1>8, ForestInduction
<1>10. root = [k \in A |-> root[k]]
  BY <1>2, <1>6
<1>11. root \in [A -> A]
  BY <1>9, <1>10 DEF T
<1> QED BY <1>7, <1>9, <1>11 DEF T, root

\* A union hangs one root on the other.
LEMMA UnionFacts ==
  ASSUME NEW A, NEW parent, Forest(parent, A), NEW a \in A, NEW b \in A
  PROVE  /\ Forest(Union(parent, a, b), A)
         /\ \A k \in A : Root(Union(parent, a, b))[k] =
               IF Root(parent)[k] = Root(parent)[a] THEN Root(parent)[b] ELSE Root(parent)[k]
<1> DEFINE r == Root(parent)
           q == Union(parent, a, b)
<1>1. PICK height : Climbs(height, parent, A)
  BY DEF Forest
<1>2. parent \in [A -> A]
  BY DEF Forest
<1>3. /\ r \in [A -> A]
      /\ \A k \in A : r[k] = IF parent[k] = k THEN k ELSE r[parent[k]]
      /\ \A k \in A : parent[r[k]] = r[k]
  BY RootFacts
<1>4. q = [parent EXCEPT ![r[a]] = r[b]]
  BY DEF Union
<1> HIDE DEF r, q
<1>5. PICK ra \in A, rb \in A : ra = r[a] /\ rb = r[b]
  BY <1>3
<1>6. q \in [A -> A] /\ q[ra] = rb /\ \A k \in A : k # ra => q[k] = parent[k]
  BY <1>2, <1>4, <1>5
<1>7. r[ra] = ra /\ r[rb] = rb /\ parent[ra] = ra /\ parent[rb] = rb
  BY <1>3, <1>5
<1>8. \A k \in A : r[parent[k]] = r[k] /\ parent[k] \in A /\ height[k] \in Nat
  BY <1>1, <1>2, <1>3 DEF Climbs
<1>9. CASE ra = rb
  <2>1. q = parent
    BY <1>2, <1>4, <1>5, <1>7, <1>9
  <2> QED BY <1>5, <1>9, <2>1 DEF q, r
<1>10. CASE ra # rb
  <2> DEFINE h == [k \in A |-> IF r[k] = ra THEN height[k] + height[rb] + 1 ELSE height[k]]
  <2>1. h \in [A -> Nat]
    BY <1>8
  <2>2. ASSUME NEW k \in A, q[k] # k PROVE h[q[k]] < h[k]
    <3>1. CASE k = ra
      <4>1. h[q[k]] = height[rb] /\ h[k] = height[ra] + height[rb] + 1
        BY <1>6, <1>7, <1>10, <3>1
      <4> QED BY <1>8, <4>1
    <3>2. CASE k # ra
      <4>1. q[k] = parent[k] /\ parent[k] # k /\ height[parent[k]] < height[k]
        BY <1>1, <1>6, <2>2, <3>2 DEF Climbs
      <4>2. r[parent[k]] = r[k]
        BY <1>8
      <4> QED BY <1>8, <4>1, <4>2
    <3> QED BY <3>1, <3>2
  <2>3. Climbs(h, q, A)
    <3> HIDE DEF h
    <3> QED BY <2>1, <2>2 DEF Climbs
  <2>4. Forest(q, A)
    <3> HIDE DEF h
    <3> QED BY <1>6, <2>3 DEF Forest
  <2> DEFINE s == Root(q)
             target(k) == IF r[k] = ra THEN rb ELSE r[k]
             T == {k \in A : s[k] = target(k)}
  <2>5. \A k \in A : s[k] = IF q[k] = k THEN k ELSE s[q[k]]
    BY <2>4, RootFacts
  <2> HIDE DEF s
  <2>6. ASSUME NEW k \in A, q[k] = k \/ q[k] \in T PROVE k \in T
    <3>1. CASE q[k] = k
      <4>1. k # ra /\ parent[k] = k
        BY <1>6, <1>10, <3>1
      <4>2. r[k] = k /\ s[k] = k
        BY <1>3, <2>5, <3>1, <4>1
      <4> QED BY <4>1, <4>2
    <3>2. CASE q[k] # k /\ k = ra
      <4>1. s[k] = s[rb] /\ s[rb] = target(rb)
        BY <1>6, <2>5, <2>6, <3>2
      <4>2. target(rb) = rb /\ target(k) = rb
        BY <1>7, <1>10, <3>2
      <4> QED BY <4>1, <4>2
    <3>3. CASE q[k] # k /\ k # ra
      <4>1. s[k] = s[parent[k]] /\ s[parent[k]] = target(parent[k])
        BY <1>6, <2>5, <2>6, <3>3
      <4>2. target(parent[k]) = target(k)
        BY <1>8
      <4> QED BY <4>1, <4>2
    <3> QED BY <3>1, <3>2, <3>3
  <2> HIDE DEF T
  <2>7. \A k \in A : k \in T
    BY <2>4, <2>6, ForestInduction
  <2> QED BY <1>5, <2>4, <2>7 DEF T, s, q, r
<1> QED BY <1>9, <1>10

\* A set of nodes that paths of parents neither enter nor leave.
Saturated(S, parent, A) == \A k \in A : k \in S <=> Root(parent)[k] \in S

\* From one forest to another, the nodes of K are joined and no others.
Joins(p, q, A, K) ==
    /\ Forest(q, A)
    /\ \A k, l \in A : Root(p)[k] = Root(p)[l] => Root(q)[k] = Root(q)[l]
    /\ \A k, l \in K : Root(q)[k] = Root(q)[l]
    /\ \A S \in SUBSET A :
          Saturated(S, p, A) /\ (\A k, l \in K : k \in S => l \in S) => Saturated(S, q, A)

LEMMA UnionJoins ==
  ASSUME NEW A, NEW parent, Forest(parent, A), NEW a \in A, NEW b \in A
  PROVE  Joins(parent, Union(parent, a, b), A, {a, b})
<1> DEFINE q == Union(parent, a, b)
           r == Root(parent)
           s == Root(q)
<1>1. /\ Forest(q, A)
      /\ \A k \in A : s[k] = IF r[k] = r[a] THEN r[b] ELSE r[k]
  BY UnionFacts
<1>2. r \in [A -> A]
  BY RootFacts
<1> HIDE DEF q, r, s
<1>3. \A k, l \in A : r[k] = r[l] => s[k] = s[l]
  BY <1>1
<1>4. \A k, l \in {a, b} : s[k] = s[l]
  BY <1>1
<1>5. ASSUME NEW S \in SUBSET A, Saturated(S, parent, A), \A k, l \in {a, b} : k \in S => l \in S
      PROVE  Saturated(S, q, A)
  <2>1. \A k \in A : k \in S <=> r[k] \in S
    BY <1>5 DEF Saturated, r
  <2>2. ASSUME NEW k \in A PROVE k \in S <=> s[k] \in S
    BY <1>1, <1>5, <2>1
  <2> QED BY <2>2 DEF Saturated, s
<1> QED BY <1>1, <1>3, <1>4, <1>5 DEF Joins, q, r, s

\* Joining some nodes and then others joins all of them when they have one in common.
LEMMA JoinsChain ==
  ASSUME NEW A, NEW p, NEW q, NEW t, NEW K, NEW L, Joins(p, q, A, K), Joins(q, t, A, L),
         K \subseteq A, L \subseteq A, K \cap L # {}
  PROVE  Joins(p, t, A, K \cup L)
<1>1. \A k, l \in A : Root(p)[k] = Root(p)[l] => Root(t)[k] = Root(t)[l]
  BY DEF Joins
<1>2. PICK c : c \in K /\ c \in L /\ c \in A
  OBVIOUS
<1>3. \A k \in K \cup L : Root(t)[k] = Root(t)[c]
  BY <1>2 DEF Joins
<1>4. ASSUME NEW S \in SUBSET A, Saturated(S, p, A), \A k, l \in K \cup L : k \in S => l \in S
      PROVE  Saturated(S, t, A)
  <2>1. Saturated(S, q, A)
    BY <1>4 DEF Joins
  <2> QED BY <1>4, <2>1 DEF Joins
<1>5. Forest(t, A) /\ \A k, l \in K \cup L : Root(t)[k] = Root(t)[l]
  BY <1>3 DEF Joins
<1> QED BY <1>1, <1>4, <1>5 DEF Joins

\* Uniting the first key with the others joins the keys.
LEMMA UniteJoins ==
  ASSUME NEW A, NEW parent, Forest(parent, A), NEW keys \in Seq(A)
  PROVE  Joins(parent, Unite(parent, keys), A, ToSet(keys))
<1> DEFINE N == Len(keys)
           FA == {p \in [A -> A] : Forest(p, A)}
           dep == [n \in 0..N |-> n]
           D == [f \in [0..N -> FA] |->
                   [n \in 0..N |-> IF n <= 1 THEN parent ELSE Union(f[n - 1], keys[1], keys[n])]]
           with[n \in 0..N] == IF n <= 1 THEN parent ELSE Union(with[n - 1], keys[1], keys[n])
<1>1. N \in Nat /\ DOMAIN keys = 1..N /\ \A n \in 1..N : keys[n] \in A
  OBVIOUS
<1>2. parent \in FA
  BY DEF Forest
<1>3. \A p \in FA, n \in 1..N : Union(p, keys[1], keys[n]) \in FA
  <2> TAKE p \in FA, n \in 1..N
  <2>1. keys[1] \in A /\ keys[n] \in A
    BY <1>1
  <2>2. Forest(Union(p, keys[1], keys[n]), A)
    BY <2>1, UnionFacts
  <2> QED BY <2>2 DEF Forest
<1> HIDE DEF FA, N
<1>4. Descends(D, 0..N, FA, dep)
  <2>1. dep \in [0..N -> Nat] /\ FA # {}
    BY <1>1, <1>2
  <2>2. \A n \in 0..N : n <= 1 \/ (n \in 1..N /\ n - 1 \in 0..N /\ dep[n - 1] < dep[n])
    BY <1>1
  <2> HIDE DEF dep
  <2>3. D \in [[0..N -> FA] -> [0..N -> FA]]
    <3>1. ASSUME NEW f \in [0..N -> FA], NEW n \in 0..N
          PROVE  (IF n <= 1 THEN parent ELSE Union(f[n - 1], keys[1], keys[n])) \in FA
      BY <1>2, <1>3, <2>2
    <3> QED BY <3>1
  <2>4. ASSUME NEW f \in [0..N -> FA], NEW g \in [0..N -> FA], NEW c \in 0..N,
               \A d \in 0..N : dep[d] < dep[c] => f[d] = g[d]
        PROVE  D[f][c] = D[g][c]
    BY <2>2, <2>4
  <2> HIDE DEF D
  <2> QED BY <2>1, <2>3, <2>4 DEF Descends
<1>5. \E F \in [0..N -> FA] : D[F] = F
  <2> HIDE DEF D, dep
  <2>1. Solvable(D, 0..N, FA)
    BY <1>4, FixedPoint
  <2> QED BY <2>1 DEF Solvable
<1>6. \E F : F = [n \in 0..N |-> IF n <= 1 THEN parent ELSE Union(F[n - 1], keys[1], keys[n])]
  BY <1>5
<1>7. with = [n \in 0..N |-> IF n <= 1 THEN parent ELSE Union(with[n - 1], keys[1], keys[n])]
  BY <1>6
<1>8. Unite(parent, keys) = with[N]
  BY DEF Unite, N
<1> HIDE DEF with, D, dep
<1> DEFINE Upto(n) == {keys[i] : i \in 1..n}
           T == {n \in Nat : n \in 0..N => Joins(parent, with[n], A, Upto(n))}
<1>9. with[0] = parent /\ (1 \in 0..N => with[1] = parent)
  BY <1>1, <1>7
<1>10. ASSUME NEW K, \A k, l \in K : k = l PROVE Joins(parent, parent, A, K)
  BY <1>10 DEF Joins
<1>11. 0 \in T
  <2>1. Upto(0) = {}
    OBVIOUS
  <2> QED BY <1>9, <1>10, <2>1
<1>12. ASSUME NEW n \in Nat, n \in T PROVE n + 1 \in T
  <2> SUFFICES ASSUME n + 1 \in 0..N PROVE Joins(parent, with[n + 1], A, Upto(n + 1))
    OBVIOUS
  <2>1. CASE n = 0
    <3>1. \A k, l \in Upto(n + 1) : k = l
      BY <2>1
    <3> QED BY <1>9, <1>10, <2>1, <3>1
  <2>2. CASE n # 0
    <3>1. n \in 0..N /\ n \in 1..N /\ n + 1 \in 1..N /\ ~(n + 1 <= 1) /\ (n + 1) - 1 = n /\ 1 \in 1..n
      BY <1>1, <2>2
    <3>2. Joins(parent, with[n], A, Upto(n))
      BY <1>12, <3>1
    <3>3. with[n + 1] = Union(with[n], keys[1], keys[n + 1])
      BY <1>7, <3>1
    <3>4. Forest(with[n], A) /\ keys[1] \in A /\ keys[n + 1] \in A
      BY <1>1, <3>1, <3>2 DEF Joins
    <3>5. Joins(with[n], with[n + 1], A, {keys[1], keys[n + 1]})
      BY <3>3, <3>4, UnionJoins
    <3>6. Upto(n) \subseteq A /\ {keys[1], keys[n + 1]} \subseteq A /\ Upto(n) \cap {keys[1], keys[n + 1]} # {}
      BY <1>1, <3>1, <3>4
    <3>7. Upto(n + 1) = Upto(n) \cup {keys[1], keys[n + 1]}
      <4>1. \A i : i \in 1..(n + 1) <=> i \in 1..n \/ i = n + 1
        OBVIOUS
      <4> QED BY <3>1, <4>1
    <3> HIDE DEF Upto
    <3> QED BY <3>2, <3>5, <3>6, <3>7, JoinsChain
  <2> QED BY <2>1, <2>2
<1> HIDE DEF T
<1>13. \A n \in Nat : n \in T
  BY <1>11, <1>12, AllNumbers
<1>14. N \in 0..N /\ N \in T
  BY <1>1, <1>13
<1>15. Joins(parent, with[N], A, Upto(N))
  BY <1>14 DEF T
<1>16. Upto(N) = ToSet(keys)
  BY <1>1 DEF ToSet
<1> QED BY <1>8, <1>15, <1>16

\* No set that is closed under sharing an address divides two nodes.
ClosedUnder(S, fleet) ==
    \A k \in S, l \in Automatic(fleet) : fleet[k].ips \cap fleet[l].ips # {} => l \in S

LEMMA FleetListed ==
  ASSUME NEW fleet \in Fleets, NEW order \in Orders
  PROVE  \A k \in DOMAIN fleet : fleet[k].ips \subseteq ToSet(order)
BY GroupsAssumption

LEMMA ListedFacts ==
  ASSUME NEW fleet \in Fleets
  PROVE  /\ Listed(fleet) \in Seq(DOMAIN fleet)
         /\ ToSet(Listed(fleet)) = DOMAIN fleet
         /\ IsInjective(Listed(fleet))
<1> DEFINE before == {p \in (DOMAIN fleet) \X (DOMAIN fleet) : fleet[p[1]].listed < fleet[p[2]].listed}
           K == DOMAIN fleet
<1>1. /\ IsFiniteSet(K)
      /\ \A k \in K : fleet[k].listed \in Nat
      /\ \A k, l \in K : fleet[k].listed = fleet[l].listed => k = l
  BY GroupsAssumption DEF Instance
<1>2. \A k, l \in K : <<k, l>> \in before <=> fleet[k].listed < fleet[l].listed
  OBVIOUS
<1>3. Listed(fleet) = Ranked(K, before)
  BY DEF Listed
<1> HIDE DEF before, K
<1>4. \A x \in K : <<x, x>> \notin before
  BY <1>1, <1>2
<1>5. \A x, y \in K : x # y => <<x, y>> \in before \/ <<y, x>> \in before
  BY <1>1, <1>2
<1>6. \A x, y, z \in K : <<x, y>> \in before /\ <<y, z>> \in before => <<x, z>> \in before
  BY <1>1, <1>2
<1>7. Ordering(before, K)
  BY <1>4, <1>5, <1>6 DEF Ordering
<1> QED BY <1>1, <1>3, <1>7, RankedFacts DEF K

\* The listed instances among some, each once.
LEMMA ListedAmong ==
  ASSUME NEW fleet \in Fleets, NEW members \in SUBSET DOMAIN fleet
  PROVE  /\ Keep(Listed(fleet), members) \in Seq(members)
         /\ ToSet(Keep(Listed(fleet), members)) = members
         /\ IsInjective(Keep(Listed(fleet), members))
<1> DEFINE s == Keep(Listed(fleet), members)
           K == DOMAIN fleet
           list == Listed(fleet)
<1>0. list \in Seq(K) /\ ToSet(list) = K /\ IsInjective(list)
  BY ListedFacts
<1> HIDE DEF list
<1>1. s \in Seq(K) /\ ToSet(s) = ToSet(list) \cap members /\ IsInjective(s)
  <2> HIDE DEF K
  <2>1. /\ Keep(list, members) \in Seq(K)
        /\ ToSet(Keep(list, members)) = ToSet(list) \cap members
        /\ IsInjective(list) => IsInjective(Keep(list, members))
    BY <1>0, KeepFacts
  <2> QED BY <1>0, <2>1 DEF list
<1>2. ToSet(s) = members
  BY <1>0, <1>1
<1> HIDE DEF s, K
<1>3. DOMAIN s = 1..Len(s) /\ Len(s) \in Nat /\ s = [i \in 1..Len(s) |-> s[i]]
  BY <1>1
<1>4. \A i \in 1..Len(s) : s[i] \in members
  BY <1>2, <1>3 DEF ToSet
<1>5. s \in Seq(members)
  BY <1>3, <1>4
<1> QED BY <1>1, <1>2, <1>5 DEF s

\* Two automatic instances have one root exactly when they are connected.
LEMMA RootsFacts ==
  ASSUME NEW fleet \in Fleets, NEW order \in Orders
  PROVE  /\ Roots(fleet, order) \in [Automatic(fleet) -> Automatic(fleet)]
         /\ \A k, l \in Automatic(fleet) :
               Roots(fleet, order)[k] = Roots(fleet, order)[l] <=> Connected(fleet, k, l)
<1> DEFINE A == Automatic(fleet)
           N == Len(order)
           FA == {p \in [A -> A] : Forest(p, A)}
           id == [k \in A |-> k]
           dep == [n \in 0..N |-> n]
           exposing(n) == Exposing(fleet, order[n])
           D == [f \in [0..N -> FA] |->
                   [n \in 0..N |-> IF n = 0 THEN id ELSE Unite(f[n - 1], exposing(n))]]
           after[n \in 0..N] ==
              IF n = 0 THEN [k \in Automatic(fleet) |-> k] ELSE Unite(after[n - 1], Exposing(fleet, order[n]))
<1>1. N \in Nat /\ DOMAIN order = 1..N /\ A \subseteq DOMAIN fleet
  BY GroupsAssumption DEF Automatic
<1>2. ASSUME NEW n \in 1..N
      PROVE  exposing(n) \in Seq(A) /\ ToSet(exposing(n)) = {k \in A : order[n] \in fleet[k].ips}
  <2> DEFINE M == {k \in A : order[n] \in fleet[k].ips}
  <2>1. M \in SUBSET DOMAIN fleet /\ M \subseteq A
    BY <1>1
  <2>2. exposing(n) = Keep(Listed(fleet), M)
    BY DEF Exposing
  <2> HIDE DEF M, exposing, A, N
  <2>3. exposing(n) \in Seq(M) /\ ToSet(exposing(n)) = M
    BY <2>1, <2>2, ListedAmong
  <2>4. exposing(n) \in Seq(A)
    BY <2>1, <2>3
  <2> QED BY <2>3, <2>4 DEF M
<1> HIDE DEF A, N, exposing
<1>3. id \in FA
  <2>1. id \in [A -> A] /\ \A k \in A : id[k] = k
    OBVIOUS
  <2>2. Climbs([k \in A |-> 0], id, A)
    BY DEF Climbs
  <2> QED BY <2>1, <2>2 DEF Forest
<1>4. \A p \in FA, n \in 1..N : Joins(p, Unite(p, exposing(n)), A, ToSet(exposing(n)))
  BY <1>2, UniteJoins
<1>5. \A p \in FA, n \in 1..N : Unite(p, exposing(n)) \in FA
  BY <1>4 DEF Joins, Forest
<1>a. \A p \in FA : Forest(p, A)
  OBVIOUS
<1> HIDE DEF FA, id
<1>6. Descends(D, 0..N, FA, dep)
  <2>1. dep \in [0..N -> Nat] /\ FA # {}
    BY <1>1, <1>3
  <2>2. \A n \in 0..N : n = 0 \/ (n \in 1..N /\ n - 1 \in 0..N /\ dep[n - 1] < dep[n])
    BY <1>1
  <2> HIDE DEF dep
  <2>3. D \in [[0..N -> FA] -> [0..N -> FA]]
    <3>1. ASSUME NEW f \in [0..N -> FA], NEW n \in 0..N
          PROVE  (IF n = 0 THEN id ELSE Unite(f[n - 1], exposing(n))) \in FA
      BY <1>3, <1>5, <2>2
    <3> QED BY <3>1
  <2>4. ASSUME NEW f \in [0..N -> FA], NEW g \in [0..N -> FA], NEW c \in 0..N,
               \A d \in 0..N : dep[d] < dep[c] => f[d] = g[d]
        PROVE  D[f][c] = D[g][c]
    BY <2>2, <2>4
  <2> HIDE DEF D
  <2> QED BY <2>1, <2>3, <2>4 DEF Descends
<1>7. \E F \in [0..N -> FA] : D[F] = F
  <2> HIDE DEF D, dep
  <2>1. Solvable(D, 0..N, FA)
    BY <1>6, FixedPoint
  <2> QED BY <2>1 DEF Solvable
<1>8. \E F : F = [n \in 0..N |-> IF n = 0 THEN [k \in Automatic(fleet) |-> k]
                                ELSE Unite(F[n - 1], Exposing(fleet, order[n]))]
  BY <1>7 DEF id, A, exposing
<1>9. after = [n \in 0..N |-> IF n = 0 THEN [k \in Automatic(fleet) |-> k]
                             ELSE Unite(after[n - 1], Exposing(fleet, order[n]))]
  BY <1>8
<1>10. Roots(fleet, order) = Root(after[N])
  BY DEF Roots, N
<1> HIDE DEF after, D, dep
<1>11. after[0] = id /\ \A n \in 1..N : after[n] = Unite(after[n - 1], exposing(n))
  <2>1. 0 \in 0..N /\ \A n \in 1..N : n \in 0..N /\ n # 0
    BY <1>1
  <2> QED BY <1>9, <2>1 DEF id, A, exposing
\* Those that expose one of the first n addresses have one root; no closed set is left.
<1> DEFINE Done(n) ==
             /\ after[n] \in FA
             /\ \A m \in 1..n : \A k, l \in ToSet(exposing(m)) : Root(after[n])[k] = Root(after[n])[l]
             /\ \A S \in SUBSET A : ClosedUnder(S, fleet) => Saturated(S, after[n], A)
           T == {n \in Nat : n \in 0..N => Done(n)}
<1>12. Done(0)
  <2>1. \A k \in A : id[k] = k /\ Root(id)[k] = k
    <3>1. \A k \in A : id[k] = k
      BY DEF id
    <3> QED BY <1>3, <1>a, <3>1, RootFacts
  <2> QED BY <1>3, <1>11, <2>1 DEF Saturated
<1>13. ASSUME NEW n \in Nat, n + 1 \in 0..N, Done(n) PROVE Done(n + 1)
  <2>1. n + 1 \in 1..N /\ (n + 1) - 1 = n
    BY <1>1, <1>13
  <2>2. Joins(after[n], after[n + 1], A, ToSet(exposing(n + 1)))
    BY <1>4, <1>11, <1>13, <2>1
  <2>3. after[n + 1] \in FA
    BY <1>5, <1>11, <1>13, <2>1
  <2>4. \A m \in 1..(n + 1) : m \in 1..n \/ m = n + 1
    OBVIOUS
  <2>5. ASSUME NEW m \in 1..(n + 1), NEW k \in ToSet(exposing(m)), NEW l \in ToSet(exposing(m))
        PROVE  Root(after[n + 1])[k] = Root(after[n + 1])[l]
    <3>1. CASE m = n + 1
      BY <2>2, <3>1 DEF Joins
    <3>2. CASE m \in 1..n
      <4>1. m \in 1..N
        BY <1>1, <2>1, <3>2
      <4>2. k \in A /\ l \in A
        BY <1>2, <4>1
      <4> QED BY <1>13, <2>2, <3>2, <4>2 DEF Joins
    <3> QED BY <2>4, <3>1, <3>2
  <2>6. ASSUME NEW S \in SUBSET A, ClosedUnder(S, fleet) PROVE Saturated(S, after[n + 1], A)
    <3>1. \A k, l \in ToSet(exposing(n + 1)) : k \in S => l \in S
      BY <1>2, <2>1, <2>6 DEF ClosedUnder, A
    <3>2. Saturated(S, after[n], A)
      BY <1>13, <2>6
    <3> QED BY <2>2, <3>1, <3>2 DEF Joins
  <2> QED BY <2>3, <2>5, <2>6
<1> HIDE DEF Done
<1>14. N \in 0..N /\ N \in Nat /\ 0 \in 0..N /\ \A n \in Nat : n + 1 \in 0..N => n \in 0..N
  BY <1>1
<1>15. 0 \in T /\ \A n \in Nat : n \in T => n + 1 \in T
  BY <1>12, <1>13, <1>14
<1> HIDE DEF T
<1>16. N \in T
  BY <1>14, <1>15, AllNumbers
<1>17. Done(N)
  BY <1>14, <1>16 DEF T
<1> DEFINE root == Root(after[N])
<1>18. root \in [A -> A]
  BY <1>17, <1>a, RootFacts DEF Done
<1> HIDE DEF root
<1>19. ASSUME NEW k \in A, NEW l \in A, root[k] = root[l] PROVE Connected(fleet, k, l)
  <2> SUFFICES ASSUME NEW S \in SUBSET A, k \in S, ClosedUnder(S, fleet) PROVE l \in S
    BY DEF Connected, ClosedUnder, A
  <2>1. Saturated(S, after[N], A)
    BY <1>17 DEF Done
  <2> QED BY <1>19, <2>1 DEF Saturated, root
<1>20. ASSUME NEW k \in A, NEW l \in A, Connected(fleet, k, l) PROVE root[k] = root[l]
  <2> DEFINE S == {x \in A : root[x] = root[k]}
  <2>1. ASSUME NEW x \in S, NEW y \in A, fleet[x].ips \cap fleet[y].ips # {} PROVE y \in S
    <3>1. PICK ip : ip \in fleet[x].ips /\ ip \in fleet[y].ips
      BY <2>1
    <3>2. ip \in ToSet(order)
      <4>1. \A z \in DOMAIN fleet : fleet[z].ips \subseteq ToSet(order)
        BY FleetListed
      <4>2. x \in DOMAIN fleet
        BY <1>1
      <4> QED BY <3>1, <4>1, <4>2
    <3>3. PICK n \in 1..N : order[n] = ip
      BY <1>1, <3>2 DEF ToSet
    <3>4. x \in ToSet(exposing(n)) /\ y \in ToSet(exposing(n))
      BY <1>2, <3>1, <3>3
    <3>5. root[x] = root[y]
      BY <1>17, <3>4 DEF Done, root
    <3> QED BY <3>5
  <2>2. S \in SUBSET A /\ k \in S
    OBVIOUS
  <2>3. l \in S
    <3> HIDE DEF S
    <3> QED BY <1>20, <2>1, <2>2 DEF Connected, A
  <2> QED BY <2>3
<1> QED BY <1>10, <1>18, <1>19, <1>20 DEF A, root
-----------------------------------------------------------------------------
\* Buckets

\* Buckets part some keys: two of them are in one bucket exactly when rel has them.
Parting(buckets, keys, rel) ==
    /\ \A i \in DOMAIN buckets : IsInjective(buckets[i]) /\ buckets[i] # <<>>
    /\ UNION {ToSet(buckets[i]) : i \in DOMAIN buckets} = keys
    /\ \A i, j \in DOMAIN buckets : \A a \in ToSet(buckets[i]), b \in ToSet(buckets[j]) :
          i = j <=> <<a, b>> \in rel

LEMMA MarkedFacts ==
  ASSUME NEW K, NEW keys \in Seq(K), IsInjective(keys), NEW mark, NEW rel,
         \A k, l \in ToSet(keys) : <<k, l>> \in rel <=> mark[k] = mark[l]
  PROVE  /\ Marked(keys, mark) \in Seq(Seq(K))
         /\ Parting(Marked(keys, mark), ToSet(keys), rel)
<1> DEFINE marks == [j \in DOMAIN keys |-> mark[keys[j]]]
           M == {mark[k] : k \in ToSet(keys)}
           values == Excerpt(marks, FirstPlaces(marks))
           having(v) == {j \in DOMAIN keys : marks[j] = v}
           b == Marked(keys, mark)
<1>1. DOMAIN keys = 1..Len(keys) /\ Len(keys) \in Nat
  OBVIOUS
<1>2. \A j \in DOMAIN keys : keys[j] \in ToSet(keys) /\ mark[keys[j]] \in M
  BY DEF ToSet
<1>3. marks \in Seq(M) /\ DOMAIN marks = DOMAIN keys
  BY <1>1, <1>2
<1>4. \A j \in DOMAIN keys : marks[j] = mark[keys[j]]
  OBVIOUS
<1>5. b = [i \in DOMAIN values |-> Excerpt(keys, having(values[i]))]
  BY DEF Marked, Buckets
<1> HIDE DEF b, marks, M
<1>6. /\ FirstPlaces(marks) \in SUBSET DOMAIN marks
      /\ {marks[i] : i \in FirstPlaces(marks)} = ToSet(marks)
      /\ \A i, j \in FirstPlaces(marks) : marks[i] = marks[j] => i = j
  BY <1>3, FirstPlacesFacts
<1>7. values \in Seq(M) /\ ListsPlaces(values, marks, FirstPlaces(marks))
  BY <1>3, <1>6, ExcerptFacts
<1>8. ToSet(values) = ToSet(marks)
  BY <1>6, <1>7 DEF ListsPlaces
<1>9. IsInjective(values)
  <2>1. IsFiniteSet(FirstPlaces(marks)) /\ FirstPlaces(marks) \in SUBSET Nat
    <3>1. IsFiniteSet(1..Len(keys))
      BY <1>1, FS_Interval
    <3> QED BY <1>1, <1>3, <1>6, <3>1, FS_Subset
  <2>2. \A i \in FirstPlaces(marks) : marks[i] \in M
    BY <1>3, <1>6
  <2> QED BY <1>6, <2>1, <2>2, ExcerptInjective
<1> HIDE DEF values
<1>10. DOMAIN values = 1..Len(values) /\ Len(values) \in Nat
  BY <1>7
<1>11. ASSUME NEW v
       PROVE  /\ Excerpt(keys, having(v)) \in Seq(K)
              /\ ToSet(Excerpt(keys, having(v))) = {k \in ToSet(keys) : mark[k] = v}
              /\ IsInjective(Excerpt(keys, having(v)))
              /\ Excerpt(keys, having(v)) = <<>> <=> having(v) = {}
  <2>1. having(v) \in SUBSET DOMAIN keys
    OBVIOUS
  <2>2. {keys[j] : j \in having(v)} = {k \in ToSet(keys) : mark[k] = v}
    BY <1>4 DEF ToSet
  <2> HIDE DEF having
  <2>3. /\ Excerpt(keys, having(v)) \in Seq(K)
        /\ ListsPlaces(Excerpt(keys, having(v)), keys, having(v))
        /\ Excerpt(keys, having(v)) = <<>> <=> having(v) = {}
    BY <2>1, ExcerptFacts
  <2>4. IsInjective(Excerpt(keys, having(v)))
    <3>1. IsFiniteSet(1..Len(keys))
      BY <1>1, FS_Interval
    <3>2. IsFiniteSet(having(v)) /\ having(v) \in SUBSET Nat
      BY <1>1, <2>1, <3>1, FS_Subset
    <3>3. \A i \in having(v) : keys[i] \in K
      BY <2>1
    <3>4. \A i, j \in having(v) : keys[i] = keys[j] => i = j
      BY <2>1 DEF IsInjective
    <3> QED BY <3>2, <3>3, <3>4, ExcerptInjective
  <2> QED BY <2>2, <2>3, <2>4 DEF ListsPlaces
<1>12. b \in Seq(Seq(K)) /\ DOMAIN b = DOMAIN values
  <2> DEFINE part(i) == Excerpt(keys, having(values[i]))
  <2>1. \A i \in DOMAIN values : part(i) \in Seq(K)
    BY <1>11
  <2>2. b = [i \in 1..Len(values) |-> part(i)]
    BY <1>5, <1>10
  <2> HIDE DEF part
  <2> QED BY <1>10, <2>1, <2>2
<1>13. \A i \in DOMAIN b : ToSet(b[i]) = {k \in ToSet(keys) : mark[k] = values[i]} /\ IsInjective(b[i])
  BY <1>5, <1>11, <1>12
<1>14. \A v \in ToSet(values) : \E j \in DOMAIN keys : marks[j] = v
  BY <1>3, <1>8 DEF ToSet
<1>15. \A i \in DOMAIN b : b[i] # <<>>
  <2> TAKE i \in DOMAIN b
  <2>1. values[i] \in ToSet(values)
    BY <1>12 DEF ToSet
  <2>2. having(values[i]) # {}
    BY <1>14, <2>1
  <2>3. b[i] = Excerpt(keys, having(values[i]))
    BY <1>5, <1>12
  <2> HIDE DEF having
  <2> QED BY <1>11, <2>2, <2>3
<1> HIDE DEF having
<1>16. UNION {ToSet(b[i]) : i \in DOMAIN b} = ToSet(keys)
  <2>1. ASSUME NEW k \in ToSet(keys) PROVE \E i \in DOMAIN b : k \in ToSet(b[i])
    <3>1. PICK j \in DOMAIN keys : keys[j] = k
      BY DEF ToSet
    <3>2. mark[k] \in ToSet(marks)
      BY <1>3, <1>4, <3>1 DEF ToSet
    <3>3. mark[k] \in ToSet(values)
      BY <1>8, <3>2
    <3>4. PICK i \in DOMAIN values : values[i] = mark[k]
      BY <3>3 DEF ToSet
    <3> QED BY <1>12, <1>13, <3>4
  <2> QED BY <1>13, <2>1
<1>17. ASSUME NEW i \in DOMAIN b, NEW j \in DOMAIN b, NEW k \in ToSet(b[i]), NEW l \in ToSet(b[j])
       PROVE  i = j <=> <<k, l>> \in rel
  <2>1. k \in ToSet(keys) /\ l \in ToSet(keys) /\ mark[k] = values[i] /\ mark[l] = values[j]
    BY <1>13
  <2>2. values[i] = values[j] <=> i = j
    BY <1>9, <1>12 DEF IsInjective
  <2> QED BY <2>1, <2>2
<1>18. Parting(b, ToSet(keys), rel)
  BY <1>13, <1>15, <1>16, <1>17 DEF Parting
<1> QED BY <1>12, <1>18 DEF b
-----------------------------------------------------------------------------
\* Sorting

\* Keys of one length.
SortKeys(L) == [1..L -> Int]

LEMMA PrecedesFacts ==
  ASSUME NEW L \in Nat, NEW s \in SortKeys(L), NEW t \in SortKeys(L), NEW u \in SortKeys(L)
  PROVE  /\ ~Precedes(s, s)
         /\ s # t => Precedes(s, t) \/ Precedes(t, s)
         /\ Precedes(s, t) /\ Precedes(t, u) => Precedes(s, u)
<1>1. /\ DOMAIN s = 1..L /\ DOMAIN t = 1..L /\ DOMAIN u = 1..L
      /\ \A i \in 1..L : s[i] \in Int /\ t[i] \in Int /\ u[i] \in Int
  BY DEF SortKeys
<1>2. ~Precedes(s, s)
  BY <1>1 DEF Precedes
<1>3. ASSUME s # t PROVE Precedes(s, t) \/ Precedes(t, s)
  <2> DEFINE D == {i \in 1..L : s[i] # t[i]}
  <2>1. D \in SUBSET Nat /\ D # {}
    BY <1>3 DEF SortKeys
  <2>2. PICK i \in D : \A j \in D : i <= j
    BY <2>1, LeastNatural
  <2>3. i \in 1..L /\ s[i] # t[i]
    OBVIOUS
  <2>4. ASSUME NEW j \in 1..(i - 1) PROVE s[j] = t[j]
    <3>1. j \in 1..L /\ ~(i <= j)
      BY <2>3, <2>4
    <3>2. j \notin D
      BY <2>2, <3>1
    <3> QED BY <3>1, <3>2
  <2>5. s[i] < t[i] \/ t[i] < s[i]
    BY <1>1, <2>3
  <2> HIDE DEF D
  <2> QED BY <1>1, <2>3, <2>4, <2>5 DEF Precedes
<1>4. ASSUME Precedes(s, t), Precedes(t, u) PROVE Precedes(s, u)
  <2>1. PICK i \in 1..L : s[i] < t[i] /\ \A k \in 1..(i - 1) : s[k] = t[k]
    BY <1>1, <1>4 DEF Precedes
  <2>2. PICK j \in 1..L : t[j] < u[j] /\ \A k \in 1..(j - 1) : t[k] = u[k]
    BY <1>1, <1>4 DEF Precedes
  <2>3. CASE i < j
    <3>1. i \in 1..(j - 1)
      BY <2>3
    <3>2. s[i] < u[i]
      BY <2>1, <2>2, <3>1
    <3>3. ASSUME NEW k \in 1..(i - 1) PROVE s[k] = u[k]
      <4>1. k \in 1..(j - 1)
        BY <2>3, <3>3
      <4> QED BY <2>1, <2>2, <4>1
    <3> QED BY <1>1, <3>2, <3>3 DEF Precedes
  <2>4. CASE i = j
    <3>1. s[i] < u[i]
      BY <1>1, <2>1, <2>2, <2>4
    <3>2. \A k \in 1..(i - 1) : s[k] = u[k]
      BY <2>1, <2>2, <2>4
    <3> QED BY <1>1, <3>1, <3>2 DEF Precedes
  <2>5. CASE j < i
    <3>1. j \in 1..(i - 1)
      BY <2>5
    <3>2. s[j] < u[j]
      BY <2>1, <2>2, <3>1
    <3>3. ASSUME NEW k \in 1..(j - 1) PROVE s[k] = u[k]
      <4>1. k \in 1..(i - 1)
        BY <2>5, <3>3
      <4> QED BY <2>1, <2>2, <4>1
    <3> QED BY <1>1, <3>2, <3>3 DEF Precedes
  <2> QED BY <2>3, <2>4, <2>5
<1> QED BY <1>2, <1>3, <1>4

\* t has the members of s in another order.
Rearranges(t, s) ==
    \E place : /\ place \in Seq(DOMAIN s) /\ IsInjective(place) /\ ToSet(place) = DOMAIN s
               /\ t = [i \in DOMAIN place |-> s[place[i]]]

LEMMA SortRearranges ==
  ASSUME NEW S, NEW s \in Seq(S), NEW L \in Nat, NEW keys \in [DOMAIN s -> SortKeys(L)]
  PROVE  Rearranges(StableSort(s, keys), s)
<1> DEFINE P == DOMAIN s
           before == {p \in P \X P :
                         \/ Precedes(keys[p[1]], keys[p[2]])
                         \/ keys[p[1]] = keys[p[2]] /\ p[1] < p[2]}
           place == Ranked(P, before)
<1>1. P = 1..Len(s) /\ Len(s) \in Nat /\ P \in SUBSET Nat
  OBVIOUS
<1>2. IsFiniteSet(P)
  BY <1>1, FS_Interval
<1>3. \A i, j \in P : <<i, j>> \in before
         <=> Precedes(keys[i], keys[j]) \/ (keys[i] = keys[j] /\ i < j)
  OBVIOUS
<1>4. \A i \in P : keys[i] \in SortKeys(L)
  OBVIOUS
<1>5. StableSort(s, keys) = [i \in DOMAIN place |-> s[place[i]]]
  BY DEF StableSort
<1>6. P = DOMAIN s
  OBVIOUS
<1> HIDE DEF before, P
<1>7. \A i \in P : <<i, i>> \notin before
  <2> TAKE i \in P
  <2>1. ~Precedes(keys[i], keys[i])
    BY <1>4, PrecedesFacts
  <2>2. ~(i < i)
    BY <1>1
  <2> QED BY <1>3, <2>1, <2>2
<1>8. \A i, j \in P : i # j => <<i, j>> \in before \/ <<j, i>> \in before
  <2> TAKE i, j \in P
  <2> HAVE i # j
  <2>1. keys[i] # keys[j] => Precedes(keys[i], keys[j]) \/ Precedes(keys[j], keys[i])
    BY <1>4, PrecedesFacts
  <2>2. i < j \/ j < i
    BY <1>1
  <2> QED BY <1>3, <2>1, <2>2
<1>9. \A i, j, k \in P : <<i, j>> \in before /\ <<j, k>> \in before => <<i, k>> \in before
  <2> TAKE i, j, k \in P
  <2> HAVE <<i, j>> \in before /\ <<j, k>> \in before
  <2>1. Precedes(keys[i], keys[j]) /\ Precedes(keys[j], keys[k]) => Precedes(keys[i], keys[k])
    BY <1>4, PrecedesFacts
  <2>2. i < j /\ j < k => i < k
    BY <1>1
  <2> QED BY <1>3, <2>1, <2>2
<1>10. Ordering(before, P)
  BY <1>7, <1>8, <1>9 DEF Ordering
<1>11. place \in Seq(P) /\ ToSet(place) = P /\ IsInjective(place)
  BY <1>2, <1>10, RankedFacts
<1> HIDE DEF place
<1> QED BY <1>5, <1>6, <1>11 DEF Rearranges

\* Another order has the same members as often.
LEMMA RearrangedFacts ==
  ASSUME NEW S, NEW s \in Seq(S), NEW t, Rearranges(t, s)
  PROVE  /\ t \in Seq(S)
         /\ ToSet(t) = ToSet(s)
         /\ IsInjective(s) => IsInjective(t)
<1>1. PICK place : /\ place \in Seq(DOMAIN s) /\ IsInjective(place) /\ ToSet(place) = DOMAIN s
                   /\ t = [i \in DOMAIN place |-> s[place[i]]]
  BY DEF Rearranges
<1>2. DOMAIN s = 1..Len(s) /\ \A i \in DOMAIN s : s[i] \in S
  OBVIOUS
<1>3. DOMAIN place = 1..Len(place) /\ Len(place) \in Nat /\ \A i \in DOMAIN place : place[i] \in DOMAIN s
  BY <1>1
<1>4. t \in Seq(S) /\ DOMAIN t = DOMAIN place
  <2> DEFINE n == Len(place)
  <2>1. \A i \in 1..n : s[place[i]] \in S
    BY <1>2, <1>3
  <2>2. n \in Nat /\ t = [i \in 1..n |-> s[place[i]]]
    BY <1>1, <1>3
  <2> HIDE DEF n
  <2>3. t \in Seq(S) /\ DOMAIN t = 1..n
    BY <2>1, <2>2
  <2> QED BY <1>3, <2>3 DEF n
<1>5. \A i \in DOMAIN t : t[i] = s[place[i]] /\ place[i] \in DOMAIN s
  BY <1>1, <1>3, <1>4
<1>6. \A k \in DOMAIN s : \E i \in DOMAIN t : place[i] = k
  BY <1>1, <1>4 DEF ToSet
<1>7. ToSet(t) = ToSet(s)
  BY <1>5, <1>6 DEF ToSet
<1>8. IsInjective(s) => IsInjective(t)
  BY <1>1, <1>4, <1>5 DEF IsInjective
<1> QED BY <1>4, <1>7, <1>8

\* Another order of the buckets parts the keys as they do.
LEMMA RearrangedParting ==
  ASSUME NEW x, NEW y, NEW keys, NEW rel, Parting(x, keys, rel), Rearranges(y, x)
  PROVE  Parting(y, keys, rel)
<1>1. PICK place : /\ place \in Seq(DOMAIN x) /\ IsInjective(place) /\ ToSet(place) = DOMAIN x
                   /\ y = [i \in DOMAIN place |-> x[place[i]]]
  BY DEF Rearranges
<1>2. DOMAIN y = DOMAIN place /\ \A i \in DOMAIN y : place[i] \in DOMAIN x /\ y[i] = x[place[i]]
  BY <1>1
<1>3. \A k \in DOMAIN x : \E i \in DOMAIN y : place[i] = k
  BY <1>1, <1>2 DEF ToSet
<1>4. \A i, j \in DOMAIN y : place[i] = place[j] <=> i = j
  BY <1>1, <1>2 DEF IsInjective
<1>5. UNION {ToSet(y[i]) : i \in DOMAIN y} = keys
  <2>1. UNION {ToSet(y[i]) : i \in DOMAIN y} = UNION {ToSet(x[i]) : i \in DOMAIN x}
    BY <1>2, <1>3
  <2> QED BY <2>1 DEF Parting
<1>6. \A i \in DOMAIN y : IsInjective(y[i]) /\ y[i] # <<>>
  BY <1>2 DEF Parting
<1>7. ASSUME NEW i \in DOMAIN y, NEW j \in DOMAIN y, NEW a \in ToSet(y[i]), NEW b \in ToSet(y[j])
      PROVE  i = j <=> <<a, b>> \in rel
  <2>1. PICK k \in DOMAIN x, l \in DOMAIN x : k = place[i] /\ l = place[j] /\ y[i] = x[k] /\ y[j] = x[l]
    BY <1>2
  <2>2. a \in ToSet(x[k]) /\ b \in ToSet(x[l])
    BY <2>1
  <2>3. k = l <=> <<a, b>> \in rel
    BY <2>2 DEF Parting
  <2>4. k = l <=> i = j
    BY <1>4, <2>1
  <2> QED BY <2>3, <2>4
<1> QED BY <1>5, <1>6, <1>7 DEF Parting

\* So do other orders of the keys in each bucket.
LEMMA ResortedParting ==
  ASSUME NEW K, NEW x, NEW y, NEW keys, NEW rel, Parting(x, keys, rel),
         DOMAIN y = DOMAIN x, \A i \in DOMAIN x : x[i] \in Seq(K) /\ Rearranges(y[i], x[i])
  PROVE  Parting(y, keys, rel)
<1>1. ASSUME NEW i \in DOMAIN x
      PROVE  ToSet(y[i]) = ToSet(x[i]) /\ IsInjective(y[i]) /\ y[i] # <<>>
  <2>1. PICK s \in Seq(K) : s = x[i]
    OBVIOUS
  <2>2. Rearranges(y[i], s)
    BY <2>1
  <2>3. y[i] \in Seq(K) /\ ToSet(y[i]) = ToSet(s) /\ (IsInjective(s) => IsInjective(y[i]))
    BY <2>2, RearrangedFacts
  <2>4. y[i] = <<>> <=> ToSet(y[i]) = {}
    BY <2>3, EmptyFacts
  <2>5. s = <<>> <=> ToSet(s) = {}
    BY EmptyFacts
  <2> QED BY <2>1, <2>3, <2>4, <2>5 DEF Parting
<1>2. UNION {ToSet(y[i]) : i \in DOMAIN y} = keys
  <2>1. UNION {ToSet(y[i]) : i \in DOMAIN y} = UNION {ToSet(x[i]) : i \in DOMAIN x}
    BY <1>1
  <2> QED BY <2>1 DEF Parting
<1>3. ASSUME NEW i \in DOMAIN y, NEW j \in DOMAIN y, NEW a \in ToSet(y[i]), NEW b \in ToSet(y[j])
      PROVE  i = j <=> <<a, b>> \in rel
  <2>1. a \in ToSet(x[i]) /\ b \in ToSet(x[j]) /\ i \in DOMAIN x /\ j \in DOMAIN x
    BY <1>1
  <2> QED BY <2>1 DEF Parting
<1> QED BY <1>1, <1>2, <1>3 DEF Parting

\* Two lists of buckets part all keys when rel relates no key of one to one of the other.
LEMMA JoinedParting ==
  ASSUME NEW S, NEW x \in Seq(S), NEW y \in Seq(S), NEW K, NEW L, NEW rel,
         Parting(x, K, rel), Parting(y, L, rel),
         \A a \in K, b \in L : <<a, b>> \notin rel /\ <<b, a>> \notin rel
  PROVE  Parting(x \o y, K \cup L, rel)
<1> DEFINE z == x \o y
           m == Len(x)
           n == Len(y)
<1>1. m \in Nat /\ n \in Nat /\ DOMAIN x = 1..m /\ DOMAIN y = 1..n /\ DOMAIN z = 1..(m + n)
  OBVIOUS
<1>2. \A i \in 1..m : z[i] = x[i] /\ i \in 1..(m + n)
  BY <1>1
<1>3. \A i \in 1..n : z[m + i] = y[i] /\ m + i \in 1..(m + n) /\ m + i \notin 1..m
  BY <1>1
<1>4. \A i \in 1..(m + n) : i \in 1..m \/ \E j \in 1..n : i = m + j
  <2> TAKE i \in 1..(m + n)
  <2> SUFFICES ASSUME i \notin 1..m PROVE \E j \in 1..n : i = m + j
    OBVIOUS
  <2>1. i - m \in 1..n /\ i = m + (i - m)
    BY <1>1
  <2> QED BY <2>1
<1> HIDE DEF z, m, n
<1>5. \A i \in 1..m : ToSet(z[i]) \subseteq K /\ IsInjective(z[i]) /\ z[i] # <<>>
  BY <1>1, <1>2 DEF Parting
<1>6. \A i \in 1..n : ToSet(z[m + i]) \subseteq L /\ IsInjective(z[m + i]) /\ z[m + i] # <<>>
  BY <1>1, <1>3 DEF Parting
<1>7. \A i \in DOMAIN z : IsInjective(z[i]) /\ z[i] # <<>>
  BY <1>1, <1>4, <1>5, <1>6
<1>8. UNION {ToSet(z[i]) : i \in DOMAIN z} = K \cup L
  <2>1. \A a \in K : \E i \in 1..m : a \in ToSet(z[i])
    BY <1>1, <1>2 DEF Parting
  <2>2. \A a \in L : \E i \in 1..n : a \in ToSet(z[m + i])
    BY <1>1, <1>3 DEF Parting
  <2> QED BY <1>1, <1>2, <1>3, <1>4, <1>5, <1>6, <2>1, <2>2
<1>9. ASSUME NEW i \in DOMAIN z, NEW j \in DOMAIN z, NEW a \in ToSet(z[i]), NEW b \in ToSet(z[j])
      PROVE  i = j <=> <<a, b>> \in rel
  <2>1. CASE i \in 1..m /\ j \in 1..m
    BY <1>1, <1>2, <2>1 DEF Parting
  <2>2. CASE i \in 1..m /\ j \notin 1..m
    <3>1. PICK l \in 1..n : j = m + l
      BY <1>1, <1>4, <2>2
    <3>2. a \in K /\ b \in L
      BY <1>5, <1>6, <2>2, <3>1
    <3> QED BY <2>2, <3>2
  <2>3. CASE i \notin 1..m /\ j \in 1..m
    <3>1. PICK k \in 1..n : i = m + k
      BY <1>1, <1>4, <2>3
    <3>2. a \in L /\ b \in K
      BY <1>5, <1>6, <2>3, <3>1
    <3> QED BY <2>3, <3>2
  <2>4. CASE i \notin 1..m /\ j \notin 1..m
    <3>1. PICK k \in 1..n, l \in 1..n : i = m + k /\ j = m + l
      BY <1>1, <1>4, <2>4
    <3>2. a \in ToSet(y[k]) /\ b \in ToSet(y[l])
      BY <1>3, <3>1
    <3>3. k = l <=> <<a, b>> \in rel
      BY <1>1, <3>2 DEF Parting
    <3>4. k = l <=> i = j
      BY <1>1, <3>1
    <3> QED BY <3>3, <3>4
  <2> QED BY <2>1, <2>2, <2>3, <2>4
<1> QED BY <1>7, <1>8, <1>9 DEF Parting, z
-----------------------------------------------------------------------------
\* Groups

Group == [label : SortKeys(2), members : Seq(Nat)]

MembersOf(groups) == [i \in DOMAIN groups |-> groups[i].members]

TogetherIn(fleet) ==
    {p \in (DOMAIN fleet) \X (DOMAIN fleet) : Together(fleet, p[1], p[2])}

\* The groups of a sidebar: all instances of the fleet, those of one group together.
GroupsRight(groups, fleet) ==
    groups \in Seq(Group) /\ Parting(MembersOf(groups), DOMAIN fleet, TogetherIn(fleet))

LEMMA FleetFacts ==
  ASSUME NEW fleet \in Fleets
  PROVE  /\ DOMAIN fleet \in SUBSET Nat /\ 0 \notin DOMAIN fleet /\ IsFiniteSet(DOMAIN fleet)
         /\ \A k \in DOMAIN fleet :
               /\ fleet[k].name \in Nat /\ fleet[k].host \in Nat /\ fleet[k].label \in Nat
               /\ fleet[k].created \in Nat /\ fleet[k].streams \in Nat /\ fleet[k].status \in Nat
               /\ fleet[k].ips \in SUBSET Nat
<1>1. DOMAIN fleet \in SUBSET Nat /\ 0 \notin DOMAIN fleet /\ IsFiniteSet(DOMAIN fleet)
  BY GroupsAssumption
<1>2. \A k \in DOMAIN fleet : fleet[k] \in Instance
  BY GroupsAssumption
<1>3. \A x \in Instance :
         /\ x.name \in Nat /\ x.host \in Nat /\ x.label \in Nat
         /\ x.created \in Nat /\ x.streams \in Nat /\ x.status \in Nat
         /\ x.ips \in SUBSET Nat
  BY DEF Instance
<1> QED BY <1>1, <1>2, <1>3

LEMMA PairKey ==
  ASSUME NEW a \in Int, NEW b \in Int
  PROVE  <<a, b>> \in SortKeys(2)
<1>1. \A i \in 1..2 : i = 1 \/ i = 2
  OBVIOUS
<1>2. DOMAIN <<a, b>> = 1..2 /\ <<a, b>>[1] = a /\ <<a, b>>[2] = b
  OBVIOUS
<1>3. <<a, b>> = [i \in 1..2 |-> <<a, b>>[i]]
  OBVIOUS
<1> QED BY <1>1, <1>2, <1>3 DEF SortKeys

LEMMA LabelFacts ==
  ASSUME NEW fleet \in Fleets, NEW members \in SUBSET DOMAIN fleet, members # {}
  PROVE  LabelOf(fleet, members) \in SortKeys(2)
<1> DEFINE hosts == {fleet[k].host : k \in members}
           shared == {ip \in UNION {fleet[k].ips : k \in members} : \A k \in members : ip \in fleet[k].ips}
<1>1. hosts \in SUBSET Nat /\ hosts # {} /\ shared \in SUBSET Nat
  BY FleetFacts
<1>2. IsFiniteSet(hosts)
  <2>1. IsFiniteSet(members)
    BY FleetFacts, FS_Subset
  <2> DEFINE f == [k \in members |-> fleet[k].host]
  <2>2. f \in Surjection(members, hosts)
    BY DEF Surjection
  <2> HIDE DEF f, hosts
  <2> QED BY <2>1, <2>2, FS_Surjection
<1>3. LabelOf(fleet, members) =
         IF Cardinality(hosts) = 1 \/ shared = {} THEN <<Min(hosts), Cardinality(hosts) - 1>>
         ELSE <<Min(shared), 0>>
  BY DEF LabelOf
<1> HIDE DEF hosts, shared
<1>4. Min(hosts) \in Nat
  BY <1>1, MinFacts
<1>5. Cardinality(hosts) \in Nat
  BY <1>2, FS_CardinalityType
<1>6. shared # {} => Min(shared) \in Nat
  BY <1>1, MinFacts
<1> DEFINE c == Cardinality(hosts)
           x == Min(hosts)
           y == Min(shared)
<1> HIDE DEF c, x, y
<1>7. <<x, c - 1>> \in SortKeys(2)
  BY <1>4, <1>5, PairKey DEF c, x
<1>8. shared # {} => <<y, 0>> \in SortKeys(2)
  BY <1>6, PairKey DEF y
<1> QED BY <1>3, <1>7, <1>8 DEF c, x, y

\* Buckets with their labels.
GroupsOf(label, buckets) == [i \in DOMAIN buckets |-> [label |-> label[i], members |-> buckets[i]]]

LEMMA GroupsOfFacts ==
  ASSUME NEW S \in SUBSET Nat, NEW buckets \in Seq(Seq(S)),
         NEW label, \A i \in DOMAIN buckets : label[i] \in SortKeys(2)
  PROVE  /\ GroupsOf(label, buckets) \in Seq(Group)
         /\ MembersOf(GroupsOf(label, buckets)) = buckets
<1> DEFINE group(i) == [label |-> label[i], members |-> buckets[i]]
           gs == GroupsOf(label, buckets)
<1>1. /\ DOMAIN buckets = 1..Len(buckets) /\ Len(buckets) \in Nat
      /\ \A i \in DOMAIN buckets : buckets[i] \in Seq(S)
  OBVIOUS
<1>2. \A i \in DOMAIN buckets : buckets[i] \in Seq(Nat)
  BY <1>1, WiderSeq
<1>3. \A i \in DOMAIN buckets : group(i) \in Group
  BY <1>2 DEF Group
<1>4. \A i \in DOMAIN buckets : group(i).members = buckets[i]
  OBVIOUS
<1>5. gs = [i \in DOMAIN buckets |-> group(i)]
  BY DEF GroupsOf
<1> HIDE DEF group, gs
<1>6. gs \in Seq(Group) /\ DOMAIN gs = DOMAIN buckets
  BY <1>1, <1>3, <1>5
<1>7. \A i \in DOMAIN buckets : gs[i].members = buckets[i]
  BY <1>4, <1>5
<1>8. buckets = [i \in DOMAIN buckets |-> buckets[i]]
  BY <1>1
<1>9. MembersOf(gs) = buckets
  BY <1>6, <1>7, <1>8 DEF MembersOf
<1> QED BY <1>6, <1>9 DEF gs
-----------------------------------------------------------------------------
\* The three kinds of instances

Named(fleet) == {k \in DOMAIN fleet : fleet[k].label # 0}

Reached(fleet) == {k \in Automatic(fleet) : fleet[k].ips # {}}

Alone(fleet) == {k \in Automatic(fleet) : fleet[k].ips = {}}

LEMMA KindFacts ==
  ASSUME NEW fleet \in Fleets
  PROVE  /\ Named(fleet) \in SUBSET DOMAIN fleet
         /\ Reached(fleet) \in SUBSET DOMAIN fleet /\ Reached(fleet) \subseteq Automatic(fleet)
         /\ Alone(fleet) \in SUBSET DOMAIN fleet
         /\ (Named(fleet) \cup Reached(fleet)) \cup Alone(fleet) = DOMAIN fleet
         /\ Named(fleet) \cap (Reached(fleet) \cup Alone(fleet)) = {}
         /\ Reached(fleet) \cap Alone(fleet) = {}
BY DEF Named, Reached, Alone, Automatic

LEMMA TogetherKinds ==
  ASSUME NEW fleet \in Fleets, NEW k \in DOMAIN fleet, NEW l \in DOMAIN fleet
  PROVE  /\ k \in Named(fleet) /\ l \in Named(fleet) =>
               (<<k, l>> \in TogetherIn(fleet) <=> fleet[k].label = fleet[l].label)
         /\ k \in Reached(fleet) /\ l \in Reached(fleet) =>
               (<<k, l>> \in TogetherIn(fleet) <=> Connected(fleet, k, l))
         /\ k \in Alone(fleet) /\ l \in Alone(fleet) =>
               (<<k, l>> \in TogetherIn(fleet) <=> fleet[k].host = fleet[l].host)
         /\ k \in Named(fleet) /\ l \notin Named(fleet) =>
               <<k, l>> \notin TogetherIn(fleet) /\ <<l, k>> \notin TogetherIn(fleet)
         /\ k \in Reached(fleet) /\ l \in Alone(fleet) =>
               <<k, l>> \notin TogetherIn(fleet) /\ <<l, k>> \notin TogetherIn(fleet)
<1>1. /\ <<k, l>> \in TogetherIn(fleet) <=> Together(fleet, k, l)
      /\ <<l, k>> \in TogetherIn(fleet) <=> Together(fleet, l, k)
  BY DEF TogetherIn
<1>2. /\ k \in Automatic(fleet) <=> fleet[k].label = 0
      /\ l \in Automatic(fleet) <=> fleet[l].label = 0
  BY DEF Automatic
<1>3. /\ k \in Named(fleet) <=> fleet[k].label # 0
      /\ l \in Named(fleet) <=> fleet[l].label # 0
  BY DEF Named
<1>4. /\ k \in Reached(fleet) <=> (k \in Automatic(fleet) /\ fleet[k].ips # {})
      /\ l \in Reached(fleet) <=> (l \in Automatic(fleet) /\ fleet[l].ips # {})
      /\ k \in Alone(fleet) <=> (k \in Automatic(fleet) /\ fleet[k].ips = {})
      /\ l \in Alone(fleet) <=> (l \in Automatic(fleet) /\ fleet[l].ips = {})
  BY DEF Reached, Alone
<1>5. /\ {k, l} \subseteq Automatic(fleet) <=> (k \in Automatic(fleet) /\ l \in Automatic(fleet))
      /\ {l, k} \subseteq Automatic(fleet) <=> (k \in Automatic(fleet) /\ l \in Automatic(fleet))
  OBVIOUS
<1>6. Together(fleet, k, l) <=>
        \/ fleet[k].label # 0 /\ fleet[k].label = fleet[l].label
        \/ /\ {k, l} \subseteq Automatic(fleet)
           /\ \/ fleet[k].ips # {} /\ fleet[l].ips # {} /\ Connected(fleet, k, l)
              \/ fleet[k].ips = {} /\ fleet[l].ips = {} /\ fleet[k].host = fleet[l].host
  BY DEF Together
<1>7. Together(fleet, l, k) <=>
        \/ fleet[l].label # 0 /\ fleet[l].label = fleet[k].label
        \/ /\ {l, k} \subseteq Automatic(fleet)
           /\ \/ fleet[l].ips # {} /\ fleet[k].ips # {} /\ Connected(fleet, l, k)
              \/ fleet[l].ips = {} /\ fleet[k].ips = {} /\ fleet[l].host = fleet[k].host
  BY DEF Together
<1> QED BY <1>1, <1>2, <1>3, <1>4, <1>5, <1>6, <1>7

\* What an instance is put together with, it is together with itself.
LEMMA TogetherSelf ==
  ASSUME NEW fleet \in Fleets, NEW k \in DOMAIN fleet
  PROVE  <<k, k>> \in TogetherIn(fleet)
<1>1. k \in Named(fleet) \/ k \in Reached(fleet) \/ k \in Alone(fleet)
  BY KindFacts
<1>2. Connected(fleet, k, k)
  BY DEF Connected
<1> QED BY <1>1, <1>2, TogetherKinds

LEMMA MembersJoin ==
  ASSUME NEW x \in Seq(Group), NEW y \in Seq(Group)
  PROVE  MembersOf(x \o y) = MembersOf(x) \o MembersOf(y)
<1>1. /\ Len(x) \in Nat /\ Len(y) \in Nat /\ DOMAIN x = 1..Len(x) /\ DOMAIN y = 1..Len(y)
      /\ x \o y \in Seq(Group) /\ Len(x \o y) = Len(x) + Len(y)
      /\ DOMAIN (x \o y) = 1..(Len(x) + Len(y))
  OBVIOUS
<1>2. /\ MembersOf(x) \in Seq(Seq(Nat)) /\ Len(MembersOf(x)) = Len(x)
      /\ MembersOf(y) \in Seq(Seq(Nat)) /\ Len(MembersOf(y)) = Len(y)
  <2>1. \A g \in Group : g.members \in Seq(Nat)
    BY DEF Group
  <2>2. (\A i \in 1..Len(x) : x[i] \in Group) /\ (\A i \in 1..Len(y) : y[i] \in Group)
    OBVIOUS
  <2> QED BY <1>1, <2>1, <2>2 DEF MembersOf
<1> DEFINE mx == MembersOf(x)
           my == MembersOf(y)
           z == x \o y
<1>3. /\ \A i \in 1..Len(x) : mx[i] = x[i].members
      /\ \A i \in 1..Len(y) : my[i] = y[i].members
      /\ MembersOf(z) = [i \in 1..(Len(x) + Len(y)) |-> z[i].members]
  BY <1>1 DEF MembersOf
<1>4. mx \in Seq(Seq(Nat)) /\ Len(mx) = Len(x) /\ my \in Seq(Seq(Nat)) /\ Len(my) = Len(y)
  BY <1>2
<1> HIDE DEF mx, my
<1>5. mx \o my = [i \in 1..(Len(x) + Len(y)) |-> (mx \o my)[i]]
  <2>1. ASSUME NEW S, NEW a \in Seq(S), NEW b \in Seq(S)
        PROVE  a \o b = [i \in 1..(Len(a) + Len(b)) |-> (a \o b)[i]]
    <3>1. a \o b \in Seq(S) /\ Len(a \o b) = Len(a) + Len(b)
      OBVIOUS
    <3>2. PICK c : c = a \o b
      OBVIOUS
    <3>3. c \in Seq(S) /\ Len(c) = Len(a) + Len(b)
      BY <3>1, <3>2
    <3>4. c = [i \in 1..Len(c) |-> c[i]]
      BY <3>3
    <3>5. c = [i \in 1..(Len(a) + Len(b)) |-> c[i]]
      BY <3>3, <3>4
    <3> QED BY <3>2, <3>5
  <2>2. mx \o my = [i \in 1..(Len(mx) + Len(my)) |-> (mx \o my)[i]]
    BY <1>4, <2>1
  <2> QED BY <1>4, <2>2
<1>6. \A i \in 1..(Len(x) + Len(y)) :
         /\ (mx \o my)[i] = IF i <= Len(x) THEN mx[i] ELSE my[i - Len(x)]
         /\ z[i] = IF i <= Len(x) THEN x[i] ELSE y[i - Len(x)]
  BY <1>1, <1>4
<1> HIDE DEF z
<1>7. ASSUME NEW i \in 1..(Len(x) + Len(y)) PROVE (mx \o my)[i] = z[i].members
  <2>1. CASE i <= Len(x)
    <3>1. i \in 1..Len(x)
      BY <1>1, <2>1
    <3> QED BY <1>3, <1>6, <2>1, <3>1
  <2>2. CASE ~(i <= Len(x))
    <3>1. i - Len(x) \in 1..Len(y)
      BY <1>1, <2>2
    <3>2. (mx \o my)[i] = my[i - Len(x)] /\ z[i] = y[i - Len(x)]
      BY <1>6, <2>2
    <3> QED BY <1>3, <3>1, <3>2
  <2> QED BY <2>1, <2>2
<1> QED BY <1>3, <1>5, <1>7 DEF mx, my, z

LEMMA GroupsFacts ==
  ASSUME NEW fleet \in Fleets, NEW order \in Orders
  PROVE  GroupsRight(Groups(fleet, order), fleet)
<1> DEFINE S == DOMAIN fleet
           rel == TogetherIn(fleet)
           manual == Marked(Labelled(fleet), [k \in DOMAIN fleet |-> fleet[k].label])
           auto == Marked(Addressed(fleet), Roots(fleet, order))
           fallback == Marked(Unresolved(fleet), [k \in DOMAIN fleet |-> fleet[k].host])
           one == [i \in DOMAIN manual |-> <<fleet[manual[i][1]].label, 0>>]
           two == [i \in DOMAIN auto |-> LabelOf(fleet, ToSet(auto[i]))]
           three == [i \in DOMAIN fallback |-> <<fleet[fallback[i][1]].host, 0>>]
<1>1. Groups(fleet, order) = GroupsOf(one, manual) \o GroupsOf(two, auto) \o GroupsOf(three, fallback)
  BY DEF Groups, GroupsOf
<1>2. /\ Labelled(fleet) \in Seq(Named(fleet)) /\ ToSet(Labelled(fleet)) = Named(fleet)
      /\ IsInjective(Labelled(fleet))
  <2>1. Labelled(fleet) = Keep(Listed(fleet), Named(fleet))
    BY DEF Labelled, Named
  <2> QED BY <2>1, KindFacts, ListedAmong
<1>3. /\ Addressed(fleet) \in Seq(Reached(fleet)) /\ ToSet(Addressed(fleet)) = Reached(fleet)
      /\ IsInjective(Addressed(fleet))
  <2>1. Addressed(fleet) = Keep(Listed(fleet), Reached(fleet))
    BY DEF Addressed, Reached
  <2> QED BY <2>1, KindFacts, ListedAmong
<1>4. /\ Unresolved(fleet) \in Seq(Alone(fleet)) /\ ToSet(Unresolved(fleet)) = Alone(fleet)
      /\ IsInjective(Unresolved(fleet))
  <2>1. Unresolved(fleet) = Keep(Listed(fleet), Alone(fleet))
    BY DEF Unresolved, Alone
  <2> QED BY <2>1, KindFacts, ListedAmong
<1>5. manual \in Seq(Seq(Named(fleet))) /\ Parting(manual, Named(fleet), rel)
  <2>0. PICK mark : mark = [k \in DOMAIN fleet |-> fleet[k].label]
    OBVIOUS
  <2>1. \A k, l \in Named(fleet) : <<k, l>> \in rel <=> mark[k] = mark[l]
    BY <2>0, KindFacts, TogetherKinds
  <2>2. manual = Marked(Labelled(fleet), mark)
    BY <2>0
  <2> HIDE DEF rel, manual
  <2> QED BY <1>2, <2>1, <2>2, MarkedFacts
<1>6. auto \in Seq(Seq(Reached(fleet))) /\ Parting(auto, Reached(fleet), rel)
  <2>1. \A k, l \in Reached(fleet) : <<k, l>> \in rel <=> Roots(fleet, order)[k] = Roots(fleet, order)[l]
    <3> SUFFICES ASSUME NEW k \in Reached(fleet), NEW l \in Reached(fleet)
                 PROVE  <<k, l>> \in TogetherIn(fleet) <=> Roots(fleet, order)[k] = Roots(fleet, order)[l]
      OBVIOUS
    <3>1. /\ k \in DOMAIN fleet /\ l \in DOMAIN fleet
          /\ k \in Automatic(fleet) /\ l \in Automatic(fleet)
      BY KindFacts
    <3>2. <<k, l>> \in TogetherIn(fleet) <=> Connected(fleet, k, l)
      BY <3>1, TogetherKinds
    <3> QED BY <3>1, <3>2, RootsFacts
  <2> HIDE DEF rel
  <2> QED BY <1>3, <2>1, MarkedFacts
<1>7. fallback \in Seq(Seq(Alone(fleet))) /\ Parting(fallback, Alone(fleet), rel)
  <2>0. PICK mark : mark = [k \in DOMAIN fleet |-> fleet[k].host]
    OBVIOUS
  <2>1. \A k, l \in Alone(fleet) : <<k, l>> \in rel <=> mark[k] = mark[l]
    BY <2>0, KindFacts, TogetherKinds
  <2>2. fallback = Marked(Unresolved(fleet), mark)
    BY <2>0
  <2> HIDE DEF rel, fallback
  <2> QED BY <1>4, <2>1, <2>2, MarkedFacts
<1> HIDE DEF manual, auto, fallback, rel
<1>8. /\ Named(fleet) \in SUBSET Nat /\ Reached(fleet) \in SUBSET Nat /\ Alone(fleet) \in SUBSET Nat
  BY KindFacts, FleetFacts
<1>9. ASSUME NEW T, NEW b \in Seq(Seq(T)), Parting(b, T, rel), NEW i \in DOMAIN b
      PROVE  b[i][1] \in T /\ ToSet(b[i]) # {} /\ ToSet(b[i]) \subseteq T
  <2>1. b[i] \in Seq(T) /\ b[i] # <<>>
    BY <1>9 DEF Parting
  <2>2. Len(b[i]) >= 1 /\ b[i][1] \in T
    BY <2>1
  <2> QED BY <2>1, <2>2, EmptyFacts DEF ToSet
<1>10. \A i \in DOMAIN manual : one[i] \in SortKeys(2)
  <2> SUFFICES ASSUME NEW i \in DOMAIN manual PROVE one[i] \in SortKeys(2)
    OBVIOUS
  <2>1. manual[i][1] \in DOMAIN fleet
    BY <1>5, <1>9, KindFacts
  <2>2. fleet[manual[i][1]].label \in Int
    BY <2>1, FleetFacts
  <2> QED BY <2>2, PairKey
<1>11. \A i \in DOMAIN auto : two[i] \in SortKeys(2)
  <2> SUFFICES ASSUME NEW i \in DOMAIN auto PROVE two[i] \in SortKeys(2)
    OBVIOUS
  <2>1. ToSet(auto[i]) # {} /\ ToSet(auto[i]) \in SUBSET DOMAIN fleet
    BY <1>6, <1>9, KindFacts
  <2>2. LabelOf(fleet, ToSet(auto[i])) \in SortKeys(2)
    BY <2>1, LabelFacts
  <2> QED BY <2>2
<1>12. \A i \in DOMAIN fallback : three[i] \in SortKeys(2)
  <2> SUFFICES ASSUME NEW i \in DOMAIN fallback PROVE three[i] \in SortKeys(2)
    OBVIOUS
  <2>1. fallback[i][1] \in DOMAIN fleet
    BY <1>7, <1>9, KindFacts
  <2>2. fleet[fallback[i][1]].host \in Int
    BY <2>1, FleetFacts
  <2> QED BY <2>2, PairKey
<1> HIDE DEF one, two, three
<1> DEFINE x == GroupsOf(one, manual)
           y == GroupsOf(two, auto)
           z == GroupsOf(three, fallback)
<1>13. x \in Seq(Group) /\ MembersOf(x) = manual
  BY <1>5, <1>8, <1>10, GroupsOfFacts
<1>14. y \in Seq(Group) /\ MembersOf(y) = auto
  BY <1>6, <1>8, <1>11, GroupsOfFacts
<1>15. z \in Seq(Group) /\ MembersOf(z) = fallback
  BY <1>7, <1>8, <1>12, GroupsOfFacts
<1> HIDE DEF x, y, z
<1>16. x \o y \in Seq(Group) /\ (x \o y) \o z \in Seq(Group)
  BY <1>13, <1>14, <1>15
<1>17. MembersOf((x \o y) \o z) = (manual \o auto) \o fallback
  BY <1>13, <1>14, <1>15, <1>16, MembersJoin
<1>18. manual \in Seq(Seq(Nat)) /\ auto \in Seq(Seq(Nat)) /\ fallback \in Seq(Seq(Nat))
       /\ manual \o auto \in Seq(Seq(Nat))
  <2>1. \A T \in SUBSET Nat : Seq(T) \subseteq Seq(Nat)
    BY WiderSeq
  <2>2. manual \in Seq(Seq(Nat)) /\ auto \in Seq(Seq(Nat)) /\ fallback \in Seq(Seq(Nat))
    BY <1>5, <1>6, <1>7, <1>8, <2>1, WiderSeq
  <2> QED BY <2>2
<1>19. Parting(manual \o auto, Named(fleet) \cup Reached(fleet), rel)
  <2>1. \A a \in Named(fleet), b \in Reached(fleet) : <<a, b>> \notin rel /\ <<b, a>> \notin rel
    BY KindFacts, TogetherKinds DEF rel
  <2> QED BY <1>5, <1>6, <1>18, <2>1, JoinedParting
<1>20. Parting((manual \o auto) \o fallback, (Named(fleet) \cup Reached(fleet)) \cup Alone(fleet), rel)
  <2>1. \A a \in Named(fleet) \cup Reached(fleet), b \in Alone(fleet) :
           <<a, b>> \notin rel /\ <<b, a>> \notin rel
    BY KindFacts, TogetherKinds DEF rel
  <2> QED BY <1>7, <1>18, <1>19, <2>1, JoinedParting
<1>21. Groups(fleet, order) = (x \o y) \o z
  BY <1>1 DEF x, y, z
<1> QED BY <1>16, <1>17, <1>20, <1>21, KindFacts DEF GroupsRight, rel
-----------------------------------------------------------------------------
\* Sort keys

LEMMA SequenceKey ==
  ASSUME NEW s \in Seq(Int)
  PROVE  s \in SortKeys(Len(s))
<1>1. Len(s) \in Nat /\ s = [i \in 1..Len(s) |-> s[i]] /\ \A i \in 1..Len(s) : s[i] \in Int
  OBVIOUS
<1> QED BY <1>1 DEF SortKeys

LEMMA TripleKey ==
  ASSUME NEW a \in Int, NEW b \in Int, NEW c \in Int
  PROVE  <<a, b, c>> \in SortKeys(3)
<1>1. <<a, b, c>> \in Seq(Int) /\ Len(<<a, b, c>>) = 3
  OBVIOUS
<1> QED BY <1>1, SequenceKey

LEMMA LabelSequence ==
  ASSUME NEW l \in SortKeys(2)
  PROVE  l \in Seq(Int) /\ Len(l) = 2 /\ l[1] \in Int /\ l[2] \in Int
<1>1. DOMAIN l = 1..2 /\ l = [i \in 1..2 |-> l[i]] /\ \A i \in 1..2 : l[i] \in Int
  BY DEF SortKeys
<1>2. l \in Seq(Int) /\ Len(l) = 2
  BY <1>1
<1> QED BY <1>1, <1>2

LEMMA LongerKeys ==
  ASSUME NEW a \in Int, NEW l \in SortKeys(2)
  PROVE  <<a>> \o l \in SortKeys(3)
<1>1. <<a>> \in Seq(Int) /\ Len(<<a>>) = 1
  OBVIOUS
<1>2. l \in Seq(Int) /\ Len(l) = 2
  BY LabelSequence
<1>3. \A x, y \in Seq(Int) : x \o y \in Seq(Int) /\ Len(x \o y) = Len(x) + Len(y)
  OBVIOUS
<1>4. <<a>> \o l \in Seq(Int) /\ Len(<<a>> \o l) = 3
  BY <1>1, <1>2, <1>3
<1> QED BY <1>4, SequenceKey

LEMMA LongestKeys ==
  ASSUME NEW a \in Int, NEW l \in SortKeys(2), NEW b \in Int
  PROVE  <<a>> \o l \o <<b>> \in SortKeys(4)
<1>1. /\ <<a>> \in Seq(Int) /\ Len(<<a>>) = 1
      /\ <<b>> \in Seq(Int) /\ Len(<<b>>) = 1
  OBVIOUS
<1>2. l \in Seq(Int) /\ Len(l) = 2
  BY LabelSequence
<1>3. \A x, y \in Seq(Int) : x \o y \in Seq(Int) /\ Len(x \o y) = Len(x) + Len(y)
  OBVIOUS
<1>4. <<a>> \o l \in Seq(Int) /\ Len(<<a>> \o l) = 3
  BY <1>1, <1>2, <1>3
<1>5. <<a>> \o l \o <<b>> \in Seq(Int) /\ Len(<<a>> \o l \o <<b>>) = 4
  BY <1>1, <1>3, <1>4
<1> QED BY <1>5, SequenceKey

\* All instances have keys of one length.
LEMMA InstanceKeys ==
  ASSUME NEW fleet \in Fleets, NEW sort
  PROVE  \E L \in Nat : \A k \in DOMAIN fleet : InstanceKey(fleet, k, sort) \in SortKeys(L)
<1>1. \A k \in DOMAIN fleet :
         /\ k \in Int /\ -k \in Int
         /\ fleet[k].name \in Int /\ -fleet[k].name \in Int
         /\ -fleet[k].created \in Int
         /\ fleet[k].streams \in Int /\ -fleet[k].streams \in Int
         /\ fleet[k].status \in Int
  BY FleetFacts
<1>2. CASE sort = "newest"
  <2>1. \A k \in DOMAIN fleet : InstanceKey(fleet, k, sort) = <<-fleet[k].created, -k>>
    BY <1>2 DEF InstanceKey
  <2>2. \A k \in DOMAIN fleet : InstanceKey(fleet, k, sort) \in SortKeys(2)
    BY <1>1, <2>1, PairKey
  <2> QED BY <2>2
<1>3. CASE sort = "name_desc"
  <2>1. \A k \in DOMAIN fleet : InstanceKey(fleet, k, sort) = <<-fleet[k].name, k>>
    BY <1>3 DEF InstanceKey
  <2>2. \A k \in DOMAIN fleet : InstanceKey(fleet, k, sort) \in SortKeys(2)
    BY <1>1, <2>1, PairKey
  <2> QED BY <2>2
<1>4. CASE sort = "streams_desc"
  <2>1. \A k \in DOMAIN fleet : InstanceKey(fleet, k, sort) = <<-fleet[k].streams, fleet[k].name, k>>
    BY <1>4 DEF InstanceKey
  <2>2. \A k \in DOMAIN fleet : InstanceKey(fleet, k, sort) \in SortKeys(3)
    BY <1>1, <2>1, TripleKey
  <2> QED BY <2>2
<1>5. CASE sort = "streams_asc"
  <2>1. \A k \in DOMAIN fleet : InstanceKey(fleet, k, sort) = <<fleet[k].streams, fleet[k].name, k>>
    BY <1>5 DEF InstanceKey
  <2>2. \A k \in DOMAIN fleet : InstanceKey(fleet, k, sort) \in SortKeys(3)
    BY <1>1, <2>1, TripleKey
  <2> QED BY <2>2
<1>6. CASE sort = "status"
  <2>1. \A k \in DOMAIN fleet : InstanceKey(fleet, k, sort) = <<fleet[k].status, fleet[k].name, k>>
    BY <1>6 DEF InstanceKey
  <2>2. \A k \in DOMAIN fleet : InstanceKey(fleet, k, sort) \in SortKeys(3)
    BY <1>1, <2>1, TripleKey
  <2> QED BY <2>2
<1>7. CASE sort \notin {"newest", "name_desc", "streams_desc", "streams_asc", "status"}
  <2>1. \A k \in DOMAIN fleet : InstanceKey(fleet, k, sort) = <<fleet[k].name, k>>
    BY <1>7 DEF InstanceKey
  <2>2. \A k \in DOMAIN fleet : InstanceKey(fleet, k, sort) \in SortKeys(2)
    BY <1>1, <2>1, PairKey
  <2> QED BY <2>2
<1> QED BY <1>2, <1>3, <1>4, <1>5, <1>6, <1>7

\* A group of instances of a fleet
GroupOf(fleet) == {g \in Group : g.members # <<>> /\ ToSet(g.members) \subseteq DOMAIN fleet}

LEMMA GroupOfFacts ==
  ASSUME NEW fleet \in Fleets, NEW group \in GroupOf(fleet)
  PROVE  /\ group.label \in SortKeys(2)
         /\ ToSet(group.members) \in SUBSET DOMAIN fleet
         /\ ToSet(group.members) # {}
         /\ IsFiniteSet(ToSet(group.members))
         /\ group.members \in Seq(DOMAIN fleet)
<1>1. group.label \in SortKeys(2) /\ group.members \in Seq(Nat)
  BY DEF GroupOf, Group
<1>2. group.members # <<>> /\ ToSet(group.members) \in SUBSET DOMAIN fleet
  BY DEF GroupOf
<1>3. ToSet(group.members) # {}
  BY <1>1, <1>2, EmptyFacts
<1>4. IsFiniteSet(ToSet(group.members))
  BY <1>2, FleetFacts, FS_Subset
<1>5. ASSUME NEW s \in Seq(Nat), NEW K, ToSet(s) \subseteq K PROVE s \in Seq(K)
  <2>1. Len(s) \in Nat /\ s = [i \in 1..Len(s) |-> s[i]] /\ \A i \in 1..Len(s) : s[i] \in ToSet(s)
    BY DEF ToSet
  <2> QED BY <1>5, <2>1
<1> QED BY <1>1, <1>2, <1>3, <1>4, <1>5

LEMMA AnchorFacts ==
  ASSUME NEW fleet \in Fleets, NEW group \in GroupOf(fleet), NEW sort
  PROVE  Anchor(fleet, group, sort) \in Nat
<1> DEFINE before(k) == {l \in DOMAIN fleet : Precedes(InstanceKey(fleet, l, sort), InstanceKey(fleet, k, sort))}
           places == {Cardinality(before(k)) : k \in ToSet(group.members)}
<1>1. ASSUME NEW k PROVE Cardinality(before(k)) \in Nat
  <2>1. IsFiniteSet(before(k))
    BY FleetFacts, FS_Subset
  <2> HIDE DEF before
  <2> QED BY <2>1, FS_CardinalityType
<1>2. Anchor(fleet, group, sort) = Min(places)
  BY DEF Anchor
<1> HIDE DEF before
<1>3. places \in SUBSET Nat /\ places # {}
  BY <1>1, GroupOfFacts
<1> HIDE DEF places
<1> QED BY <1>2, <1>3, MinFacts

Newest(fleet, group) == Max({fleet[k].created : k \in ToSet(group.members)})

Worst(fleet, group) == Min({fleet[k].status : k \in ToSet(group.members)})

LEMMA NewestFacts ==
  ASSUME NEW fleet \in Fleets, NEW group \in GroupOf(fleet)
  PROVE  Newest(fleet, group) \in Nat /\ Worst(fleet, group) \in Nat
<1> DEFINE M == ToSet(group.members)
           times == {fleet[k].created : k \in M}
           ranks == {fleet[k].status : k \in M}
<1>1. M \in SUBSET DOMAIN fleet /\ M # {} /\ IsFiniteSet(M)
  BY GroupOfFacts
<1>2. times \in SUBSET Nat /\ times # {} /\ ranks \in SUBSET Nat /\ ranks # {}
  BY <1>1, FleetFacts
<1>3. IsFiniteSet(times)
  <2> DEFINE f == [k \in M |-> fleet[k].created]
  <2>1. f \in Surjection(M, times)
    BY DEF Surjection
  <2> HIDE DEF f, times, M
  <2> QED BY <1>1, <2>1, FS_Surjection
<1>4. Newest(fleet, group) = Max(times) /\ Worst(fleet, group) = Min(ranks)
  BY DEF Newest, Worst
<1> HIDE DEF times, ranks
<1> QED BY <1>2, <1>3, <1>4, MinFacts, MaxFacts

\* All groups have keys of one length.
LEMMA GroupKeys ==
  ASSUME NEW fleet \in Fleets, NEW sort
  PROVE  \E L \in Nat : \A group \in GroupOf(fleet) : GroupKey(fleet, group, sort) \in SortKeys(L)
<1>1. ASSUME NEW group \in GroupOf(fleet)
      PROVE  /\ group.label \in SortKeys(2) /\ -group.label[1] \in Int /\ -group.label[2] \in Int
             /\ -Newest(fleet, group) \in Int /\ Worst(fleet, group) \in Int
             /\ Anchor(fleet, group, sort) \in Int
  <2>1. Newest(fleet, group) \in Nat /\ Worst(fleet, group) \in Nat /\ Anchor(fleet, group, sort) \in Nat
    BY NewestFacts, AnchorFacts
  <2>2. group.label \in SortKeys(2)
    BY GroupOfFacts
  <2>3. group.label[1] \in Int /\ group.label[2] \in Int
    BY <2>2, LabelSequence
  <2> QED BY <2>1, <2>2, <2>3
<1>2. CASE sort = "newest"
  <2>1. \A group \in GroupOf(fleet) : GroupKey(fleet, group, sort) = <<-Newest(fleet, group)>> \o group.label
    BY <1>2 DEF GroupKey, Newest
  <2>2. \A group \in GroupOf(fleet) : GroupKey(fleet, group, sort) \in SortKeys(3)
    BY <1>1, <2>1, LongerKeys
  <2> QED BY <2>2
<1>3. CASE sort = "name_desc"
  <2>1. \A group \in GroupOf(fleet) :
           GroupKey(fleet, group, sort) = <<-group.label[1], Min({1, group.label[2]}), -group.label[2]>>
    BY <1>3 DEF GroupKey
  <2>2. ASSUME NEW group \in GroupOf(fleet) PROVE Min({1, group.label[2]}) \in Int
    <3>1. group.label[2] \in Int
      BY GroupOfFacts, LabelSequence
    <3>2. PICK n \in Int : n = group.label[2]
      BY <3>1
    <3>3. Min({1, n}) = IF n < 1 THEN n ELSE 1
      BY DEF Min
    <3> QED BY <3>2, <3>3
  <2>3. \A group \in GroupOf(fleet) : GroupKey(fleet, group, sort) \in SortKeys(3)
    BY <1>1, <2>1, <2>2, TripleKey
  <2> QED BY <2>3
<1>4. CASE sort \in {"streams_desc", "streams_asc"}
  <2>1. \A group \in GroupOf(fleet) :
           GroupKey(fleet, group, sort) = <<Anchor(fleet, group, sort)>> \o group.label
    BY <1>4 DEF GroupKey
  <2>2. \A group \in GroupOf(fleet) : GroupKey(fleet, group, sort) \in SortKeys(3)
    BY <1>1, <2>1, LongerKeys
  <2> QED BY <2>2
<1>5. CASE sort = "status"
  <2>1. \A group \in GroupOf(fleet) :
           GroupKey(fleet, group, sort) = <<Worst(fleet, group)>> \o group.label \o <<-Newest(fleet, group)>>
    BY <1>5 DEF GroupKey, Worst, Newest
  <2>2. \A group \in GroupOf(fleet) : GroupKey(fleet, group, sort) \in SortKeys(4)
    BY <1>1, <2>1, LongestKeys
  <2> QED BY <2>2
<1>6. CASE sort \notin {"newest", "name_desc", "streams_desc", "streams_asc", "status"}
  <2>1. \A group \in GroupOf(fleet) : GroupKey(fleet, group, sort) = group.label
    BY <1>6 DEF GroupKey
  <2>2. \A group \in GroupOf(fleet) : GroupKey(fleet, group, sort) \in SortKeys(2)
    BY <1>1, <2>1
  <2> QED BY <2>2
<1> QED BY <1>2, <1>3, <1>4, <1>5, <1>6
-----------------------------------------------------------------------------
\* Sorting

LEMMA GroupsRightFacts ==
  ASSUME NEW fleet \in Fleets, NEW groups, GroupsRight(groups, fleet)
  PROVE  groups \in Seq(GroupOf(fleet))
<1>1. groups \in Seq(Group) /\ Parting(MembersOf(groups), DOMAIN fleet, TogetherIn(fleet))
  BY DEF GroupsRight
<1>2. DOMAIN groups = 1..Len(groups) /\ Len(groups) \in Nat /\ groups = [i \in 1..Len(groups) |-> groups[i]]
      /\ \A i \in 1..Len(groups) : groups[i] \in Group
  BY <1>1
<1>3. DOMAIN MembersOf(groups) = DOMAIN groups /\ \A i \in DOMAIN groups : MembersOf(groups)[i] = groups[i].members
  BY DEF MembersOf
<1>4. \A i \in DOMAIN groups : groups[i].members # <<>> /\ ToSet(groups[i].members) \subseteq DOMAIN fleet
  BY <1>1, <1>3 DEF Parting
<1>5. \A i \in 1..Len(groups) : groups[i] \in GroupOf(fleet)
  BY <1>2, <1>4 DEF GroupOf
<1> QED BY <1>2, <1>5

LEMMA MembersRearranged ==
  ASSUME NEW s \in Seq(Group), NEW t, Rearranges(t, s)
  PROVE  Rearranges(MembersOf(t), MembersOf(s))
<1>1. PICK place : /\ place \in Seq(DOMAIN s) /\ IsInjective(place) /\ ToSet(place) = DOMAIN s
                   /\ t = [i \in DOMAIN place |-> s[place[i]]]
  BY DEF Rearranges
<1>2. DOMAIN MembersOf(s) = DOMAIN s /\ \A i \in DOMAIN s : MembersOf(s)[i] = s[i].members
  BY DEF MembersOf
<1>3. DOMAIN t = DOMAIN place /\ \A i \in DOMAIN place : t[i] = s[place[i]] /\ place[i] \in DOMAIN s
  BY <1>1
<1>4. MembersOf(t) = [i \in DOMAIN place |-> MembersOf(s)[place[i]]]
  BY <1>2, <1>3 DEF MembersOf
<1> QED BY <1>1, <1>2, <1>4 DEF Rearranges

LEMMA SortedRight ==
  ASSUME NEW fleet \in Fleets, NEW groups, GroupsRight(groups, fleet),
         NEW L \in Nat, NEW keys \in [DOMAIN groups -> SortKeys(L)]
  PROVE  GroupsRight(StableSort(groups, keys), fleet)
<1>1. groups \in Seq(Group) /\ Parting(MembersOf(groups), DOMAIN fleet, TogetherIn(fleet))
  BY DEF GroupsRight
<1>2. PICK t : t = StableSort(groups, keys)
  OBVIOUS
<1>3. Rearranges(t, groups)
  BY <1>1, <1>2, SortRearranges
<1>4. t \in Seq(Group)
  BY <1>1, <1>3, RearrangedFacts
<1>5. Parting(MembersOf(t), DOMAIN fleet, TogetherIn(fleet))
  BY <1>1, <1>3, MembersRearranged, RearrangedParting
<1> QED BY <1>2, <1>4, <1>5 DEF GroupsRight

LEMMA MembersSorted ==
  ASSUME NEW fleet \in Fleets, NEW group \in GroupOf(fleet), NEW sort
  PROVE  /\ SortedMembers(fleet, group, sort) \in Group
         /\ Rearranges(SortedMembers(fleet, group, sort).members, group.members)
<1> DEFINE m == group.members
           keys == [i \in DOMAIN m |-> InstanceKey(fleet, m[i], sort)]
           t == StableSort(m, keys)
<1>1. group \in Group /\ m \in Seq(DOMAIN fleet)
  BY GroupOfFacts DEF GroupOf
<1>2. PICK L \in Nat : \A k \in DOMAIN fleet : InstanceKey(fleet, k, sort) \in SortKeys(L)
  BY InstanceKeys
<1>3. \A i \in DOMAIN m : m[i] \in DOMAIN fleet
  BY <1>1
<1>4. keys \in [DOMAIN m -> SortKeys(L)]
  BY <1>2, <1>3
<1>5. SortedMembers(fleet, group, sort) = [group EXCEPT !.members = t]
  BY DEF SortedMembers
<1>6. group = [label |-> group.label, members |-> m] /\ group.label \in SortKeys(2)
  BY <1>1 DEF Group
<1> HIDE DEF keys, t
<1>7. SortedMembers(fleet, group, sort) = [label |-> group.label, members |-> t]
  BY <1>1, <1>5 DEF Group
<1> HIDE DEF m
<1>8. Rearranges(t, m)
  BY <1>1, <1>4, SortRearranges DEF t
<1>9. t \in Seq(DOMAIN fleet)
  BY <1>1, <1>8, RearrangedFacts
<1>10. t \in Seq(Nat)
  BY <1>9, FleetFacts, WiderSeq
<1> QED BY <1>6, <1>7, <1>8, <1>10 DEF Group, m

LEMMA InnerRight ==
  ASSUME NEW fleet \in Fleets, NEW groups, GroupsRight(groups, fleet), NEW sort
  PROVE  GroupsRight([i \in DOMAIN groups |-> SortedMembers(fleet, groups[i], sort)], fleet)
<1>1. /\ groups \in Seq(GroupOf(fleet))
      /\ Parting(MembersOf(groups), DOMAIN fleet, TogetherIn(fleet))
  BY GroupsRightFacts DEF GroupsRight
<1>2. PICK inner : inner = [i \in DOMAIN groups |-> SortedMembers(fleet, groups[i], sort)]
  OBVIOUS
<1>3. DOMAIN groups = 1..Len(groups) /\ Len(groups) \in Nat /\ \A i \in DOMAIN groups : groups[i] \in GroupOf(fleet)
  BY <1>1
<1>4. \A i \in DOMAIN groups : inner[i] \in Group /\ Rearranges(inner[i].members, groups[i].members)
  BY <1>2, <1>3, MembersSorted
<1>5. inner \in Seq(Group) /\ DOMAIN inner = DOMAIN groups
  BY <1>2, <1>3, <1>4
<1>6. PICK x : x = MembersOf(groups)
  OBVIOUS
<1>7. PICK y : y = MembersOf(inner)
  OBVIOUS
<1>8. /\ DOMAIN x = DOMAIN groups /\ DOMAIN y = DOMAIN groups
      /\ \A i \in DOMAIN groups : x[i] = groups[i].members /\ y[i] = inner[i].members
  BY <1>5, <1>6, <1>7 DEF MembersOf
<1>9. \A i \in DOMAIN x : x[i] \in Seq(DOMAIN fleet) /\ Rearranges(y[i], x[i])
  BY <1>3, <1>4, <1>8, GroupOfFacts
<1>10. Parting(y, DOMAIN fleet, TogetherIn(fleet))
  BY <1>1, <1>6, <1>8, <1>9, ResortedParting
<1> QED BY <1>2, <1>5, <1>7, <1>10 DEF GroupsRight

LEMMA SortedFacts ==
  ASSUME NEW fleet \in Fleets, NEW order \in Orders, NEW sort
  PROVE  GroupsRight(Sorted(fleet, order, sort), fleet)
<1>1. PICK groups : groups = Groups(fleet, order)
  OBVIOUS
<1>2. GroupsRight(groups, fleet)
  BY <1>1, GroupsFacts
<1>3. PICK labels : labels = [i \in DOMAIN groups |-> groups[i].label]
  OBVIOUS
<1>4. labels \in [DOMAIN groups -> SortKeys(2)]
  <2>1. \A i \in DOMAIN groups : groups[i] \in GroupOf(fleet)
    BY <1>2, GroupsRightFacts
  <2>2. \A i \in DOMAIN groups : groups[i].label \in SortKeys(2)
    BY <2>1, GroupOfFacts
  <2> QED BY <1>3, <2>2
<1>5. PICK labelled : labelled = StableSort(groups, labels)
  OBVIOUS
<1>6. GroupsRight(labelled, fleet)
  BY <1>2, <1>4, <1>5, SortedRight
<1>7. PICK inner : inner = [i \in DOMAIN labelled |-> SortedMembers(fleet, labelled[i], sort)]
  OBVIOUS
<1>8. GroupsRight(inner, fleet)
  BY <1>6, <1>7, InnerRight
<1>9. PICK L \in Nat : \A group \in GroupOf(fleet) : GroupKey(fleet, group, sort) \in SortKeys(L)
  BY GroupKeys
<1>10. PICK keys : keys = [i \in DOMAIN inner |-> GroupKey(fleet, inner[i], sort)]
  OBVIOUS
<1>11. keys \in [DOMAIN inner -> SortKeys(L)]
  <2>1. \A i \in DOMAIN inner : inner[i] \in GroupOf(fleet)
    BY <1>8, GroupsRightFacts
  <2> QED BY <1>9, <1>10, <2>1
<1>12. GroupsRight(StableSort(inner, keys), fleet)
  BY <1>8, <1>11, SortedRight
<1>13. Sorted(fleet, order, sort) = StableSort(inner, keys)
  BY <1>1, <1>3, <1>5, <1>7, <1>10 DEF Sorted
<1> QED BY <1>12, <1>13
-----------------------------------------------------------------------------
\* Pages

LEMMA PagesFacts ==
  ASSUME NEW G, NEW groups \in Seq(G), NEW size \in Nat \ {0}
  PROVE  /\ NumPages(groups, size) \in Nat /\ NumPages(groups, size) >= 1
         /\ NumPages(groups, size) * size >= Len(groups)
<1>1. PICK n \in Nat : n = Len(groups)
  OBVIOUS
<1>2. n + size - 1 \in Nat
  OBVIOUS
<1>3. PICK q : q = (n + size - 1) \div size
  OBVIOUS
<1>4. q \in Nat /\ n + size - 1 < q * size + size
  BY <1>2, <1>3, Quotient
<1>5. PICK P : P = Max({1, q})
  OBVIOUS
<1>6. P \in Nat /\ P >= 1 /\ P >= q
  BY <1>4, <1>5, MoreFacts
<1>7. q * size \in Nat /\ q * size >= n
  <2>1. q * size \in Nat
    BY <1>4
  <2> QED BY <1>4, <2>1
<1>8. P * size \in Nat /\ P * size >= q * size
  BY <1>4, <1>6, Times
<1>9. NumPages(groups, size) = P
  BY <1>1, <1>3, <1>5 DEF NumPages
<1> QED BY <1>1, <1>6, <1>7, <1>8, <1>9

\* The last group of a page.
Until(groups, size, p) == Min({p * size, Len(groups)})

LEMMA UntilFacts ==
  ASSUME NEW G, NEW groups \in Seq(G), NEW size \in Nat \ {0}, NEW p \in Nat
  PROVE  /\ Len(groups) \in Nat /\ p * size \in Nat /\ (p + 1) * size = p * size + size
         /\ Until(groups, size, p) = IF p * size <= Len(groups) THEN p * size ELSE Len(groups)
         /\ PageOf(groups, size, p + 1) = SubSeq(groups, p * size + 1, Until(groups, size, p + 1))
<1>1. Len(groups) \in Nat
  OBVIOUS
<1>2. p * size \in Nat /\ (p + 1) * size = p * size + size
  BY Times
<1>3. Until(groups, size, p) = IF p * size <= Len(groups) THEN p * size ELSE Len(groups)
  BY <1>1, <1>2, LessFacts DEF Until
<1>4. (p + 1) - 1 = p
  OBVIOUS
<1>5. PageOf(groups, size, p + 1) = SubSeq(groups, p * size + 1, Until(groups, size, p + 1))
  BY <1>4 DEF PageOf, Until
<1> QED BY <1>1, <1>2, <1>3, <1>5

\* The pages up to one and the next page are the pages up to the next one.
LEMMA PageJoins ==
  ASSUME NEW G, NEW groups \in Seq(G), NEW size \in Nat \ {0}, NEW p \in Nat
  PROVE  /\ PageOf(groups, size, p + 1) \in Seq(G)
         /\ SubSeq(groups, 1, Until(groups, size, p)) \in Seq(G)
         /\ SubSeq(groups, 1, Until(groups, size, p)) \o PageOf(groups, size, p + 1)
            = SubSeq(groups, 1, Until(groups, size, p + 1))
<1>1. PICK n \in Nat : n = Len(groups)
  OBVIOUS
<1>2. PICK c \in Nat : c = p * size
  BY UntilFacts
<1>3. PICK d \in Nat : d = (p + 1) * size
  BY UntilFacts
<1>4. PICK e : e = Until(groups, size, p)
  OBVIOUS
<1>5. PICK h : h = Until(groups, size, p + 1)
  OBVIOUS
<1>6. d = c + size
  BY <1>2, <1>3, UntilFacts
<1>7. e = IF c <= n THEN c ELSE n
  BY <1>1, <1>2, <1>4, UntilFacts
<1>8. h = IF d <= n THEN d ELSE n
  <2>1. p + 1 \in Nat
    OBVIOUS
  <2> QED BY <1>1, <1>3, <1>5, <2>1, UntilFacts
<1>9. PageOf(groups, size, p + 1) = SubSeq(groups, c + 1, h)
  BY <1>2, <1>5, UntilFacts
<1>10. \A i \in 1..n : groups[i] \in G
  BY <1>1
<1>11. e \in 0..n /\ h \in 0..n /\ e <= h
  BY <1>6, <1>7, <1>8
<1>12. SubSeq(groups, 1, e) \in Seq(G)
  <2>1. \A i \in 1..e : groups[i] \in G
    BY <1>10, <1>11
  <2> QED BY <1>11, <2>1, SubSeqProperties
<1>13. SubSeq(groups, c + 1, h) \in Seq(G)
  <2>1. \A i \in (c + 1)..h : groups[i] \in G
    BY <1>10, <1>11
  <2> QED BY <1>11, <2>1, SubSeqProperties
<1>14. CASE c <= n
  <2>1. e = c /\ 1 \in 1..(n + 1) /\ c \in 0..n /\ h \in c..n
    BY <1>7, <1>11, <1>14
  <2>2. SubSeq(groups, 1, c) \o SubSeq(groups, c + 1, h) = SubSeq(groups, 1, h)
    <3>1. /\ 1 \in 1..(Len(groups) + 1) /\ c \in (1 - 1)..Len(groups) /\ h \in c..Len(groups)
      BY <1>1, <2>1
    <3> QED BY <3>1, ConcatAdjacentSubSeq
  <2> QED BY <1>4, <1>5, <1>9, <1>12, <1>13, <2>1, <2>2
<1>15. CASE ~(c <= n)
  <2>1. e = n /\ h = n /\ n < c + 1
    BY <1>6, <1>7, <1>8, <1>15
  <2>2. SubSeq(groups, c + 1, h) = <<>>
    BY <2>1, SubSeqEmpty
  <2>3. \A s \in Seq(G) : s \o <<>> = s
    OBVIOUS
  <2> QED BY <1>4, <1>5, <1>9, <1>12, <1>13, <2>1, <2>2, <2>3
<1> QED BY <1>14, <1>15

LEMMA PagesDivide ==
  ASSUME NEW G, NEW groups \in Seq(G), NEW size \in Nat \ {0}
  PROVE  FlattenSeq([p \in 1..NumPages(groups, size) |-> PageOf(groups, size, p)]) = groups
<1>1. PICK P \in Nat : P = NumPages(groups, size) /\ P * size >= Len(groups)
  BY PagesFacts
<1>2. PICK ss : ss = [p \in 1..P |-> PageOf(groups, size, p)]
  OBVIOUS
<1>3. \A p \in 1..P : PageOf(groups, size, p) \in Seq(G)
  <2> SUFFICES ASSUME NEW p \in 1..P PROVE PageOf(groups, size, p) \in Seq(G)
    OBVIOUS
  <2>1. p - 1 \in Nat /\ (p - 1) + 1 = p
    OBVIOUS
  <2> QED BY <2>1, PageJoins
<1>4. ss \in Seq(Seq(G)) /\ Len(ss) = P
  <2> DEFINE T == Seq(G)
  <2> HIDE DEF T
  <2>1. \A p \in 1..P : PageOf(groups, size, p) \in T
    BY <1>3 DEF T
  <2>2. ss \in Seq(T) /\ Len(ss) = P
    BY <1>2, <2>1
  <2> QED BY <2>2 DEF T
<1>5. PICK f : Flattens(f, ss, G) /\ FlattenSeq(ss) = f[Len(ss)]
  BY <1>4, FlattenSteps
<1>6. f[0] = <<>> /\ \A n \in 1..P : f[n] = f[n - 1] \o ss[n]
  BY <1>4, <1>5 DEF Flattens
<1> DEFINE R == {n \in 0..P : f[n] = SubSeq(groups, 1, Until(groups, size, n))}
           T == R \cup {n \in Nat : n > P}
<1>7. 0 \in T
  <2>1. Until(groups, size, 0) = 0
    <3>1. 0 * size = 0 /\ Len(groups) >= 0
      OBVIOUS
    <3> QED BY <3>1, UntilFacts
  <2>2. SubSeq(groups, 1, 0) = <<>>
    BY SubSeqEmpty
  <2>3. f[0] = SubSeq(groups, 1, Until(groups, size, 0))
    BY <1>6, <2>1, <2>2
  <2>4. 0 \in 0..P
    OBVIOUS
  <2> QED BY <2>3, <2>4
<1>8. ASSUME NEW n \in Nat, n \in T PROVE n + 1 \in T
  <2>1. CASE n + 1 > P
    BY <2>1
  <2>2. CASE ~(n + 1 > P)
    <3>1. n \in R /\ n + 1 \in 1..P /\ (n + 1) - 1 = n
      BY <1>8, <2>2
    <3>2. f[n + 1] = f[n] \o ss[n + 1]
      BY <1>6, <3>1
    <3>3. ss[n + 1] = PageOf(groups, size, n + 1)
      BY <1>2, <3>1
    <3>4. f[n] = SubSeq(groups, 1, Until(groups, size, n))
      BY <3>1
    <3>5. f[n + 1] = SubSeq(groups, 1, Until(groups, size, n + 1))
      BY <3>2, <3>3, <3>4, PageJoins
    <3> QED BY <3>1, <3>5
  <2> QED BY <2>1, <2>2
<1>9. P \in R
  <2> HIDE DEF R
  <2>1. \A n \in Nat : n \in T
    BY <1>7, <1>8, AllNumbers
  <2>2. ~(P > P)
    OBVIOUS
  <2> QED BY <2>1, <2>2
<1>10. Until(groups, size, P) = Len(groups)
  <2>1. PICK c \in Nat : c = P * size /\ c >= Len(groups)
    BY <1>1, UntilFacts
  <2>2. Until(groups, size, P) = IF c <= Len(groups) THEN c ELSE Len(groups)
    BY <2>1, UntilFacts
  <2>3. PICK n \in Nat : n = Len(groups)
    OBVIOUS
  <2> QED BY <2>1, <2>2, <2>3
<1>11. f[P] = SubSeq(groups, 1, Len(groups))
  BY <1>9, <1>10
<1>12. f[P] = groups
  BY <1>11, SubSeqFull
<1> QED BY <1>1, <1>2, <1>4, <1>5, <1>12

\* A group found is on the page that is computed for it.
LEMMA FoundOnPage ==
  ASSUME NEW G, NEW groups \in Seq(G), NEW size \in Nat \ {0}, NEW selected,
         NEW k \in DOMAIN groups, selected \in ToSet(groups[k].members)
  PROVE  /\ FindPage(groups, selected, size) \in 1..NumPages(groups, size)
         /\ \E i \in DOMAIN PageOf(groups, size, FindPage(groups, selected, size)) :
               selected \in ToSet(PageOf(groups, size, FindPage(groups, selected, size))[i].members)
<1> DEFINE at == {i \in DOMAIN groups : selected \in ToSet(groups[i].members)}
<1>1. PICK n \in Nat : n = Len(groups)
  OBVIOUS
<1>2. DOMAIN groups = 1..n /\ \A i \in 1..n : groups[i] \in G
  BY <1>1
<1>3. at \in SUBSET Nat /\ at # {}
  BY <1>2
<1>4. PICK x \in at : x = Min(at)
  BY <1>3, MinFacts
<1>5. x \in 1..n /\ selected \in ToSet(groups[x].members)
  BY <1>2, <1>4
<1>6. PICK d : d = (x - 1) \div size
  OBVIOUS
<1>7. FindPage(groups, selected, size) = d + 1
  BY <1>3, <1>4, <1>6 DEF FindPage
<1> HIDE DEF at
<1>8. x - 1 \in Nat
  BY <1>5
<1>9. d \in Nat
  BY <1>6, <1>8, Quotient
<1>10. PICK c \in Nat : c = d * size
  BY <1>9, Times
<1>11. c <= x - 1 /\ x - 1 < c + size
  BY <1>6, <1>8, <1>10, Quotient
<1>12. PICK P \in Nat : P = NumPages(groups, size) /\ P >= 1 /\ P * size >= n
  BY <1>1, PagesFacts
<1>13. d + 1 \in 1..P
  <2> SUFFICES ASSUME P <= d PROVE FALSE
    BY <1>9, <1>12
  <2>1. PICK e \in Nat : e = P * size
    BY <1>12, Times
  <2>2. e <= c
    BY <1>9, <1>10, <2>1, Times
  <2>3. e >= n
    BY <1>12, <2>1
  <2> QED BY <1>5, <1>11, <2>2, <2>3
<1>14. PICK h : h = Until(groups, size, d + 1)
  OBVIOUS
<1>15. h = IF c + size <= n THEN c + size ELSE n
  <2>1. d + 1 \in Nat /\ (d + 1) * size = c + size
    BY <1>9, <1>10, UntilFacts
  <2>2. PICK p \in Nat : p = d + 1
    BY <2>1
  <2>3. PICK m : m = p * size
    OBVIOUS
  <2>4. m = c + size /\ h = Until(groups, size, p)
    BY <1>14, <2>1, <2>2, <2>3
  <2>5. Until(groups, size, p) = IF m <= n THEN m ELSE n
    BY <1>1, <2>2, <2>3, UntilFacts
  <2> QED BY <2>4, <2>5
<1>16. PageOf(groups, size, d + 1) = SubSeq(groups, c + 1, h)
  BY <1>9, <1>10, <1>14, UntilFacts
<1>17. h \in Nat /\ c + 1 <= x /\ x <= h /\ h <= n
  BY <1>5, <1>11, <1>15
<1>18. PICK shown : shown = SubSeq(groups, c + 1, h)
  OBVIOUS
<1>19. shown \in Seq(G) /\ Len(shown) = h - c /\ shown[x - c] = groups[x]
  <2>1. \A i \in (c + 1)..h : groups[i] \in G
    BY <1>2, <1>17
  <2>2. c + 1 \in Int /\ h \in Int /\ c + 1 <= h /\ h - (c + 1) + 1 = h - c /\ x - c \in 1..(h - (c + 1) + 1)
        /\ (c + 1) + (x - c) - 1 = x
    BY <1>5, <1>17
  <2> QED BY <1>18, <2>1, <2>2, SubSeqProperties
<1>20. x - c \in DOMAIN shown
  BY <1>5, <1>17, <1>19
<1>21. \E i \in DOMAIN shown : selected \in ToSet(shown[i].members)
  BY <1>5, <1>19, <1>20
<1> QED BY <1>7, <1>12, <1>13, <1>16, <1>18, <1>21

LEMMA FindPageType ==
  ASSUME NEW G, NEW groups \in Seq(G), NEW size \in Nat \ {0}, NEW selected
  PROVE  FindPage(groups, selected, size) \in Nat
<1> DEFINE at == {i \in DOMAIN groups : selected \in ToSet(groups[i].members)}
<1>1. FindPage(groups, selected, size) = IF at = {} THEN 1 ELSE (Min(at) - 1) \div size + 1
  BY DEF FindPage
<1>2. at \in SUBSET (Nat \ {0})
  OBVIOUS
<1> HIDE DEF at
<1>3. CASE at = {}
  BY <1>1, <1>3
<1>4. CASE at # {}
  <2>1. PICK x \in Nat \ {0} : x = Min(at)
    BY <1>2, <1>4, MinFacts
  <2>2. x - 1 \in Nat
    OBVIOUS
  <2>3. PICK d \in Nat : d = (x - 1) \div size
    BY <2>2, Quotient
  <2> QED BY <1>1, <1>4, <2>1, <2>3
<1> QED BY <1>3, <1>4
-----------------------------------------------------------------------------
\* The sidebar

LEMMA ShownRight ==
  ASSUME NEW fleet \in Fleets, NEW groups, GroupsRight(groups, fleet),
         NEW size \in Sizes, NEW kind, NEW sort, NEW asked \in Asked, NEW selected, NEW wanted \in Nat,
         asked = 0 /\ selected \in DOMAIN fleet => wanted = FindPage(groups, selected, size),
         Show(kind, fleet, sort, size, asked, selected, groups, wanted)
  PROVE  SidebarRight'
<1>1. PICK pages : pages = NumPages(groups, size)
  OBVIOUS
<1>2. PICK shownAt : shownAt = Resolve(wanted, pages)
  OBVIOUS
<1>3. /\ view'.fleet = fleet /\ view'.groups = groups /\ view'.size = size
      /\ view'.asked = asked /\ view'.selected = selected /\ view'.page = shownAt
  BY <1>1, <1>2 DEF Show
<1>4. /\ groups \in Seq(Group)
      /\ Parting(MembersOf(groups), DOMAIN fleet, TogetherIn(fleet))
  BY DEF GroupsRight
<1>5. size \in Nat \ {0}
  BY GroupsAssumption
<1>6. /\ DOMAIN MembersOf(groups) = DOMAIN groups
      /\ \A i \in DOMAIN groups : MembersOf(groups)[i] = groups[i].members
  BY DEF MembersOf
<1>7. UNION {ToSet(groups[i].members) : i \in DOMAIN groups} = DOMAIN fleet
  <2>1. UNION {ToSet(MembersOf(groups)[i]) : i \in DOMAIN groups} = DOMAIN fleet
    BY <1>4, <1>6 DEF Parting
  <2>2. {ToSet(MembersOf(groups)[i]) : i \in DOMAIN groups} = {ToSet(groups[i].members) : i \in DOMAIN groups}
    BY <1>6
  <2> QED BY <2>1, <2>2
<1>8. ASSUME NEW i \in DOMAIN groups, NEW j \in DOMAIN groups, NEW a \in DOMAIN fleet, NEW b \in DOMAIN fleet,
             a \in ToSet(groups[i].members), b \in ToSet(groups[j].members)
      PROVE  i = j <=> a = b \/ Together(fleet, a, b)
  <2>1. i = j <=> <<a, b>> \in TogetherIn(fleet)
    BY <1>4, <1>6, <1>8 DEF Parting
  <2>2. <<a, b>> \in TogetherIn(fleet) <=> Together(fleet, a, b)
    BY DEF TogetherIn
  <2>3. a = b => <<a, b>> \in TogetherIn(fleet)
    BY TogetherSelf
  <2> QED BY <2>1, <2>2, <2>3
<1>9. \A i \in DOMAIN groups : IsInjective(groups[i].members)
  BY <1>4, <1>6 DEF Parting
<1>10. FlattenSeq([p \in 1..pages |-> PageOf(groups, size, p)]) = groups
  BY <1>1, <1>4, <1>5, PagesDivide
<1>11. pages \in Nat /\ pages >= 1
  BY <1>1, <1>4, <1>5, PagesFacts
<1>12. shownAt = IF wanted = 0 THEN 1 ELSE IF wanted <= pages THEN wanted ELSE pages
  BY <1>2, <1>11, LessFacts DEF Resolve
<1>13. shownAt \in 1..pages
  BY <1>11, <1>12
<1>14. ASSUME asked = 0, selected \in DOMAIN fleet
       PROVE  \E i \in DOMAIN PageOf(groups, size, shownAt) :
                 selected \in ToSet(PageOf(groups, size, shownAt)[i].members)
  <2>1. PICK k \in DOMAIN groups : selected \in ToSet(groups[k].members)
    BY <1>7, <1>14
  <2>2. wanted = FindPage(groups, selected, size)
    BY <1>14
  <2>3. wanted \in 1..pages
    BY <1>1, <1>4, <1>5, <2>1, <2>2, FoundOnPage
  <2>4. shownAt = wanted
    BY <1>11, <1>12, <2>3
  <2> QED BY <1>4, <1>5, <2>1, <2>2, <2>4, FoundOnPage
<1> QED BY <1>1, <1>3, <1>7, <1>8, <1>9, <1>10, <1>13, <1>14 DEF SidebarRight

LEMMA BrowseRight ==
  ASSUME ViewNext
  PROVE  SidebarRight'
<1>1. PICK fleet \in Fleets, order \in Orders, sort \in Sorts, size \in Sizes, asked \in Asked, k \in Chosen :
         \/ BrowseManager(fleet, order, sort, size, asked, k)
         \/ BrowseViewer(fleet, order, sort, size, asked, k)
  BY DEF ViewNext
<1>2. PICK groups : groups = Sorted(fleet, order, sort)
  OBVIOUS
<1>3. GroupsRight(groups, fleet)
  BY <1>2, SortedFacts
<1>4. asked \in Nat /\ size \in Nat \ {0} /\ 0 \notin DOMAIN fleet /\ groups \in Seq(Group)
  BY <1>3, GroupsAssumption, FleetFacts DEF GroupsRight
<1>5. PICK found \in Nat : found = FindPage(groups, k, size)
  BY <1>4, FindPageType
<1>6. CASE BrowseManager(fleet, order, sort, size, asked, k)
  <2>1. PICK wanted : wanted = ManagerPage(groups, asked, k, size)
    OBVIOUS
  <2>2. wanted = IF asked = 0 /\ k # 0 THEN found ELSE asked
    BY <1>5, <2>1 DEF ManagerPage
  <2>3. wanted \in Nat /\ (asked = 0 /\ k \in DOMAIN fleet => wanted = found)
    BY <1>4, <2>2
  <2>4. Show("manager", fleet, sort, size, asked, k, groups, wanted)
    BY <1>2, <1>6, <2>1 DEF BrowseManager
  <2> QED BY <1>3, <1>5, <2>3, <2>4, ShownRight
<1>7. CASE BrowseViewer(fleet, order, sort, size, asked, k)
  <2>1. PICK wanted : wanted = ViewerPage(groups, asked, k, size, fleet)
    OBVIOUS
  <2>2. wanted = IF asked = 0 /\ k \in DOMAIN fleet THEN found ELSE asked
    BY <1>5, <2>1 DEF ViewerPage
  <2>3. wanted \in Nat /\ (asked = 0 /\ k \in DOMAIN fleet => wanted = found)
    BY <1>4, <2>2
  <2>4. Show("viewer", fleet, sort, size, asked, k, groups, wanted)
    BY <1>2, <1>7, <2>1 DEF BrowseViewer
  <2> QED BY <1>3, <1>5, <2>3, <2>4, ShownRight
<1> QED BY <1>1, <1>6, <1>7

\* Whatever the order of the addresses, a sidebar has every filtered instance in
\* one group, with exactly the instances it shares a label, a chain of addresses
\* or a host with; its pages divide the groups, and a selected instance is on the
\* page shown (services.py:93-251, views.py:419-438, 747-772).
THEOREM SidebarCorrect == SidebarSpec => []SidebarRight
<1>1. ViewInit => SidebarRight
  BY DEF ViewInit, SidebarRight, NoView
<1>2. SidebarRight /\ [ViewNext]_view => SidebarRight'
  <2>1. SidebarRight /\ UNCHANGED view => SidebarRight'
    BY DEF SidebarRight
  <2> QED BY <2>1, BrowseRight
<1> QED BY <1>1, <1>2, PTL DEF SidebarSpec
-----------------------------------------------------------------------------
\* The comparison of configurations

Entry == [change : {"added", "removed", "changed"}, path : Seq(Nat)]

\* The keys below the root at which entries are.
At(told) == {e.path[1] : e \in ToSet(told)}

LEMMA PartsFacts ==
  ASSUME NEW tree \in Trees
  PROVE  /\ DOMAIN Parts(tree) \subseteq Nat /\ IsFiniteSet(DOMAIN Parts(tree))
         /\ \A k \in DOMAIN Parts(tree) : /\ Parts(tree)[k] \in Trees
                                          /\ Depth[Parts(tree)[k]] < Depth[tree]
<1>1. IsTree(tree) /\ \A k \in DOMAIN Parts(tree) : /\ Parts(tree)[k] \in Trees
                                                    /\ Depth[Parts(tree)[k]] < Depth[tree]
  BY DiffAssumption
<1>2. CASE tree.type = "object"
  BY <1>1, <1>2 DEF IsTree, Parts
<1>3. CASE tree.type = "list"
  <2>1. tree.type # "object"
    BY <1>3
  <2>2. tree.items \in Seq(Trees)
    BY <1>1, <1>3, <2>1 DEF IsTree
  <2>3. Parts(tree) = tree.items
    BY <1>3, <2>1 DEF Parts
  <2>4. DOMAIN tree.items = 1..Len(tree.items) /\ Len(tree.items) \in Nat
    BY <2>2
  <2>5. IsFiniteSet(1..Len(tree.items)) /\ 1..Len(tree.items) \subseteq Nat
    BY <2>4, FS_Interval
  <2> QED BY <1>1, <2>3, <2>4, <2>5
<1>4. CASE tree.type # "object" /\ tree.type # "list"
  <2>1. Parts(tree) = <<>>
    BY <1>4 DEF Parts
  <2>2. DOMAIN Parts(tree) = {}
    BY <2>1
  <2> QED BY <2>2, FS_EmptySet
<1> QED BY <1>2, <1>3, <1>4

\* Trees of one shape whose parts are the same are the same.
LEMMA SameTrees ==
  ASSUME NEW old \in Trees, NEW new \in Trees, SameShape(old, new),
         DOMAIN Parts(old) = DOMAIN Parts(new),
         \A k \in DOMAIN Parts(old) : Parts(old)[k] = Parts(new)[k]
  PROVE  old = new
<1>1. IsTree(old) /\ IsTree(new) /\ old.type = new.type
  BY DiffAssumption DEF SameShape
<1>2. CASE old.type = "object"
  <2>1. Parts(old) = old.fields /\ Parts(new) = new.fields
    BY <1>1, <1>2 DEF Parts
  <2>2. /\ old = Object([k \in DOMAIN old.fields |-> old.fields[k]])
        /\ new = Object([k \in DOMAIN new.fields |-> new.fields[k]])
    BY <1>1, <1>2 DEF IsTree
  <2>3. [k \in DOMAIN old.fields |-> old.fields[k]] = [k \in DOMAIN new.fields |-> new.fields[k]]
    BY <2>1
  <2> QED BY <2>2, <2>3
<1>3. CASE old.type = "list"
  <2>0. old.type # "object" /\ new.type # "object" /\ new.type = "list"
    BY <1>1, <1>3
  <2>1. Parts(old) = old.items /\ Parts(new) = new.items
    BY <1>3, <2>0 DEF Parts
  <2>2. old = List(old.items) /\ old.items \in Seq(Trees)
    BY <1>1, <1>3, <2>0 DEF IsTree
  <2>3. new = List(new.items) /\ new.items \in Seq(Trees)
    BY <1>1, <2>0 DEF IsTree
  <2>4. \A s, t \in Seq(Trees) : DOMAIN s = DOMAIN t /\ (\A k \in DOMAIN s : s[k] = t[k]) => s = t
    OBVIOUS
  <2>5. old.items = new.items
    BY <2>1, <2>2, <2>3, <2>4
  <2> QED BY <2>2, <2>3, <2>5
<1>4. CASE old.type # "object" /\ old.type # "list"
  BY <1>4 DEF SameShape
<1> QED BY <1>2, <1>3, <1>4

LEMMA KeysFacts ==
  ASSUME NEW keys \in SUBSET Nat, IsFiniteSet(keys)
  PROVE  /\ InOrder(keys) \in Seq(Nat)
         /\ ToSet(InOrder(keys)) = keys
         /\ IsInjective(InOrder(keys))
<1> DEFINE s == [k \in keys |-> k]
<1>1. \A k \in keys : s[k] \in Nat
  OBVIOUS
<1>2. \A i, j \in keys : s[i] = s[j] => i = j
  OBVIOUS
<1>3. {s[k] : k \in keys} = keys
  OBVIOUS
<1>5. InOrder(keys) = Excerpt(s, keys)
  BY DEF InOrder
<1> HIDE DEF s
<1>4. Excerpt(s, keys) \in Seq(Nat) /\ ListsPlaces(Excerpt(s, keys), s, keys)
  BY <1>1, ExcerptOf
<1>6. IsInjective(Excerpt(s, keys))
  BY <1>1, <1>2, ExcerptInjective
<1> QED BY <1>3, <1>4, <1>5, <1>6 DEF ListsPlaces

LEMMA EachFacts ==
  ASSUME NEW keys \in SUBSET Nat, IsFiniteSet(keys), NEW change \in {"added", "removed", "changed"}
  PROVE  /\ Each(keys, change) \in Seq(Entry)
         /\ At(Each(keys, change)) \subseteq keys
         /\ IsInjective(Each(keys, change))
         /\ Each(keys, change) = <<>> <=> keys = {}
<1> DEFINE order == InOrder(keys)
           e == Each(keys, change)
<1>1. order \in Seq(Nat) /\ ToSet(order) = keys /\ IsInjective(order)
  BY KeysFacts
<1>2. e = [i \in DOMAIN order |-> [change |-> change, path |-> <<order[i]>>]]
  BY DEF Each, Told
<1> HIDE DEF order, e
<1>3. DOMAIN order = 1..Len(order) /\ Len(order) \in Nat
  BY <1>1
<1>4. ASSUME NEW i \in 1..Len(order)
      PROVE  [change |-> change, path |-> <<order[i]>>] \in Entry
  <2>1. order[i] \in Nat
    BY <1>1, <1>3, <1>4
  <2>2. <<order[i]>> \in Seq(Nat)
    BY <2>1
  <2> QED BY <2>2 DEF Entry
<1>5. e \in Seq(Entry) /\ DOMAIN e = 1..Len(order)
  <2> DEFINE q(i) == [change |-> change, path |-> <<order[i]>>]
  <2>1. e = [i \in 1..Len(order) |-> q(i)]
    BY <1>2, <1>3
  <2>2. \A i \in 1..Len(order) : q(i) \in Entry
    BY <1>4
  <2> HIDE DEF q
  <2> QED BY <1>3, <2>1, <2>2
<1>6. \A i \in DOMAIN e : i \in DOMAIN order /\ e[i].path[1] = order[i] /\ order[i] \in keys
  BY <1>1, <1>2, <1>3, <1>5 DEF ToSet
<1>7. At(e) \subseteq keys
  BY <1>6 DEF At, ToSet
<1>8. IsInjective(e)
  BY <1>1, <1>6 DEF IsInjective
<1>9. e = <<>> <=> keys = {}
  <2>1. keys = {} <=> order = <<>>
    BY <1>1, EmptyFacts
  <2>2. order = <<>> <=> Len(order) = 0
    BY <1>1
  <2>3. e = <<>> <=> Len(e) = 0
    BY <1>5
  <2>4. Len(e) = Len(order)
    BY <1>3, <1>5
  <2> QED BY <2>1, <2>2, <2>3, <2>4
<1> QED BY <1>5, <1>7, <1>8, <1>9 DEF e

LEMMA EntryFacts ==
  ASSUME NEW C, NEW Q, NEW e \in [change : C, path : Q], NEW x
  PROVE  /\ [e EXCEPT !.path = x] = [change |-> e.change, path |-> x]
         /\ e = [change |-> e.change, path |-> e.path]
  OBVIOUS

\* What is told of a part is told of the whole, at the key of the part.
LEMMA UnderFacts ==
  ASSUME NEW key \in Nat, NEW told \in Seq(Entry)
  PROVE  /\ Under(key, told) \in Seq(Entry)
         /\ At(Under(key, told)) \subseteq {key}
         /\ IsInjective(told) => IsInjective(Under(key, told))
         /\ Under(key, told) = <<>> <=> told = <<>>
         /\ ToSet(Under(key, told)) = {[e EXCEPT !.path = <<key>> \o @] : e \in ToSet(told)}
<1> DEFINE u == Under(key, told)
           lift(e) == [e EXCEPT !.path = <<key>> \o @]
<1>1. DOMAIN told = 1..Len(told) /\ Len(told) \in Nat
  OBVIOUS
<1>2. u = [i \in 1..Len(told) |-> lift(told[i])]
  BY <1>1 DEF Under
<1>a. ASSUME NEW e \in Entry
      PROVE  /\ e.path \in Seq(Nat) /\ e.change \in {"added", "removed", "changed"}
             /\ lift(e) = [change |-> e.change, path |-> <<key>> \o e.path]
             /\ e = [change |-> e.change, path |-> e.path]
  <2>1. e.path \in Seq(Nat) /\ e.change \in {"added", "removed", "changed"}
    BY DEF Entry
  <2>2. [e EXCEPT !.path = <<key>> \o e.path] = [change |-> e.change, path |-> <<key>> \o e.path]
    BY EntryFacts DEF Entry
  <2>3. e = [change |-> e.change, path |-> e.path]
    BY EntryFacts DEF Entry
  <2> QED BY <2>1, <2>2, <2>3
<1> HIDE DEF lift, u
<1>3. ASSUME NEW e \in Entry PROVE lift(e) \in Entry /\ lift(e).path[1] = key
  <2>1. PICK p \in Seq(Nat) : p = e.path
    BY <1>a
  <2>2. <<key>> \o p \in Seq(Nat) /\ (<<key>> \o p)[1] = key
    BY PrependFacts
  <2>3. lift(e) = [change |-> e.change, path |-> <<key>> \o p]
    BY <1>a, <2>1
  <2> QED BY <1>a, <2>2, <2>3 DEF Entry
<1>4. ASSUME NEW e \in Entry, NEW f \in Entry, lift(e) = lift(f) PROVE e = f
  <2>1. lift(e) = [change |-> e.change, path |-> <<key>> \o e.path]
    BY <1>a
  <2>2. lift(f) = [change |-> f.change, path |-> <<key>> \o f.path]
    BY <1>a
  <2>3. lift(e).change = e.change /\ lift(f).change = f.change
    BY <2>1, <2>2
  <2>4. lift(e).path = <<key>> \o e.path /\ lift(f).path = <<key>> \o f.path
    BY <2>1, <2>2
  <2>5. e.path \in Seq(Nat) /\ f.path \in Seq(Nat)
    BY <1>a
  <2>6. <<key>> \o e.path = <<key>> \o f.path
    BY <1>4, <2>4
  <2>7. e.path = f.path
    <3> DEFINE p == e.path
               q == f.path
    <3>1. p \in Seq(Nat) /\ q \in Seq(Nat) /\ <<key>> \o p = <<key>> \o q
      BY <2>5, <2>6
    <3> HIDE DEF p, q
    <3>2. p = q
      BY <3>1, PrependInjective
    <3> QED BY <3>2 DEF p, q
  <2>8. e = [change |-> e.change, path |-> e.path]
    BY <1>a
  <2>9. f = [change |-> f.change, path |-> f.path]
    BY <1>a
  <2> QED BY <1>4, <2>3, <2>7, <2>8, <2>9
<1>5. \A i \in 1..Len(told) : told[i] \in Entry
  BY <1>1
<1>6. u \in Seq(Entry) /\ DOMAIN u = 1..Len(told) /\ Len(u) = Len(told)
  <2>1. \A i \in 1..Len(told) : lift(told[i]) \in Entry
    BY <1>3, <1>5
  <2> QED BY <1>1, <1>2, <2>1
<1>7. \A i \in 1..Len(told) : u[i].path[1] = key
  BY <1>2, <1>3, <1>5
<1>8. At(u) \subseteq {key}
  BY <1>6, <1>7 DEF At, ToSet
<1>9. IsInjective(told) => IsInjective(u)
  BY <1>1, <1>2, <1>4, <1>5, <1>6 DEF IsInjective
<1>10. u = <<>> <=> told = <<>>
  <2>1. told = <<>> <=> Len(told) = 0
    OBVIOUS
  <2>2. u = <<>> <=> Len(u) = 0
    BY <1>6
  <2> QED BY <1>6, <2>1, <2>2
<1>11. ToSet(u) = {lift(e) : e \in ToSet(told)}
  BY <1>1, <1>2, <1>6 DEF ToSet
<1> QED BY <1>6, <1>8, <1>9, <1>10, <1>11 DEF u, lift

LEMMA UnderMore ==
  ASSUME NEW key \in Nat, NEW some \in Seq(Entry), NEW all \in Seq(Entry), ToSet(some) \subseteq ToSet(all)
  PROVE  ToSet(Under(key, some)) \subseteq ToSet(Under(key, all))
<1> DEFINE lift(e) == [e EXCEPT !.path = <<key>> \o @]
<1>1. ToSet(Under(key, some)) = {lift(e) : e \in ToSet(some)}
  BY UnderFacts
<1>2. ToSet(Under(key, all)) = {lift(e) : e \in ToSet(all)}
  BY UnderFacts
<1> HIDE DEF lift
<1> QED BY <1>1, <1>2

\* Each part of two trees was told of.
ToldOf(told, old, new) ==
    \A k \in Both(old, new) : told[<<Parts(old)[k], Parts(new)[k]>>] \in Seq(Entry)

LEMMA BelowFacts ==
  ASSUME NEW old \in Trees, NEW new \in Trees, NEW told, ToldOf(told, old, new)
  PROVE  /\ Below(told, old, new) \in Seq(Entry)
         /\ At(Below(told, old, new)) \subseteq Both(old, new)
         /\ (\A k \in Both(old, new) : IsInjective(told[<<Parts(old)[k], Parts(new)[k]>>]))
            => IsInjective(Below(told, old, new))
         /\ Below(told, old, new) = <<>>
            <=> \A k \in Both(old, new) : told[<<Parts(old)[k], Parts(new)[k]>>] = <<>>
         /\ ToSet(Below(told, old, new))
            = UNION {ToSet(Under(k, told[<<Parts(old)[k], Parts(new)[k]>>])) : k \in Both(old, new)}
<1> DEFINE keys == Both(old, new)
           order == InOrder(keys)
           part(k) == told[<<Parts(old)[k], Parts(new)[k]>>]
           ss == [i \in DOMAIN order |-> Under(order[i], part(order[i]))]
           b == Below(told, old, new)
<1>1. keys \in SUBSET Nat /\ IsFiniteSet(keys)
  BY PartsFacts, FS_Subset DEF Both
<1>2. b = FlattenSeq(ss)
  BY DEF Below
<1>3. \A k \in keys : k \in Nat /\ part(k) \in Seq(Entry)
  BY <1>1 DEF ToldOf
<1> HIDE DEF b, keys, part
<1>4. order \in Seq(Nat) /\ ToSet(order) = keys /\ IsInjective(order)
  BY <1>1, KeysFacts
<1> HIDE DEF order
<1>5. DOMAIN order = 1..Len(order) /\ Len(order) \in Nat
  BY <1>4
<1>6. \A i \in 1..Len(order) : order[i] \in keys
  BY <1>4, <1>5 DEF ToSet
<1>7. \A k \in keys : \E i \in 1..Len(order) : order[i] = k
  BY <1>4, <1>5 DEF ToSet
<1>8. \A i, j \in 1..Len(order) : order[i] = order[j] => i = j
  BY <1>4, <1>5 DEF IsInjective
<1>9. ASSUME NEW k \in keys
      PROVE  /\ Under(k, part(k)) \in Seq(Entry)
             /\ At(Under(k, part(k))) \subseteq {k}
             /\ IsInjective(part(k)) => IsInjective(Under(k, part(k)))
             /\ Under(k, part(k)) = <<>> <=> part(k) = <<>>
  BY <1>3, UnderFacts
<1>10. ss \in Seq(Seq(Entry)) /\ Len(ss) = Len(order)
  <2>1. \A i \in 1..Len(order) : Under(order[i], part(order[i])) \in Seq(Entry)
    BY <1>6, <1>9
  <2> QED BY <1>5, <2>1
<1>11. \A i \in 1..Len(order) : ss[i] = Under(order[i], part(order[i]))
  BY <1>5
<1> HIDE DEF ss
<1>12. /\ b \in Seq(Entry)
       /\ ToSet(b) = UNION {ToSet(ss[i]) : i \in 1..Len(ss)}
       /\ (\A i \in 1..Len(ss) : IsInjective(ss[i]))
          /\ (\A i, j \in 1..Len(ss) : i # j => ToSet(ss[i]) \cap ToSet(ss[j]) = {})
          => IsInjective(b)
  BY <1>2, <1>10, FlattenFacts
<1>13. ToSet(b) = UNION {ToSet(Under(k, part(k))) : k \in keys}
  BY <1>6, <1>7, <1>10, <1>11, <1>12
<1>14. At(b) \subseteq keys
  <2>1. ASSUME NEW e \in ToSet(b) PROVE e.path[1] \in keys
    <3>1. PICK k \in keys : e \in ToSet(Under(k, part(k)))
      BY <1>13
    <3>2. At(Under(k, part(k))) \subseteq {k}
      BY <1>9
    <3>3. e.path[1] \in At(Under(k, part(k)))
      BY <3>1 DEF At
    <3>4. e.path[1] \in {k}
      BY <3>2, <3>3
    <3> QED BY <3>4
  <2> QED BY <2>1 DEF At
<1>15. ASSUME \A k \in keys : IsInjective(part(k)) PROVE IsInjective(b)
  <2>1. \A i \in 1..Len(order) : IsInjective(ss[i])
    BY <1>6, <1>9, <1>11, <1>15
  <2>2. ASSUME NEW i \in 1..Len(order), NEW j \in 1..Len(order), i # j, NEW e,
               e \in ToSet(ss[i]), e \in ToSet(ss[j])
        PROVE  FALSE
    <3>1. e.path[1] \in At(ss[i]) /\ e.path[1] \in At(ss[j])
      BY <2>2 DEF At
    <3>2. e.path[1] = order[i] /\ e.path[1] = order[j]
      BY <1>6, <1>9, <1>11, <3>1
    <3> QED BY <1>8, <2>2, <3>2
  <2>3. \A i, j \in 1..Len(order) : i # j => ToSet(ss[i]) \cap ToSet(ss[j]) = {}
    BY <2>2
  <2> QED BY <1>10, <1>12, <2>1, <2>3
<1>16. b = <<>> <=> \A k \in keys : part(k) = <<>>
  <2>1. b = <<>> <=> ToSet(b) = {}
    BY <1>12, EmptyFacts
  <2>2. \A k \in keys : ToSet(Under(k, part(k))) = {} <=> part(k) = <<>>
    <3> TAKE k \in keys
    <3>1. Under(k, part(k)) = <<>> <=> ToSet(Under(k, part(k))) = {}
      BY <1>9, EmptyFacts
    <3> QED BY <1>9, <3>1
  <2> QED BY <1>13, <2>1, <2>2
<1> QED BY <1>12, <1>13, <1>14, <1>15, <1>16 DEF b, keys, part

\* What was told of two trees is right: entries, none of them twice, and none
\* exactly when the trees are the same.
SummaryRight(told, old, new) ==
    /\ told \in Seq(Entry)
    /\ IsInjective(told)
    /\ told = <<>> <=> old = new

LEMMA BothFacts ==
  ASSUME NEW old \in Trees, NEW new \in Trees
  PROVE  /\ Added(old, new) \in SUBSET Nat /\ IsFiniteSet(Added(old, new))
         /\ Removed(old, new) \in SUBSET Nat /\ IsFiniteSet(Removed(old, new))
         /\ \A k \in Both(old, new) :
               /\ Parts(old)[k] \in Trees /\ Parts(new)[k] \in Trees
               /\ Depth[Parts(old)[k]] < Depth[old]
  BY PartsFacts, FS_Subset DEF Added, Removed, Both

LEMMA ToldFacts ==
  /\ Told("changed", <<>>) \in Seq(Entry)
  /\ IsInjective(Told("changed", <<>>))
  /\ Told("changed", <<>>) # <<>>
<1>1. <<>> \in Seq(Nat)
  OBVIOUS
<1>2. [change |-> "changed", path |-> <<>>] \in Entry
  BY <1>1 DEF Entry
<1>3. \A x \in Entry : <<x>> \in Seq(Entry) /\ <<x>> # <<>> /\ IsInjective(<<x>>)
  <2> DEFINE E == Entry
  <2> HIDE DEF E
  <2>1. \A x \in E : <<x>> \in Seq(E) /\ <<x>> # <<>> /\ IsInjective(<<x>>)
    BY DEF IsInjective
  <2> QED BY <2>1 DEF E
<1> QED BY <1>2, <1>3 DEF Told

\* Trees of one shape are the same when there is nothing to tell of.
LEMMA NothingTold ==
  ASSUME NEW old \in Trees, NEW new \in Trees, SameShape(old, new)
  PROVE  /\ Added(old, new) = {} /\ Removed(old, new) = {}
         /\ \A k \in Both(old, new) : Parts(old)[k] = Parts(new)[k]
         <=> old = new
<1>1. ASSUME old = new
      PROVE  /\ Added(old, new) = {} /\ Removed(old, new) = {}
             /\ \A k \in Both(old, new) : Parts(old)[k] = Parts(new)[k]
  BY <1>1 DEF Added, Removed
<1>2. ASSUME Added(old, new) = {}, Removed(old, new) = {},
             \A k \in Both(old, new) : Parts(old)[k] = Parts(new)[k]
      PROVE  old = new
  <2>1. Both(old, new) = DOMAIN Parts(old) /\ DOMAIN Parts(old) = DOMAIN Parts(new)
    BY <1>2 DEF Added, Removed, Both
  <2> QED BY <1>2, <2>1, SameTrees
<1> QED BY <1>1, <1>2

LEMMA SummaryStep ==
  ASSUME NEW old \in Trees, NEW new \in Trees, NEW told,
         \A k \in Both(old, new) :
            SummaryRight(told[<<Parts(old)[k], Parts(new)[k]>>], Parts(old)[k], Parts(new)[k])
  PROVE  SummaryRight(TellSummary(told, old, new), old, new)
<1> DEFINE part(k) == told[<<Parts(old)[k], Parts(new)[k]>>]
           a == Each(Added(old, new), "added")
           r == Each(Removed(old, new), "removed")
           b == Below(told, old, new)
           s == TellSummary(told, old, new)
<1>1. ASSUME ~SameShape(old, new) PROVE SummaryRight(s, old, new)
  <2>1. old # new
    BY <1>1 DEF SameShape
  <2>2. s = Told("changed", <<>>)
    BY <1>1 DEF TellSummary
  <2> QED BY <2>1, <2>2, ToldFacts DEF SummaryRight
<1>2. ASSUME SameShape(old, new) PROVE SummaryRight(s, old, new)
  <2>1. s = a \o r \o b
    BY <1>2 DEF TellSummary
  <2>2. /\ Added(old, new) \in SUBSET Nat /\ IsFiniteSet(Added(old, new))
        /\ Removed(old, new) \in SUBSET Nat /\ IsFiniteSet(Removed(old, new))
    BY BothFacts
  <2>3. ToldOf(told, old, new) /\ \A k \in Both(old, new) : IsInjective(part(k))
    BY DEF SummaryRight, ToldOf
  <2>4. /\ a \in Seq(Entry) /\ At(a) \subseteq Added(old, new) /\ IsInjective(a)
        /\ a = <<>> <=> Added(old, new) = {}
    BY <2>2, EachFacts
  <2>5. /\ r \in Seq(Entry) /\ At(r) \subseteq Removed(old, new) /\ IsInjective(r)
        /\ r = <<>> <=> Removed(old, new) = {}
    BY <2>2, EachFacts
  <2>6. /\ b \in Seq(Entry) /\ At(b) \subseteq Both(old, new)
        /\ (\A k \in Both(old, new) : IsInjective(part(k))) => IsInjective(b)
        /\ b = <<>> <=> \A k \in Both(old, new) : part(k) = <<>>
    BY <2>3, BelowFacts
  <2>7. b = <<>> <=> \A k \in Both(old, new) : Parts(old)[k] = Parts(new)[k]
    BY <2>6 DEF SummaryRight
  <2>8. /\ Added(old, new) \cap Removed(old, new) = {}
        /\ (Added(old, new) \cup Removed(old, new)) \cap Both(old, new) = {}
    BY DEF Added, Removed, Both
  <2>9. Added(old, new) = {} /\ Removed(old, new) = {} /\ b = <<>> <=> old = new
    BY <1>2, <2>7, NothingTold
  <2> HIDE DEF a, r, b, s
  <2>10. \A x, y \in Seq(Entry) : x \o y = <<>> <=> x = <<>> /\ y = <<>>
    BY EmptyConcat
  <2>11. ToSet(a) \cap ToSet(r) = {}
    BY <2>4, <2>5, <2>8 DEF At
  <2>12. a \o r \in Seq(Entry) /\ ToSet(a \o r) = ToSet(a) \cup ToSet(r) /\ IsInjective(a \o r)
    BY <2>4, <2>5, <2>11, ConcatFacts
  <2>13. (ToSet(a) \cup ToSet(r)) \cap ToSet(b) = {}
    <3> SUFFICES ASSUME NEW e, e \in ToSet(a) \cup ToSet(r), e \in ToSet(b) PROVE FALSE
      OBVIOUS
    <3>1. e.path[1] \in At(a) \cup At(r)
      BY DEF At
    <3>2. e.path[1] \in At(b)
      BY DEF At
    <3> QED BY <2>4, <2>5, <2>6, <2>8, <3>1, <3>2
  <2>14. s \in Seq(Entry) /\ IsInjective(s)
    BY <2>1, <2>3, <2>6, <2>12, <2>13, ConcatFacts
  <2>15. s = <<>> <=> old = new
    BY <2>1, <2>4, <2>5, <2>6, <2>9, <2>10, <2>12
  <2> QED BY <2>14, <2>15 DEF SummaryRight
<1> QED BY <1>1, <1>2

\* What was told of two trees is right: a row for every entry of the summary,
\* and none exactly when the trees are the same.
RowsRight(rows, told, old, new) ==
    /\ rows \in Seq(Entry) /\ told \in Seq(Entry)
    /\ ToSet(told) \subseteq ToSet(rows)
    /\ rows = <<>> <=> old = new
LEMMA RowsStep ==
  ASSUME NEW old \in Trees, NEW new \in Trees, NEW told, NEW rows,
         SummaryRight(TellSummary(told, old, new), old, new),
         \A k \in Both(old, new) :
            RowsRight(rows[<<Parts(old)[k], Parts(new)[k]>>], told[<<Parts(old)[k], Parts(new)[k]>>],
                      Parts(old)[k], Parts(new)[k])
  PROVE  RowsRight(TellRows(rows, old, new), TellSummary(told, old, new), old, new)
<1> DEFINE part(k) == told[<<Parts(old)[k], Parts(new)[k]>>]
           list(k) == rows[<<Parts(old)[k], Parts(new)[k]>>]
           a == Each(Added(old, new), "added")
           r == Each(Removed(old, new), "removed")
           b == Below(told, old, new)
           c == Below(rows, old, new)
           one == Told("changed", <<>>)
           s == TellSummary(told, old, new)
           t == TellRows(rows, old, new)
<1>1. /\ Added(old, new) \in SUBSET Nat /\ IsFiniteSet(Added(old, new))
      /\ Removed(old, new) \in SUBSET Nat /\ IsFiniteSet(Removed(old, new))
      /\ \A k \in Both(old, new) : k \in Nat
  BY BothFacts, PartsFacts DEF Both
<1>2. a \in Seq(Entry) /\ (a = <<>> <=> Added(old, new) = {})
  BY <1>1, EachFacts
<1>3. r \in Seq(Entry) /\ (r = <<>> <=> Removed(old, new) = {})
  BY <1>1, EachFacts
<1>4. /\ b \in Seq(Entry)
      /\ ToSet(b) = UNION {ToSet(Under(k, part(k))) : k \in Both(old, new)}
  <2>1. ToldOf(told, old, new)
    BY DEF RowsRight, ToldOf
  <2> QED BY <2>1, BelowFacts
<1>5. /\ c \in Seq(Entry)
      /\ c = <<>> <=> \A k \in Both(old, new) : list(k) = <<>>
      /\ ToSet(c) = UNION {ToSet(Under(k, list(k))) : k \in Both(old, new)}
  <2>1. ToldOf(rows, old, new)
    BY DEF RowsRight, ToldOf
  <2> QED BY <2>1, BelowFacts
<1>6. c = <<>> <=> \A k \in Both(old, new) : Parts(old)[k] = Parts(new)[k]
  BY <1>5 DEF RowsRight
<1>7. ToSet(b) \subseteq ToSet(c)
  <2>1. ASSUME NEW k \in Both(old, new) PROVE ToSet(Under(k, part(k))) \subseteq ToSet(Under(k, list(k)))
    <3>1. part(k) \in Seq(Entry) /\ list(k) \in Seq(Entry) /\ ToSet(part(k)) \subseteq ToSet(list(k))
      BY DEF RowsRight
    <3> HIDE DEF part, list
    <3> QED BY <1>1, <3>1, UnderMore
  <2> HIDE DEF part, list, b, c
  <2> QED BY <1>4, <1>5, <2>1
<1>8. SameShape(old, new) => (a = <<>> /\ r = <<>> /\ c = <<>> <=> old = new)
  BY <1>2, <1>3, <1>6, NothingTold
<1>9. one \in Seq(Entry) /\ one # <<>>
  BY ToldFacts
<1>10. s \in Seq(Entry)
  BY DEF SummaryRight
<1>11. s = IF ~SameShape(old, new) THEN one ELSE a \o r \o b
  BY DEF TellSummary
<1>12. t = IF old.type = "list" /\ new.type = "list"
           THEN (IF Len(old.items) = Len(new.items) THEN <<>> ELSE one) \o c \o a \o r
           ELSE IF ~SameShape(old, new) THEN one ELSE a \o r \o c
  BY DEF TellRows, TellSummary
<1> HIDE DEF part, list, a, r, b, c, one, s, t
<1>13. CASE old.type = "list" /\ new.type = "list" /\ Len(old.items) = Len(new.items)
  <2>1. SameShape(old, new)
    BY <1>13 DEF SameShape
  <2>2. s = a \o r \o b /\ t = <<>> \o c \o a \o r
    BY <1>11, <1>12, <1>13, <2>1
  <2>3. <<>> \o c = c
    BY <1>5
  <2>6. ToSet(a \o r \o b) = ToSet(a) \cup ToSet(r) \cup ToSet(b)
    BY <1>2, <1>3, <1>4, ThreeLists
  <2>7. /\ c \o a \o r \in Seq(Entry)
        /\ ToSet(c \o a \o r) = ToSet(c) \cup ToSet(a) \cup ToSet(r)
        /\ c \o a \o r = <<>> <=> c = <<>> /\ a = <<>> /\ r = <<>>
    BY <1>2, <1>3, <1>5, ThreeLists
  <2>8. /\ ToSet(s) = ToSet(a) \cup ToSet(r) \cup ToSet(b)
        /\ t \in Seq(Entry)
        /\ ToSet(t) = ToSet(c) \cup ToSet(a) \cup ToSet(r)
        /\ t = <<>> <=> c = <<>> /\ a = <<>> /\ r = <<>>
    BY <2>2, <2>3, <2>6, <2>7
  <2> QED BY <1>7, <1>8, <1>10, <2>1, <2>8 DEF RowsRight, s, t
<1>14. CASE old.type = "list" /\ new.type = "list" /\ Len(old.items) # Len(new.items)
  <2>1. ~SameShape(old, new) /\ old # new
    BY <1>14 DEF SameShape
  <2>2. s = one /\ t = one \o c \o a \o r
    BY <1>11, <1>12, <1>14, <2>1
  <2>3. /\ one \o c \in Seq(Entry) /\ ToSet(one \o c) = ToSet(one) \cup ToSet(c)
        /\ one \o c # <<>>
    BY <1>5, <1>9, ConcatFacts, EmptyConcat
  <2> DEFINE x == one \o c
  <2> HIDE DEF x
  <2>4. x \in Seq(Entry) /\ ToSet(x) = ToSet(one) \cup ToSet(c) /\ x # <<>>
    BY <2>3 DEF x
  <2>5. /\ x \o a \o r \in Seq(Entry)
        /\ ToSet(x \o a \o r) = ToSet(x) \cup ToSet(a) \cup ToSet(r)
        /\ x \o a \o r = <<>> <=> x = <<>> /\ a = <<>> /\ r = <<>>
    BY <1>2, <1>3, <2>4, ThreeLists
  <2>6. t = x \o a \o r
    BY <2>2 DEF x
  <2>7. t \in Seq(Entry) /\ ToSet(one) \subseteq ToSet(t)
    BY <2>4, <2>5, <2>6
  <2>8. t # <<>>
    BY <2>4, <2>5, <2>6
  <2> QED BY <1>10, <2>1, <2>2, <2>7, <2>8 DEF RowsRight, s, t
<1>15. CASE ~(old.type = "list" /\ new.type = "list") /\ SameShape(old, new)
  <2>2. s = a \o r \o b /\ t = a \o r \o c
    BY <1>11, <1>12, <1>15
  <2>6. ToSet(a \o r \o b) = ToSet(a) \cup ToSet(r) \cup ToSet(b)
    BY <1>2, <1>3, <1>4, ThreeLists
  <2>7. /\ a \o r \o c \in Seq(Entry)
        /\ ToSet(a \o r \o c) = ToSet(a) \cup ToSet(r) \cup ToSet(c)
        /\ a \o r \o c = <<>> <=> a = <<>> /\ r = <<>> /\ c = <<>>
    BY <1>2, <1>3, <1>5, ThreeLists
  <2>8. /\ ToSet(s) = ToSet(a) \cup ToSet(r) \cup ToSet(b)
        /\ t \in Seq(Entry)
        /\ ToSet(t) = ToSet(a) \cup ToSet(r) \cup ToSet(c)
        /\ t = <<>> <=> c = <<>> /\ a = <<>> /\ r = <<>>
    BY <2>2, <2>6, <2>7
  <2> QED BY <1>7, <1>8, <1>10, <1>15, <2>8 DEF RowsRight, s, t
<1>16. CASE ~(old.type = "list" /\ new.type = "list") /\ ~SameShape(old, new)
  <2>1. old # new
    BY <1>16 DEF SameShape
  <2>2. s = one /\ t = one
    BY <1>11, <1>12, <1>16
  <2> QED BY <1>9, <2>1, <2>2 DEF RowsRight, s, t
<1> QED BY <1>13, <1>14, <1>15, <1>16

\* What one step of a walk tells, and of what it depends.
LEMMA TellTypes ==
  ASSUME NEW old \in Trees, NEW new \in Trees, NEW told, ToldOf(told, old, new)
  PROVE  TellSummary(told, old, new) \in Seq(Entry) /\ TellRows(told, old, new) \in Seq(Entry)
<1> DEFINE a == Each(Added(old, new), "added")
           r == Each(Removed(old, new), "removed")
           b == Below(told, old, new)
           one == Told("changed", <<>>)
           s == TellSummary(told, old, new)
<1>1. a \in Seq(Entry) /\ r \in Seq(Entry)
  BY BothFacts, EachFacts
<1>2. b \in Seq(Entry)
  BY BelowFacts
<1>3. one \in Seq(Entry) /\ <<>> \in Seq(Entry)
  BY ToldFacts
<1>4. s = IF ~SameShape(old, new) THEN one ELSE a \o r \o b
  BY DEF TellSummary
<1>5. TellRows(told, old, new) =
         IF old.type = "list" /\ new.type = "list"
         THEN (IF Len(old.items) = Len(new.items) THEN <<>> ELSE one) \o b \o a \o r ELSE s
  BY DEF TellRows
<1> HIDE DEF a, r, b, one, s
<1>6. a \o r \o b \in Seq(Entry)
  BY <1>1, <1>2, ThreeLists
<1>7. s \in Seq(Entry)
  BY <1>3, <1>4, <1>6
<1>8. b \o a \o r \in Seq(Entry) /\ <<>> \o b = b
  BY <1>1, <1>2, ThreeLists
<1>9. one \o b \in Seq(Entry)
  BY <1>2, <1>3, ConcatFacts
<1>10. one \o b \o a \o r \in Seq(Entry)
  <2> DEFINE x == one \o b
  <2>1. x \in Seq(Entry)
    BY <1>9
  <2> HIDE DEF x
  <2>2. x \o a \o r \in Seq(Entry)
    BY <1>1, <2>1, ThreeLists
  <2> QED BY <2>2 DEF x
<1>11. TellRows(told, old, new) \in Seq(Entry)
  <2>1. CASE ~(old.type = "list" /\ new.type = "list")
    BY <1>5, <1>7, <2>1
  <2>2. CASE old.type = "list" /\ new.type = "list" /\ Len(old.items) = Len(new.items)
    BY <1>5, <1>8, <2>2
  <2>3. CASE old.type = "list" /\ new.type = "list" /\ Len(old.items) # Len(new.items)
    BY <1>5, <1>10, <2>3
  <2> QED BY <2>1, <2>2, <2>3
<1> QED BY <1>7, <1>11 DEF s

LEMMA TellAgrees ==
  ASSUME NEW old \in Trees, NEW new \in Trees, NEW told, NEW other,
         \A k \in Both(old, new) :
            told[<<Parts(old)[k], Parts(new)[k]>>] = other[<<Parts(old)[k], Parts(new)[k]>>]
  PROVE  /\ TellSummary(told, old, new) = TellSummary(other, old, new)
         /\ TellRows(told, old, new) = TellRows(other, old, new)
<1> DEFINE order == InOrder(Both(old, new))
<1>1. Both(old, new) \in SUBSET Nat /\ IsFiniteSet(Both(old, new))
  BY PartsFacts, FS_Subset DEF Both
<1>2. order \in Seq(Nat) /\ ToSet(order) = Both(old, new)
  BY <1>1, KeysFacts
<1>3. \A i \in DOMAIN order : order[i] \in Both(old, new)
  BY <1>2 DEF ToSet
<1> HIDE DEF order
<1>4. ASSUME NEW i \in DOMAIN order
      PROVE  Under(order[i], told[<<Parts(old)[order[i]], Parts(new)[order[i]]>>])
             = Under(order[i], other[<<Parts(old)[order[i]], Parts(new)[order[i]]>>])
  BY <1>3
<1>5. [i \in DOMAIN order |-> Under(order[i], told[<<Parts(old)[order[i]], Parts(new)[order[i]]>>])]
      = [i \in DOMAIN order |-> Under(order[i], other[<<Parts(old)[order[i]], Parts(new)[order[i]]>>])]
  BY <1>4
<1>6. Below(told, old, new) = Below(other, old, new)
  BY <1>5 DEF Below, order
<1> QED BY <1>6 DEF TellSummary, TellRows

Pairs == Trees \X Trees

\* Both walks end, as every part is nested less deep than its whole.
LEMMA WalksEnd ==
  /\ Summary = [trees \in Pairs |-> TellSummary(Summary, trees[1], trees[2])]
  /\ AllRows = [trees \in Pairs |-> TellRows(AllRows, trees[1], trees[2])]
<1> DEFINE V == Seq(Entry)
           dep == [c \in Pairs |-> Depth[c[1]]]
           D == [h \in [Pairs -> V] |-> [c \in Pairs |-> TellSummary(h, c[1], c[2])]]
           R == [h \in [Pairs -> V] |-> [c \in Pairs |-> TellRows(h, c[1], c[2])]]
<1>1. \A c \in Pairs : c[1] \in Trees /\ c[2] \in Trees
  BY DEF Pairs
<1>2. dep \in [Pairs -> Nat]
  BY <1>1, DiffAssumption
<1>3. <<>> \in V
  OBVIOUS
<1>4. ASSUME NEW c \in Pairs, NEW k \in Both(c[1], c[2])
      PROVE  /\ <<Parts(c[1])[k], Parts(c[2])[k]>> \in Pairs
             /\ dep[<<Parts(c[1])[k], Parts(c[2])[k]>>] < dep[c]
  <2>1. Parts(c[1])[k] \in Trees /\ Parts(c[2])[k] \in Trees /\ Depth[Parts(c[1])[k]] < Depth[c[1]]
    BY <1>1, <1>4, BothFacts
  <2> QED BY <2>1 DEF Pairs
<1>5. ASSUME NEW h \in [Pairs -> V], NEW c \in Pairs PROVE ToldOf(h, c[1], c[2])
  <2> HIDE DEF V, dep
  <2>1. \A k \in Both(c[1], c[2]) : h[<<Parts(c[1])[k], Parts(c[2])[k]>>] \in V
    BY <1>4
  <2> QED BY <2>1 DEF ToldOf, V
<1>6. \A h \in [Pairs -> V], c \in Pairs :
         TellSummary(h, c[1], c[2]) \in V /\ TellRows(h, c[1], c[2]) \in V
  BY <1>1, <1>5, TellTypes
<1>7. ASSUME NEW f \in [Pairs -> V], NEW g \in [Pairs -> V], NEW c \in Pairs,
             \A d \in Pairs : dep[d] < dep[c] => f[d] = g[d]
      PROVE  /\ TellSummary(f, c[1], c[2]) = TellSummary(g, c[1], c[2])
             /\ TellRows(f, c[1], c[2]) = TellRows(g, c[1], c[2])
  <2> HIDE DEF V, dep
  <2>1. \A k \in Both(c[1], c[2]) :
           f[<<Parts(c[1])[k], Parts(c[2])[k]>>] = g[<<Parts(c[1])[k], Parts(c[2])[k]>>]
    BY <1>4, <1>7
  <2>2. PICK old \in Trees, new \in Trees : old = c[1] /\ new = c[2]
    BY <1>1
  <2>3. \A k \in Both(old, new) :
           f[<<Parts(old)[k], Parts(new)[k]>>] = g[<<Parts(old)[k], Parts(new)[k]>>]
    BY <2>1, <2>2
  <2>4. /\ TellSummary(f, old, new) = TellSummary(g, old, new)
        /\ TellRows(f, old, new) = TellRows(g, old, new)
    BY <2>3, TellAgrees
  <2> QED BY <2>2, <2>4
<1> HIDE DEF V, dep
<1>8. Descends(D, Pairs, V, dep)
  <2>1. D \in [[Pairs -> V] -> [Pairs -> V]]
    BY <1>6
  <2>2. ASSUME NEW f \in [Pairs -> V], NEW g \in [Pairs -> V], NEW c \in Pairs,
               \A d \in Pairs : dep[d] < dep[c] => f[d] = g[d]
        PROVE  D[f][c] = D[g][c]
    BY <1>7, <2>2
  <2> HIDE DEF D
  <2> QED BY <1>2, <1>3, <2>1, <2>2 DEF Descends
<1>9. Descends(R, Pairs, V, dep)
  <2>1. R \in [[Pairs -> V] -> [Pairs -> V]]
    BY <1>6
  <2>2. ASSUME NEW f \in [Pairs -> V], NEW g \in [Pairs -> V], NEW c \in Pairs,
               \A d \in Pairs : dep[d] < dep[c] => f[d] = g[d]
        PROVE  R[f][c] = R[g][c]
    BY <1>7, <2>2
  <2> HIDE DEF R
  <2> QED BY <1>2, <1>3, <2>1, <2>2 DEF Descends
<1>10. \E F \in [Pairs -> V] : D[F] = F
  <2> HIDE DEF D
  <2> QED BY <1>8, FixedPoint DEF Solvable
<1>11. \E F \in [Pairs -> V] : R[F] = F
  <2> HIDE DEF R
  <2> QED BY <1>9, FixedPoint DEF Solvable
<1>12. \E F : F = [trees \in Pairs |-> TellSummary(F, trees[1], trees[2])]
  BY <1>10
<1>13. \E F : F = [trees \in Pairs |-> TellRows(F, trees[1], trees[2])]
  BY <1>11
<1>14. Summary = [trees \in Pairs |-> TellSummary(Summary, trees[1], trees[2])]
  BY <1>12 DEF Summary, Pairs
<1>15. AllRows = [trees \in Pairs |-> TellRows(AllRows, trees[1], trees[2])]
  BY <1>13 DEF AllRows, Pairs
<1> QED BY <1>14, <1>15

\* Both walks are right, by induction over how deep the old tree is nested.
LEMMA WalksRight ==
  \A old, new \in Trees :
     /\ SummaryRight(Summary[<<old, new>>], old, new)
     /\ RowsRight(AllRows[<<old, new>>], Summary[<<old, new>>], old, new)
<1> DEFINE Right(old, new) ==
              /\ SummaryRight(Summary[<<old, new>>], old, new)
              /\ RowsRight(AllRows[<<old, new>>], Summary[<<old, new>>], old, new)
           bad == {n \in Nat : \E old, new \in Trees : Depth[old] = n /\ ~Right(old, new)}
<1>1. \A t \in Trees : Depth[t] \in Nat
  BY DiffAssumption
<1>2. ASSUME NEW old \in Trees, NEW new \in Trees
      PROVE  /\ Summary[<<old, new>>] = TellSummary(Summary, old, new)
             /\ AllRows[<<old, new>>] = TellRows(AllRows, old, new)
  <2>1. <<old, new>> \in Pairs
    BY DEF Pairs
  <2>2. Summary[<<old, new>>] = TellSummary(Summary, old, new)
    BY <2>1, WalksEnd
  <2>3. AllRows[<<old, new>>] = TellRows(AllRows, old, new)
    BY <2>1, WalksEnd
  <2> QED BY <2>2, <2>3
<1>3. ASSUME NEW old \in Trees, NEW new \in Trees,
             \A o, e \in Trees : Depth[o] < Depth[old] => Right(o, e)
      PROVE  Right(old, new)
  <2>1. ASSUME NEW k \in Both(old, new) PROVE Right(Parts(old)[k], Parts(new)[k])
    <3>1. /\ Parts(old)[k] \in Trees /\ Parts(new)[k] \in Trees
          /\ Depth[Parts(old)[k]] < Depth[old]
      BY BothFacts
    <3> HIDE DEF Right
    <3> QED BY <1>3, <3>1
  <2>2. SummaryRight(TellSummary(Summary, old, new), old, new)
    BY <2>1, SummaryStep
  <2>3. RowsRight(TellRows(AllRows, old, new), TellSummary(Summary, old, new), old, new)
    BY <2>1, <2>2, RowsStep
  <2> QED BY <1>2, <2>2, <2>3
<1> HIDE DEF Right
<1> SUFFICES ASSUME NEW old \in Trees, NEW new \in Trees, ~Right(old, new) PROVE FALSE
  BY DEF Right
<1>4. bad \in SUBSET Nat /\ Depth[old] \in bad
  BY <1>1
<1>5. PICK n \in bad : \A m \in bad : n <= m
  BY <1>4, LeastNatural
<1>6. PICK o \in Trees, e \in Trees : Depth[o] = n /\ ~Right(o, e)
  BY <1>5
<1>7. ASSUME NEW a \in Trees, NEW b \in Trees, Depth[a] < Depth[o] PROVE Right(a, b)
  <2> SUFFICES ASSUME ~Right(a, b) PROVE FALSE
    OBVIOUS
  <2>1. Depth[a] \in bad
    BY <1>1
  <2>2. Depth[a] \in Nat /\ Depth[o] \in Nat
    BY <1>1
  <2> HIDE DEF bad
  <2> QED BY <1>5, <1>6, <1>7, <2>1, <2>2
<1> QED BY <1>3, <1>6, <1>7

\* A list is cut off behind a number of members.
Cut(all, max) == SubSeq(all, 1, Min({max, Len(all)}))

LEMMA CutFacts ==
  ASSUME NEW S, NEW all \in Seq(S), NEW max \in Nat \ {0}
  PROVE  /\ Cut(all, max) = <<>> <=> all = <<>>
         /\ Len(Cut(all, max)) <= max
         /\ IsPrefix(Cut(all, max), all)
         /\ Len(all) <= max => Cut(all, max) = all
<1> DEFINE cut == Cut(all, max)
           n == Len(all)
           m == Min({max, n})
<1>1. n \in Nat /\ max \in Nat /\ max # 0
  OBVIOUS
<1>2. m = IF n <= max THEN n ELSE max
  BY <1>1 DEF Min
<1> HIDE DEF m
<1>3. m \in Nat /\ m <= max /\ m <= n /\ (n <= max => m = n) /\ (m = 0 <=> n = 0)
  BY <1>1, <1>2
<1>4. cut = SubSeq(all, 1, m)
  BY DEF Cut, m
<1> HIDE DEF cut
<1>5. cut \in Seq(S) /\ Len(cut) = m
  BY <1>3, <1>4
<1>6. cut = <<>> <=> m = 0
  BY <1>5
<1>7. all = <<>> <=> n = 0
  OBVIOUS
<1>8. m = n => cut = all
  BY <1>4
<1>9. SubSeq(cut, 1, Len(cut)) = cut
  BY <1>5
<1>10. IsPrefix(cut, all)
  BY <1>3, <1>4, <1>5, <1>9 DEF IsPrefix
<1> HIDE DEF n
<1> QED BY <1>3, <1>5, <1>6, <1>7, <1>8, <1>10 DEF cut, n

LEMMA CompareRight ==
  ASSUME DiffTellsChanges, DiffNext
  PROVE  DiffTellsChanges'
<1>1. PICK history \in Histories, from \in Picks, to \in Picks : Compare(history, from, to)
  BY DEF DiffNext
<1> DEFINE a == Pick(history, from, 2)
           b == Pick(history, to, 1)
           old == history[a]
           new == history[b]
           all == AllRows[<<old, new>>]
           rows == Rows(old, new)
<1>2. history \in Seq(Trees) /\ a \in DOMAIN history /\ b \in DOMAIN history
  BY <1>1, DiffAssumption DEF Compare
<1>3. old \in Trees /\ new \in Trees
  <2> HIDE DEF a, b
  <2> QED BY <1>2
<1>4. diff' = [shown |-> TRUE, old |-> old, new |-> new, rows |-> rows,
               summary |-> Summary[<<old, new>>]]
  BY <1>1 DEF Compare
<1> HIDE DEF a, b, old, new
<1>5. /\ SummaryRight(Summary[<<old, new>>], old, new)
      /\ RowsRight(AllRows[<<old, new>>], Summary[<<old, new>>], old, new)
  BY <1>3, WalksRight
<1>6. all \in Seq(Entry) /\ MaxRows \in Nat \ {0}
  BY <1>5, DiffAssumption DEF RowsRight
<1>7. rows = Cut(all, MaxRows)
  BY DEF Rows, Cut
<1> HIDE DEF all, rows
<1>8. /\ rows = <<>> <=> all = <<>>
      /\ Len(rows) <= MaxRows
      /\ IsPrefix(rows, all)
      /\ Len(all) <= MaxRows => rows = all
  BY <1>6, <1>7, CutFacts
<1>12. (diff.old)' = old /\ (diff.new)' = new /\ (diff.rows)' = rows /\ (diff.summary)' = Summary[<<old, new>>]
  BY <1>4
<1>13. (AllRows[<<diff.old, diff.new>>])' = all
  BY <1>12 DEF all
<1> QED BY <1>5, <1>8, <1>12, <1>13 DEF DiffTellsChanges, SummaryRight, RowsRight, all

\* A summary and the rows of a comparison tell of a difference exactly when there
\* is one, the rows of everything the summary does, and what is cut off behind the
\* bound does not hide that (services.py:949-991, 1001-1064).
THEOREM DiffCorrect == DiffSpec => []DiffTellsChanges
<1>1. DiffInit => DiffTellsChanges
  BY DEF DiffInit, DiffTellsChanges, NoDiff
<1>2. DiffTellsChanges /\ [DiffNext]_diff => DiffTellsChanges'
  <2>1. DiffTellsChanges /\ UNCHANGED diff => DiffTellsChanges'
    BY DEF DiffTellsChanges
  <2> QED BY <2>1, CompareRight
<1> QED BY <1>1, <1>2, PTL DEF DiffSpec
-----------------------------------------------------------------------------
\* The three together

\* What is true of the rows, of the sidebar and of the comparison alone is true of
\* the manager: no request of one changes what another is about
\* (views.py:419-438, 747-772, services.py:1001-1064).
LEMMA ManagerAlone == Spec => BoardSpec /\ SidebarSpec /\ DiffSpec
<1>1. Init => BoardInit /\ ViewInit /\ DiffInit
  BY DEF Init
<1>2. [Next]_<<boardVars, view, diff>> => [BoardNext]_boardVars /\ [ViewNext]_view /\ [DiffNext]_diff
  BY DEF Next, RequestsAlone, SidebarAlone, CompareAlone
<1> QED BY <1>1, <1>2, PTL DEF Spec, BoardSpec, SidebarSpec, DiffSpec

\* Whatever its requests do in between, the manager keeps its rows well typed,
\* shares places only through an overlap, shows what was written, accounts for
\* every import and its syncs, and is right in every sidebar and every comparison
\* (services.py:93-251, 430-472, 949-1064, 1475-1501, services_grid.py:152-196).
THEOREM ManagerRight ==
  Spec => /\ []BoardTypeOK /\ []TiesOnlyFromOverlap /\ []WrittenItemsShown /\ []ImportsTold
          /\ []SidebarRight /\ []DiffTellsChanges
BY ManagerAlone, BoardTypeCorrect, TiesCorrect, ShownItemsCorrect, ImportsCorrect,
   SidebarCorrect, DiffCorrect, PTL
=============================================================================
