-------------------------- MODULE Go2RTCSync_proofs --------------------------
(***************************************************************************)
(* Go2RTCSync: type correctness, that the stream rows mirror the fetch     *)
(* committed last, that snapshots tell changes and that the batch counts   *)
(* once, for every value of the constants.                                 *)
(***************************************************************************)
EXTENDS Go2RTCSync, FiniteSetTheorems, FunctionTheorems, WellFoundedInduction, TLAPS

Transaction == {"listing", "locking", "writing", "written"}

\* A row that is not there has no payload either.
RowsOK == \A n \in Streams : rows[n].born = 0 => rows[n] = NoRow

\* Whoever stores has fetched.
AtOK == \A p \in Processes :
    /\ sync[p].pc \in {"fetched"} \cup Transaction => sync[p].at > 0
    /\ sync[p].pc \in {"locating", "asking", "located"} /\ sync[p].kind # "geo" => sync[p].at > 0

\* Who asks for an address has one left.
AskingOK == \A p \in Processes : sync[p].pc = "asking" => sync[p].left # {}

\* The rows and names a transaction will write are its own until it ends.
LocksOK == \A p \in Processes :
    /\ sync[p].pc \in {"writing", "written"} =>
            \A n \in sync[p].held : lock[n] = p /\ rows[n].born > 0
    /\ sync[p].pc = "written" => \A n \in New(p) : lock[n] = p /\ rows[n] = NoRow

\* A transaction that missed no row has listed, then locked, all there are.
SeenOK == \A p \in Processes : ~sync[p].missed => \A n \in Streams : rows[n].born > 0 =>
    /\ sync[p].pc = "locking" => sync[p].seen[n] = rows[n].born
    /\ sync[p].pc \in {"writing", "written"} => n \in sync[p].held

\* A transaction that ran alone has read the snapshot that is still the newest.
AloneOK == \A p \in Processes : sync[p].pc \in Transaction /\ sync[p].alone =>
    /\ \A q \in Processes \ {p} : sync[q].pc \notin Transaction
    /\ sync[p].previous = IF snapshot = None THEN None ELSE snapshot.config
    /\ sync[p].pc = "written" /\ snapshot # None => snapshot.stamp < sync[p].stamp

\* Nothing is counted before the batch is done with the instance.
CountsOK == \A p \in Processes : sync[p].pc # "idle" => counts[p] = NoCounts

SyncInv == /\ TypeOK /\ RowsOK /\ AtOK /\ AskingOK /\ LocksOK /\ SeenOK /\ AloneOK /\ CountsOK
           /\ RowsMirrorLastFetch

(***************************************************************************)
(* Least and greatest elements.                                            *)
(***************************************************************************)
LEMMA MinOf ==
  ASSUME NEW S \in SUBSET Nat, S # {}
  PROVE  Min(S) \in S
<1>1. PICK x \in S : \A y \in S : ~ (<<y, x>> \in OpToRel(<, Nat))
  BY NatLessThanWellFounded, WFMin
<1>2. \A y \in S : x <= y
  <2> TAKE y \in S
  <2>1. x \in Nat /\ y \in Nat
    OBVIOUS
  <2>2. ~(y < x)
    BY <1>1, <2>1 DEF OpToRel
  <2> QED BY <2>1, <2>2
<1> QED BY <1>2 DEF Min

\* By the least cardinality of a set without a greatest element.
LEMMA MaxOf ==
  ASSUME NEW S \in SUBSET Nat, S # {}, IsFiniteSet(S)
  PROVE  Max(S) \in S /\ \A y \in S : y <= Max(S)
<1> DEFINE Bounded(T) == \E x \in T : \A y \in T : y <= x
           Bad == {k \in Nat : \E T \in SUBSET Nat :
                        T # {} /\ IsFiniteSet(T) /\ Cardinality(T) = k /\ ~Bounded(T)}
<1>1. Bad = {}
  <2> SUFFICES ASSUME Bad # {} PROVE FALSE
    OBVIOUS
  <2>1. Bad \in SUBSET Nat
    OBVIOUS
  <2> HIDE DEF Bad
  <2>2. PICK k \in Bad : \A j \in Bad : ~ (<<j, k>> \in OpToRel(<, Nat))
    BY <2>1, NatLessThanWellFounded, WFMin
  <2>3. PICK T \in SUBSET Nat : T # {} /\ IsFiniteSet(T) /\ Cardinality(T) = k /\ ~Bounded(T)
    BY DEF Bad
  <2>4. PICK x \in T : TRUE
    BY <2>3
  <2> DEFINE R == T \ {x}
  <2>5. IsFiniteSet(R) /\ Cardinality(R) = k - 1 /\ k \in Nat
    BY <2>1, <2>3, FS_RemoveElement
  <2>6. Cardinality(R) \in Nat
    BY <2>5, FS_CardinalityType
  <2>7. R # {} => Bounded(R)
    <3> SUFFICES ASSUME R # {}, ~Bounded(R) PROVE FALSE
      OBVIOUS
    <3>1. k - 1 \in Bad
      BY <2>3, <2>5, <2>6 DEF Bad
    <3>2. k - 1 < k /\ k - 1 \in Nat
      BY <2>5, <2>6
    <3>3. <<k - 1, k>> \in OpToRel(<, Nat)
      BY <2>5, <3>2 DEF OpToRel
    <3> QED BY <2>2, <3>1, <3>3
  <2>8. CASE R = {}
    <3>1. \A y \in T : y <= x
      BY <2>3, <2>4, <2>8
    <3> QED BY <2>3, <2>4, <3>1
  <2>9. CASE R # {}
    <3>1. PICK z \in R : \A y \in R : y <= z
      BY <2>7, <2>9
    <3>2. x \in Nat /\ z \in Nat /\ z \in T /\ T \subseteq Nat
      BY <2>3, <2>4, <3>1
    <3>3. CASE x <= z
      <4>1. \A y \in T : y <= z
        BY <3>1, <3>3
      <4> QED BY <2>3, <3>2, <4>1
    <3>4. CASE z <= x
      <4>1. \A y \in T : y <= x
        <5> TAKE y \in T
        <5>1. y \in Nat /\ (y = x \/ y <= z)
          BY <3>1, <3>2
        <5> QED BY <3>2, <3>4, <5>1
      <4> QED BY <2>3, <2>4, <4>1
    <3> QED BY <3>2, <3>3, <3>4
  <2> QED BY <2>8, <2>9
<1>2. Bounded(S)
  <2>1. Cardinality(S) \in Nat
    BY FS_CardinalityType
  <2> QED BY <1>1, <2>1
<1>3. PICK x \in S : \A y \in S : y <= x
  BY <1>2
<1>4. \A y \in S : x >= y
  BY <1>3
<1>5. Max(S) \in S /\ \A y \in S : Max(S) >= y
  BY <1>4 DEF Max
<1> QED BY <1>5

\* The image of a finite set.
LEMMA FiniteImage ==
  ASSUME NEW D, IsFiniteSet(D), NEW f, f = [x \in D |-> f[x]]
  PROVE  IsFiniteSet({f[x] : x \in D})
<1> DEFINE T == {f[x] : x \in D}
<1>1. f \in [D -> T]
  OBVIOUS
<1>2. f \in Surjection(D, T)
  BY <1>1 DEF Surjection
<1> QED BY <1>2, FS_Surjection

LEMMA FetchNumberType ==
  ASSUME TypeOK
  PROVE  FetchNumber \in Nat /\ FetchNumber > 0
<1> DEFINE ofRow == [n \in Streams |-> {rows[n].born, rows[n].version}]
           ofSeen == [p \in Processes |-> [n \in Streams |-> sync[p].seen[n]]]
           ofSync == [p \in Processes |-> {sync[p].at} \cup {ofSeen[p][n] : n \in Streams}]
           used == UNION ({ofRow[n] : n \in Streams} \cup {ofSync[p] : p \in Processes})
<1>1. IsFiniteSet(Streams) /\ IsFiniteSet(Processes)
  BY ConstantsAssumption
<1>2. \A n \in Streams : IsFiniteSet(ofRow[n])
  <2> TAKE n \in Streams
  <2>1. ofRow[n] = {rows[n].born} \cup {rows[n].version}
    OBVIOUS
  <2>2. IsFiniteSet({rows[n].born}) /\ IsFiniteSet({rows[n].version})
    BY FS_Singleton
  <2>3. IsFiniteSet({rows[n].born} \cup {rows[n].version})
    BY <2>2, FS_Union
  <2> QED BY <2>1, <2>3
<1>3. \A p \in Processes : IsFiniteSet(ofSync[p])
  <2> TAKE p \in Processes
  <2>1. ofSeen[p] = [n \in Streams |-> ofSeen[p][n]]
    OBVIOUS
  <2> HIDE DEF ofSeen
  <2>2. IsFiniteSet({ofSeen[p][n] : n \in Streams})
    BY <1>1, <2>1, FiniteImage
  <2> QED BY <2>2, FS_Singleton, FS_Union
<1>4. IsFiniteSet({ofRow[n] : n \in Streams})
  <2> DEFINE f == ofRow
  <2>1. f = [n \in Streams |-> f[n]]
    OBVIOUS
  <2> HIDE DEF f
  <2>2. IsFiniteSet({f[n] : n \in Streams})
    BY <1>1, <2>1, FiniteImage
  <2> QED BY <2>2 DEF f
<1>5. IsFiniteSet({ofSync[p] : p \in Processes})
  <2> DEFINE f == ofSync
  <2>1. f = [p \in Processes |-> f[p]]
    OBVIOUS
  <2> HIDE DEF f
  <2>2. IsFiniteSet({f[p] : p \in Processes})
    BY <1>1, <2>1, FiniteImage
  <2> QED BY <2>2 DEF f
<1>6. IsFiniteSet(used)
  <2> DEFINE parts == {ofRow[n] : n \in Streams} \cup {ofSync[p] : p \in Processes}
  <2>1. IsFiniteSet(parts)
    BY <1>4, <1>5, FS_Union
  <2>2. \A T \in parts : IsFiniteSet(T)
    BY <1>2, <1>3
  <2> HIDE DEF parts
  <2>3. IsFiniteSet(UNION parts)
    BY <2>1, <2>2, FS_UNION
  <2> QED BY <2>3 DEF parts
<1>7. FetchNumber = Min((1..(Cardinality(used) + 1)) \ used)
  <2>1. {ofRow[n] : n \in Streams} = {{rows[n].born, rows[n].version} : n \in Streams}
    OBVIOUS
  <2>2. {ofSync[p] : p \in Processes}
          = {{sync[p].at} \cup {sync[p].seen[n] : n \in Streams} : p \in Processes}
    OBVIOUS
  <2> QED BY <2>1, <2>2 DEF FetchNumber
<1> HIDE DEF used
<1>8. (1..(Cardinality(used) + 1)) \ used # {}
  <2>1. Cardinality(used) \in Nat
    BY <1>6, FS_CardinalityType
  <2>2. Cardinality(1..(Cardinality(used) + 1)) = Cardinality(used) + 1
    BY <2>1, FS_Interval
  <2>3. SUFFICES ASSUME 1..(Cardinality(used) + 1) \subseteq used PROVE FALSE
    OBVIOUS
  <2>4. Cardinality(1..(Cardinality(used) + 1)) <= Cardinality(used)
    BY <1>6, <2>3, FS_Subset
  <2> QED BY <2>1, <2>2, <2>4
<1>9. (1..(Cardinality(used) + 1)) \ used \subseteq Nat
  OBVIOUS
<1>10. FetchNumber \in (1..(Cardinality(used) + 1)) \ used
  BY <1>7, <1>8, <1>9, MinOf
<1>11. Cardinality(used) \in Nat
  BY <1>6, FS_CardinalityType
<1> QED BY <1>10, <1>11

LEMMA NowLatest ==
  ASSUME TypeOK
  PROVE  Now \in Nat /\ (snapshot # None => snapshot.stamp < Now)
<1> DEFINE f == [p \in Processes |-> sync[p].stamp]
           s == IF snapshot = None THEN 0 ELSE snapshot.stamp
           S == {f[p] : p \in Processes} \cup {s}
<1>1. IsFiniteSet({f[p] : p \in Processes})
  <2>1. f = [p \in Processes |-> f[p]] /\ IsFiniteSet(Processes)
    BY ConstantsAssumption
  <2> HIDE DEF f
  <2> QED BY <2>1, FiniteImage
<1>2. s \in Nat
  BY DEF TypeOK, Snapshot
<1>3. \A p \in Processes : f[p] \in Nat
  BY DEF TypeOK, Sync
<1>4. S \in SUBSET Nat /\ S # {} /\ s \in S
  BY <1>2, <1>3
<1>5. IsFiniteSet(S)
  BY <1>1, FS_Singleton, FS_Union
<1>6. Now = 1 + Max(S)
  <2>1. {f[p] : p \in Processes} = {sync[p].stamp : p \in Processes}
    OBVIOUS
  <2> QED BY <2>1 DEF Now
<1>7. Max(S) \in S /\ s <= Max(S)
  <2> HIDE DEF S
  <2> QED BY <1>4, <1>5, MaxOf
<1>8. Max(S) \in Nat
  BY <1>4, <1>7
<1>9. Now \in Nat /\ s < Now
  <2> HIDE DEF S, s
  <2> QED BY <1>2, <1>6, <1>7, <1>8
<1> QED BY <1>9

(***************************************************************************)
(* Steps outside the transaction.                                          *)
(***************************************************************************)
LEMMA NullTypes ==
  /\ NoSync \in Sync /\ NoSync.pc = "idle"
  /\ NoCounts \in [Outcomes -> Nat]
  /\ NoRow \in Row
<1>1. NoAnswer \in Answers
  BY DEF NoAnswer, Answers
<1> QED BY <1>1 DEF NoSync, Sync, PCs, NoCounts, NoRow, Row

LEMMA FetchedType ==
  ASSUME NEW p \in Processes, sync[p] \in Sync, NEW answer \in Answers, NEW at \in Nat
  PROVE  /\ Fetched(p, answer, at) \in Sync
         /\ Fetched(p, answer, at).pc = "fetched"
         /\ Fetched(p, answer, at).at = at
BY NullTypes DEF Fetched, NoSync, Sync, PCs

\* Replacing the state of one process by another of the same type.
LEMMA SyncEdit ==
  ASSUME TypeOK, NEW p \in Processes, NEW next \in Sync, sync' = [sync EXCEPT ![p] = next]
  PROVE  /\ sync' \in [Processes -> Sync]
         /\ sync'[p] = next
         /\ \A q \in Processes \ {p} : sync'[q] = sync[q]
BY DEF TypeOK

\* A step that leaves p outside the transaction and writes no stream row.
LEMMA Outside ==
  ASSUME SyncInv, NEW p \in Processes, NEW next \in Sync,
         sync' = [sync EXCEPT ![p] = next],
         UNCHANGED <<rows, snapshot, mirror>>,
         instance' \in Instance, geoip' \in [IPs -> {"none", "hit", "miss"}], begun' \in Nat,
         lock' \in [Streams -> Processes \cup {None}],
         \A n \in Streams : lock'[n] = lock[n] \/ lock[n] = p,
         counts' \in [Processes -> [Outcomes -> Nat]],
         \A q \in Processes \ {p} : counts'[q] = counts[q],
         next.pc # "idle" => counts'[p] = NoCounts,
         next.pc \notin Transaction,
         next.pc = "fetched" => next.at > 0,
         next.pc = "asking" => next.left # {},
         next.pc \in {"locating", "asking", "located"} /\ next.kind # "geo" => next.at > 0
  PROVE  SyncInv'
<1>1. /\ sync' \in [Processes -> Sync]
      /\ sync'[p] = next
      /\ \A q \in Processes \ {p} : sync'[q] = sync[q]
  BY SyncEdit DEF SyncInv
<1>2. TypeOK'
  BY <1>1 DEF SyncInv, TypeOK
<1>3. RowsOK' /\ RowsMirrorLastFetch'
  BY DEF SyncInv, RowsOK, RowsMirrorLastFetch
<1>4. AtOK' /\ AskingOK'
  BY <1>1 DEF SyncInv, AtOK, AskingOK
<1>5. LocksOK'
  <2> SUFFICES ASSUME NEW q \in Processes
               PROVE  /\ sync'[q].pc \in {"writing", "written"} =>
                            \A n \in sync'[q].held : lock'[n] = q /\ rows'[n].born > 0
                      /\ sync'[q].pc = "written" =>
                            \A n \in New(q)' : lock'[n] = q /\ rows'[n] = NoRow
    BY DEF LocksOK
  <2>1. CASE q = p
    BY <1>1, <2>1 DEF Transaction
  <2>2. CASE q # p
    <3>1. sync'[q] = sync[q] /\ New(q)' = New(q) /\ sync[q] \in Sync
      BY <1>1, <2>2 DEF New, SyncInv, TypeOK
    <3>2. sync[q].held \subseteq Streams /\ New(q) \subseteq Streams
      BY <3>1 DEF New, Sync, Answers
    <3>3. \A n \in Streams : lock[n] = q => lock'[n] = q
      BY <2>2
    <3> QED BY <3>1, <3>2, <3>3 DEF SyncInv, LocksOK
  <2> QED BY <2>1, <2>2
<1>6. SeenOK'
  BY <1>1 DEF SyncInv, SeenOK, Transaction
<1>7. AloneOK'
  BY <1>1 DEF SyncInv, AloneOK
<1>8. CountsOK'
  BY <1>1 DEF SyncInv, CountsOK
<1> QED BY <1>2, <1>3, <1>4, <1>5, <1>6, <1>7, <1>8 DEF SyncInv

LEMMA InitSync == Init => SyncInv
<1> SUFFICES ASSUME Init PROVE SyncInv
  OBVIOUS
<1>1. \A p \in Processes : sync[p] = NoSync /\ sync[p].pc = "idle"
  BY NullTypes DEF Init
<1>2. TypeOK
  BY NullTypes DEF Init, TypeOK, Instance, Statuses
<1>3. RowsOK /\ RowsMirrorLastFetch
  BY DEF Init, RowsOK, RowsMirrorLastFetch
<1>4. AtOK /\ AskingOK /\ LocksOK /\ SeenOK /\ AloneOK /\ CountsOK
  BY <1>1 DEF AtOK, AskingOK, LocksOK, SeenOK, AloneOK, CountsOK, Transaction
<1> QED BY <1>2, <1>3, <1>4 DEF SyncInv

LEMMA ReleaseLocks ==
  ASSUME TypeOK, NEW p \in Processes, Release(p)
  PROVE  /\ lock' \in [Streams -> Processes \cup {None}]
         /\ \A n \in Streams : lock'[n] = IF lock[n] = p THEN None ELSE lock[n]
BY DEF TypeOK, Release

LEMMA FinishCounts ==
  ASSUME SyncInv, NEW p \in Processes, NEW outcome \in Outcomes, Finish(p, outcome)
  PROVE  /\ sync' = [sync EXCEPT ![p] = NoSync]
         /\ counts' \in [Processes -> [Outcomes -> Nat]]
         /\ \A q \in Processes \ {p} : counts'[q] = counts[q]
         /\ sync[p].pc # "idle" /\ sync[p].kind = "batch" =>
                counts'[p] = [NoCounts EXCEPT ![outcome] = 1]
<1>1. counts \in [Processes -> [Outcomes -> Nat]]
  BY DEF SyncInv, TypeOK
<1>2. CASE sync[p].kind = "batch"
  <2>1. counts' = [counts EXCEPT ![p][outcome] = @ + 1]
    BY <1>2 DEF Finish
  <2>2. counts[p][outcome] + 1 \in Nat
    BY <1>1
  <2>3. counts' \in [Processes -> [Outcomes -> Nat]]
    BY <1>1, <2>1, <2>2
  <2>4. counts'[p] = [counts[p] EXCEPT ![outcome] = counts[p][outcome] + 1]
    BY <1>1, <2>1
  <2>5. sync[p].pc # "idle" => counts[p] = NoCounts
    BY DEF SyncInv, CountsOK
  <2>6. NoCounts[outcome] + 1 = 1
    BY DEF NoCounts
  <2>7. \A q \in Processes \ {p} : counts'[q] = counts[q]
    BY <1>1, <2>1
  <2> QED BY <2>3, <2>4, <2>5, <2>6, <2>7 DEF Finish
<1>3. CASE sync[p].kind # "batch"
  BY <1>1, <1>3 DEF Finish
<1> QED BY <1>2, <1>3

\* A step that ends p's sync, or lets it start over, and frees what p has locked.
LEMMA Ends ==
  ASSUME SyncInv, NEW p \in Processes, sync[p].pc # "idle", Release(p),
         UNCHANGED <<geoVars, rows, snapshot, mirror, begun>>,
         (Again(p) /\ UNCHANGED counts) \/ Finish(p, "failed")
  PROVE  SyncInv'
<1>1. /\ lock' \in [Streams -> Processes \cup {None}]
      /\ \A n \in Streams : lock'[n] = lock[n] \/ lock[n] = p
  BY ReleaseLocks DEF SyncInv
<1>2. /\ UNCHANGED <<rows, snapshot, mirror>>
      /\ instance' \in Instance /\ geoip' \in [IPs -> {"none", "hit", "miss"}] /\ begun' \in Nat
  BY DEF SyncInv, TypeOK, geoVars
<1>3. CASE Again(p) /\ UNCHANGED counts
  <2> DEFINE kind == sync[p].kind
             retries == sync[p].retries + 1
             next == [NoSync EXCEPT !.pc = "begun", !.kind = kind, !.retries = retries]
  <2>1. kind \in {"request", "task", "batch", "geo"} /\ retries \in Nat
    BY DEF SyncInv, TypeOK, Sync
  <2>2. next \in Sync /\ next.pc = "begun"
    <3> HIDE DEF kind, retries
    <3> QED BY <2>1, NullTypes DEF NoSync, Sync, PCs
  <2>3. sync' = [sync EXCEPT ![p] = next]
    BY <1>3 DEF Again
  <2>4. counts' \in [Processes -> [Outcomes -> Nat]] /\ counts' = counts /\ counts[p] = NoCounts
    BY <1>3 DEF SyncInv, TypeOK, CountsOK
  <2> HIDE DEF next
  <2>5. next.pc \notin Transaction
    BY <2>2 DEF Transaction
  <2> QED BY <1>1, <1>2, <2>2, <2>3, <2>4, <2>5, Outside
<1>4. CASE Finish(p, "failed")
  <2>1. /\ sync' = [sync EXCEPT ![p] = NoSync]
        /\ counts' \in [Processes -> [Outcomes -> Nat]]
        /\ \A q \in Processes \ {p} : counts'[q] = counts[q]
    BY <1>4, FinishCounts DEF Outcomes
  <2>2. NoSync.pc \notin Transaction
    BY NullTypes DEF Transaction
  <2> QED BY <1>1, <1>2, <2>1, <2>2, NullTypes, Outside
<1> QED BY <1>3, <1>4

LEMMA DatabaseErrorSync ==
  ASSUME SyncInv, NEW p \in Processes, DatabaseError(p)
  PROVE  SyncInv'
BY Ends DEF DatabaseError

LEMMA UnexpectedSync ==
  ASSUME SyncInv, NEW p \in Processes, Unexpected(p)
  PROVE  SyncInv'
BY Ends DEF Unexpected

\* What a step of p before or after the transaction leaves alone.
LEMMA Elsewhere ==
  ASSUME SyncInv, NEW p \in Processes, UNCHANGED <<streamVars, begun, counts>>
  PROVE  /\ UNCHANGED <<rows, snapshot, mirror>> /\ begun' \in Nat
         /\ lock' \in [Streams -> Processes \cup {None}]
         /\ \A n \in Streams : lock'[n] = lock[n] \/ lock[n] = p
         /\ counts' \in [Processes -> [Outcomes -> Nat]]
         /\ \A q \in Processes \ {p} : counts'[q] = counts[q]
         /\ sync[p].pc # "idle" => counts'[p] = NoCounts
<1>1. UNCHANGED <<rows, snapshot, mirror, lock, begun, counts>>
  BY DEF streamVars
<1> QED BY <1>1 DEF SyncInv, TypeOK, CountsOK

LEMMA GeoTypes ==
  ASSUME SyncInv, UNCHANGED geoVars
  PROVE  instance' \in Instance /\ geoip' \in [IPs -> {"none", "hit", "miss"}]
BY DEF SyncInv, TypeOK, geoVars

LEMMA BeginSync ==
  ASSUME SyncInv, NEW p \in Processes, NEW kind \in Kinds, Begin(p, kind)
  PROVE  SyncInv'
<1> DEFINE next == [NoSync EXCEPT !.pc = "begun", !.kind = kind]
<1>1. next \in Sync /\ next.pc = "begun"
  BY NullTypes, ConstantsAssumption DEF NoSync, Sync, PCs
<1>2. sync' = [sync EXCEPT ![p] = next] /\ UNCHANGED <<geoVars, rows, lock, snapshot, mirror>>
  BY DEF Begin, streamVars
<1> HIDE DEF next
<1>3. begun' \in Nat
  BY DEF Begin, SyncInv, TypeOK
<1>4. /\ counts' \in [Processes -> [Outcomes -> Nat]] /\ counts'[p] = NoCounts
      /\ \A q \in Processes \ {p} : counts'[q] = counts[q]
  BY NullTypes DEF Begin, SyncInv, TypeOK
<1>5. next.pc \notin Transaction
  BY <1>1 DEF Transaction
<1>6. lock' \in [Streams -> Processes \cup {None}] /\ \A n \in Streams : lock'[n] = lock[n]
  BY <1>2 DEF SyncInv, TypeOK
<1> QED BY <1>1, <1>2, <1>3, <1>4, <1>5, <1>6, GeoTypes, Outside

LEMMA LoadSync ==
  ASSUME SyncInv, NEW p \in Processes, Load(p)
  PROVE  SyncInv'
<1> DEFINE next == [sync[p] EXCEPT !.pc = "loaded", !.hash = instance.hash]
<1>1. sync[p] \in Sync /\ instance.hash \subseteq IPs
  BY DEF SyncInv, TypeOK, Instance
<1>2. next \in Sync /\ next.pc = "loaded"
  BY <1>1 DEF Sync, PCs
<1>3. sync' = [sync EXCEPT ![p] = next]
  BY DEF Load, SyncInv, TypeOK
<1> HIDE DEF next
<1>4. next.pc \notin Transaction
  BY <1>2 DEF Transaction
<1>5. sync[p].pc # "idle" /\ UNCHANGED <<geoVars, streamVars, begun, counts>>
  BY DEF Load
<1> QED BY <1>2, <1>3, <1>4, <1>5, Elsewhere, GeoTypes, Outside

LEMMA FetchSync ==
  ASSUME SyncInv, NEW p \in Processes, Fetch(p)
  PROVE  SyncInv'
<1>1. PICK answer \in Answers : \E ips \in SUBSET IPs :
        /\ sync' = [sync EXCEPT ![p] =
                IF ips \in {{}, sync[p].hash} THEN Fetched(p, answer, FetchNumber)
                ELSE [Fetched(p, answer, FetchNumber) EXCEPT
                        !.pc = "locating", !.ips = ips, !.left = ips \cap PublicIPs]]
        /\ instance' = IF ips = {} THEN instance ELSE [instance EXCEPT !.resolved = ips]
  BY DEF Fetch
<1>2. PICK ips \in SUBSET IPs :
        /\ sync' = [sync EXCEPT ![p] =
                IF ips \in {{}, sync[p].hash} THEN Fetched(p, answer, FetchNumber)
                ELSE [Fetched(p, answer, FetchNumber) EXCEPT
                        !.pc = "locating", !.ips = ips, !.left = ips \cap PublicIPs]]
        /\ instance' = IF ips = {} THEN instance ELSE [instance EXCEPT !.resolved = ips]
  BY <1>1
<1> DEFINE done == Fetched(p, answer, FetchNumber)
           next == IF ips \in {{}, sync[p].hash} THEN done
                   ELSE [done EXCEPT !.pc = "locating", !.ips = ips, !.left = ips \cap PublicIPs]
<1>3. sync[p] \in Sync
  BY DEF SyncInv, TypeOK
<1>4. FetchNumber \in Nat /\ FetchNumber > 0
  BY FetchNumberType DEF SyncInv
<1>5. done \in Sync /\ done.pc = "fetched" /\ done.at > 0
  BY <1>3, <1>4, FetchedType
<1>6. sync' = [sync EXCEPT ![p] = next]
  BY <1>2
<1> HIDE DEF done
<1>7. next \in Sync /\ next.pc \in {"fetched", "locating"} /\ next.at > 0
  BY <1>5 DEF Sync, PCs
<1> HIDE DEF next
<1>8. next.pc \notin Transaction
  BY <1>7 DEF Transaction
<1>9. instance' \in Instance
  BY <1>2 DEF SyncInv, TypeOK, Instance
<1>10. geoip' \in [IPs -> {"none", "hit", "miss"}]
  BY DEF Fetch, SyncInv, TypeOK
<1>11. sync[p].pc # "idle" /\ UNCHANGED <<streamVars, begun, counts>>
  BY DEF Fetch
<1> QED BY <1>6, <1>7, <1>8, <1>9, <1>10, <1>11, Elsewhere, Outside

LEMMA ResolveSync ==
  ASSUME SyncInv, NEW p \in Processes, Resolve(p)
  PROVE  SyncInv'
<1>1. PICK ips \in SUBSET IPs :
        sync' = [sync EXCEPT ![p] = IF ips = {} THEN NoSync
            ELSE [@ EXCEPT !.pc = "locating", !.ips = ips, !.left = ips \cap PublicIPs]]
  BY DEF Resolve
<1> DEFINE next == IF ips = {} THEN NoSync
            ELSE [sync[p] EXCEPT !.pc = "locating", !.ips = ips, !.left = ips \cap PublicIPs]
<1>2. sync[p] \in Sync /\ sync[p].kind = "geo" /\ sync[p].pc # "idle"
  BY DEF SyncInv, TypeOK, Resolve
<1>3. sync' = [sync EXCEPT ![p] = next]
  BY <1>1 DEF SyncInv, TypeOK
<1>4. CASE ips = {}
  <2>1. next \in Sync /\ next.pc = "idle"
    BY <1>4, NullTypes
  <2> HIDE DEF next
  <2>2. next.pc \notin Transaction
    BY <2>1 DEF Transaction
  <2> QED BY <1>2, <1>3, <2>1, <2>2, Elsewhere, GeoTypes, Outside DEF Resolve
<1>5. CASE ips # {}
  <2>1. next \in Sync /\ next.pc = "locating" /\ next.kind = "geo"
    BY <1>2, <1>5 DEF Sync, PCs
  <2> HIDE DEF next
  <2>2. next.pc \notin Transaction
    BY <2>1 DEF Transaction
  <2> QED BY <1>2, <1>3, <2>1, <2>2, Elsewhere, GeoTypes, Outside DEF Resolve
<1> QED BY <1>4, <1>5

\* A process that locates addresses stays where it is, but for its progress.
LEMMA Locates ==
  ASSUME SyncInv, NEW p \in Processes, NEW next \in Sync,
         sync' = [sync EXCEPT ![p] = next],
         UNCHANGED <<streamVars, begun, counts>>,
         instance' \in Instance, geoip' \in [IPs -> {"none", "hit", "miss"}],
         sync[p].pc \in {"locating", "asking", "located"},
         next.pc \in {"locating", "asking", "located"},
         next.kind = sync[p].kind, next.at = sync[p].at,
         next.pc = "asking" => next.left # {}
  PROVE  SyncInv'
<1>1. next.kind # "geo" => next.at > 0
  BY DEF SyncInv, AtOK
<1>2. next.pc \notin Transaction
  BY DEF Transaction
<1> QED BY <1>1, <1>2, Elsewhere, Outside

LEMMA TurnType ==
  ASSUME TypeOK, NEW p \in Processes, sync[p].left # {}
  PROVE  Turn(p) \in IPs
<1>1. sync[p].left \subseteq IPs /\ IPs \subseteq Nat
  BY ConstantsAssumption DEF TypeOK, Sync
<1>2. Min(sync[p].left) \in sync[p].left
  BY <1>1, MinOf
<1> QED BY <1>1, <1>2 DEF Turn

LEMMA LookupIPSync ==
  ASSUME SyncInv, NEW p \in Processes, LookupIP(p)
  PROVE  SyncInv'
<1> DEFINE turn == Turn(p)
           next == IF sync[p].left = {} THEN [sync[p] EXCEPT !.pc = "located"]
            ELSE IF sync[p].kind = "geo" \/ geoip[turn] = "none"
                 THEN [sync[p] EXCEPT !.pc = "asking"]
            ELSE IF geoip[turn] = "hit" THEN [sync[p] EXCEPT !.pc = "located", !.found = turn]
            ELSE [sync[p] EXCEPT !.left = sync[p].left \ {turn}]
<1>1. sync[p] \in Sync /\ sync[p].pc = "locating" /\ sync \in [Processes -> Sync]
  BY DEF SyncInv, TypeOK, LookupIP
<1>2. sync[p].left # {} => turn \in IPs
  BY TurnType DEF SyncInv
<1>3. sync' = [sync EXCEPT ![p] = next]
  BY <1>1 DEF LookupIP
<1> HIDE DEF turn
<1>4. /\ next \in Sync /\ next.pc \in {"locating", "asking", "located"}
      /\ next.kind = sync[p].kind /\ next.at = sync[p].at
      /\ next.pc = "asking" => next.left # {}
  BY <1>1, <1>2 DEF Sync, PCs
<1> HIDE DEF next
<1>5. UNCHANGED <<geoVars, streamVars, begun, counts>>
  BY DEF LookupIP
<1> QED BY <1>1, <1>3, <1>4, <1>5, GeoTypes, Locates

LEMMA AskIPSync ==
  ASSUME SyncInv, NEW p \in Processes, AskIP(p)
  PROVE  SyncInv'
<1> DEFINE turn == Turn(p)
           next(found) == IF found THEN [sync[p] EXCEPT !.pc = "located", !.found = turn]
                          ELSE [sync[p] EXCEPT !.pc = "locating", !.left = sync[p].left \ {turn}]
<1>1. sync[p] \in Sync /\ sync[p].pc = "asking" /\ sync \in [Processes -> Sync]
  BY DEF SyncInv, TypeOK, AskIP
<1>2. turn \in IPs
  BY <1>1, TurnType DEF SyncInv, AskingOK
<1>3. PICK found \in BOOLEAN : \E stored \in BOOLEAN :
        /\ sync' = [sync EXCEPT ![p] = next(found)]
        /\ geoip' = IF ~stored THEN geoip
                    ELSE [geoip EXCEPT ![turn] = IF found THEN "hit" ELSE "miss"]
  BY <1>1 DEF AskIP
<1> HIDE DEF turn
<1>4. /\ next(found) \in Sync /\ next(found).pc \in {"locating", "asking", "located"}
      /\ next(found).kind = sync[p].kind /\ next(found).at = sync[p].at
      /\ next(found).pc # "asking"
  BY <1>1, <1>2 DEF Sync, PCs
<1>5. sync' = [sync EXCEPT ![p] = next(found)]
  BY <1>3
<1> HIDE DEF next
<1>6. geoip' \in [IPs -> {"none", "hit", "miss"}]
  BY <1>3 DEF SyncInv, TypeOK
<1>7. instance' \in Instance /\ UNCHANGED <<streamVars, begun, counts>>
  BY DEF AskIP, SyncInv, TypeOK
<1> QED BY <1>1, <1>4, <1>5, <1>6, <1>7, Locates

LEMMA SaveGeoSync ==
  ASSUME SyncInv, NEW p \in Processes, SaveGeo(p)
  PROVE  SyncInv'
<1> DEFINE done == Fetched(p, sync[p].answer, sync[p].at)
           next == IF sync[p].kind = "geo" THEN NoSync ELSE done
<1>1. sync[p] \in Sync /\ sync[p].pc = "located" /\ sync \in [Processes -> Sync]
  BY DEF SyncInv, TypeOK, SaveGeo
<1>2. sync[p].answer \in Answers /\ sync[p].at \in Nat /\ sync[p].ips \subseteq IPs
      /\ sync[p].found \in IPs \cup {None}
  BY <1>1 DEF Sync
<1>3. done \in Sync /\ done.pc = "fetched" /\ done.at = sync[p].at
  BY <1>1, <1>2, FetchedType
<1>4. sync' = [sync EXCEPT ![p] = next]
  BY <1>1 DEF SaveGeo
<1>5. sync[p].kind # "geo" => sync[p].at > 0
  BY <1>1 DEF SyncInv, AtOK
<1> HIDE DEF done
<1>6. next \in Sync /\ next.pc \in {"idle", "fetched"} /\ (next.pc = "fetched" => next.at > 0)
  BY <1>3, <1>5, NullTypes
<1> HIDE DEF next
<1>7. next.pc \notin Transaction
  BY <1>6 DEF Transaction
<1>8. instance' \in Instance
  BY <1>2 DEF SaveGeo, SyncInv, TypeOK, Instance
<1>9. geoip' \in [IPs -> {"none", "hit", "miss"}] /\ UNCHANGED <<streamVars, begun, counts>>
  BY DEF SaveGeo, SyncInv, TypeOK
<1> QED BY <1>1, <1>4, <1>6, <1>7, <1>8, <1>9, Elsewhere, Outside

\* A step that saves a status and ends p's sync.
LEMMA Finishes ==
  ASSUME SyncInv, NEW p \in Processes, NEW outcome \in Outcomes, Finish(p, outcome),
         UNCHANGED <<geoip, streamVars, begun>>, instance' \in Instance
  PROVE  SyncInv'
<1>1. /\ sync' = [sync EXCEPT ![p] = NoSync]
      /\ counts' \in [Processes -> [Outcomes -> Nat]]
      /\ \A q \in Processes \ {p} : counts'[q] = counts[q]
  BY FinishCounts
<1>2. /\ UNCHANGED <<rows, snapshot, mirror>> /\ begun' \in Nat
      /\ lock' \in [Streams -> Processes \cup {None}] /\ lock' = lock
      /\ geoip' \in [IPs -> {"none", "hit", "miss"}]
  BY DEF streamVars, SyncInv, TypeOK
<1>3. NoSync.pc \notin Transaction
  BY NullTypes DEF Transaction
<1> QED BY <1>1, <1>2, <1>3, NullTypes, Outside

LEMMA StatusType ==
  ASSUME SyncInv, NEW status \in Statuses, instance' = [instance EXCEPT !.status = status]
  PROVE  instance' \in Instance
BY DEF SyncInv, TypeOK, Instance

LEMMA StoreFailedSync ==
  ASSUME SyncInv, NEW p \in Processes, StoreFailed(p)
  PROVE  SyncInv'
<1>1. instance' \in Instance
  BY StatusType DEF StoreFailed, Statuses
<1> QED BY <1>1, Finishes DEF StoreFailed, Outcomes

LEMMA StoreUnauthorizedSync ==
  ASSUME SyncInv, NEW p \in Processes, StoreUnauthorized(p)
  PROVE  SyncInv'
<1>1. instance' \in Instance
  BY StatusType DEF StoreUnauthorized, Statuses
<1> QED BY <1>1, Finishes DEF StoreUnauthorized, Outcomes

LEMMA SaveStatusSync ==
  ASSUME SyncInv, NEW p \in Processes, SaveStatus(p)
  PROVE  SyncInv'
<1> DEFINE status == IF sync[p].answer.unauthorized THEN "UNAUTHORIZED" ELSE "SUCCESS"
           outcome == IF sync[p].answer.unauthorized THEN "unauthorized" ELSE "synced"
<1>1. status \in Statuses /\ outcome \in Outcomes
  BY DEF Statuses, Outcomes
<1>2. instance' = [instance EXCEPT !.status = status] /\ Finish(p, outcome)
      /\ UNCHANGED <<geoip, streamVars, begun>>
  BY DEF SaveStatus
<1> HIDE DEF status, outcome
<1>3. instance' \in Instance
  BY <1>1, <1>2, StatusType
<1> QED BY <1>1, <1>2, <1>3, Finishes

(***************************************************************************)
(* Steps of the transaction.                                               *)
(***************************************************************************)
LEMMA ReadPreviousSync ==
  ASSUME SyncInv, NEW p \in Processes, ReadPrevious(p)
  PROVE  SyncInv'
<1> DEFINE previous == IF snapshot = None THEN None ELSE snapshot.config
           alone == \A r \in Processes : ~InTransaction(r)
           next == [sync[p] EXCEPT !.pc = "listing", !.previous = previous, !.alone = alone]
<1>1. /\ sync \in [Processes -> Sync] /\ sync[p] \in Sync /\ sync[p].pc = "fetched"
      /\ UNCHANGED <<geoVars, rows, lock, snapshot, mirror, begun, counts>>
  BY DEF SyncInv, TypeOK, ReadPrevious, streamVars
<1>2. previous \in Configs \cup {Hidden, None} /\ alone \in BOOLEAN
  BY DEF SyncInv, TypeOK, Snapshot
<1>3. /\ sync'[p] = next
      /\ sync' = [q \in Processes |-> IF q = p THEN next
            ELSE IF InTransaction(q) THEN [sync[q] EXCEPT !.alone = FALSE] ELSE sync[q]]
  BY DEF ReadPrevious
<1>4. alone <=> \A r \in Processes : sync[r].pc \notin Transaction
  BY DEF InTransaction, Transaction
<1> HIDE DEF previous, alone
<1>5. /\ next \in Sync /\ next.pc = "listing" /\ next.previous = previous
      /\ next.alone = alone /\ next.at = sync[p].at
  BY <1>1, <1>2 DEF Sync, PCs
<1> HIDE DEF next
<1>6. ASSUME NEW q \in Processes, q # p
      PROVE  /\ sync'[q] \in Sync
             /\ sync'[q].pc = sync[q].pc /\ sync'[q].kind = sync[q].kind
             /\ sync'[q].at = sync[q].at /\ sync'[q].held = sync[q].held
             /\ sync'[q].seen = sync[q].seen /\ sync'[q].left = sync[q].left
             /\ sync'[q].answer = sync[q].answer /\ sync'[q].missed = sync[q].missed
             /\ sync'[q].pc \in Transaction => sync'[q].alone = FALSE
  <2>1. sync[q] \in Sync
    BY <1>1
  <2>2. InTransaction(q) <=> sync[q].pc \in Transaction
    BY DEF InTransaction, Transaction
  <2>3. sync'[q] = IF InTransaction(q) THEN [sync[q] EXCEPT !.alone = FALSE] ELSE sync[q]
    BY <1>3, <1>6
  <2>4. CASE InTransaction(q)
    <3>1. sync'[q] = [sync[q] EXCEPT !.alone = FALSE]
      BY <2>3, <2>4
    <3>2. sync'[q] \in Sync
      BY <2>1, <3>1 DEF Sync
    <3>3. sync'[q].alone = FALSE
      BY <2>1, <3>1 DEF Sync
    <3> QED BY <2>1, <3>1, <3>2, <3>3 DEF Sync
  <2>5. CASE ~InTransaction(q)
    BY <2>1, <2>2, <2>3, <2>5
  <2> QED BY <2>4, <2>5
<1>7. sync' \in [Processes -> Sync]
  <2>1. \A q \in Processes : sync'[q] \in Sync
    BY <1>3, <1>5, <1>6
  <2>2. sync' = [q \in Processes |-> sync'[q]]
    BY <1>3
  <2> QED BY <2>1, <2>2
<1>8. TypeOK'
  BY <1>1, <1>7 DEF SyncInv, TypeOK, geoVars
<1>9. RowsOK' /\ RowsMirrorLastFetch'
  BY <1>1 DEF SyncInv, RowsOK, RowsMirrorLastFetch
<1>10. AtOK' /\ AskingOK'
  BY <1>1, <1>3, <1>5, <1>6 DEF SyncInv, AtOK, AskingOK
<1>11. LocksOK'
  <2> SUFFICES ASSUME NEW q \in Processes, q # p
               PROVE  /\ sync'[q].pc \in {"writing", "written"} =>
                            \A n \in sync'[q].held : lock'[n] = q /\ rows'[n].born > 0
                      /\ sync'[q].pc = "written" =>
                            \A n \in New(q)' : lock'[n] = q /\ rows'[n] = NoRow
    BY <1>3, <1>5 DEF LocksOK
  <2>1. New(q)' = New(q) /\ sync'[q].pc = sync[q].pc /\ sync'[q].held = sync[q].held
    BY <1>6 DEF New
  <2>2. lock' = lock /\ rows' = rows
    BY <1>1
  <2>3. LocksOK
    BY DEF SyncInv
  <2> QED BY <2>1, <2>2, <2>3 DEF LocksOK
<1>12. SeenOK'
  BY <1>1, <1>3, <1>5, <1>6 DEF SyncInv, SeenOK
<1>13. AloneOK'
  <2> SUFFICES ASSUME NEW q \in Processes, sync'[q].pc \in Transaction, sync'[q].alone
               PROVE  /\ \A r \in Processes \ {q} : sync'[r].pc \notin Transaction
                      /\ sync'[q].previous = IF snapshot' = None THEN None ELSE snapshot'.config
                      /\ sync'[q].pc = "written" /\ snapshot' # None =>
                            snapshot'.stamp < sync'[q].stamp
    BY DEF AloneOK
  <2>1. q = p
    BY <1>6
  <2>2. alone
    BY <1>3, <1>5, <2>1
  <2> QED BY <1>1, <1>3, <1>4, <1>5, <1>6, <2>1, <2>2 DEF previous
<1>14. CountsOK'
  BY <1>1, <1>3, <1>6 DEF SyncInv, CountsOK
<1> QED BY <1>8, <1>9, <1>10, <1>11, <1>12, <1>13, <1>14 DEF SyncInv

\* A step from one statement of p's transaction to the next.
LEMMA Inside ==
  ASSUME SyncInv, NEW p \in Processes, NEW next \in Sync,
         sync' = [sync EXCEPT ![p] = next],
         UNCHANGED <<geoVars, rows, snapshot, mirror, begun, counts>>,
         lock' \in [Streams -> Processes \cup {None}],
         \A n \in Streams : lock'[n] = lock[n] \/ lock[n] = None,
         sync[p].pc \in Transaction, next.pc \in {"locking", "writing", "written"},
         next.at = sync[p].at, next.previous = sync[p].previous,
         next.missed = sync[p].missed, next.alone = sync[p].alone,
         next.pc \in {"writing", "written"} =>
            \A n \in next.held : lock'[n] = p /\ rows[n].born > 0,
         next.pc = "written" =>
            \A n \in next.answer.streams \ next.held : lock'[n] = p /\ rows[n] = NoRow,
         ~next.missed => \A n \in Streams : rows[n].born > 0 =>
            /\ next.pc = "locking" => next.seen[n] = rows[n].born
            /\ next.pc \in {"writing", "written"} => n \in next.held,
         next.pc = "written" /\ snapshot # None => snapshot.stamp < next.stamp
  PROVE  SyncInv'
<1>1. /\ sync' \in [Processes -> Sync]
      /\ sync'[p] = next
      /\ \A q \in Processes \ {p} : sync'[q] = sync[q]
  BY SyncEdit DEF SyncInv
<1>2. next.pc \in Transaction /\ next.pc \notin {"idle", "asking", "locating", "located"}
  BY DEF Transaction
<1>3. TypeOK'
  BY <1>1 DEF SyncInv, TypeOK, geoVars
<1>4. RowsOK' /\ RowsMirrorLastFetch'
  BY DEF SyncInv, RowsOK, RowsMirrorLastFetch
<1>5. AtOK' /\ AskingOK'
  BY <1>1, <1>2 DEF SyncInv, AtOK, AskingOK
<1>6. LocksOK'
  <2> SUFFICES ASSUME NEW q \in Processes
               PROVE  /\ sync'[q].pc \in {"writing", "written"} =>
                            \A n \in sync'[q].held : lock'[n] = q /\ rows'[n].born > 0
                      /\ sync'[q].pc = "written" =>
                            \A n \in New(q)' : lock'[n] = q /\ rows'[n] = NoRow
    BY DEF LocksOK
  <2>1. CASE q = p
    <3>1. New(q)' = next.answer.streams \ next.held
      BY <1>1, <2>1 DEF New
    <3> QED BY <1>1, <2>1, <3>1
  <2>2. CASE q # p
    <3>1. sync'[q] = sync[q] /\ New(q)' = New(q) /\ sync[q] \in Sync
      BY <1>1, <2>2 DEF New, SyncInv, TypeOK
    <3>2. sync[q].held \subseteq Streams /\ New(q) \subseteq Streams
      BY <3>1 DEF New, Sync, Answers
    <3>3. \A n \in Streams : lock[n] = q => lock'[n] = q
      BY ConstantsAssumption
    <3> QED BY <3>1, <3>2, <3>3 DEF SyncInv, LocksOK
  <2> QED BY <2>1, <2>2
<1>7. SeenOK'
  BY <1>1 DEF SyncInv, SeenOK
<1>8. AloneOK'
  <2> SUFFICES ASSUME NEW q \in Processes, sync'[q].pc \in Transaction, sync'[q].alone
               PROVE  /\ \A r \in Processes \ {q} : sync'[r].pc \notin Transaction
                      /\ sync'[q].previous = IF snapshot' = None THEN None ELSE snapshot'.config
                      /\ sync'[q].pc = "written" /\ snapshot' # None =>
                            snapshot'.stamp < sync'[q].stamp
    BY DEF AloneOK
  <2>1. q = p
    BY <1>1, <1>2 DEF SyncInv, AloneOK
  <2>2. snapshot' = snapshot
    OBVIOUS
  <2> QED BY <1>1, <2>1, <2>2 DEF SyncInv, AloneOK
<1>9. CountsOK'
  <2>1. sync[p].pc # "idle"
    BY DEF Transaction
  <2> QED BY <1>1, <2>1 DEF SyncInv, CountsOK
<1> QED BY <1>3, <1>4, <1>5, <1>6, <1>7, <1>8, <1>9 DEF SyncInv

LEMMA ListSync ==
  ASSUME SyncInv, NEW p \in Processes, List(p)
  PROVE  SyncInv'
<1> DEFINE seen == [n \in Streams |-> rows[n].born]
           next == [sync[p] EXCEPT !.pc = "locking", !.seen = seen]
<1>1. /\ sync[p] \in Sync /\ sync[p].pc = "listing" /\ sync \in [Processes -> Sync]
      /\ UNCHANGED <<geoVars, rows, lock, snapshot, mirror, begun, counts>>
  BY DEF SyncInv, TypeOK, List, streamVars
<1>2. seen \in [Streams -> Nat]
  BY DEF SyncInv, TypeOK, Row
<1>3. \A n \in Streams : seen[n] = rows[n].born
  OBVIOUS
<1>4. sync' = [sync EXCEPT ![p] = next]
  BY <1>1 DEF List
<1> HIDE DEF seen
<1>5. /\ next \in Sync /\ next.pc = "locking" /\ next.seen = seen /\ next.at = sync[p].at
      /\ next.previous = sync[p].previous
      /\ next.missed = sync[p].missed /\ next.alone = sync[p].alone
  BY <1>1, <1>2 DEF Sync, PCs
<1> HIDE DEF next
<1>6. sync[p].pc \in Transaction
  BY <1>1 DEF Transaction
<1>7. lock' \in [Streams -> Processes \cup {None}] /\ \A n \in Streams : lock'[n] = lock[n]
  BY <1>1 DEF SyncInv, TypeOK
<1> QED BY <1>1, <1>3, <1>4, <1>5, <1>6, <1>7, Inside

LEMMA LockRowsSync ==
  ASSUME SyncInv, NEW p \in Processes, LockRows(p)
  PROVE  SyncInv'
<1> DEFINE held == {n \in Listed(p) : rows[n].born = sync[p].seen[n]}
           next == [sync[p] EXCEPT !.pc = "writing", !.held = held, !.seen = NoSync.seen]
<1>1. /\ sync[p] \in Sync /\ sync[p].pc = "locking" /\ sync \in [Processes -> Sync]
      /\ UNCHANGED <<geoVars, rows, snapshot, mirror, begun, counts>>
  BY DEF SyncInv, TypeOK, LockRows
<1>2. held \subseteq Streams /\ NoSync.seen \in [Streams -> Nat]
  BY DEF Listed, NoSync
<1>3. /\ \A n \in held : lock[n] = None
      /\ lock' = [n \in Streams |-> IF n \in held THEN p ELSE lock[n]]
      /\ sync' = [sync EXCEPT ![p] = next]
  BY <1>1 DEF LockRows
<1>4. \A n \in held : rows[n].born > 0
  BY DEF Listed
<1>5. ~sync[p].missed => \A n \in Streams : rows[n].born > 0 => n \in held
  BY <1>1 DEF SyncInv, SeenOK, Listed
<1> HIDE DEF held
<1>6. /\ next \in Sync /\ next.pc = "writing" /\ next.held = held /\ next.at = sync[p].at
      /\ next.previous = sync[p].previous
      /\ next.missed = sync[p].missed /\ next.alone = sync[p].alone
  <2> DEFINE seen == NoSync.seen
  <2>1. seen \in [Streams -> Nat]
    BY <1>2
  <2> HIDE DEF seen
  <2>2. next = [sync[p] EXCEPT !.pc = "writing", !.held = held, !.seen = seen]
    BY DEF seen
  <2> QED BY <1>1, <1>2, <2>1, <2>2 DEF Sync, PCs
<1> HIDE DEF next
<1>7. sync[p].pc \in Transaction
  BY <1>1 DEF Transaction
<1>8. /\ lock' \in [Streams -> Processes \cup {None}]
      /\ \A n \in Streams : lock'[n] = lock[n] \/ lock[n] = None
      /\ \A n \in held : lock'[n] = p
  BY <1>2, <1>3 DEF SyncInv, TypeOK
<1> QED BY <1>1, <1>3, <1>4, <1>5, <1>6, <1>7, <1>8, Inside

LEMMA WriteSync ==
  ASSUME SyncInv, NEW p \in Processes, Write(p)
  PROVE  SyncInv'
<1> DEFINE now == Now
           next == [sync[p] EXCEPT !.pc = "written", !.stamp = now]
<1>1. /\ sync[p] \in Sync /\ sync[p].pc = "writing" /\ sync \in [Processes -> Sync]
      /\ UNCHANGED <<geoVars, rows, snapshot, mirror, begun, counts>>
  BY DEF SyncInv, TypeOK, Write
<1>2. now \in Nat /\ (snapshot # None => snapshot.stamp < now)
  BY NowLatest DEF SyncInv
<1>3. /\ \A n \in New(p) : lock[n] = None /\ rows[n] = NoRow
      /\ lock' = [n \in Streams |-> IF n \in New(p) THEN p ELSE lock[n]]
      /\ sync' = [sync EXCEPT ![p] = next]
  BY <1>1 DEF Write
<1> HIDE DEF now
<1>4. /\ next \in Sync /\ next.pc = "written" /\ next.stamp = now /\ next.at = sync[p].at
      /\ next.held = sync[p].held /\ next.answer = sync[p].answer
      /\ next.previous = sync[p].previous
      /\ next.missed = sync[p].missed /\ next.alone = sync[p].alone
  BY <1>1, <1>2 DEF Sync, PCs
<1> HIDE DEF next
<1>5. sync[p].pc \in Transaction
  BY <1>1 DEF Transaction
<1>6. New(p) \subseteq Streams /\ next.answer.streams \ next.held = New(p)
      /\ sync[p].held \subseteq Streams
  BY <1>1, <1>4 DEF New, Sync, Answers
<1>7. \A n \in sync[p].held : lock[n] = p /\ rows[n].born > 0
  BY <1>1 DEF SyncInv, LocksOK
<1>8. /\ lock' \in [Streams -> Processes \cup {None}]
      /\ \A n \in Streams : lock'[n] = lock[n] \/ lock[n] = None
      /\ \A n \in New(p) : lock'[n] = p
      /\ \A n \in sync[p].held : lock'[n] = p
  BY <1>3, <1>6, <1>7 DEF SyncInv, TypeOK
<1>9. ~sync[p].missed => \A n \in Streams : rows[n].born > 0 => n \in sync[p].held
  BY <1>1 DEF SyncInv, SeenOK
<1> QED BY <1>1, <1>2, <1>3, <1>4, <1>5, <1>6, <1>7, <1>8, <1>9, Inside

\* What a commit makes of each row.
LEMMA StoredRows ==
  ASSUME SyncInv, NEW p \in Processes, sync[p].pc = "written", rows' = Stored(p)
  PROVE  /\ rows' \in [Streams -> Row]
         /\ sync[p].at > 0
         /\ \A n \in Streams :
            /\ n \in New(p) => rows'[n].born = sync[p].at /\ rows'[n].version = sync[p].at
            /\ n \notin New(p) \cup sync[p].held => rows'[n] = rows[n]
            /\ n \in sync[p].held =>
                IF n \in sync[p].answer.streams
                THEN rows[n].born > 0 /\ rows'[n].born = rows[n].born /\ rows'[n].version = sync[p].at
                ELSE rows'[n] = NoRow
<1>1. sync[p].at \in Nat /\ sync[p].at > 0 /\ rows \in [Streams -> Row]
  BY DEF SyncInv, TypeOK, Sync, AtOK, Transaction
<1>2. \A n \in sync[p].held : rows[n].born > 0
  BY DEF SyncInv, LocksOK
<1>3. ASSUME NEW n \in Streams
      PROVE  /\ rows'[n] \in Row
             /\ n \in New(p) => rows'[n].born = sync[p].at /\ rows'[n].version = sync[p].at
             /\ n \notin New(p) \cup sync[p].held => rows'[n] = rows[n]
             /\ n \in sync[p].held =>
                IF n \in sync[p].answer.streams
                THEN rows[n].born > 0 /\ rows'[n].born = rows[n].born /\ rows'[n].version = sync[p].at
                ELSE rows'[n] = NoRow
  <2>1. rows[n] \in Row
    BY <1>1
  <2>2. rows'[n] = IF n \in New(p) THEN [born |-> sync[p].at, version |-> sync[p].at]
                   ELSE IF n \notin sync[p].held THEN rows[n]
                   ELSE IF n \in sync[p].answer.streams
                        THEN [rows[n] EXCEPT !.version = sync[p].at]
                   ELSE NoRow
    BY DEF Stored
  <2>3. CASE n \in New(p)
    <3>1. n \notin sync[p].held
      BY <2>3 DEF New
    <3> QED BY <1>1, <2>2, <2>3, <3>1 DEF Row
  <2>4. CASE n \notin New(p) /\ n \notin sync[p].held
    BY <2>1, <2>2, <2>4
  <2>5. CASE n \in sync[p].held
    <3>1. n \notin New(p)
      BY <2>5 DEF New
    <3> QED BY <1>1, <1>2, <2>1, <2>2, <2>5, <3>1, NullTypes DEF Row
  <2> QED BY <2>3, <2>4, <2>5
<1>4. rows' \in [Streams -> Row]
  <2>1. rows' = [n \in Streams |-> rows'[n]]
    BY DEF Stored
  <2>2. \A n \in Streams : rows'[n] \in Row
    BY <1>3
  <2> QED BY <2>1, <2>2
<1> QED BY <1>1, <1>3, <1>4

LEMMA CommitSync ==
  ASSUME SyncInv, NEW p \in Processes, Commit(p)
  PROVE  SyncInv'
<1> DEFINE next == [Fetched(p, sync[p].answer, 0) EXCEPT !.pc = "committed"]
<1>1. /\ sync \in [Processes -> Sync] /\ sync[p] \in Sync /\ sync[p].pc = "written"
      /\ rows' = Stored(p) /\ Release(p) /\ UNCHANGED <<geoVars, begun, counts>>
  BY DEF SyncInv, TypeOK, Commit
<1>2. /\ sync[p].answer \in Answers /\ sync[p].at \in Nat /\ sync[p].stamp \in Nat
      /\ sync[p].held \subseteq Streams /\ New(p) \subseteq Streams
      /\ sync[p].answer.streams \subseteq Streams
      /\ sync[p].answer.config \in Configs \cup {Hidden}
  BY <1>1 DEF Sync, New, Answers
<1>3. /\ sync'[p] = next
      /\ sync' = [q \in Processes |-> IF q = p THEN next
            ELSE IF InTransaction(q) /\ New(p) # {} THEN [sync[q] EXCEPT !.missed = TRUE]
            ELSE sync[q]]
  BY DEF Commit
<1>4. next \in Sync /\ next.pc = "committed"
  <2> DEFINE done == Fetched(p, sync[p].answer, 0)
  <2>1. done \in Sync
    BY <1>1, <1>2, FetchedType
  <2> HIDE DEF done
  <2>2. [done EXCEPT !.pc = "committed"] \in Sync /\ [done EXCEPT !.pc = "committed"].pc = "committed"
    BY <2>1 DEF Sync, PCs
  <2> QED BY <2>2 DEF done
<1> HIDE DEF next
<1>5. ASSUME NEW q \in Processes, q # p
      PROVE  /\ sync'[q] \in Sync
             /\ sync'[q].pc = sync[q].pc /\ sync'[q].kind = sync[q].kind
             /\ sync'[q].at = sync[q].at /\ sync'[q].held = sync[q].held
             /\ sync'[q].seen = sync[q].seen /\ sync'[q].left = sync[q].left
             /\ sync'[q].answer = sync[q].answer /\ sync'[q].alone = sync[q].alone
             /\ ~sync'[q].missed => ~sync[q].missed /\ (sync[q].pc \notin Transaction \/ New(p) = {})
  <2>1. sync[q] \in Sync
    BY <1>1
  <2>2. InTransaction(q) <=> sync[q].pc \in Transaction
    BY DEF InTransaction, Transaction
  <2>3. sync'[q] = IF InTransaction(q) /\ New(p) # {} THEN [sync[q] EXCEPT !.missed = TRUE]
                   ELSE sync[q]
    BY <1>3, <1>5
  <2>4. CASE InTransaction(q) /\ New(p) # {}
    <3>1. sync'[q] = [sync[q] EXCEPT !.missed = TRUE]
      BY <2>3, <2>4
    <3>2. sync'[q] \in Sync
      BY <2>1, <3>1 DEF Sync
    <3>3. sync'[q].missed = TRUE
      BY <2>1, <3>1 DEF Sync
    <3> QED BY <2>1, <3>1, <3>2, <3>3 DEF Sync
  <2>5. CASE ~(InTransaction(q) /\ New(p) # {})
    BY <2>1, <2>2, <2>3, <2>5
  <2> QED BY <2>4, <2>5
<1>6. sync' \in [Processes -> Sync]
  <2>1. \A q \in Processes : sync'[q] \in Sync
    BY <1>3, <1>4, <1>5
  <2>2. sync' = [q \in Processes |-> sync'[q]]
    BY <1>3
  <2> QED BY <2>1, <2>2
<1>7. /\ lock' \in [Streams -> Processes \cup {None}]
      /\ \A n \in Streams : lock'[n] = IF lock[n] = p THEN None ELSE lock[n]
  BY <1>1, ReleaseLocks DEF SyncInv
<1>8. snapshot' \in Snapshot \cup {None}
  <2>1. Changed(p) \in BOOLEAN
    BY DEF Changed
  <2>2. snapshot' = snapshot \/ snapshot' = [config |-> sync[p].answer.config,
                        changed |-> Changed(p), stamp |-> sync[p].stamp]
    BY DEF Commit
  <2> QED BY <1>2, <2>1, <2>2 DEF SyncInv, TypeOK, Snapshot
<1>9. mirror' \in [at : Nat, streams : SUBSET Streams] \cup {None}
  BY <1>2 DEF Commit
<1>10. rows' \in [Streams -> Row] /\ sync[p].at > 0
  BY <1>1, StoredRows
<1>11. TypeOK'
  BY <1>1, <1>6, <1>7, <1>8, <1>9, <1>10 DEF SyncInv, TypeOK, geoVars
<1>12. ASSUME NEW n \in Streams
       PROVE  /\ n \in New(p) => rows'[n].born = sync[p].at /\ rows'[n].version = sync[p].at
              /\ n \notin New(p) \cup sync[p].held => rows'[n] = rows[n]
              /\ n \in sync[p].held =>
                    IF n \in sync[p].answer.streams
                    THEN /\ rows[n].born > 0 /\ rows'[n].born = rows[n].born
                         /\ rows'[n].version = sync[p].at
                    ELSE rows'[n] = NoRow
  BY <1>1, StoredRows
<1>13. RowsOK'
  <2> SUFFICES ASSUME NEW n \in Streams, rows'[n].born = 0 PROVE rows'[n] = NoRow
    BY DEF RowsOK
  <2>1. CASE n \in New(p)
    BY <1>2, <1>10, <1>12, <2>1
  <2>2. CASE n \in sync[p].held
    BY <1>12, <2>2
  <2>3. CASE n \notin New(p) \cup sync[p].held
    BY <1>12, <2>3 DEF SyncInv, RowsOK
  <2> QED BY <2>1, <2>2, <2>3
<1>14. AtOK' /\ AskingOK'
  BY <1>3, <1>4, <1>5 DEF SyncInv, AtOK, AskingOK, Transaction
<1>15. \A n \in New(p) \cup sync[p].held : lock[n] = p
  BY <1>1 DEF SyncInv, LocksOK
<1>16. LocksOK'
  <2> SUFFICES ASSUME NEW q \in Processes, q # p
               PROVE  /\ sync'[q].pc \in {"writing", "written"} =>
                            \A n \in sync'[q].held : lock'[n] = q /\ rows'[n].born > 0
                      /\ sync'[q].pc = "written" =>
                            \A n \in New(q)' : lock'[n] = q /\ rows'[n] = NoRow
    BY <1>3, <1>4 DEF LocksOK
  <2>1. New(q)' = New(q) /\ sync'[q].pc = sync[q].pc /\ sync'[q].held = sync[q].held
    BY <1>5 DEF New
  <2>2. sync[q].held \subseteq Streams /\ New(q) \subseteq Streams
    BY <1>1 DEF New, Sync, Answers
  <2>3. \A n \in Streams : lock[n] = q => lock'[n] = q /\ rows'[n] = rows[n]
    BY <1>7, <1>12, <1>15
  <2> QED BY <2>1, <2>2, <2>3 DEF SyncInv, LocksOK
<1>17. SeenOK'
  <2> SUFFICES ASSUME NEW q \in Processes, q # p, ~sync'[q].missed,
                      NEW n \in Streams, rows'[n].born > 0
               PROVE  /\ sync'[q].pc = "locking" => sync'[q].seen[n] = rows'[n].born
                      /\ sync'[q].pc \in {"writing", "written"} => n \in sync'[q].held
    BY <1>3, <1>4 DEF SeenOK
  <2>1. CASE sync[q].pc \notin Transaction
    BY <1>5, <2>1 DEF Transaction
  <2>2. CASE sync[q].pc \in Transaction
    <3>1. New(p) = {} /\ ~sync[q].missed
      BY <1>5, <2>2
    <3>2. rows[n].born = rows'[n].born
      BY <1>12, <3>1 DEF NoRow
    <3>3. rows[n].born > 0
      BY <3>2
    <3>4. /\ sync[q].pc = "locking" => sync[q].seen[n] = rows[n].born
          /\ sync[q].pc \in {"writing", "written"} => n \in sync[q].held
      BY <3>1, <3>3 DEF SyncInv, SeenOK
    <3> QED BY <1>5, <3>2, <3>4
  <2> QED BY <2>1, <2>2
<1>18. AloneOK'
  <2> SUFFICES ASSUME NEW q \in Processes, sync'[q].pc \in Transaction, sync'[q].alone
               PROVE  FALSE
    BY DEF AloneOK
  <2>1. q # p
    BY <1>3, <1>4 DEF Transaction
  <2>2. sync[q].pc \in Transaction /\ sync[q].alone
    BY <1>5, <2>1
  <2>3. sync[p].pc \notin Transaction
    BY <2>1, <2>2 DEF SyncInv, AloneOK
  <2> QED BY <1>1, <2>3 DEF Transaction
<1>19. CountsOK'
  BY <1>1, <1>3, <1>5 DEF SyncInv, CountsOK
<1>20. RowsMirrorLastFetch'
  <2> SUFFICES ASSUME mirror' # None, NEW n \in Streams
               PROVE  IF n \in mirror'.streams THEN rows'[n].version = mirror'.at
                      ELSE rows'[n] = NoRow
    BY DEF RowsMirrorLastFetch
  <2>1. /\ ~sync[p].missed
        /\ mirror' = [at |-> sync[p].at, streams |-> sync[p].answer.streams]
    BY DEF Commit
  <2>2. CASE n \in New(p)
    BY <1>12, <2>1, <2>2 DEF New
  <2>3. CASE n \in sync[p].held
    BY <1>12, <2>1, <2>3
  <2>4. CASE n \notin New(p) \cup sync[p].held
    <3>1. n \notin sync[p].answer.streams
      BY <2>4 DEF New
    <3>2. ~(rows[n].born > 0)
      BY <1>1, <2>1, <2>4 DEF SyncInv, SeenOK
    <3>3. rows[n].born \in Nat
      BY DEF SyncInv, TypeOK, Row
    <3>4. rows[n] = NoRow
      BY <3>2, <3>3 DEF SyncInv, RowsOK
    <3> QED BY <1>12, <2>1, <2>4, <3>1, <3>4
  <2> QED BY <2>2, <2>3, <2>4
<1> QED BY <1>11, <1>13, <1>14, <1>16, <1>17, <1>18, <1>19, <1>20 DEF SyncInv

(***************************************************************************)
(* Every step preserves the invariant.                                     *)
(***************************************************************************)
Step(p) == (\E kind \in Kinds : Begin(p, kind)) \/ SyncStep(p)
           \/ Conflict(p) \/ DatabaseError(p) \/ Unexpected(p)

LEMMA NextSync == SyncInv /\ [Next]_vars => SyncInv'
<1> SUFFICES ASSUME SyncInv, [Next]_vars PROVE SyncInv'
  OBVIOUS
<1>1. ASSUME NEW p \in Processes, Step(p) PROVE SyncInv'
  <2>1. ASSUME NEW kind \in Kinds, Begin(p, kind) PROVE SyncInv'
    BY <2>1, BeginSync
  <2>2. CASE SyncStep(p)
    BY <2>2, LoadSync, FetchSync, ResolveSync, LookupIPSync, AskIPSync, SaveGeoSync,
       StoreFailedSync, StoreUnauthorizedSync, ReadPreviousSync, ListSync, LockRowsSync,
       WriteSync, CommitSync, SaveStatusSync DEF SyncStep
  <2>3. CASE Conflict(p) \/ DatabaseError(p) \/ Unexpected(p)
    BY <2>3, DatabaseErrorSync, UnexpectedSync DEF Conflict
  <2> QED BY <1>1, <2>1, <2>2, <2>3 DEF Step
<1>2. CASE UNCHANGED vars
  <2>1. UNCHANGED <<instance, geoip, rows, lock, snapshot, sync, begun, counts, mirror>>
    BY <1>2 DEF vars
  <2>2. \A p \in Processes : New(p)' = New(p)
    BY <2>1 DEF New
  <2>3. TypeOK' /\ RowsOK' /\ AtOK' /\ AskingOK' /\ RowsMirrorLastFetch'
    BY <2>1 DEF SyncInv, TypeOK, RowsOK, AtOK, AskingOK, RowsMirrorLastFetch
  <2>4. LocksOK' /\ SeenOK' /\ AloneOK' /\ CountsOK'
    BY <2>1, <2>2 DEF SyncInv, LocksOK, SeenOK, AloneOK, CountsOK
  <2> QED BY <2>3, <2>4 DEF SyncInv
<1> QED BY <1>1, <1>2 DEF Next, Step

\* Locks, listed rows and snapshots are what each sync takes them to be.
THEOREM SyncInvariant == Spec => []SyncInv
BY InitSync, NextSync, PTL DEF Spec

\* Every reachable state is well typed, for every value of the constants.
THEOREM SyncTypeCorrect == Spec => []TypeOK
<1>1. SyncInv => TypeOK
  BY DEF SyncInv
<1> QED BY <1>1, SyncInvariant, PTL

\* The stream rows are those of the fetch that sync_go2rtc_instance committed last,
\* whatever other syncs of the instance do, unless that commit missed a new row.
THEOREM RowsCorrect == Spec => []RowsMirrorLastFetch
<1>1. SyncInv => RowsMirrorLastFetch
  BY DEF SyncInv
<1> QED BY <1>1, SyncInvariant, PTL

(***************************************************************************)
(* What single steps do.                                                   *)
(***************************************************************************)
LEMMA OthersKeep ==
  ASSUME SyncInv, NEW q \in Processes, Step(q), NEW p \in Processes, p # q
  PROVE  sync'[p].pc = sync[p].pc /\ counts'[p] = counts[p]
<1>1. sync \in [Processes -> Sync] /\ counts \in [Processes -> [Outcomes -> Nat]]
  BY DEF SyncInv, TypeOK
<1>2. ASSUME NEW outcome \in Outcomes, Finish(q, outcome)
      PROVE  sync'[p].pc = sync[p].pc /\ counts'[p] = counts[p]
  BY <1>1, <1>2, FinishCounts
<1>3. ASSUME Again(q), UNCHANGED counts
      PROVE  sync'[p].pc = sync[p].pc /\ counts'[p] = counts[p]
  BY <1>1, <1>3 DEF Again
<1>4. CASE \E kind \in Kinds : Begin(q, kind)
  BY <1>1, <1>4 DEF Begin
<1>5. CASE Load(q) \/ Fetch(q) \/ Resolve(q) \/ LookupIP(q) \/ AskIP(q) \/ SaveGeo(q)
  <2>1. PICK next : sync' = [sync EXCEPT ![q] = next] /\ UNCHANGED counts
    <3>1. CASE Load(q)
      BY <1>1, <3>1 DEF Load
    <3>2. CASE Fetch(q)
      BY <1>1, <3>2 DEF Fetch
    <3>3. CASE Resolve(q)
      BY <1>1, <3>3 DEF Resolve
    <3>4. CASE LookupIP(q)
      BY <1>1, <3>4 DEF LookupIP
    <3>5. CASE AskIP(q)
      BY <1>1, <3>5 DEF AskIP
    <3>6. CASE SaveGeo(q)
      BY <1>1, <3>6 DEF SaveGeo
    <3> QED BY <1>5, <3>1, <3>2, <3>3, <3>4, <3>5, <3>6
  <2> QED BY <1>1, <2>1
<1>6. CASE StoreFailed(q) \/ StoreUnauthorized(q)
  BY <1>2, <1>6 DEF StoreFailed, StoreUnauthorized, Outcomes
<1>7. CASE ReadPrevious(q)
  <2>1. sync'[p] = IF InTransaction(p) THEN [sync[p] EXCEPT !.alone = FALSE] ELSE sync[p]
    BY <1>7 DEF ReadPrevious
  <2>2. [sync[p] EXCEPT !.alone = FALSE].pc = sync[p].pc
    BY <1>1 DEF Sync
  <2> QED BY <1>7, <2>1, <2>2 DEF ReadPrevious
<1>8. CASE List(q) \/ LockRows(q) \/ Write(q)
  BY <1>1, <1>8 DEF List, LockRows, Write
<1>9. CASE Commit(q)
  <2>1. sync'[p] = IF InTransaction(p) /\ New(q) # {} THEN [sync[p] EXCEPT !.missed = TRUE]
                   ELSE sync[p]
    BY <1>9 DEF Commit
  <2>2. [sync[p] EXCEPT !.missed = TRUE].pc = sync[p].pc
    BY <1>1 DEF Sync
  <2> QED BY <1>9, <2>1, <2>2 DEF Commit
<1>10. CASE SaveStatus(q)
  <2>1. PICK outcome \in Outcomes : Finish(q, outcome)
    BY <1>10 DEF SaveStatus, Outcomes
  <2> QED BY <1>2, <2>1
<1>11. CASE Conflict(q) \/ DatabaseError(q) \/ Unexpected(q)
  BY <1>2, <1>3, <1>11 DEF Conflict, DatabaseError, Unexpected, Outcomes
<1> QED BY <1>4, <1>5, <1>6, <1>7, <1>8, <1>9, <1>10, <1>11 DEF Step, SyncStep

\* Ends and new starts are nothing a commit could be mistaken for.
LEMMA EndPC ==
  ASSUME SyncInv, NEW p \in Processes, Conflict(p) \/ DatabaseError(p) \/ Unexpected(p)
  PROVE  sync'[p].pc \in {"idle", "begun"}
<1>1. sync \in [Processes -> Sync]
  BY DEF SyncInv, TypeOK
<1>2. Again(p) \/ Finish(p, "failed")
  BY DEF Conflict, DatabaseError, Unexpected
<1>3. CASE Again(p)
  <2>1. sync'[p] = [NoSync EXCEPT !.pc = "begun", !.kind = sync[p].kind,
                                  !.retries = sync[p].retries + 1]
    BY <1>1, <1>3 DEF Again
  <2> QED BY <2>1 DEF NoSync
<1>4. CASE Finish(p, "failed")
  BY <1>1, <1>4, NullTypes DEF Finish
<1> QED BY <1>2, <1>3, <1>4

LEMMA CommitTells ==
  ASSUME SyncInv, NEW p \in Processes, Commit(p), sync[p].alone
  PROVE  snapshot'.changed <=> snapshot # None /\ snapshot'.config # snapshot.config
<1>1. sync[p].pc = "written" /\ sync[p] \in Sync
  BY DEF SyncInv, TypeOK, Commit
<1>2. /\ sync[p].previous = IF snapshot = None THEN None ELSE snapshot.config
      /\ snapshot # None => snapshot.stamp < sync[p].stamp
  BY <1>1 DEF SyncInv, AloneOK, Transaction
<1>3. snapshot # None => snapshot \in Snapshot
  BY DEF SyncInv, TypeOK
<1>4. snapshot # None => ~(snapshot.stamp > sync[p].stamp)
  BY <1>1, <1>2, <1>3 DEF Snapshot, Sync
<1>5. snapshot' = [config |-> sync[p].answer.config, changed |-> Changed(p),
                   stamp |-> sync[p].stamp]
  BY <1>4 DEF Commit
<1>6. snapshot'.config = sync[p].answer.config /\ snapshot'.changed = Changed(p)
  BY <1>5
<1>7. snapshot # None => snapshot.config # None
  BY <1>3, ConstantsAssumption DEF Snapshot
<1>8. Changed(p) <=> snapshot # None /\ sync[p].answer.config # snapshot.config
  BY <1>2, <1>7 DEF Changed
<1> QED BY <1>6, <1>8

LEMMA StepTells ==
  ASSUME SyncInv, NEW q \in Processes, Step(q),
         NEW p \in Processes, sync[p].pc = "written", sync'[p].pc = "committed", sync[p].alone
  PROVE  snapshot'.changed <=> snapshot # None /\ snapshot'.config # snapshot.config
<1>1. p = q
  BY OthersKeep
<1>2. Commit(q)
  <2>1. ~(\E kind \in Kinds : Begin(q, kind))
    BY <1>1 DEF Begin
  <2>2. ~(Conflict(q) \/ DatabaseError(q) \/ Unexpected(q))
    BY <1>1, EndPC
  <2>3. SyncStep(q)
    BY <2>1, <2>2 DEF Step
  <2> QED BY <1>1, <2>3 DEF SyncStep, Load, Fetch, Resolve, LookupIP, AskIP, SaveGeo,
        StoreFailed, StoreUnauthorized, ReadPrevious, List, LockRows, Write, SaveStatus
<1> QED BY <1>1, <1>2, CommitTells

\* A sync that did not overlap with another says of its snapshot whether the config
\* differs from the one before, although sync_go2rtc_instance locks neither.
THEOREM SnapshotsCorrect == Spec => SnapshotsTellChanges
<1> DEFINE Tells == \A p \in Processes :
        sync[p].pc = "written" /\ sync'[p].pc = "committed" /\ sync[p].alone =>
            (snapshot'.changed <=> snapshot # None /\ snapshot'.config # snapshot.config)
<1>1. SyncInv /\ [Next]_vars => [Tells]_vars
  <2> SUFFICES ASSUME SyncInv, Next PROVE Tells
    OBVIOUS
  <2>1. PICK q \in Processes : Step(q)
    BY DEF Next, Step
  <2> QED BY <2>1, StepTells
<1>2. Spec => [][Tells]_vars
  BY <1>1, SyncInvariant, PTL DEF Spec
<1> QED BY <1>2 DEF SnapshotsTellChanges

\* What the batch has counted of one instance.
Counted(p) == counts[p]["synced"] + counts[p]["failed"] + counts[p]["unauthorized"]

LEMMA FinishOnce ==
  ASSUME SyncInv, NEW p \in Processes, sync[p].pc # "idle", sync[p].kind = "batch",
         NEW outcome \in Outcomes, Finish(p, outcome)
  PROVE  sync'[p].pc = "idle" /\ Counted(p)' = 1
<1>1. sync' = [sync EXCEPT ![p] = NoSync] /\ counts'[p] = [NoCounts EXCEPT ![outcome] = 1]
  BY FinishCounts
<1>2. sync'[p].pc = "idle"
  BY <1>1, NullTypes DEF SyncInv, TypeOK
<1>3. Counted(p)' = 1
  BY <1>1 DEF Counted, NoCounts, Outcomes
<1> QED BY <1>2, <1>3

LEMMA NotYetCounted ==
  ASSUME SyncInv, NEW p \in Processes, sync[p].pc # "idle", UNCHANGED counts
  PROVE  Counted(p)' = 0
<1>1. counts'[p] = NoCounts
  BY DEF SyncInv, CountsOK
<1> QED BY <1>1 DEF Counted, NoCounts, Outcomes

LEMMA GoesOn ==
  ASSUME SyncInv, NEW p \in Processes, sync[p].kind # "geo",
         \/ Load(p) \/ Fetch(p) \/ Resolve(p) \/ LookupIP(p) \/ AskIP(p) \/ SaveGeo(p)
         \/ ReadPrevious(p) \/ List(p) \/ LockRows(p) \/ Write(p) \/ Commit(p)
  PROVE  sync'[p].pc # "idle" /\ UNCHANGED counts
<1>1. sync \in [Processes -> Sync] /\ sync[p] \in Sync
  BY DEF SyncInv, TypeOK
<1>2. CASE Load(p)
  BY <1>1, <1>2 DEF Load, Sync
<1>3. ASSUME NEW answer \in Answers, NEW at \in Nat
      PROVE  Fetched(p, answer, at) \in Sync /\ Fetched(p, answer, at).pc = "fetched"
  BY <1>1, FetchedType
<1>4. CASE Fetch(p)
  <2>1. PICK answer \in Answers : \E ips \in SUBSET IPs :
          sync' = [sync EXCEPT ![p] =
                IF ips \in {{}, sync[p].hash} THEN Fetched(p, answer, FetchNumber)
                ELSE [Fetched(p, answer, FetchNumber) EXCEPT
                        !.pc = "locating", !.ips = ips, !.left = ips \cap PublicIPs]]
    BY <1>4 DEF Fetch
  <2> DEFINE done == Fetched(p, answer, FetchNumber)
  <2>2. done \in Sync /\ done.pc = "fetched"
    BY <1>3, FetchNumberType DEF SyncInv
  <2>3. PICK ips \in SUBSET IPs : sync'[p] = IF ips \in {{}, sync[p].hash} THEN done
            ELSE [done EXCEPT !.pc = "locating", !.ips = ips, !.left = ips \cap PublicIPs]
    BY <1>1, <2>1
  <2> HIDE DEF done
  <2>4. sync'[p].pc # "idle"
    BY <2>2, <2>3 DEF Sync
  <2> QED BY <1>4, <2>4 DEF Fetch
<1>5. ~Resolve(p)
  BY DEF Resolve
<1>6. CASE LookupIP(p)
  BY <1>1, <1>6 DEF LookupIP, Sync
<1>7. CASE AskIP(p)
  <2>1. PICK found \in BOOLEAN : sync'[p] =
            IF found THEN [sync[p] EXCEPT !.pc = "located", !.found = Turn(p)]
            ELSE [sync[p] EXCEPT !.pc = "locating", !.left = sync[p].left \ {Turn(p)}]
    BY <1>1, <1>7 DEF AskIP
  <2>2. sync'[p].pc # "idle"
    BY <1>1, <2>1 DEF Sync
  <2> QED BY <1>7, <2>2 DEF AskIP
<1>8. CASE SaveGeo(p)
  <2>1. sync'[p] = Fetched(p, sync[p].answer, sync[p].at)
    BY <1>1, <1>8 DEF SaveGeo
  <2>2. sync[p].answer \in Answers /\ sync[p].at \in Nat
    BY <1>1 DEF Sync
  <2> QED BY <1>3, <1>8, <2>1, <2>2 DEF SaveGeo
<1>9. CASE ReadPrevious(p)
  <2>1. sync'[p].pc = "listing"
    BY <1>1, <1>9 DEF ReadPrevious, Sync
  <2> QED BY <1>9, <2>1 DEF ReadPrevious
<1>10. CASE List(p)
  BY <1>1, <1>10 DEF List, Sync
<1>11. CASE LockRows(p)
  BY <1>1, <1>11 DEF LockRows, Sync
<1>12. CASE Write(p)
  BY <1>1, <1>12 DEF Write, Sync
<1>13. CASE Commit(p)
  <2> DEFINE done == Fetched(p, sync[p].answer, 0)
  <2>1. sync'[p] = [done EXCEPT !.pc = "committed"]
    BY <1>13 DEF Commit
  <2>2. sync[p].answer \in Answers
    BY <1>1 DEF Sync
  <2>3. done \in Sync
    BY <1>3, <2>2
  <2> HIDE DEF done
  <2>4. sync'[p].pc = "committed"
    BY <2>1, <2>3 DEF Sync
  <2> QED BY <1>13, <2>4 DEF Commit
<1> QED BY <1>2, <1>4, <1>5, <1>6, <1>7, <1>8, <1>9, <1>10, <1>11, <1>12, <1>13

LEMMA StepCounts ==
  ASSUME SyncInv, NEW q \in Processes, Step(q),
         NEW p \in Processes, sync[p].pc # "idle", sync[p].kind = "batch"
  PROVE  Counted(p)' = IF sync'[p].pc = "idle" THEN 1 ELSE 0
<1>1. CASE p # q
  <2>1. counts'[p] = NoCounts /\ sync'[p].pc # "idle"
    BY <1>1, OthersKeep DEF SyncInv, CountsOK
  <2> QED BY <2>1 DEF Counted, NoCounts, Outcomes
<1>2. CASE p = q
  <2>1. ~(\E kind \in Kinds : Begin(q, kind))
    BY <1>2 DEF Begin
  <2>2. CASE StoreFailed(p) \/ StoreUnauthorized(p)
    BY <2>2, FinishOnce DEF StoreFailed, StoreUnauthorized, Outcomes
  <2>3. CASE SaveStatus(p)
    <3>1. PICK outcome \in Outcomes : Finish(p, outcome)
      BY <2>3 DEF SaveStatus, Outcomes
    <3> QED BY <3>1, FinishOnce
  <2>4. CASE Conflict(p) \/ DatabaseError(p) \/ Unexpected(p)
    <3>1. Finish(p, "failed") \/ (Again(p) /\ UNCHANGED counts)
      BY <2>4 DEF Conflict, DatabaseError, Unexpected
    <3>2. CASE Finish(p, "failed")
      BY <3>2, FinishOnce DEF Outcomes
    <3>3. CASE Again(p) /\ UNCHANGED counts
      <4>1. sync'[p].pc = "begun"
        <5>1. sync'[p] = [NoSync EXCEPT !.pc = "begun", !.kind = sync[p].kind,
                                        !.retries = sync[p].retries + 1]
          BY <3>3 DEF Again, SyncInv, TypeOK
        <5> QED BY <5>1 DEF NoSync
      <4> QED BY <3>3, <4>1, NotYetCounted
    <3> QED BY <3>1, <3>2, <3>3
  <2>5. CASE \/ Load(p) \/ Fetch(p) \/ Resolve(p) \/ LookupIP(p) \/ AskIP(p) \/ SaveGeo(p)
             \/ ReadPrevious(p) \/ List(p) \/ LockRows(p) \/ Write(p) \/ Commit(p)
    BY <2>5, GoesOn, NotYetCounted
  <2> QED BY <1>2, <2>1, <2>2, <2>3, <2>4, <2>5 DEF Step, SyncStep
<1> QED BY <1>1, <1>2

\* sync_go2rtc_instances_batch_task counts an instance when it is done with it and once,
\* however often it tries.
THEOREM CountsCorrect == Spec => BatchCountsOnce
<1> DEFINE Once == \A p \in Processes : sync[p].pc # "idle" /\ sync[p].kind = "batch" =>
        counts'[p]["synced"] + counts'[p]["failed"] + counts'[p]["unauthorized"]
            = IF sync'[p].pc = "idle" THEN 1 ELSE 0
<1>1. SyncInv /\ [Next]_vars => [Once]_vars
  <2> SUFFICES ASSUME SyncInv, Next PROVE Once
    OBVIOUS
  <2>1. PICK q \in Processes : Step(q)
    BY DEF Next, Step
  <2> QED BY <2>1, StepCounts DEF Counted
<1>2. Spec => [][Once]_vars
  BY <1>1, SyncInvariant, PTL DEF Spec
<1> QED BY <1>2 DEF BatchCountsOnce
=============================================================================
