---------------------------- MODULE GridBoard_proofs ----------------------------
(***************************************************************************)
(* GridBoard, for every value of the constants: type correctness, the      *)
(* places and visibility of what its requests write, and what its imports  *)
(* count and have synced, from two invariants, BoardInv and SyncInv.       *)
(***************************************************************************)
EXTENDS GridBoard, FiniteSetTheorems, SequenceTheorems, TLAPS

ItemReqs ==
    [kind : {"bulk", "add"}, at : {"read", "write", "unreported", "done", "died"},
     profile : Profiles, name : Names, todo : Seq(Streams), host : Hosts, order : Nat,
     found : BOOLEAN, overtaken : BOOLEAN, listed : BOOLEAN, written : SUBSET Streams,
     gone : SUBSET Keys, moved : BOOLEAN, orphan : BOOLEAN]

ImportReqs ==
    [kind : {"import"}, at : {"row", "done", "died"}, file : Files, todo : SUBSET Nat,
     created : Nat, updated : Nat, skipped : Nat, sync : Seq(Names \cup {0})]

IdleReqs == [kind : {"none"}, at : {"idle", "died"}]

IsItemReq(r) == req[r].kind \in {"bulk", "add"}

InstanceRow == [exists : BOOLEAN, host : Hosts, active : BOOLEAN, private : BOOLEAN]
ItemRow == [exists : BOOLEAN, active : BOOLEAN, order : Nat, host : Hosts]

TypesOK ==
    /\ instance \in [Names -> InstanceRow]
    /\ item \in [Keys -> ItemRow]
    /\ req \in [Requests -> ItemReqs \cup ImportReqs \cup IdleReqs]
    /\ late \subseteq Keys /\ outdated \subseteq Keys /\ shrunk \subseteq Profiles

RowsOK ==
    /\ \A n \in Names : instance[n].active => instance[n].exists
    /\ \A k \in Keys : item[k].exists => instance[k[2]].exists
    /\ \A k \in Keys : item[k].active => item[k].exists

\* What a request that adds items knows of its instance and of what it wrote.
HoldsOK(r) ==
    /\ req[r].at \in {"read", "write"} => req[r].todo # <<>>
    /\ ~req[r].orphan => instance[req[r].name].exists
    /\ ~req[r].orphan /\ ~req[r].moved =>
         /\ req[r].host = instance[req[r].name].host
         /\ req[r].listed => instance[req[r].name].active /\ instance[req[r].name].private
    /\ \A s \in req[r].written :
         Key(r, s) \notin req[r].gone => ~req[r].orphan /\ item[Key(r, s)].active

HoldingOK == \A r \in Requests : IsItemReq(r) => HoldsOK(r)

HostsOK == \A k \in Keys : item[k].exists /\ k \notin outdated => item[k].host = instance[k[2]].host

\* The rows of a profile.
InProfile(p) == {k \in Keys : k[1] = p /\ item[k].exists}

\* A count that nobody has overtaken is the count.
CountOK(r) ==
    /\ req[r].kind = "bulk" /\ req[r].at = "write" /\ ~req[r].overtaken
    /\ req[r].profile \notin shrunk
    => req[r].order = Count(req[r].profile)

\* Places are below the count of the rows, but for those that are late.
PlacesOK ==
    /\ \A p \in Profiles : IsFiniteSet(InProfile(p))
    /\ \A k \in Keys : item[k].exists /\ k \notin late /\ k[1] \notin shrunk =>
         item[k].order < Count(k[1])
    /\ \A r \in Requests : CountOK(r)

\* The names an import has written so far.
Upserted(r) ==
    {Lines(req[r].file)[i].name : i \in {j \in RowsOf(req[r].file) \ req[r].todo :
                                              ~Invalid(Lines(req[r].file)[j])}}

\* How far an import has come. A place of the list of its syncs is 0 when its
\* instance was deleted.
ProgressOK(r) ==
    /\ req[r].todo \subseteq RowsOf(req[r].file)
    /\ req[r].at = "done" => req[r].todo = {}
    /\ req[r].created + req[r].updated + req[r].skipped + Cardinality(req[r].todo)
         = Cardinality(RowsOf(req[r].file))
    /\ req[r].created <= Len(req[r].sync)
    /\ \A i \in DOMAIN req[r].sync :
         /\ req[r].sync[i] # 0 => instance[req[r].sync[i]].exists
         /\ \A j \in DOMAIN req[r].sync : i # j /\ req[r].sync[i] # 0 => req[r].sync[i] # req[r].sync[j]
    /\ (\A i \in DOMAIN req[r].sync : req[r].sync[i] # 0) =>
         ToSet(req[r].sync) = Upserted(r)

ImportsOK == \A r \in Requests : req[r].kind = "import" => ProgressOK(r)

BoardInv == /\ TypesOK /\ RowsOK /\ HoldingOK /\ HostsOK
            /\ PlacesOK /\ TiesOnlyFromOverlap /\ ImportsOK

AllReqs == ItemReqs \cup ImportReqs \cup IdleReqs

LEMMA ReqKinds ==
  ASSUME TypesOK, NEW r \in Requests
  PROVE  /\ req[r] \in AllReqs
         /\ IsItemReq(r) => req[r] \in ItemReqs
         /\ req[r].kind = "import" => req[r] \in ImportReqs
         /\ req[r].kind \in {"none", "bulk", "add", "import"}
<1>1. req[r] \in AllReqs
  BY DEF TypesOK, AllReqs
<1>2. /\ \A x \in ItemReqs : x.kind \in {"bulk", "add"}
      /\ \A x \in ImportReqs : x.kind = "import"
      /\ \A x \in IdleReqs : x.kind = "none"
  BY DEF ItemReqs, ImportReqs, IdleReqs
<1> QED BY <1>1, <1>2 DEF AllReqs, IsItemReq

LEMMA KeyIn ==
  ASSUME TypesOK, NEW r \in Requests, IsItemReq(r), NEW s \in Streams
  PROVE  /\ Key(r, s) \in Keys
         /\ Key(r, s)[1] = req[r].profile
         /\ Key(r, s)[2] = req[r].name
<1>1. req[r] \in ItemReqs
  BY ReqKinds
<1>2. req[r].profile \in Profiles /\ req[r].name \in Names
  BY <1>1 DEF ItemReqs
<1> QED BY <1>2 DEF Key, Keys

LEMMA RowsFinite ==
  ASSUME NEW file \in Files
  PROVE  RowsOf(file) \in SUBSET Nat /\ IsFiniteSet(RowsOf(file))
         /\ \A i \in RowsOf(file) : Lines(file)[i] \in
               [name : Names \cup {0}, host : Hosts \cup {0}, wrong : BOOLEAN]
<1> DEFINE Line == [name : Names \cup {0}, host : Hosts \cup {0}, wrong : BOOLEAN]
<1>1. file.lines \in Seq(Line)
  <2>1. file \in [header : BOOLEAN, lines : Seq(Line)]
    BY BoardAssumption
  <2> HIDE DEF Line
  <2> QED BY <2>1
<1>2. [name |-> 0, host |-> 0, wrong |-> TRUE] \in Line
  OBVIOUS
<1> HIDE DEF Line
<1>3. Lines(file) \in Seq(Line)
  <2>1. ASSUME NEW x \in Line PROVE <<x>> \in Seq(Line)
    OBVIOUS
  <2> QED BY <1>1, <1>2, <2>1 DEF Lines
<1>4. DOMAIN Lines(file) = 1..Len(Lines(file)) /\ Len(Lines(file)) \in Nat
  BY <1>3
<1>5. IsFiniteSet(1..Len(Lines(file)))
  BY <1>4, FS_Interval
<1>6. RowsOf(file) \subseteq 1..Len(Lines(file))
  BY <1>4 DEF RowsOf
<1>7. \A i \in 1..Len(Lines(file)) : Lines(file)[i] \in Line
  BY <1>3
<1> QED BY <1>4, <1>5, <1>6, <1>7, FS_Subset DEF Line

LEMMA TailLeft ==
  ASSUME NEW S, NEW q \in Seq(S), Len(q) > 1
  PROVE  Tail(q) # <<>>
<1>1. Len(q) \in Nat
  BY LenProperties
<1>2. q # <<>>
  BY EmptySeq
<1>3. Len(Tail(q)) = Len(q) - 1
  BY <1>2, HeadTailProperties
<1>4. ASSUME NEW n \in Nat, n > 1 PROVE n - 1 # 0
  BY <1>4
<1>5. Len(q) - 1 # 0
  BY <1>1, <1>4
<1>6. Len(Tail(q)) # 0
  BY <1>3, <1>5, Zenon
<1> QED BY <1>6, EmptySeq, Zenon

LEMMA InitBoard == BoardInit => BoardInv
<1> SUFFICES ASSUME BoardInit PROVE BoardInv
  OBVIOUS
<1>1. /\ \A n \in Names : instance[n] = NoInstance
      /\ \A k \in Keys : item[k] = NoItem
      /\ \A r \in Requests : req[r] = NoRequest
  BY DEF BoardInit
<1>2. NoInstance \in InstanceRow /\ NoItem \in ItemRow /\ NoRequest \in IdleReqs
  BY BoardAssumption DEF NoInstance, NoItem, NoRequest, InstanceRow, ItemRow, IdleReqs
<1>3. TypesOK
  BY <1>2 DEF BoardInit, TypesOK
<1>4. RowsOK /\ HostsOK
  BY <1>1 DEF RowsOK, HostsOK, NoInstance, NoItem
<1>5. HoldingOK /\ ImportsOK
  BY <1>1 DEF HoldingOK, ImportsOK, IsItemReq, NoRequest
<1>6. PlacesOK
  <2>1. \A p \in Profiles : InProfile(p) = {}
    BY <1>1 DEF InProfile, NoItem
  <2> QED BY <1>1, <2>1, FS_EmptySet DEF PlacesOK, CountOK, NoItem, NoRequest
<1>7. TiesOnlyFromOverlap
  BY <1>1 DEF TiesOnlyFromOverlap, NoItem
<1> QED BY <1>3, <1>4, <1>5, <1>6, <1>7 DEF BoardInv

\* A step of one request that writes no row.
LEMMA QuietBoard ==
  ASSUME BoardInv, NEW r \in Requests, NEW next \in AllReqs,
         req' = [req EXCEPT ![r] = next],
         UNCHANGED <<instance, item, late, outdated, shrunk>>,
         next.kind \in {"bulk", "add"} => HoldsOK(r)',
         next.kind = "import" => ProgressOK(r)',
         next.kind = "bulk" /\ next.at = "write" => CountOK(r)'
  PROVE  BoardInv'
<1>1. req'[r] = next /\ \A q \in Requests \ {r} : req'[q] = req[q]
  BY DEF BoardInv, TypesOK
<1>2. TypesOK'
  BY DEF BoardInv, TypesOK, AllReqs
<1>3. RowsOK' /\ HostsOK' /\ TiesOnlyFromOverlap'
  BY DEF BoardInv, RowsOK, HostsOK, TiesOnlyFromOverlap
<1>4. HoldingOK'
  <2> SUFFICES ASSUME NEW q \in Requests \ {r}, IsItemReq(q)' PROVE HoldsOK(q)'
    BY <1>1 DEF HoldingOK, IsItemReq
  <2>1. HoldsOK(q) /\ req'[q] = req[q]
    BY <1>1 DEF BoardInv, HoldingOK, IsItemReq
  <2> QED BY <2>1 DEF HoldsOK, Key
<1>5. ImportsOK'
  <2> SUFFICES ASSUME NEW q \in Requests \ {r}, req'[q].kind = "import" PROVE ProgressOK(q)'
    BY <1>1 DEF ImportsOK
  <2>1. ProgressOK(q) /\ req'[q] = req[q]
    BY <1>1 DEF BoardInv, ImportsOK
  <2> QED BY <2>1 DEF ProgressOK, Upserted
<1>6. PlacesOK'
  <2>1. \A p \in Profiles : Count(p)' = Count(p) /\ InProfile(p)' = InProfile(p)
    BY DEF Count, InProfile
  <2>2. \A k \in Keys : Count(k[1])' = Count(k[1])
    BY DEF Count
  <2>3. ASSUME NEW q \in Requests \ {r} PROVE CountOK(q)'
    <3>1. CountOK(q) /\ req'[q] = req[q]
      BY <1>1 DEF BoardInv, PlacesOK
    <3>2. Count(req[q].profile)' = Count(req'[q].profile)
      BY <3>1 DEF Count
    <3> QED BY <3>1 DEF CountOK, Count
  <2>4. CountOK(r)'
    BY <1>1 DEF CountOK
  <2> QED BY <2>1, <2>2, <2>3, <2>4 DEF BoardInv, PlacesOK
<1> QED BY <1>2, <1>3, <1>4, <1>5, <1>6 DEF BoardInv

LEMMA BeginItemBoard ==
  ASSUME BoardInv, NEW r \in Requests, NEW kind \in {"bulk", "add"}, NEW p \in Profiles,
         NEW n \in Names, NEW s \in Seq(Streams), s # <<>>, instance[n].exists,
         req' = [req EXCEPT ![r] = ItemRequest(kind, p, n, s)],
         UNCHANGED <<instance, item, late, outdated, shrunk>>
  PROVE  BoardInv'
<1> DEFINE next == ItemRequest(kind, p, n, s)
<1>1. instance[n] \in InstanceRow
  BY DEF BoardInv, TypesOK
<1>2. instance[n].host \in Hosts /\ (instance[n].active /\ instance[n].private) \in BOOLEAN
  BY <1>1 DEF InstanceRow
<1>3. next \in ItemReqs
  BY <1>2 DEF ItemRequest, ItemReqs
<1>4. /\ next.kind = kind /\ next.at = "read" /\ next.todo = s /\ next.name = n
      /\ next.host = instance[n].host /\ ~next.orphan /\ ~next.moved /\ next.written = {}
  BY DEF ItemRequest
<1>5. next.listed = (instance[n].active /\ instance[n].private)
  BY DEF ItemRequest
<1> HIDE DEF next
<1>6. req' = [req EXCEPT ![r] = next]
  BY DEF next
<1>7. req'[r] = next
  BY <1>6 DEF BoardInv, TypesOK
<1>8. HoldsOK(r)'
  <2>1. req'[r].listed => instance'[n].active /\ instance'[n].private
    BY <1>5, <1>7
  <2>2. req'[r].host = instance'[n].host /\ instance'[n].exists
    BY <1>4, <1>7
  <2>3. req'[r].todo # <<>> /\ req'[r].written = {} /\ req'[r].name = n
    BY <1>4, <1>7
  <2> QED BY <2>1, <2>2, <2>3 DEF HoldsOK
<1>9. next \in AllReqs /\ next.kind # "import" /\ next.at # "write"
  BY <1>3, <1>4 DEF AllReqs
<1> QED BY <1>6, <1>8, <1>9, QuietBoard

LEMMA BeginBulkBoard ==
  ASSUME BoardInv, NEW r \in Requests, NEW p \in Profiles, NEW n \in Names, NEW s \in Selections,
         BeginBulk(r, p, n, s)
  PROVE  BoardInv'
<1>1. /\ req' = [req EXCEPT ![r] = ItemRequest("bulk", p, n, s)]
      /\ UNCHANGED <<instance, item, late, outdated, shrunk>>
      /\ instance[n].active
  BY DEF BeginBulk, Begin
<1>2. instance[n].exists /\ s \in Seq(Streams) /\ s # <<>>
  BY <1>1, BoardAssumption DEF BoardInv, RowsOK
<1> QED BY <1>1, <1>2, BeginItemBoard

LEMMA BeginAddBoard ==
  ASSUME BoardInv, NEW r \in Requests, NEW s \in Streams, BeginAdd(r, s)
  PROVE  BoardInv'
<1>1. UNCHANGED <<instance, item, late, outdated, shrunk>>
  BY DEF BeginAdd
<1>2. CASE DefaultPrivate = {}
  <2> DEFINE next == [kind |-> "none", at |-> "died"]
  <2>1. req' = [req EXCEPT ![r] = next]
    BY <1>2 DEF BeginAdd, Begin
  <2>2. next \in AllReqs /\ next.kind = "none"
    BY DEF AllReqs, IdleReqs
  <2> HIDE DEF next
  <2> QED BY <1>1, <2>1, <2>2, QuietBoard
<1>3. CASE DefaultPrivate # {}
  <2>1. PICK n \in DefaultPrivate : req' = [req EXCEPT ![r] = ItemRequest("add", Surveillance, n, <<s>>)]
    BY <1>3 DEF BeginAdd, Begin
  <2>2. n \in Names /\ instance[n].exists
    BY DEF DefaultPrivate, BoardInv, RowsOK
  <2>3. <<s>> \in Seq(Streams) /\ <<s>> # <<>> /\ Surveillance \in Profiles
    BY BoardAssumption
  <2> QED BY <1>1, <2>1, <2>2, <2>3, BeginItemBoard
<1> QED BY <1>2, <1>3

LEMMA ReadItemBoard ==
  ASSUME BoardInv, NEW r \in Requests, ReadItem(r)
  PROVE  BoardInv'
<1> DEFINE k == Key(r, Head(req[r].todo))
           next == [req[r] EXCEPT !.order = Count(req[r].profile), !.found = item[k].exists,
                                  !.overtaken = FALSE, !.at = "write"]
<1>1. req[r].kind = "bulk" /\ req[r].at = "read" /\ UNCHANGED <<instance, item, late, outdated, shrunk>>
  BY DEF ReadItem
<1>2. IsItemReq(r) /\ req[r] \in ItemReqs /\ HoldsOK(r)
  BY <1>1, ReqKinds DEF IsItemReq, BoardInv, HoldingOK
<1>3. req[r].todo \in Seq(Streams) /\ req[r].todo # <<>> /\ req[r].profile \in Profiles
  BY <1>1, <1>2 DEF ItemReqs, HoldsOK
<1>4. Head(req[r].todo) \in Streams
  BY <1>3, HeadTailProperties
<1>5. k \in Keys
  BY <1>2, <1>4, KeyIn DEF BoardInv
<1>6. item[k].exists \in BOOLEAN
  BY <1>5 DEF BoardInv, TypesOK, ItemRow
<1>7. Count(req[r].profile) \in Nat
  <2>1. IsFiniteSet(InProfile(req[r].profile))
    BY <1>3 DEF BoardInv, PlacesOK
  <2> QED BY <2>1, FS_CardinalityType DEF Count, InProfile
<1>8. req' = [req EXCEPT ![r] = next]
  BY DEF ReadItem, Place, BoardInv, TypesOK
<1> HIDE DEF k
<1>9. next \in ItemReqs
  BY <1>2, <1>6, <1>7 DEF ItemReqs
<1>10. /\ next.kind = "bulk" /\ next.at = "write" /\ next.order = Count(req[r].profile)
       /\ next.profile = req[r].profile /\ next.name = req[r].name /\ next.todo = req[r].todo
       /\ next.host = req[r].host /\ next.written = req[r].written /\ next.gone = req[r].gone
  BY <1>1, <1>2 DEF ItemReqs
<1>11. next.listed = req[r].listed /\ next.moved = req[r].moved /\ next.orphan = req[r].orphan
  BY <1>2 DEF ItemReqs
<1> HIDE DEF next
<1>12. req'[r] = next
  BY <1>8 DEF BoardInv, TypesOK
<1>13. HoldsOK(r)'
  BY <1>1, <1>2, <1>3, <1>10, <1>11, <1>12 DEF HoldsOK, Key
<1>14. CountOK(r)'
  <2>1. Count(req[r].profile)' = Count(req'[r].profile)
    BY <1>1, <1>10, <1>12 DEF Count
  <2> QED BY <1>1, <1>10, <1>12 DEF CountOK, Count
<1>15. next \in AllReqs
  BY <1>9 DEF AllReqs
<1> QED BY <1>1, <1>8, <1>10, <1>13, <1>14, <1>15, QuietBoard

LEMMA DieBoard ==
  ASSUME BoardInv, NEW r \in Requests, IsItemReq(r), Die(r), UNCHANGED shrunk
  PROVE  BoardInv'
<1> DEFINE next == [req[r] EXCEPT !.at = "died"]
<1>1. req[r] \in ItemReqs /\ HoldsOK(r)
  BY ReqKinds DEF BoardInv, HoldingOK
<1>2. req' = [req EXCEPT ![r] = next] /\ UNCHANGED <<instance, item, late, outdated>>
  BY DEF Die, BoardInv, TypesOK
<1>3. next \in ItemReqs
  BY <1>1 DEF ItemReqs
<1>4. /\ next.kind = req[r].kind /\ next.at = "died" /\ next.profile = req[r].profile
      /\ next.name = req[r].name /\ next.host = req[r].host
      /\ next.written = req[r].written /\ next.gone = req[r].gone
  BY <1>1 DEF ItemReqs
<1>5. next.listed = req[r].listed /\ next.moved = req[r].moved /\ next.orphan = req[r].orphan
  BY <1>1 DEF ItemReqs
<1> HIDE DEF next
<1>6. req'[r] = next
  BY <1>2 DEF BoardInv, TypesOK
<1>7. HoldsOK(r)'
  BY <1>1, <1>2, <1>4, <1>5, <1>6 DEF HoldsOK, Key
<1>8. next \in AllReqs /\ next.kind # "import" /\ next.at # "write"
  BY <1>3, <1>4 DEF AllReqs, IsItemReq
<1> QED BY <1>2, <1>7, <1>8, QuietBoard

LEMMA BeginImportBoard ==
  ASSUME BoardInv, NEW r \in Requests, NEW file \in Files, BeginImport(r, file)
  PROVE  BoardInv'
<1> DEFINE rows == RowsOf(file)
           next == [kind |-> "import", at |-> "row", file |-> file, todo |-> rows,
                    created |-> 0, updated |-> 0, skipped |-> 0, sync |-> <<>>]
<1>1. /\ req' = [req EXCEPT ![r] = next]
      /\ UNCHANGED <<instance, item, late, outdated, shrunk>>
  BY DEF BeginImport, Begin
<1>2. rows \in SUBSET Nat /\ Cardinality(rows) \in Nat
  BY RowsFinite, FS_CardinalityType
<1>3. rows = RowsOf(file)
  OBVIOUS
<1> HIDE DEF rows
<1>4. next \in ImportReqs
  <2>1. <<>> \in Seq(Names \cup {0})
    OBVIOUS
  <2> QED BY <1>2, <2>1 DEF ImportReqs
<1>5. /\ next.kind = "import" /\ next.file = file /\ next.todo = rows /\ next.created = 0
      /\ next.updated = 0 /\ next.skipped = 0 /\ next.sync = <<>>
      /\ next.at = "row"
  OBVIOUS
<1> HIDE DEF next
<1>6. req'[r] = next
  BY <1>1 DEF BoardInv, TypesOK
<1>7. ProgressOK(r)'
  <2>1. Upserted(r)' = {}
    BY <1>3, <1>5, <1>6 DEF Upserted
  <2>2. ToSet(req'[r].sync) = {} /\ DOMAIN req'[r].sync = {} /\ Len(req'[r].sync) = 0
    BY <1>5, <1>6 DEF ToSet
  <2> QED BY <1>2, <1>3, <1>5, <1>6, <2>1, <2>2 DEF ProgressOK
<1>8. next \in AllReqs
  BY <1>4 DEF AllReqs
<1> QED BY <1>1, <1>5, <1>7, <1>8, QuietBoard

\* Taking the least row off the rest of an import.
LEMMA TakeRow ==
  ASSUME BoardInv, NEW r \in Requests, req[r].kind = "import", NEW i \in req[r].todo
  PROVE  /\ req[r] \in ImportReqs /\ req[r].file \in Files
         /\ i \in RowsOf(req[r].file)
         /\ Cardinality(req[r].todo) \in Nat
         /\ Cardinality(req[r].todo \ {i}) \in Nat
         /\ Cardinality(req[r].todo \ {i}) = Cardinality(req[r].todo) - 1
<1>1. req[r] \in ImportReqs /\ ProgressOK(r)
  BY ReqKinds DEF BoardInv, ImportsOK
<1>2. req[r].file \in Files /\ req[r].todo \subseteq RowsOf(req[r].file)
  BY <1>1 DEF ImportReqs, ProgressOK
<1>3. IsFiniteSet(req[r].todo)
  BY <1>2, RowsFinite, FS_Subset
<1>4. IsFiniteSet(req[r].todo \ {i}) /\ Cardinality(req[r].todo \ {i}) = Cardinality(req[r].todo) - 1
  BY <1>3, FS_RemoveElement
<1> QED BY <1>1, <1>2, <1>3, <1>4, FS_CardinalityType

LEMMA SkipRowBoard ==
  ASSUME BoardInv, NEW r \in Requests, req[r].kind = "import", req[r].at = "row",
         NEW i \in req[r].todo, Invalid(Lines(req[r].file)[i]),
         req' = [req EXCEPT ![r] = [[req[r] EXCEPT !.todo = @ \ {i}] EXCEPT !.skipped = @ + 1]],
         UNCHANGED <<instance, item, late, outdated, shrunk>>
  PROVE  BoardInv'
<1> DEFINE rest == req[r].todo \ {i}
           next == [[req[r] EXCEPT !.todo = rest] EXCEPT !.skipped = @ + 1]
<1>1. req' = [req EXCEPT ![r] = next]
  BY DEF BoardInv, TypesOK
<1>2. /\ req[r] \in ImportReqs /\ i \in RowsOf(req[r].file)
      /\ Cardinality(req[r].todo) \in Nat /\ Cardinality(rest) = Cardinality(req[r].todo) - 1
  BY TakeRow
<1>3. ProgressOK(r)
  BY DEF BoardInv, ImportsOK
<1>4. rest \subseteq req[r].todo /\ i \notin rest /\ req[r].todo = rest \cup {i} /\ rest \in SUBSET Nat
  BY <1>2 DEF ImportReqs
<1> HIDE DEF rest
<1>6. next \in ImportReqs
  <2>1. req[r].skipped + 1 \in Nat
    <3>1. req[r].skipped \in Nat
      BY <1>2 DEF ImportReqs
    <3> QED BY <3>1
  <2> DEFINE skips == req[r].skipped + 1
  <2>2. next = [req[r] EXCEPT !.todo = rest, !.skipped = skips]
    BY <1>2 DEF ImportReqs
  <2>3. skips \in Nat
    BY <2>1
  <2> HIDE DEF skips, next
  <2> QED BY <1>2, <1>4, <2>2, <2>3 DEF ImportReqs
<1>7. /\ next.kind = "import" /\ next.file = req[r].file /\ next.todo = rest
      /\ next.created = req[r].created /\ next.updated = req[r].updated
      /\ next.skipped = req[r].skipped + 1 /\ next.sync = req[r].sync
      /\ next.at = "row"
  BY <1>2 DEF ImportReqs
<1> HIDE DEF next
<1>8. req'[r] = next
  BY <1>1 DEF BoardInv, TypesOK
<1>9. Upserted(r)' = Upserted(r)
  BY <1>4, <1>7, <1>8 DEF Upserted
<1>10. ProgressOK(r)'
  <2>1. /\ req[r].created \in Nat /\ req[r].updated \in Nat /\ req[r].skipped \in Nat
    BY <1>2 DEF ImportReqs
  <2>2. req'[r].created + req'[r].updated + req'[r].skipped + Cardinality(req'[r].todo)
          = Cardinality(RowsOf(req'[r].file))
    <3>1. req[r].created + req[r].updated + req[r].skipped + Cardinality(req[r].todo)
            = Cardinality(RowsOf(req[r].file))
      BY <1>3 DEF ProgressOK
    <3>2. /\ req'[r].created = req[r].created /\ req'[r].updated = req[r].updated
          /\ req'[r].skipped = req[r].skipped + 1 /\ req'[r].todo = rest
          /\ req'[r].file = req[r].file
      BY <1>7, <1>8
    <3>3. Cardinality(req'[r].todo) = Cardinality(req[r].todo) - 1
      BY <1>2, <3>2
    <3>4. RowsOf(req'[r].file) = RowsOf(req[r].file)
      BY <3>2
    <3>5. ASSUME NEW a \in Nat, NEW b \in Nat, NEW c \in Nat, NEW d \in Nat
          PROVE  a + b + (c + 1) + (d - 1) = a + b + c + d
      OBVIOUS
    <3>6. req[r].created + req[r].updated + (req[r].skipped + 1) + (Cardinality(req[r].todo) - 1)
            = Cardinality(RowsOf(req[r].file))
      BY <1>2, <2>1, <3>1, <3>5
    <3> QED BY <3>2, <3>3, <3>4, <3>6, Zenon
  <2>3. req'[r].todo \subseteq RowsOf(req'[r].file) /\ (req'[r].at = "done" => req'[r].todo = {})
    BY <1>3, <1>4, <1>7, <1>8 DEF ProgressOK
  <2>4. req'[r].sync = req[r].sync /\ req'[r].created = req[r].created
    BY <1>7, <1>8
  <2> QED BY <1>3, <1>9, <2>2, <2>3, <2>4 DEF ProgressOK
<1>11. next \in AllReqs
  BY <1>6 DEF AllReqs
<1> QED BY <1>1, <1>7, <1>10, <1>11, QuietBoard

\* An item is written: the requests of the others, and the request itself.
LEMMA WrittenOthers ==
  ASSUME BoardInv, NEW r \in Requests, NEW s, NEW ins \in BOOLEAN, Written(r, s, ins),
         NEW q \in Requests, q # r
  PROVE  /\ req'[q] \in AllReqs /\ req'[q].kind = req[q].kind
         /\ req[q].kind = "import" => req'[q] = req[q]
         /\ IsItemReq(q) =>
              /\ req'[q].at = req[q].at /\ req'[q].todo = req[q].todo
              /\ req'[q].profile = req[q].profile /\ req'[q].name = req[q].name
              /\ req'[q].host = req[q].host /\ req'[q].order = req[q].order
              /\ req'[q].written = req[q].written /\ req'[q].gone = req[q].gone
         /\ IsItemReq(q) =>
              /\ req'[q].listed = req[q].listed /\ req'[q].moved = req[q].moved
              /\ req'[q].orphan = req[q].orphan
         /\ req[q].kind = "bulk" /\ ~req'[q].overtaken => ~req[q].overtaken
         /\ ins /\ q \in Counted(req[r].profile) => req'[q].overtaken
<1>1. req'[q] = IF ins /\ q \in Counted(req[r].profile) THEN [req[q] EXCEPT !.overtaken = TRUE]
                ELSE req[q]
  BY DEF Written
<1>2. req[q] \in AllReqs
  BY ReqKinds DEF BoardInv
<1>3. CASE ins /\ q \in Counted(req[r].profile)
  <2>1. req[q].kind = "bulk" /\ req[q] \in ItemReqs
    BY <1>3, ReqKinds DEF BoardInv, Counted, IsItemReq
  <2>2. req'[q] = [req[q] EXCEPT !.overtaken = TRUE]
    BY <1>1, <1>3
  <2>3. req'[q] \in ItemReqs
    BY <2>1, <2>2 DEF ItemReqs
  <2>4. /\ req'[q].kind = req[q].kind
        /\ req'[q].at = req[q].at /\ req'[q].todo = req[q].todo
        /\ req'[q].profile = req[q].profile /\ req'[q].name = req[q].name
        /\ req'[q].host = req[q].host /\ req'[q].order = req[q].order
        /\ req'[q].written = req[q].written /\ req'[q].gone = req[q].gone
    BY <2>1, <2>2 DEF ItemReqs
  <2>5. /\ req'[q].listed = req[q].listed /\ req'[q].moved = req[q].moved
        /\ req'[q].orphan = req[q].orphan /\ req'[q].overtaken
    BY <2>1, <2>2 DEF ItemReqs
  <2> QED BY <2>1, <2>3, <2>4, <2>5 DEF AllReqs
<1>4. CASE ~(ins /\ q \in Counted(req[r].profile))
  <2>1. req'[q] = req[q]
    BY <1>1, <1>4
  <2> QED BY <1>2, <1>4, <2>1
<1> QED BY <1>3, <1>4

LEMMA WrittenSelf ==
  ASSUME BoardInv, NEW r \in Requests, IsItemReq(r), req[r].at \in {"read", "write"},
         NEW ins, Written(r, Head(req[r].todo), ins)
  PROVE  LET s == Head(req[r].todo)
         IN /\ s \in Streams /\ req'[r] \in ItemReqs /\ req'[r].kind = req[r].kind
            /\ req'[r].profile = req[r].profile /\ req'[r].name = req[r].name
            /\ req'[r].host = req[r].host /\ req'[r].at # "write"
            /\ req'[r].listed = req[r].listed /\ req'[r].moved = req[r].moved
            /\ req'[r].orphan = req[r].orphan
            /\ req'[r].written = req[r].written \cup {s}
            /\ req'[r].gone = req[r].gone \ {Key(r, s)}
            /\ req'[r].at = "read" => req'[r].todo # <<>>
<1> DEFINE s == Head(req[r].todo)
           at == IF Len(req[r].todo) > 1 THEN "read"
                 ELSE IF req[r].kind = "bulk" THEN "unreported" ELSE "done"
<1>1. req[r] \in ItemReqs /\ HoldsOK(r)
  BY ReqKinds DEF BoardInv, HoldingOK
<1>2. req[r].todo \in Seq(Streams) /\ req[r].todo # <<>>
  BY <1>1 DEF ItemReqs, HoldsOK
<1>3. s \in Streams /\ Tail(req[r].todo) \in Seq(Streams)
  BY <1>2, HeadTailProperties
<1>4. at \in {"read", "unreported", "done"}
  OBVIOUS
<1>5. at = "read" => Tail(req[r].todo) # <<>>
  <2> SUFFICES ASSUME Len(req[r].todo) > 1 PROVE Tail(req[r].todo) # <<>>
    BY DEF at
  <2> QED BY <1>2, TailLeft
<1>6. req'[r] = [req[r] EXCEPT !.todo = Tail(@), !.written = @ \cup {s},
                               !.gone = @ \ {Key(r, s)}, !.at = at]
  BY DEF Written
<1>7. req[r].written \cup {s} \in SUBSET Streams /\ req[r].gone \ {Key(r, s)} \in SUBSET Keys
  BY <1>1, <1>3 DEF ItemReqs
<1> HIDE DEF s, at
<1>8. req'[r] \in ItemReqs
  BY <1>1, <1>3, <1>4, <1>6, <1>7 DEF ItemReqs
<1>9. /\ req'[r].kind = req[r].kind
      /\ req'[r].profile = req[r].profile /\ req'[r].name = req[r].name
      /\ req'[r].host = req[r].host /\ req'[r].at = at /\ req'[r].todo = Tail(req[r].todo)
      /\ req'[r].written = req[r].written \cup {s}
      /\ req'[r].gone = req[r].gone \ {Key(r, s)}
  BY <1>1, <1>6 DEF ItemReqs
<1>10. /\ req'[r].listed = req[r].listed /\ req'[r].moved = req[r].moved
       /\ req'[r].orphan = req[r].orphan
  BY <1>1, <1>6 DEF ItemReqs
<1> QED BY <1>3, <1>4, <1>5, <1>8, <1>9, <1>10 DEF s

LEMMA WrittenBoard ==
  ASSUME BoardInv, NEW r \in Requests, IsItemReq(r), req[r].at \in {"read", "write"},
         ~req[r].orphan,
         NEW ins \in BOOLEAN, Written(r, Head(req[r].todo), ins),
         NEW row \in ItemRow, row.exists, row.active, row.host = req[r].host,
         item' = [item EXCEPT ![Key(r, Head(req[r].todo))] = row],
         outdated' = IF req[r].moved THEN outdated \cup {Key(r, Head(req[r].todo))}
                     ELSE outdated \ {Key(r, Head(req[r].todo))},
         late' \in SUBSET Keys,
         UNCHANGED <<instance, shrunk>>
  PROVE  TypesOK' /\ RowsOK' /\ HoldingOK' /\ HostsOK' /\ ImportsOK'
<1> DEFINE s == Head(req[r].todo)
           k == Key(r, s)
<1>1. /\ s \in Streams /\ req'[r] \in ItemReqs /\ req'[r].kind = req[r].kind
      /\ req'[r].profile = req[r].profile /\ req'[r].name = req[r].name
      /\ req'[r].host = req[r].host /\ req'[r].at # "write"
      /\ req'[r].written = req[r].written \cup {s}
      /\ req'[r].gone = req[r].gone \ {k}
      /\ req'[r].at = "read" => req'[r].todo # <<>>
  BY WrittenSelf
<1>2. /\ req'[r].listed = req[r].listed /\ req'[r].moved = req[r].moved
      /\ req'[r].orphan = req[r].orphan
  BY WrittenSelf
<1>3. k \in Keys /\ k[1] = req[r].profile /\ k[2] = req[r].name
  BY <1>1, KeyIn DEF BoardInv
<1>4. HoldsOK(r) /\ req[r].name \in Names
  BY ReqKinds DEF BoardInv, HoldingOK, ItemReqs
<1> HIDE DEF k, s
<1>5. item'[k] = row /\ \A l \in Keys : l # k => item'[l] = item[l]
  BY <1>3 DEF BoardInv, TypesOK, k, s
<1>6. \A l \in Keys : item[l].active => item'[l].active
  BY <1>5, Zenon
<1>7. TypesOK'
  <2>1. \A q \in Requests : req'[q] \in AllReqs
    BY <1>1, WrittenOthers DEF AllReqs
  <2>2. req' \in [Requests -> AllReqs]
    BY <2>1 DEF Written
  <2>3. item' \in [Keys -> ItemRow]
    BY DEF BoardInv, TypesOK
  <2>4. outdated' \subseteq Keys
    <3>1. outdated' \subseteq outdated \cup {k}
      BY DEF k, s
    <3> QED BY <1>3, <3>1 DEF BoardInv, TypesOK
  <2> QED BY <2>2, <2>3, <2>4 DEF BoardInv, TypesOK, AllReqs
<1>8. RowsOK'
  <2>1. instance[k[2]].exists
    BY <1>3, <1>4 DEF HoldsOK
  <2> QED BY <1>5, <2>1 DEF BoardInv, RowsOK
<1>9. HoldingOK'
  <2>1. HoldsOK(r)'
    <3>1. \A t : Key(r, t)' = Key(r, t)
      BY <1>1 DEF Key
    <3>2. ASSUME NEW t \in req'[r].written, Key(r, t) \notin req'[r].gone
          PROVE  item'[Key(r, t)].active
      <4>1. CASE Key(r, t) = k
        BY <1>5, <4>1
      <4>2. CASE Key(r, t) # k
        <5>1. t \in req[r].written /\ Key(r, t) \notin req[r].gone
          BY <1>1, <3>2, <4>2 DEF k
        <5>2. t \in Streams
          BY <5>1, ReqKinds DEF BoardInv, ItemReqs
        <5>3. Key(r, t) \in Keys
          BY <5>2, KeyIn DEF BoardInv
        <5> QED BY <1>4, <1>6, <5>1, <5>3 DEF HoldsOK
      <4> QED BY <4>1, <4>2
    <3> QED BY <1>1, <1>2, <1>4, <3>1, <3>2 DEF HoldsOK
  <2>2. ASSUME NEW q \in Requests, q # r, IsItemReq(q)' PROVE HoldsOK(q)'
    <3>1. IsItemReq(q)
      BY <2>2, WrittenOthers DEF IsItemReq
    <3>2. HoldsOK(q)
      BY <3>1 DEF BoardInv, HoldingOK
    <3>3. /\ req'[q].at = req[q].at /\ req'[q].todo = req[q].todo
          /\ req'[q].profile = req[q].profile /\ req'[q].name = req[q].name
          /\ req'[q].host = req[q].host
          /\ req'[q].written = req[q].written /\ req'[q].gone = req[q].gone
          /\ req'[q].listed = req[q].listed /\ req'[q].moved = req[q].moved
          /\ req'[q].orphan = req[q].orphan
      BY <2>2, <3>1, WrittenOthers
    <3>4. \A t : Key(q, t)' = Key(q, t)
      BY <3>3 DEF Key
    <3>5. \A t \in req[q].written : Key(q, t) \in Keys
      BY <3>1, ReqKinds, KeyIn DEF BoardInv, ItemReqs
    <3> QED BY <1>6, <3>2, <3>3, <3>4, <3>5 DEF HoldsOK
  <2> QED BY <2>1, <2>2 DEF HoldingOK
<1>10. HostsOK'
  <2> SUFFICES ASSUME NEW l \in Keys, item'[l].exists, l \notin outdated'
               PROVE  item'[l].host = instance[l[2]].host
    BY DEF HostsOK
  <2>1. CASE l = k
    <3>1. ~req[r].moved
      BY <2>1 DEF k, s
    <3> QED BY <1>3, <1>4, <1>5, <2>1, <3>1 DEF HoldsOK
  <2>2. CASE l # k
    <3>1. l \notin outdated
      BY <2>2 DEF k, s
    <3> QED BY <1>5, <2>2, <3>1 DEF BoardInv, HostsOK
  <2> QED BY <2>1, <2>2
<1>11. ImportsOK'
  <2> SUFFICES ASSUME NEW q \in Requests, req'[q].kind = "import" PROVE ProgressOK(q)'
    BY DEF ImportsOK
  <2>1. q # r
    BY <1>1 DEF IsItemReq
  <2>2. req'[q] = req[q]
    BY <2>1, WrittenOthers
  <2>3. ProgressOK(q)
    BY <2>2 DEF BoardInv, ImportsOK
  <2> QED BY <2>2, <2>3 DEF ProgressOK, Upserted
<1> QED BY <1>7, <1>8, <1>9, <1>10, <1>11

LEMMA CountType ==
  ASSUME BoardInv, NEW p \in Profiles
  PROVE  IsFiniteSet(InProfile(p)) /\ Count(p) = Cardinality(InProfile(p)) /\ Count(p) \in Nat
<1>1. IsFiniteSet(InProfile(p))
  BY DEF BoardInv, PlacesOK
<1> QED BY <1>1, FS_CardinalityType DEF Count, InProfile

\* An item that exists is shown again and keeps its place.
LEMMA ShownBoard ==
  ASSUME BoardInv, NEW r \in Requests, IsItemReq(r), req[r].at \in {"read", "write"},
         ~req[r].orphan, Written(r, Head(req[r].todo), FALSE),
         item[Key(r, Head(req[r].todo))].exists,
         ShowAgain(Key(r, Head(req[r].todo)), req[r].host),
         outdated' = IF req[r].moved THEN outdated \cup {Key(r, Head(req[r].todo))}
                     ELSE outdated \ {Key(r, Head(req[r].todo))},
         UNCHANGED <<instance, shrunk, late>>
  PROVE  BoardInv'
<1> DEFINE s == Head(req[r].todo)
           k == Key(r, s)
           row == [item[k] EXCEPT !.active = TRUE, !.host = req[r].host]
<1>1. k \in Keys /\ req[r].host \in Hosts
  BY WrittenSelf, KeyIn, ReqKinds DEF BoardInv, ItemReqs
<1>2. item' = [item EXCEPT ![k] = row]
  BY <1>1 DEF ShowAgain, BoardInv, TypesOK, ItemRow
<1>3. item[k] \in ItemRow
  BY <1>1 DEF BoardInv, TypesOK
<1>4. /\ row \in ItemRow /\ row.exists /\ row.active /\ row.host = req[r].host
      /\ row.order = item[k].order
  BY <1>1, <1>3 DEF ItemRow
<1> HIDE DEF row
<1>5. TypesOK' /\ RowsOK' /\ HoldingOK' /\ HostsOK' /\ ImportsOK'
  <2>1. late' \in SUBSET Keys
    BY DEF BoardInv, TypesOK
  <2> QED BY <1>2, <1>4, <2>1, WrittenBoard
<1>6. \A l \in Keys : item'[l].exists = item[l].exists /\ item'[l].order = item[l].order
  <2> HIDE DEF k
  <2> QED BY <1>1, <1>2, <1>4 DEF BoardInv, TypesOK, ItemRow, k
<1>7. \A p : InProfile(p)' = InProfile(p) /\ Count(p)' = Count(p)
  BY <1>6 DEF InProfile, Count
<1>8. PlacesOK'
  <2>1. ASSUME NEW q \in Requests PROVE CountOK(q)'
    <3>1. CASE q = r
      <4>1. req'[r].at # "write"
        BY WrittenSelf
      <4> QED BY <3>1, <4>1 DEF CountOK
    <3>2. CASE q # r
      <4> SUFFICES ASSUME req'[q].kind = "bulk", req'[q].at = "write", ~req'[q].overtaken,
                          req'[q].profile \notin shrunk
                   PROVE  req'[q].order = Count(req[q].profile)'
        BY DEF CountOK
      <4>1. req[q].kind = "bulk"
        BY <3>2, WrittenOthers
      <4>2. /\ req[q].at = "write" /\ ~req[q].overtaken /\ req[q].profile = req'[q].profile
            /\ req[q].order = req'[q].order
        BY <3>2, <4>1, WrittenOthers DEF IsItemReq
      <4>3. req[q].order = Count(req[q].profile)
        BY <4>1, <4>2 DEF CountOK, BoardInv, PlacesOK
      <4> QED BY <1>7, <4>2, <4>3
    <3> QED BY <3>1, <3>2
  <2> QED BY <1>6, <1>7, <2>1 DEF BoardInv, PlacesOK
<1>9. TiesOnlyFromOverlap'
  BY <1>6 DEF BoardInv, TiesOnlyFromOverlap
<1> QED BY <1>5, <1>8, <1>9 DEF BoardInv

\* A new item goes behind the rows that were counted, unless it is late.
LEMMA InsertedBoard ==
  ASSUME BoardInv, NEW r \in Requests, IsItemReq(r), req[r].at \in {"read", "write"},
         ~req[r].orphan, Written(r, Head(req[r].todo), TRUE),
         NEW k, k = Key(r, Head(req[r].todo)), NEW p, p = req[r].profile,
         ~item[k].exists, NEW order \in Nat, Insert(k, order, req[r].host),
         \/ late' = late \cup {k}
         \/ late' = late /\ (p \notin shrunk => order = Count(p)),
         outdated' = IF req[r].moved THEN outdated \cup {k} ELSE outdated \ {k},
         UNCHANGED <<instance, shrunk>>
  PROVE  BoardInv'
<1> DEFINE row == [exists |-> TRUE, active |-> TRUE, order |-> order, host |-> req[r].host]
<1>1. k \in Keys /\ req[r].host \in Hosts /\ p \in Profiles /\ k[1] = p
  BY WrittenSelf, KeyIn, ReqKinds DEF BoardInv, ItemReqs
<1>2. item' = [item EXCEPT ![k] = row]
  BY DEF Insert
<1>3. /\ row \in ItemRow /\ row.exists /\ row.active /\ row.host = req[r].host
      /\ row.order = order
  BY <1>1 DEF ItemRow
<1> HIDE DEF row
<1>4. ~item[k].exists
  OBVIOUS
<1>5. \/ late' = late \cup {k}
      \/ late' = late /\ (p \notin shrunk => order = Count(p))
  OBVIOUS
<1>7. TypesOK' /\ RowsOK' /\ HoldingOK' /\ HostsOK' /\ ImportsOK'
  <2>1. late' \in SUBSET Keys
    BY <1>1, <1>5 DEF BoardInv, TypesOK
  <2> QED BY <1>2, <1>3, <2>1, WrittenBoard
<1>8. item'[k] = row /\ \A l \in Keys : l # k => item'[l] = item[l]
  BY <1>1, <1>2 DEF BoardInv, TypesOK
<1>9. \A o : o # p => InProfile(o)' = InProfile(o) /\ Count(o)' = Count(o)
  <2> SUFFICES ASSUME NEW o, o # p PROVE InProfile(o)' = InProfile(o)
    BY DEF Count, InProfile
  <2>1. \A l \in Keys : l[1] = o => item'[l] = item[l]
    BY <1>1, <1>8
  <2> QED BY <2>1 DEF InProfile
<1>10. InProfile(p)' = InProfile(p) \cup {k} /\ k \notin InProfile(p)
  BY <1>1, <1>3, <1>4, <1>8 DEF InProfile
<1>11. IsFiniteSet(InProfile(p)) /\ Count(p) = Cardinality(InProfile(p)) /\ Count(p) \in Nat
  BY <1>1, CountType
<1>12. IsFiniteSet(InProfile(p)') /\ Count(p)' = Count(p) + 1
  <2>1. IsFiniteSet(InProfile(p) \cup {k}) /\ Cardinality(InProfile(p) \cup {k}) = Cardinality(InProfile(p)) + 1
    BY <1>10, <1>11, FS_AddElement
  <2>2. Count(p)' = Cardinality(InProfile(p)')
    BY DEF Count, InProfile
  <2> QED BY <1>10, <1>11, <2>1, <2>2
<1>13. \A l \in Keys : item'[l].exists /\ l \notin late' /\ l[1] \notin shrunk =>
         item'[l].order < Count(l[1])'
  <2> SUFFICES ASSUME NEW l \in Keys, item'[l].exists, l \notin late', l[1] \notin shrunk
               PROVE  item'[l].order < Count(l[1])'
    OBVIOUS
  <2>1. CASE l = k
    <3>1. order = Count(p)
      BY <1>1, <1>5, <2>1
    <3> QED BY <1>1, <1>3, <1>8, <1>11, <1>12, <2>1, <3>1
  <2>2. CASE l # k
    <3>1. item'[l] = item[l] /\ l \notin late
      BY <1>5, <1>8, <2>2
    <3>2. item[l].order < Count(l[1]) /\ item[l].order \in Nat
      BY <3>1 DEF BoardInv, PlacesOK, TypesOK, ItemRow
    <3>3. CASE l[1] = p
      BY <1>11, <1>12, <3>1, <3>2, <3>3
    <3>4. CASE l[1] # p
      BY <1>9, <3>1, <3>2, <3>4
    <3> QED BY <3>3, <3>4
  <2> QED BY <2>1, <2>2
<1>14. ASSUME NEW q \in Requests PROVE CountOK(q)'
  <2>1. CASE q = r
    <3>1. req'[r].at # "write"
      BY WrittenSelf
    <3> QED BY <2>1, <3>1 DEF CountOK
  <2>2. CASE q # r
    <3> SUFFICES ASSUME req'[q].kind = "bulk", req'[q].at = "write", ~req'[q].overtaken,
                        req'[q].profile \notin shrunk
                 PROVE  req'[q].order = Count(req[q].profile)'
      BY DEF CountOK
    <3>1. req[q].kind = "bulk"
      BY <2>2, WrittenOthers
    <3>2. /\ req[q].at = "write" /\ ~req[q].overtaken /\ req[q].profile = req'[q].profile
          /\ req[q].order = req'[q].order
      BY <2>2, <3>1, WrittenOthers DEF IsItemReq
    <3>3. req[q].order = Count(req[q].profile)
      BY <3>1, <3>2 DEF CountOK, BoardInv, PlacesOK
    <3>4. q \notin Counted(p)
      BY <2>2, WrittenOthers
    <3>5. req[q].profile # p
      BY <3>1, <3>2, <3>4 DEF Counted
    <3> QED BY <1>9, <3>2, <3>3, <3>5
  <2> QED BY <2>1, <2>2
<1>15. PlacesOK'
  <2>1. \A o \in Profiles : IsFiniteSet(InProfile(o)')
    BY <1>9, <1>12, CountType
  <2> QED BY <1>13, <1>14, <2>1 DEF PlacesOK
<1>16. ASSUME NEW l \in Keys, l # k, l[1] = p, p \notin shrunk, item[l].exists,
              item[l].order = order
       PROVE  k \in late' \/ l \in late'
  <2> SUFFICES ASSUME k \notin late', l \notin late PROVE FALSE
    BY <1>5
  <2>1. order = Count(p)
    BY <1>5, <1>16
  <2>2. item[l].order < Count(p)
    BY <1>16 DEF BoardInv, PlacesOK
  <2> QED BY <1>11, <1>16, <2>1, <2>2
<1>17. TiesOnlyFromOverlap'
  <2> SUFFICES ASSUME NEW x \in Keys, NEW y \in Keys, x # y, x[1] = y[1], x[1] \notin shrunk,
                      item'[x].exists, item'[y].exists, item'[x].order = item'[y].order
               PROVE  x \in late' \/ y \in late'
    BY DEF TiesOnlyFromOverlap
  <2>1. CASE x # k /\ y # k
    BY <1>5, <1>8, <2>1 DEF BoardInv, TiesOnlyFromOverlap
  <2>2. CASE x = k
    BY <1>1, <1>3, <1>8, <1>16, <2>2
  <2>3. CASE y = k
    BY <1>1, <1>3, <1>8, <1>16, <2>3
  <2> QED BY <2>1, <2>2, <2>3
<1> QED BY <1>7, <1>15, <1>17 DEF BoardInv

LEMMA WriteItemBoard ==
  ASSUME BoardInv, NEW r \in Requests, WriteItem(r)
  PROVE  BoardInv'
<1>1. req[r].kind = "bulk" /\ req[r].at = "write" /\ IsItemReq(r)
  BY DEF WriteItem, IsItemReq
<1>2. PICK k : k = Key(r, Head(req[r].todo))
  OBVIOUS
<1>3. UNCHANGED shrunk
  BY DEF WriteItem
<1>4. CASE req[r].orphan \/ req[r].found # item[k].exists
  BY <1>1, <1>2, <1>3, <1>4, DieBoard DEF WriteItem
<1>5. CASE ~(req[r].orphan \/ req[r].found # item[k].exists)
  <2>1. /\ Written(r, Head(req[r].todo), ~req[r].found)
        /\ outdated' = IF req[r].moved THEN outdated \cup {k} ELSE outdated \ {k}
        /\ UNCHANGED instance
    BY <1>2, <1>5 DEF WriteItem
  <2>2. req[r] \in ItemReqs
    BY <1>1, ReqKinds DEF BoardInv
  <2>3. CASE req[r].found
    <3>1. ShowAgain(k, req[r].host) /\ UNCHANGED late
      BY <1>2, <1>5, <2>3 DEF WriteItem
    <3>2. (~req[r].found) = FALSE
      BY <2>3
    <3>3. Written(r, Head(req[r].todo), FALSE)
      BY <2>1, <3>2
    <3>4. item[k].exists
      BY <1>5, <2>3
    <3> QED BY <1>1, <1>2, <1>3, <1>5, <2>1, <3>1, <3>3, <3>4, ShownBoard
  <2>4. CASE ~req[r].found
    <3>1. /\ Insert(k, req[r].order, req[r].host)
          /\ late' = IF req[r].overtaken THEN late \cup {k} ELSE late
      BY <1>2, <1>5, <2>4 DEF WriteItem
    <3>2. (~req[r].found) = TRUE
      BY <2>4
    <3>3. Written(r, Head(req[r].todo), TRUE)
      BY <2>1, <3>2
    <3>4. ~item[k].exists
      <4>1. k \in Keys
        <5>1. Head(req[r].todo) \in Streams
          <6>1. Written(r, Head(req[r].todo), TRUE)
            BY <3>3
          <6> QED BY <1>1, <6>1, WrittenSelf
        <5> QED BY <1>1, <1>2, <5>1, KeyIn DEF BoardInv
      <4>2. item[k].exists \in BOOLEAN /\ req[r].found \in BOOLEAN
        BY <2>2, <4>1 DEF BoardInv, TypesOK, ItemRow, ItemReqs
      <4> QED BY <1>5, <2>4, <4>2
    <3>5. PICK p : p = req[r].profile
      OBVIOUS
    <3>6. \/ late' = late \cup {k}
          \/ late' = late /\ (p \notin shrunk => req[r].order = Count(p))
      <4>1. CountOK(r)
        BY DEF BoardInv, PlacesOK
      <4> QED BY <1>1, <3>1, <3>5, <4>1 DEF CountOK
    <3>7. req[r].order \in Nat
      BY <2>2 DEF ItemReqs
    <3> QED BY <1>1, <1>2, <1>3, <1>5, <2>1, <3>1, <3>3, <3>4, <3>5, <3>6, <3>7, InsertedBoard
  <2> QED BY <2>3, <2>4
<1> QED BY <1>4, <1>5

LEMMA AddItemBoard ==
  ASSUME BoardInv, NEW r \in Requests, AddItem(r)
  PROVE  BoardInv'
<1>1. req[r].kind = "add" /\ req[r].at = "read" /\ IsItemReq(r)
  BY DEF AddItem, IsItemReq
<1>2. PICK k : k = Key(r, Head(req[r].todo))
  OBVIOUS
<1>3. UNCHANGED shrunk
  BY DEF AddItem
<1>4. CASE req[r].orphan
  BY <1>1, <1>2, <1>3, <1>4, DieBoard DEF AddItem
<1>5. CASE ~req[r].orphan
  <2>1. /\ Written(r, Head(req[r].todo), ~item[k].exists)
        /\ outdated' = IF req[r].moved THEN outdated \cup {k} ELSE outdated \ {k}
        /\ UNCHANGED instance
    BY <1>2, <1>5 DEF AddItem
  <2>2. CASE item[k].exists
    <3>1. ShowAgain(k, req[r].host) /\ UNCHANGED late
      BY <1>2, <1>5, <2>2 DEF AddItem
    <3>2. (~item[k].exists) = FALSE
      BY <2>2
    <3>3. Written(r, Head(req[r].todo), FALSE)
      BY <2>1, <3>2
    <3> QED BY <1>1, <1>2, <1>3, <1>5, <2>1, <2>2, <3>1, <3>3, ShownBoard
  <2>3. CASE ~item[k].exists
    <3>1. Insert(k, 0, req[r].host) /\ late' = late \cup {k}
      BY <1>2, <1>5, <2>3 DEF AddItem
    <3>2. (~item[k].exists) = TRUE
      BY <2>3
    <3>3. Written(r, Head(req[r].todo), TRUE)
      BY <2>1, <3>2
    <3>4. PICK p : p = req[r].profile
      OBVIOUS
    <3> QED BY <1>1, <1>2, <1>3, <1>5, <2>1, <2>3, <3>1, <3>3, <3>4, InsertedBoard
  <2> QED BY <2>2, <2>3
<1> QED BY <1>4, <1>5

\* A request that has loaded instance n when it is written.
LEMMA EditedRequest ==
  ASSUME BoardInv, NEW q \in Requests, NEW n \in Names, req'[q] = Edited(n)[q]
  PROVE  /\ req'[q] \in AllReqs /\ req'[q].kind = req[q].kind
         /\ ~IsItemReq(q) => req'[q] = req[q]
         /\ IsItemReq(q) =>
              /\ req'[q].at = req[q].at /\ req'[q].todo = req[q].todo
              /\ req'[q].profile = req[q].profile /\ req'[q].name = req[q].name
              /\ req'[q].host = req[q].host /\ req'[q].order = req[q].order
              /\ req'[q].written = req[q].written /\ req'[q].gone = req[q].gone
         /\ IsItemReq(q) =>
              /\ req'[q].listed = req[q].listed /\ req'[q].overtaken = req[q].overtaken
              /\ req'[q].orphan = req[q].orphan
         /\ IsItemReq(q) /\ ~req'[q].moved => ~req[q].moved /\ req[q].name # n
<1>1. req[q] \in AllReqs
  BY ReqKinds DEF BoardInv
<1>2. CASE IsItemReq(q) /\ req[q].name = n
  <2>1. req[q] \in ItemReqs
    BY <1>2, ReqKinds DEF BoardInv
  <2>2. req'[q] = [req[q] EXCEPT !.moved = TRUE]
    BY <1>2 DEF Edited, Holds, IsItemReq
  <2>3. req'[q] \in ItemReqs
    BY <2>1, <2>2 DEF ItemReqs
  <2>4. /\ req'[q].kind = req[q].kind
        /\ req'[q].at = req[q].at /\ req'[q].todo = req[q].todo
        /\ req'[q].profile = req[q].profile /\ req'[q].name = req[q].name
        /\ req'[q].host = req[q].host /\ req'[q].order = req[q].order
        /\ req'[q].written = req[q].written /\ req'[q].gone = req[q].gone
    BY <2>1, <2>2 DEF ItemReqs
  <2>5. /\ req'[q].listed = req[q].listed /\ req'[q].overtaken = req[q].overtaken
        /\ req'[q].orphan = req[q].orphan /\ req'[q].moved
    BY <2>1, <2>2 DEF ItemReqs
  <2> QED BY <1>2, <2>3, <2>4, <2>5 DEF AllReqs
<1>3. CASE ~(IsItemReq(q) /\ req[q].name = n)
  <2>1. req'[q] = req[q]
    BY <1>3 DEF Edited, Holds, IsItemReq
  <2> QED BY <1>1, <1>3, <2>1
<1> QED BY <1>2, <1>3

LEMMA KeptImport ==
  ASSUME NEW q \in Requests, ProgressOK(q), req'[q] = req[q],
         TypesOK, req[q].kind = "import",
         \A m \in Names : instance[m].exists => instance'[m].exists
  PROVE  ProgressOK(q)'
<1>1. Upserted(q)' = Upserted(q)
  BY DEF Upserted
<1>2. req[q].sync \in Seq(Names \cup {0})
  BY ReqKinds DEF ImportReqs
<1>3. \A i \in DOMAIN req[q].sync : req[q].sync[i] \in Names \cup {0}
  BY <1>2
<1>4. \A i \in DOMAIN req[q].sync : req[q].sync[i] # 0 => instance'[req[q].sync[i]].exists
  BY <1>3 DEF ProgressOK
<1> QED BY <1>1, <1>4 DEF ProgressOK

\* The row of an instance is written; its items stay.
LEMMA EditedBoard ==
  ASSUME BoardInv, NEW n \in Names, NEW row \in InstanceRow, row.exists,
         instance' = [instance EXCEPT ![n] = row],
         UNCHANGED <<item, late, shrunk>>,
         req' \in [Requests -> AllReqs],
         \A q \in Requests : req[q].kind # "import" => req'[q] = Edited(n)[q],
         \A q \in Requests : req[q].kind = "import" => req'[q].kind = "import" /\ ProgressOK(q)',
         outdated \subseteq outdated', outdated' \subseteq Keys,
         row.host # instance[n].host => {k \in ItemsOf(n) : item[k].exists} \subseteq outdated'
  PROVE  BoardInv'
<1>1. instance'[n] = row /\ \A m \in Names : m # n => instance'[m] = instance[m]
  BY DEF BoardInv, TypesOK
<1>2. \A q \in Requests : IsItemReq(q)' => IsItemReq(q) /\ req'[q] = Edited(n)[q]
  <2> SUFFICES ASSUME NEW q \in Requests, IsItemReq(q)'
               PROVE  IsItemReq(q) /\ req'[q] = Edited(n)[q]
    OBVIOUS
  <2>1. req'[q].kind # "import"
    BY DEF IsItemReq
  <2>2. req'[q] = Edited(n)[q]
    BY <2>1
  <2>3. req'[q].kind = req[q].kind
    BY <2>2, EditedRequest
  <2> QED BY <2>2, <2>3 DEF IsItemReq
<1>3. \A k \in Keys : k[2] \in Names
  BY DEF Keys
<1>4. TypesOK'
  BY DEF BoardInv, TypesOK, AllReqs
<1>5. RowsOK'
  BY <1>1, <1>3 DEF BoardInv, RowsOK
<1>6. HoldingOK'
  <2> SUFFICES ASSUME NEW q \in Requests, IsItemReq(q)' PROVE HoldsOK(q)'
    BY DEF HoldingOK
  <2>1. IsItemReq(q) /\ req'[q] = Edited(n)[q] /\ HoldsOK(q)
    BY <1>2 DEF BoardInv, HoldingOK
  <2>2. /\ req'[q].at = req[q].at /\ req'[q].todo = req[q].todo
        /\ req'[q].profile = req[q].profile /\ req'[q].name = req[q].name
        /\ req'[q].host = req[q].host
        /\ req'[q].written = req[q].written /\ req'[q].gone = req[q].gone
    BY <2>1, EditedRequest
  <2>3. /\ req'[q].listed = req[q].listed /\ req'[q].orphan = req[q].orphan
        /\ ~req'[q].moved => ~req[q].moved /\ req[q].name # n
    BY <2>1, EditedRequest
  <2>4. req[q].name \in Names
    BY <2>1, ReqKinds DEF BoardInv, ItemReqs
  <2>5. \A t : Key(q, t)' = Key(q, t)
    BY <2>2 DEF Key
  <2>6. instance[req[q].name].exists => instance'[req'[q].name].exists
    BY <1>1, <2>2, <2>4
  <2>7. req[q].name # n => instance'[req'[q].name] = instance[req[q].name]
    BY <1>1, <2>2, <2>4
  <2>8. ~req'[q].orphan /\ ~req'[q].moved =>
          /\ req'[q].host = instance'[req'[q].name].host
          /\ req'[q].listed => instance'[req'[q].name].active /\ instance'[req'[q].name].private
    BY <2>1, <2>2, <2>3, <2>7 DEF HoldsOK
  <2>9. \A s \in req'[q].written :
          Key(q, s)' \notin req'[q].gone => ~req'[q].orphan /\ item'[Key(q, s)'].active
    BY <2>1, <2>2, <2>3, <2>5 DEF HoldsOK
  <2>10. /\ req'[q].at \in {"read", "write"} => req'[q].todo # <<>>
         /\ ~req'[q].orphan => instance'[req'[q].name].exists
    BY <2>1, <2>2, <2>3, <2>6 DEF HoldsOK
  <2> QED BY <2>8, <2>9, <2>10 DEF HoldsOK
<1>7. HostsOK'
  <2> SUFFICES ASSUME NEW k \in Keys, item[k].exists, k \notin outdated'
               PROVE  item[k].host = instance'[k[2]].host
    BY DEF HostsOK
  <2>1. item[k].host = instance[k[2]].host
    BY DEF BoardInv, HostsOK
  <2>2. CASE k[2] = n
    BY <1>1, <2>1, <2>2 DEF ItemsOf
  <2>3. CASE k[2] # n
    BY <1>1, <1>3, <2>1, <2>3
  <2> QED BY <2>2, <2>3
<1>8. PlacesOK'
  <2>1. \A p : InProfile(p)' = InProfile(p) /\ Count(p)' = Count(p)
    BY DEF InProfile, Count
  <2>2. ASSUME NEW q \in Requests PROVE CountOK(q)'
    <3> SUFFICES ASSUME req'[q].kind = "bulk", req'[q].at = "write", ~req'[q].overtaken,
                        req'[q].profile \notin shrunk
                 PROVE  req'[q].order = Count(req'[q].profile)
      BY DEF CountOK, Count
    <3>1. IsItemReq(q)' 
      BY DEF IsItemReq
    <3>2. IsItemReq(q) /\ req'[q] = Edited(n)[q] /\ req[q].kind = "bulk"
      BY <1>2, <3>1, EditedRequest
    <3>3. /\ req[q].at = "write" /\ ~req[q].overtaken /\ req[q].profile = req'[q].profile
          /\ req[q].order = req'[q].order
      BY <3>2, EditedRequest
    <3> QED BY <3>2, <3>3 DEF CountOK, BoardInv, PlacesOK
  <2> QED BY <2>1, <2>2 DEF BoardInv, PlacesOK
<1>9. TiesOnlyFromOverlap'
  BY DEF BoardInv, TiesOnlyFromOverlap
<1>10. ImportsOK'
  <2> SUFFICES ASSUME NEW q \in Requests, req'[q].kind = "import" PROVE ProgressOK(q)'
    BY DEF ImportsOK
  <2>1. CASE req[q].kind = "import"
    BY <2>1
  <2>2. CASE req[q].kind # "import"
    <3>1. req'[q].kind = req[q].kind
      BY <2>2, EditedRequest
    <3> QED BY <2>2, <3>1
  <2> QED BY <2>1, <2>2
<1> QED BY <1>4, <1>5, <1>6, <1>7, <1>8, <1>9, <1>10 DEF BoardInv

\* update_or_create of an instance, whoever runs it.
LEMMA UpsertBoard ==
  ASSUME BoardInv, NEW n \in Names, NEW host \in Hosts, UpsertInstance(n, host),
         UNCHANGED <<item, late, shrunk>>,
         req' \in [Requests -> AllReqs],
         \A q \in Requests : req[q].kind # "import" => req'[q] = Edited(n)[q],
         \A q \in Requests : req[q].kind = "import" => req'[q].kind = "import" /\ ProgressOK(q)'
  PROVE  BoardInv'
<1> DEFINE row == [instance[n] EXCEPT !.exists = TRUE, !.host = host, !.active = TRUE]
<1>1. instance[n] \in InstanceRow
  BY DEF BoardInv, TypesOK
<1>2. instance' = [instance EXCEPT ![n] = row]
  BY <1>1 DEF UpsertInstance, BoardInv, TypesOK, InstanceRow
<1>3. row \in InstanceRow /\ row.exists
  BY <1>1 DEF InstanceRow
<1> HIDE DEF row
<1>4. outdated' = outdated \cup {k \in ItemsOf(n) : item[k].exists}
  BY DEF UpsertInstance
<1>5. outdated \subseteq Keys /\ ItemsOf(n) \subseteq Keys
  BY DEF BoardInv, TypesOK, ItemsOf
<1>6. outdated \subseteq outdated' /\ outdated' \subseteq Keys
      /\ {k \in ItemsOf(n) : item[k].exists} \subseteq outdated'
  BY <1>4, <1>5
<1> QED BY <1>2, <1>3, <1>6, EditedBoard

LEMMA AddInstanceBoard ==
  ASSUME BoardInv, NEW n \in Names, NEW host \in Hosts, AddInstance(n, host)
  PROVE  BoardInv'
<1>1. UpsertInstance(n, host) /\ req' = Edited(n) /\ UNCHANGED <<item, late, shrunk>>
  BY DEF AddInstance
<1>2. \A q \in Requests : req'[q] = Edited(n)[q]
  BY <1>1
<1>3. \A q \in Requests : req'[q] \in AllReqs /\ req'[q].kind = req[q].kind
                          /\ (~IsItemReq(q) => req'[q] = req[q])
  BY <1>2, EditedRequest
<1>4. req' \in [Requests -> AllReqs]
  BY <1>1, <1>3 DEF Edited
<1>5. \A m \in Names : instance[m].exists => instance'[m].exists
  BY <1>1 DEF UpsertInstance, BoardInv, TypesOK, InstanceRow
<1>6. ASSUME NEW q \in Requests, req[q].kind = "import"
      PROVE  req'[q].kind = "import" /\ ProgressOK(q)'
  <2>1. req'[q] = req[q]
    BY <1>3, <1>6 DEF IsItemReq
  <2>2. ProgressOK(q) /\ TypesOK
    BY <1>6 DEF BoardInv, ImportsOK
  <2> QED BY <1>5, <1>6, <2>1, <2>2, KeptImport
<1> QED BY <1>1, <1>2, <1>4, <1>6, UpsertBoard

LEMMA EditInstanceBoard ==
  ASSUME BoardInv, NEW n \in Names, NEW active \in BOOLEAN, NEW private \in BOOLEAN,
         EditInstance(n, active, private)
  PROVE  BoardInv'
<1> DEFINE row == [instance[n] EXCEPT !.active = active, !.private = private]
<1>1. /\ instance[n].exists /\ req' = Edited(n)
      /\ UNCHANGED <<item, late, outdated, shrunk>>
  BY DEF EditInstance
<1>2. instance[n] \in InstanceRow
  BY DEF BoardInv, TypesOK
<1>3. instance' = [instance EXCEPT ![n] = row]
  BY <1>2 DEF EditInstance, BoardInv, TypesOK, InstanceRow
<1>4. row \in InstanceRow /\ row.exists /\ row.host = instance[n].host
  BY <1>1, <1>2 DEF InstanceRow
<1> HIDE DEF row
<1>5. \A q \in Requests : req'[q] = Edited(n)[q]
  BY <1>1
<1>6. \A q \in Requests : req'[q] \in AllReqs /\ req'[q].kind = req[q].kind
                          /\ (~IsItemReq(q) => req'[q] = req[q])
  BY <1>5, EditedRequest
<1>7. req' \in [Requests -> AllReqs]
  BY <1>1, <1>6 DEF Edited
<1>8. \A m \in Names : instance[m].exists <=> instance'[m].exists
  BY <1>1, <1>3, <1>4 DEF BoardInv, TypesOK
<1>9. ASSUME NEW q \in Requests, req[q].kind = "import"
      PROVE  req'[q].kind = "import" /\ ProgressOK(q)'
  <2>1. req'[q] = req[q]
    BY <1>6, <1>9 DEF IsItemReq
  <2>2. ProgressOK(q) /\ TypesOK
    BY <1>9 DEF BoardInv, ImportsOK
  <2> QED BY <1>8, <1>9, <2>1, <2>2, KeptImport
<1>11. outdated' \subseteq Keys /\ outdated \subseteq outdated'
  BY <1>1 DEF BoardInv, TypesOK
<1> QED BY <1>1, <1>3, <1>4, <1>5, <1>7, <1>9, <1>11, EditedBoard

\* A name joins the list of an import unless it is on it.
LEMMA SyncOnceList ==
  ASSUME NEW sync \in Seq(Names \cup {0}), NEW x \in Names \cup {0},
         NEW more, more = SyncOnce(sync, x)
  PROVE  /\ more \in Seq(Names \cup {0})
         /\ Len(more) \in Nat /\ Len(sync) \in Nat /\ Len(sync) <= Len(more)
         /\ ToSet(more) = ToSet(sync) \cup {x}
         /\ (\A i \in DOMAIN sync : sync[i] # x) => Len(more) = Len(sync) + 1
         /\ \A i \in DOMAIN sync : i \in DOMAIN more /\ more[i] = sync[i]
         /\ \A i \in DOMAIN more : (i \in DOMAIN sync /\ more[i] = sync[i]) \/ more[i] = x
         /\ \A i, j \in DOMAIN more : i # j /\ more[i] = more[j] =>
               i \in DOMAIN sync /\ j \in DOMAIN sync
<1>1. DOMAIN sync = 1..Len(sync) /\ Len(sync) \in Nat
  OBVIOUS
<1>2. Contains(sync, x) <=> \E i \in DOMAIN sync : sync[i] = x
  BY <1>1 DEF Contains
<1>3. CASE Contains(sync, x)
  <2>1. more = sync
    BY <1>3 DEF SyncOnce
  <2>2. x \in ToSet(sync)
    BY <1>2, <1>3 DEF ToSet
  <2>3. ToSet(sync) = ToSet(sync) \cup {x}
    BY <2>2
  <2>4. ~ \A i \in DOMAIN sync : sync[i] # x
    BY <1>2, <1>3
  <2>5. /\ more \in Seq(Names \cup {0}) /\ Len(more) \in Nat /\ Len(sync) \in Nat /\ Len(sync) <= Len(more)
    BY <1>1, <2>1
  <2>6. /\ \A i \in DOMAIN sync : i \in DOMAIN more /\ more[i] = sync[i]
        /\ \A i \in DOMAIN more : i \in DOMAIN sync /\ more[i] = sync[i]
    BY <2>1
  <2>7. ToSet(more) = ToSet(sync) \cup {x}
    BY <2>1, <2>3
  <2> QED BY <2>4, <2>5, <2>6, <2>7
<1>4. CASE ~Contains(sync, x)
  <2>1. more = Append(sync, x)
    BY <1>4 DEF SyncOnce
  <2>2. /\ more \in Seq(Names \cup {0}) /\ Len(more) = Len(sync) + 1 /\ DOMAIN more = 1..(Len(sync) + 1)
        /\ \A i \in 1..Len(sync) : more[i] = sync[i]
        /\ more[Len(sync) + 1] = x
    BY <2>1
  <2>3. \A i \in DOMAIN more : \/ i \in DOMAIN sync /\ more[i] = sync[i]
                               \/ i = Len(sync) + 1 /\ more[i] = x
    <3>1. ASSUME NEW l \in Nat, NEW i \in 1..(l + 1) PROVE i \in 1..l \/ i = l + 1
      OBVIOUS
    <3>2. \A i \in DOMAIN more : i \in 1..Len(sync) \/ i = Len(sync) + 1
      BY <1>1, <2>2, <3>1
    <3>3. \A i \in 1..Len(sync) : i \in DOMAIN sync /\ more[i] = sync[i]
      BY <1>1, <2>2
    <3>4. \A i : i = Len(sync) + 1 => more[i] = x
      BY <2>2, Zenon
    <3> QED BY <3>2, <3>3, <3>4, Zenon
  <2>4. ToSet(more) = ToSet(sync) \cup {x}
    <3>1. \A y : y \in ToSet(more) <=> \E i \in DOMAIN more : y = more[i]
      BY DEF ToSet
    <3>2. \A y : y \in ToSet(sync) <=> \E i \in DOMAIN sync : y = sync[i]
      BY DEF ToSet
    <3>3. Len(sync) + 1 \in DOMAIN more /\ \A i \in DOMAIN sync : i \in DOMAIN more
      BY <1>1, <2>2
    <3>4. \A y : y \in ToSet(more) <=> y \in ToSet(sync) \/ y = x
      BY <1>1, <2>2, <2>3, <3>1, <3>2, <3>3
    <3> QED BY <3>4
  <2>5. \A i \in DOMAIN sync : i \in DOMAIN more /\ more[i] = sync[i] /\ sync[i] # x
    BY <1>1, <1>2, <1>4, <2>2
  <2>6. \A i, j \in DOMAIN more : i # j /\ more[i] = more[j] =>
                  i \in DOMAIN sync /\ j \in DOMAIN sync
    BY <2>3, <2>5
  <2> QED BY <1>1, <2>2, <2>3, <2>4, <2>5, <2>6
<1> QED BY <1>3, <1>4

\* An import after it has upserted instance n for its row i.
NextRow(r, i, n) ==
    [req[r] EXCEPT
        !.todo = req[r].todo \ {i},
        !.created = IF instance[n].exists THEN req[r].created ELSE req[r].created + 1,
        !.updated = IF instance[n].exists THEN req[r].updated + 1 ELSE req[r].updated,
        !.sync = SyncOnce(req[r].sync, n)]

LEMMA UpsertRowBoard ==
  ASSUME BoardInv, NEW r \in Requests, req[r].kind = "import", req[r].at = "row",
         NEW i \in req[r].todo,
         NEW n \in Names, NEW host \in Hosts, n = Lines(req[r].file)[i].name,
         ~Invalid(Lines(req[r].file)[i]),
         UpsertInstance(n, host), UNCHANGED <<item, late, shrunk>>,
         req' = [Edited(n) EXCEPT ![r] = NextRow(r, i, n)]
  PROVE  BoardInv'
<1> DEFINE next == NextRow(r, i, n)
           rest == req[r].todo \ {i}
           sync == req[r].sync
           more == SyncOnce(sync, n)
           created == IF instance[n].exists THEN req[r].created ELSE req[r].created + 1
           updated == IF instance[n].exists THEN req[r].updated + 1 ELSE req[r].updated
<1>1. /\ req[r] \in ImportReqs /\ req[r].file \in Files /\ i \in RowsOf(req[r].file)
      /\ Cardinality(req[r].todo) \in Nat /\ Cardinality(rest) = Cardinality(req[r].todo) - 1
  BY TakeRow
<1>2. ProgressOK(r)
  BY DEF BoardInv, ImportsOK
<1>3. rest \subseteq req[r].todo /\ i \notin rest /\ req[r].todo = rest \cup {i} /\ rest \in SUBSET Nat
  BY <1>1 DEF ImportReqs
<1>4. req[r].created \in Nat /\ req[r].updated \in Nat /\ req[r].skipped \in Nat
      /\ sync \in Seq(Names \cup {0})
  BY <1>1 DEF ImportReqs
<1>5. created \in Nat /\ updated \in Nat /\ created + updated = req[r].created + req[r].updated + 1
      /\ (instance[n].exists => created = req[r].created)
      /\ (~instance[n].exists => created = req[r].created + 1)
  <2>1. CASE instance[n].exists
    <3>1. created = req[r].created /\ updated = req[r].updated + 1
      BY <2>1
    <3> HIDE DEF created, updated, sync, more, rest
    <3>2. PICK a \in Nat : a = req[r].created
      BY <1>4
    <3>3. PICK b \in Nat : b = req[r].updated
      BY <1>4
    <3>4. a + (b + 1) = a + b + 1 /\ b + 1 \in Nat
      OBVIOUS
    <3>5. created \in Nat /\ updated \in Nat
          /\ created + updated = req[r].created + req[r].updated + 1
      BY <3>1, <3>2, <3>3, <3>4, Zenon
    <3> QED BY <2>1, <3>1, <3>5, Zenon
  <2>2. CASE ~instance[n].exists
    <3>1. created = req[r].created + 1 /\ updated = req[r].updated
      BY <2>2
    <3> HIDE DEF created, updated, sync, more, rest
    <3>2. created \in Nat /\ updated \in Nat
          /\ created + updated = req[r].created + req[r].updated + 1
      BY <1>4, <3>1
    <3> QED BY <2>2, <3>1, <3>2, Zenon
  <2> QED BY <2>1, <2>2
<1>6. n # 0 /\ n \in Names \cup {0}
  BY BoardAssumption
<1>7. /\ more \in Seq(Names \cup {0})
      /\ Len(more) \in Nat /\ Len(sync) \in Nat /\ Len(sync) <= Len(more)
      /\ ToSet(more) = ToSet(sync) \cup {n}
      /\ (\A j \in DOMAIN sync : sync[j] # n) => Len(more) = Len(sync) + 1
      /\ \A j \in DOMAIN sync : j \in DOMAIN more /\ more[j] = sync[j]
      /\ \A j \in DOMAIN more : (j \in DOMAIN sync /\ more[j] = sync[j]) \/ more[j] = n
      /\ \A j, l \in DOMAIN more : j # l /\ more[j] = more[l] =>
            j \in DOMAIN sync /\ l \in DOMAIN sync
  <2> HIDE DEF rest, more, created, updated, sync
  <2>1. more = SyncOnce(sync, n)
    BY DEF more
  <2> QED BY <1>4, <1>6, <2>1, SyncOnceList
<1> HIDE DEF rest, more, created, updated, sync
<1>8. next = [req[r] EXCEPT !.todo = rest,
                            !.created = created, !.updated = updated, !.sync = more]
  BY DEF NextRow, rest, more, created, updated, sync
<1> HIDE DEF next
<1>9. next \in ImportReqs
  BY <1>1, <1>3, <1>5, <1>7, <1>8 DEF ImportReqs
<1>10. /\ next.kind = "import" /\ next.file = req[r].file /\ next.todo = rest
       /\ next.created = created /\ next.updated = updated
       /\ next.skipped = req[r].skipped /\ next.sync = more
       /\ next.at = "row"
  BY <1>1, <1>8 DEF ImportReqs
<1>11. req'[r] = next /\ \A q \in Requests : q # r => req'[q] = Edited(n)[q]
  BY DEF Edited, next
<1>12. \A q \in Requests : q # r => req'[q] \in AllReqs /\ req'[q].kind = req[q].kind
                                    /\ (~IsItemReq(q) => req'[q] = req[q])
  BY <1>11, EditedRequest
<1>13. req' \in [Requests -> AllReqs]
  <2>1. \A q \in Requests : req'[q] \in AllReqs
    BY <1>9, <1>11, <1>12 DEF AllReqs
  <2> QED BY <2>1 DEF Edited
<1>14. instance'[n].exists /\ \A m \in Names : m # n => instance'[m] = instance[m]
  BY DEF UpsertInstance, BoardInv, TypesOK, InstanceRow
<1>15. \A m \in Names : instance[m].exists => instance'[m].exists
  BY <1>14
<1>16. Upserted(r)' = Upserted(r) \cup {n}
  <2>1. Upserted(r)' = {Lines(req[r].file)[j].name : j \in {l \in RowsOf(req[r].file) \ rest :
                                              ~Invalid(Lines(req[r].file)[l])}}
    <3>1. req'[r].file = req[r].file /\ req'[r].todo = rest
      BY <1>10, <1>11
    <3> QED BY <3>1 DEF Upserted
  <2>2. RowsOf(req[r].file) \ rest = (RowsOf(req[r].file) \ req[r].todo) \cup {i}
    BY <1>1, <1>3
  <2>3. \A l : l \in RowsOf(req[r].file) \ rest /\ ~Invalid(Lines(req[r].file)[l]) <=>
               \/ l \in RowsOf(req[r].file) \ req[r].todo /\ ~Invalid(Lines(req[r].file)[l])
               \/ l = i
    BY <2>2
  <2> QED BY <2>1, <2>3 DEF Upserted
<1>17. \A j \in DOMAIN sync : sync[j] \in Names \cup {0} /\ (sync[j] # 0 => instance[sync[j]].exists)
  <2>1. \A j \in DOMAIN sync : sync[j] \in Names \cup {0}
    BY <1>4
  <2>2. \A j \in DOMAIN sync : sync[j] # 0 => instance[sync[j]].exists
    BY <1>2 DEF ProgressOK, sync
  <2> QED BY <2>1, <2>2
<1>18. created <= Len(more)
  <2>1. req[r].created <= Len(sync)
    BY <1>2 DEF ProgressOK, sync
  <2>2. CASE instance[n].exists
    BY <1>4, <1>5, <1>7, <2>1, <2>2
  <2>3. CASE ~instance[n].exists
    <3>1. \A j \in DOMAIN sync : sync[j] # n
      BY <1>6, <1>17, <2>3
    <3>2. Len(more) = Len(sync) + 1
      BY <1>7, <3>1
    <3> QED BY <1>4, <1>5, <1>7, <2>1, <2>3, <3>2
  <2> QED BY <2>2, <2>3
<1>19. created + updated + req[r].skipped + Cardinality(rest) = Cardinality(RowsOf(req[r].file))
  <2>1. req[r].created + req[r].updated + req[r].skipped + Cardinality(req[r].todo)
          = Cardinality(RowsOf(req[r].file))
    BY <1>2 DEF ProgressOK
  <2>2. ASSUME NEW a \in Nat, NEW b \in Nat, NEW c \in Nat, NEW d \in Nat, b = a + 1
        PROVE  b + c + (d - 1) = a + c + d
    BY <2>2
  <2>4. PICK a \in Nat : a = req[r].created + req[r].updated
    BY <1>4
  <2>5. PICK b \in Nat : b = created + updated
    BY <1>5
  <2>6. b = a + 1
    BY <1>5, <2>4, <2>5
  <2>7. b + req[r].skipped + (Cardinality(req[r].todo) - 1)
          = a + req[r].skipped + Cardinality(req[r].todo)
    <3>1. PICK c \in Nat : c = req[r].skipped
      BY <1>4
    <3>2. PICK d \in Nat : d = Cardinality(req[r].todo)
      BY <1>1
    <3>3. b + c + (d - 1) = a + c + d
      BY <2>2, <2>6
    <3> QED BY <3>1, <3>2, <3>3, Zenon
  <2>3. created + updated + req[r].skipped + (Cardinality(req[r].todo) - 1)
          = req[r].created + req[r].updated + req[r].skipped + Cardinality(req[r].todo)
    BY <2>4, <2>5, <2>7, Zenon
  <2> QED BY <1>1, <2>1, <2>3, Zenon
<1>20. \A j \in DOMAIN more :
         /\ more[j] # 0 => instance'[more[j]].exists
         /\ \A l \in DOMAIN more : j # l /\ more[j] # 0 => more[j] # more[l]
  <2>1. \A j, l \in DOMAIN sync : j # l /\ sync[j] # 0 => sync[j] # sync[l]
    BY <1>2 DEF ProgressOK, sync
  <2>2. ASSUME NEW j \in DOMAIN more, more[j] # 0 PROVE instance'[more[j]].exists
    <3>1. CASE more[j] = n
      BY <1>14, <3>1
    <3>2. CASE j \in DOMAIN sync /\ more[j] = sync[j]
      BY <1>15, <1>17, <2>2, <3>2
    <3> QED BY <1>7, <3>1, <3>2
  <2>3. ASSUME NEW j \in DOMAIN more, NEW l \in DOMAIN more, j # l, more[j] # 0
        PROVE  more[j] # more[l]
    <3> SUFFICES ASSUME more[j] = more[l] PROVE FALSE
      OBVIOUS
    <3>1. j \in DOMAIN sync /\ l \in DOMAIN sync
      BY <1>7, <2>3
    <3> QED BY <1>7, <2>1, <2>3, <3>1
  <2> QED BY <2>2, <2>3
<1>21. (\A j \in DOMAIN more : more[j] # 0) => ToSet(more) = Upserted(r)'
  <2> SUFFICES ASSUME \A j \in DOMAIN more : more[j] # 0 PROVE ToSet(more) = Upserted(r)'
    OBVIOUS
  <2>1. \A j \in DOMAIN sync : sync[j] # 0
    BY <1>7
  <2>2. ToSet(sync) = Upserted(r)
    BY <1>2, <2>1 DEF ProgressOK, sync
  <2> QED BY <1>7, <1>16, <2>2
<1>22. ProgressOK(r)'
  <2>1. /\ req'[r].todo = rest /\ req'[r].file = req[r].file /\ req'[r].created = created
        /\ req'[r].updated = updated /\ req'[r].skipped = req[r].skipped /\ req'[r].sync = more
        /\ req'[r].at = "row"
    BY <1>3, <1>10, <1>11
  <2>2. req'[r].created + req'[r].updated + req'[r].skipped + Cardinality(req'[r].todo)
          = Cardinality(RowsOf(req'[r].file))
    BY <1>19, <2>1, Zenon
  <2>3. req'[r].todo \subseteq RowsOf(req'[r].file) /\ (req'[r].at = "done" => req'[r].todo = {})
    BY <1>2, <1>3, <2>1 DEF ProgressOK
  <2>4. (\A j \in DOMAIN req'[r].sync : req'[r].sync[j] # 0) => ToSet(req'[r].sync) = Upserted(r)'
    BY <1>21, <2>1
  <2>5. req'[r].created <= Len(req'[r].sync)
    BY <1>18, <2>1
  <2>6. \A j \in DOMAIN req'[r].sync :
          /\ req'[r].sync[j] # 0 => instance'[req'[r].sync[j]].exists
          /\ \A l \in DOMAIN req'[r].sync :
               j # l /\ req'[r].sync[j] # 0 => req'[r].sync[j] # req'[r].sync[l]
    <3> SUFFICES ASSUME NEW j \in DOMAIN req'[r].sync
                 PROVE  /\ req'[r].sync[j] # 0 => instance'[req'[r].sync[j]].exists
                        /\ \A l \in DOMAIN req'[r].sync :
                             j # l /\ req'[r].sync[j] # 0 => req'[r].sync[j] # req'[r].sync[l]
      OBVIOUS
    <3>1. PICK list : list = more
      OBVIOUS
    <3>2. req'[r].sync = list
      BY <2>1, <3>1
    <3>3. j \in DOMAIN list /\ req'[r].sync[j] = list[j]
          /\ \A l \in DOMAIN req'[r].sync : l \in DOMAIN list /\ req'[r].sync[l] = list[l]
      BY <3>2
    <3>4. /\ list[j] # 0 => instance'[list[j]].exists
          /\ \A l \in DOMAIN list : j # l /\ list[j] # 0 => list[j] # list[l]
      BY <1>20, <3>1, <3>3
    <3> QED BY <3>3, <3>4, Zenon
  <2> QED BY <2>2, <2>3, <2>4, <2>5, <2>6 DEF ProgressOK
<1>23. ASSUME NEW q \in Requests, req[q].kind = "import"
       PROVE  req'[q].kind = "import" /\ ProgressOK(q)'
  <2>1. CASE q = r
    BY <1>10, <1>11, <1>22, <2>1
  <2>2. CASE q # r
    <3>1. req'[q] = req[q]
      BY <1>12, <1>23, <2>2 DEF IsItemReq
    <3>2. ProgressOK(q) /\ TypesOK
      BY <1>23 DEF BoardInv, ImportsOK
    <3> QED BY <1>15, <1>23, <3>1, <3>2, KeptImport
  <2> QED BY <2>1, <2>2
<1>24. \A q \in Requests : req[q].kind # "import" => req'[q] = Edited(n)[q]
  BY <1>11
<1> QED BY <1>13, <1>23, <1>24, UpsertBoard

LEMMA ImportRowBoard ==
  ASSUME BoardInv, NEW r \in Requests, ImportRow(r)
  PROVE  BoardInv'
<1>1. req[r].kind = "import" /\ req[r].at = "row" /\ UNCHANGED <<item, late, shrunk>>
  BY DEF ImportRow
<1>2. req[r] \in ImportReqs
  BY <1>1, ReqKinds DEF BoardInv
<1>3. PICK i \in req[r].todo :
         LET row == Lines(req[r].file)[i]
             next == [req[r] EXCEPT !.todo = @ \ {i}]
         IN IF Invalid(row)
            THEN /\ req' = [req EXCEPT ![r] = [next EXCEPT !.skipped = @ + 1]]
                 /\ UNCHANGED <<instance, outdated>>
            ELSE /\ UpsertInstance(row.name, row.host)
                 /\ req' = [Edited(row.name) EXCEPT ![r] = [next EXCEPT
                          !.created = IF instance[row.name].exists THEN @ ELSE @ + 1,
                          !.updated = IF instance[row.name].exists THEN @ + 1 ELSE @,
                          !.sync = SyncOnce(@, row.name)]]
  BY DEF ImportRow
<1>4. CASE Invalid(Lines(req[r].file)[i])
  BY <1>1, <1>3, <1>4, SkipRowBoard
<1>5. CASE ~Invalid(Lines(req[r].file)[i])
  <2> DEFINE line == Lines(req[r].file)[i]
  <2>1. line.name \in Names /\ line.host \in Hosts
    <3>1. i \in RowsOf(req[r].file) /\ req[r].file \in Files
      BY <1>1, TakeRow
    <3>2. line \in [name : Names \cup {0}, host : Hosts \cup {0}, wrong : BOOLEAN]
      BY <3>1, RowsFinite
    <3> HIDE DEF line
    <3>3. line.name # 0 /\ line.host # 0
      BY <1>5 DEF Invalid, line
    <3> QED BY <3>2, <3>3
  <2>2. PICK n \in Names : n = line.name
    BY <2>1
  <2>3. PICK host \in Hosts : host = line.host
    BY <2>1
  <2>5. UpsertInstance(n, host)
    BY <1>3, <1>5, <2>2, <2>3
  <2>6. req' = [Edited(n) EXCEPT ![r] = NextRow(r, i, n)]
    BY <1>2, <1>3, <1>5, <2>2 DEF ImportReqs, NextRow
  <2> QED BY <1>1, <1>5, <2>2, <2>5, <2>6, UpsertRowBoard
<1> QED BY <1>4, <1>5

\* An import stops, with its rows and counters as they are.
LEMMA StopImportBoard ==
  ASSUME BoardInv, NEW r \in Requests, req[r].kind = "import", NEW at \in {"done", "died"},
         at = "done" => req[r].todo = {},
         req' = [req EXCEPT ![r].at = at],
         UNCHANGED <<instance, item, late, outdated, shrunk>>
  PROVE  BoardInv'
<1> DEFINE next == [req[r] EXCEPT !.at = at]
<1>1. req[r] \in ImportReqs /\ ProgressOK(r)
  BY ReqKinds DEF BoardInv, ImportsOK
<1>2. req' = [req EXCEPT ![r] = next]
  BY DEF BoardInv, TypesOK
<1>3. next \in ImportReqs
  BY <1>1 DEF ImportReqs
<1>4. /\ next.kind = "import" /\ next.at = at /\ next.file = req[r].file
      /\ next.todo = req[r].todo /\ next.created = req[r].created
      /\ next.updated = req[r].updated /\ next.skipped = req[r].skipped
      /\ next.sync = req[r].sync
  BY <1>1 DEF ImportReqs
<1> HIDE DEF next
<1>5. req'[r] = next
  BY <1>2 DEF BoardInv, TypesOK
<1>6. Upserted(r)' = Upserted(r)
  BY <1>4, <1>5 DEF Upserted
<1>7. ProgressOK(r)'
  BY <1>1, <1>4, <1>5, <1>6 DEF ProgressOK
<1>8. next \in AllReqs
  BY <1>3 DEF AllReqs
<1> QED BY <1>2, <1>4, <1>7, <1>8, QuietBoard

LEMMA ImportRaisesBoard ==
  ASSUME BoardInv, NEW r \in Requests, ImportRaises(r)
  PROVE  BoardInv'
<1>1. /\ req[r].kind = "import" /\ req' = [req EXCEPT ![r].at = "died"]
      /\ UNCHANGED <<instance, item, late, outdated, shrunk>>
  BY DEF ImportRaises
<1> QED BY <1>1, StopImportBoard

LEMMA FinishImportBoard ==
  ASSUME BoardInv, NEW r \in Requests, FinishImport(r)
  PROVE  BoardInv'
<1>1. /\ req[r].kind = "import" /\ req[r].todo = {} /\ req' = [req EXCEPT ![r].at = "done"]
      /\ UNCHANGED <<instance, item, late, outdated, shrunk>>
  BY DEF FinishImport
<1> QED BY <1>1, StopImportBoard

LEMMA GoneRequest ==
  ASSUME BoardInv, NEW q \in Requests, NEW keys \in SUBSET Keys, req'[q] = Gone(keys)[q]
  PROVE  /\ req'[q] \in AllReqs /\ req'[q].kind = req[q].kind
         /\ ~IsItemReq(q) => req'[q] = req[q]
         /\ IsItemReq(q) =>
              /\ req'[q].at = req[q].at /\ req'[q].todo = req[q].todo
              /\ req'[q].profile = req[q].profile /\ req'[q].name = req[q].name
              /\ req'[q].host = req[q].host /\ req'[q].order = req[q].order
              /\ req'[q].written = req[q].written /\ req'[q].gone = req[q].gone \cup keys
         /\ IsItemReq(q) =>
              /\ req'[q].listed = req[q].listed /\ req'[q].overtaken = req[q].overtaken
              /\ req'[q].orphan = req[q].orphan /\ req'[q].moved = req[q].moved
<1>1. req[q] \in AllReqs
  BY ReqKinds DEF BoardInv
<1>2. CASE IsItemReq(q)
  <2>1. req[q] \in ItemReqs
    BY <1>2, ReqKinds DEF BoardInv
  <2>2. req'[q] = [req[q] EXCEPT !.gone = @ \cup keys]
    BY <1>2 DEF Gone, IsItemReq
  <2>3. req[q].gone \cup keys \in SUBSET Keys
    BY <2>1 DEF ItemReqs
  <2>4. req'[q] \in ItemReqs
    BY <2>1, <2>2, <2>3 DEF ItemReqs
  <2>5. /\ req'[q].kind = req[q].kind
        /\ req'[q].at = req[q].at /\ req'[q].todo = req[q].todo
        /\ req'[q].profile = req[q].profile /\ req'[q].name = req[q].name
        /\ req'[q].host = req[q].host /\ req'[q].order = req[q].order
        /\ req'[q].written = req[q].written /\ req'[q].gone = req[q].gone \cup keys
    BY <2>1, <2>2 DEF ItemReqs
  <2>6. /\ req'[q].listed = req[q].listed /\ req'[q].overtaken = req[q].overtaken
        /\ req'[q].orphan = req[q].orphan /\ req'[q].moved = req[q].moved
    BY <2>1, <2>2 DEF ItemReqs
  <2> QED BY <1>2, <2>4, <2>5, <2>6 DEF AllReqs
<1>3. CASE ~IsItemReq(q)
  <2>1. req'[q] = req[q]
    BY <1>3 DEF Gone, IsItemReq
  <2> QED BY <1>1, <1>3, <2>1
<1> QED BY <1>2, <1>3

LEMMA RemoveItemBoard ==
  ASSUME BoardInv, NEW k \in Keys, RemoveItem(k)
  PROVE  BoardInv'
<1> DEFINE row == [item[k] EXCEPT !.active = FALSE]
<1>1. /\ item' = [item EXCEPT ![k] = row] /\ req' = Gone({k})
      /\ UNCHANGED <<instance, late, outdated, shrunk>>
  BY DEF RemoveItem
<1>2. item[k] \in ItemRow
  BY DEF BoardInv, TypesOK
<1>3. /\ row \in ItemRow /\ row.exists = item[k].exists /\ ~row.active
      /\ row.order = item[k].order /\ row.host = item[k].host
  BY <1>2 DEF ItemRow
<1> HIDE DEF row
<1>4. item'[k] = row /\ \A l \in Keys : l # k => item'[l] = item[l]
  BY <1>1 DEF BoardInv, TypesOK
<1>5. \A l \in Keys : /\ item'[l].exists = item[l].exists /\ item'[l].order = item[l].order
                      /\ item'[l].host = item[l].host
  BY <1>3, <1>4
<1>6. \A l \in Keys : item'[l].active => item[l].active
  BY <1>3, <1>4
<1>7. \A q \in Requests : req'[q] = Gone({k})[q]
  BY <1>1
<1>8. TypesOK'
  <2>1. \A q \in Requests : req'[q] \in AllReqs
    BY <1>7, GoneRequest
  <2>2. req' \in [Requests -> AllReqs]
    BY <1>1, <2>1 DEF Gone
  <2>3. item' \in [Keys -> ItemRow]
    BY <1>1, <1>3 DEF BoardInv, TypesOK
  <2> QED BY <1>1, <2>2, <2>3 DEF BoardInv, TypesOK, AllReqs
<1>9. RowsOK' /\ HostsOK' /\ TiesOnlyFromOverlap'
  BY <1>1, <1>5, <1>6 DEF BoardInv, RowsOK, HostsOK, TiesOnlyFromOverlap
<1>10. HoldingOK'
  <2> SUFFICES ASSUME NEW q \in Requests, IsItemReq(q)' PROVE HoldsOK(q)'
    BY DEF HoldingOK
  <2>1. IsItemReq(q)
    BY <1>7, GoneRequest DEF IsItemReq
  <2>2. HoldsOK(q)
    BY <2>1 DEF BoardInv, HoldingOK
  <2>3. /\ req'[q].at = req[q].at /\ req'[q].todo = req[q].todo
        /\ req'[q].profile = req[q].profile /\ req'[q].name = req[q].name
        /\ req'[q].host = req[q].host
        /\ req'[q].written = req[q].written /\ req'[q].gone = req[q].gone \cup {k}
        /\ req'[q].listed = req[q].listed
        /\ req'[q].orphan = req[q].orphan /\ req'[q].moved = req[q].moved
    BY <1>7, <2>1, GoneRequest
  <2>4. \A t : Key(q, t)' = Key(q, t)
    BY <2>3 DEF Key
  <2>5. ASSUME NEW t \in req'[q].written, Key(q, t) \notin req'[q].gone
        PROVE  ~req'[q].orphan /\ item'[Key(q, t)].active
    <3>1. t \in req[q].written /\ Key(q, t) \notin req[q].gone /\ Key(q, t) # k
      BY <2>3, <2>5
    <3>2. t \in Streams
      BY <2>1, <3>1, ReqKinds DEF BoardInv, ItemReqs
    <3>3. Key(q, t) \in Keys
      BY <2>1, <3>2, KeyIn DEF BoardInv
    <3> QED BY <1>4, <2>2, <2>3, <3>1, <3>3 DEF HoldsOK
  <2>6. UNCHANGED instance
    BY <1>1
  <2> QED BY <2>2, <2>3, <2>4, <2>5, <2>6 DEF HoldsOK
<1>11. PlacesOK'
  <2>1. \A p : InProfile(p)' = InProfile(p) /\ Count(p)' = Count(p)
    BY <1>5 DEF InProfile, Count
  <2>2. ASSUME NEW q \in Requests PROVE CountOK(q)'
    <3> SUFFICES ASSUME req'[q].kind = "bulk", req'[q].at = "write", ~req'[q].overtaken,
                        req'[q].profile \notin shrunk
                 PROVE  req'[q].order = Count(req[q].profile)'
      <4>1. req'[q].kind = "bulk" => req'[q].profile = req[q].profile
        BY <1>7, GoneRequest DEF IsItemReq
      <4> QED BY <1>1, <4>1 DEF CountOK, Count
    <3>1. req[q].kind = "bulk" /\ IsItemReq(q)
      BY <1>7, GoneRequest DEF IsItemReq
    <3>2. /\ req[q].at = "write" /\ ~req[q].overtaken /\ req[q].profile = req'[q].profile
          /\ req[q].order = req'[q].order
      BY <1>7, <3>1, GoneRequest
    <3>3. req[q].order = Count(req[q].profile)
      BY <3>1, <3>2 DEF CountOK, BoardInv, PlacesOK
    <3> QED BY <2>1, <3>2, <3>3
  <2> QED BY <1>1, <1>5, <2>1, <2>2 DEF BoardInv, PlacesOK
<1>12. ImportsOK'
  <2> SUFFICES ASSUME NEW q \in Requests, req'[q].kind = "import" PROVE ProgressOK(q)'
    BY DEF ImportsOK
  <2>1. req[q].kind = "import" /\ req'[q] = req[q]
    BY <1>7, GoneRequest DEF IsItemReq
  <2>2. ProgressOK(q) /\ TypesOK
    BY <2>1 DEF BoardInv, ImportsOK
  <2>3. \A m \in Names : instance[m].exists => instance'[m].exists
    BY <1>1
  <2> QED BY <2>1, <2>2, <2>3, KeptImport
<1> QED BY <1>8, <1>9, <1>10, <1>11, <1>12 DEF BoardInv

\* The deletion of an instance, seen by a request.
LEMMA DeletedRequest ==
  ASSUME BoardInv, NEW q \in Requests, NEW n \in Names, DeleteInstance(n)
  PROVE  /\ req'[q] \in AllReqs /\ req'[q].kind = req[q].kind
         /\ IsItemReq(q) =>
              /\ req'[q].at = req[q].at /\ req'[q].todo = req[q].todo
              /\ req'[q].profile = req[q].profile /\ req'[q].name = req[q].name
              /\ req'[q].host = req[q].host /\ req'[q].order = req[q].order
              /\ req'[q].written = req[q].written
              /\ req'[q].overtaken = req[q].overtaken
         /\ IsItemReq(q) /\ req[q].name = n =>
              req'[q].orphan /\ req'[q].gone = req[q].gone \cup ItemsOf(n)
         /\ IsItemReq(q) /\ req[q].name # n => req'[q] = req[q]
         /\ req[q].kind = "import" =>
              /\ req'[q].file = req[q].file /\ req'[q].at = req[q].at
              /\ req'[q].todo = req[q].todo /\ req'[q].created = req[q].created
              /\ req'[q].updated = req[q].updated /\ req'[q].skipped = req[q].skipped
              /\ req'[q].sync = [i \in DOMAIN req[q].sync |->
                                    IF req[q].sync[i] = n THEN 0 ELSE req[q].sync[i]]
<1>1. req'[q] = IF Holds(q, n) THEN [req[q] EXCEPT !.orphan = TRUE, !.gone = @ \cup ItemsOf(n)]
                ELSE IF req[q].kind = "import"
                     THEN [req[q] EXCEPT !.sync = [i \in DOMAIN @ |-> IF @[i] = n THEN 0 ELSE @[i]]]
                     ELSE req[q]
  BY DEF DeleteInstance
<1>2. req[q] \in AllReqs
  BY ReqKinds DEF BoardInv
<1>3. CASE IsItemReq(q) /\ req[q].name = n
  <2>1. req[q] \in ItemReqs /\ req[q].kind # "import"
    BY <1>3, ReqKinds DEF BoardInv, IsItemReq
  <2>2. req'[q] = [req[q] EXCEPT !.orphan = TRUE, !.gone = @ \cup ItemsOf(n)]
    BY <1>1, <1>3 DEF Holds, IsItemReq
  <2>3. req[q].gone \cup ItemsOf(n) \in SUBSET Keys
    BY <2>1 DEF ItemReqs, ItemsOf
  <2>4. req'[q] \in ItemReqs
    BY <2>1, <2>2, <2>3 DEF ItemReqs
  <2>5. /\ req'[q].kind = req[q].kind
        /\ req'[q].at = req[q].at /\ req'[q].todo = req[q].todo
        /\ req'[q].profile = req[q].profile /\ req'[q].name = req[q].name
        /\ req'[q].host = req[q].host /\ req'[q].order = req[q].order
        /\ req'[q].written = req[q].written /\ req'[q].gone = req[q].gone \cup ItemsOf(n)
    BY <2>1, <2>2 DEF ItemReqs
  <2>6. req'[q].overtaken = req[q].overtaken /\ req'[q].orphan
    BY <2>1, <2>2 DEF ItemReqs
  <2> QED BY <1>3, <2>1, <2>4, <2>5, <2>6 DEF AllReqs
<1>4. CASE req[q].kind = "import"
  <2> DEFINE sync == req[q].sync
             less == [i \in DOMAIN sync |-> IF sync[i] = n THEN 0 ELSE sync[i]]
  <2>1. req[q] \in ImportReqs /\ ~IsItemReq(q)
    BY <1>4, ReqKinds DEF BoardInv, IsItemReq
  <2>2. req'[q] = [req[q] EXCEPT !.sync = less]
    BY <1>1, <1>4 DEF Holds
  <2>3. sync \in Seq(Names \cup {0})
    BY <2>1 DEF ImportReqs
  <2>4. less \in Seq(Names \cup {0})
    <3> HIDE DEF sync
    <3>1. Len(sync) \in Nat /\ DOMAIN sync = 1..Len(sync)
      BY <2>3
    <3>2. \A i \in 1..Len(sync) : less[i] \in Names \cup {0}
      BY <2>3, <3>1
    <3>3. DOMAIN less = 1..Len(sync)
      BY <3>1
    <3> QED BY <3>1, <3>2, <3>3
  <2> HIDE DEF less
  <2>5. req'[q] \in ImportReqs
    BY <2>1, <2>2, <2>4 DEF ImportReqs
  <2>6. /\ req'[q].kind = req[q].kind /\ req'[q].file = req[q].file /\ req'[q].at = req[q].at
        /\ req'[q].todo = req[q].todo /\ req'[q].created = req[q].created
        /\ req'[q].updated = req[q].updated /\ req'[q].skipped = req[q].skipped
        /\ req'[q].sync = less
    BY <2>1, <2>2 DEF ImportReqs
  <2> QED BY <2>1, <2>5, <2>6 DEF AllReqs, less
<1>5. CASE ~(IsItemReq(q) /\ req[q].name = n) /\ req[q].kind # "import"
  <2>1. req'[q] = req[q]
    BY <1>1, <1>5 DEF Holds, IsItemReq
  <2> QED BY <1>2, <1>5, <2>1
<1> QED BY <1>3, <1>4, <1>5

\* An instance that an import wrote is deleted: its place of the list is 0.
LEMMA DeletedImport ==
  ASSUME BoardInv, NEW q \in Requests, NEW n \in Names, DeleteInstance(n),
         req[q].kind = "import", ProgressOK(q),
         \A m \in Names : m # n => instance'[m] = instance[m]
  PROVE  ProgressOK(q)'
<1> DEFINE sync == req[q].sync
           less == [i \in DOMAIN sync |-> IF sync[i] = n THEN 0 ELSE sync[i]]
<1>1. /\ req'[q].file = req[q].file /\ req'[q].at = req[q].at
      /\ req'[q].todo = req[q].todo /\ req'[q].created = req[q].created
      /\ req'[q].updated = req[q].updated /\ req'[q].skipped = req[q].skipped
      /\ req'[q].sync = less
  BY DeletedRequest
<1>2. sync \in Seq(Names \cup {0})
  BY ReqKinds DEF ImportReqs, BoardInv
<1>3. n # 0
  BY BoardAssumption
<1>4. DOMAIN less = DOMAIN sync
  OBVIOUS
<1>5. \A i \in DOMAIN sync : less[i] = IF sync[i] = n THEN 0 ELSE sync[i]
  OBVIOUS
<1> HIDE DEF less
<1>6. Len(less) = Len(sync)
  <2> HIDE DEF sync
  <2>1. Len(sync) \in Nat /\ DOMAIN less = 1..Len(sync)
    BY <1>2, <1>4
  <2> QED BY <2>1
<1>7. \A i \in DOMAIN less : less[i] # 0 => sync[i] = less[i] /\ sync[i] # n /\ sync[i] \in Names
  <2> HIDE DEF sync
  <2>1. \A i \in DOMAIN sync : sync[i] \in Names \cup {0}
    BY <1>2
  <2> QED BY <1>4, <1>5, <2>1
<1>8. /\ \A i \in DOMAIN sync : sync[i] # 0 => instance[sync[i]].exists
      /\ \A i, j \in DOMAIN sync : i # j /\ sync[i] # 0 => sync[i] # sync[j]
      /\ (\A i \in DOMAIN sync : sync[i] # 0) => ToSet(sync) = Upserted(q)
  BY DEF ProgressOK
<1> HIDE DEF sync
<1>9. ASSUME NEW i \in DOMAIN less, less[i] # 0
      PROVE  /\ instance'[less[i]].exists
             /\ \A j \in DOMAIN less : i # j => less[i] # less[j]
  <2>1. i \in DOMAIN sync /\ sync[i] = less[i] /\ sync[i] # n /\ sync[i] \in Names /\ sync[i] # 0
    BY <1>4, <1>7, <1>9
  <2>2. instance'[less[i]].exists
    BY <1>8, <2>1
  <2>3. ASSUME NEW j \in DOMAIN less, i # j PROVE less[i] # less[j]
    BY <1>4, <1>5, <1>8, <2>1, <2>3, <1>9
  <2> QED BY <2>2, <2>3
<1>10. Upserted(q)' = Upserted(q)
  BY <1>1 DEF Upserted
<1>11. (\A i \in DOMAIN less : less[i] # 0) => ToSet(less) = Upserted(q)
  <2> SUFFICES ASSUME \A i \in DOMAIN less : less[i] # 0 PROVE ToSet(less) = Upserted(q)
    OBVIOUS
  <2>1. \A i \in DOMAIN sync : sync[i] = less[i] /\ sync[i] # 0
    BY <1>4, <1>7
  <2>2. ToSet(sync) = Upserted(q)
    BY <1>8, <2>1
  <2>3. ToSet(less) = ToSet(sync)
    BY <1>4, <2>1 DEF ToSet
  <2> QED BY <2>2, <2>3
<1>12. PICK list : list = less
  OBVIOUS
<1>13. /\ req'[q].sync = list /\ Len(list) = Len(sync)
       /\ \A i \in DOMAIN list :
            /\ list[i] # 0 => instance'[list[i]].exists
            /\ \A j \in DOMAIN list : i # j /\ list[i] # 0 => list[i] # list[j]
       /\ (\A i \in DOMAIN list : list[i] # 0) => ToSet(list) = Upserted(q)'
  BY <1>1, <1>6, <1>9, <1>10, <1>11, <1>12
<1>14. /\ req'[q].todo \subseteq RowsOf(req'[q].file)
       /\ req'[q].at = "done" => req'[q].todo = {}
  BY <1>1 DEF ProgressOK
<1>15. /\ req'[q].created + req'[q].updated + req'[q].skipped + Cardinality(req'[q].todo)
            = Cardinality(RowsOf(req'[q].file))
  <2>1. req[q].created + req[q].updated + req[q].skipped + Cardinality(req[q].todo)
            = Cardinality(RowsOf(req[q].file))
    BY DEF ProgressOK
  <2> QED BY <1>1, <2>1, Zenon
<1>16. req'[q].created <= Len(req'[q].sync)
  BY <1>1, <1>13 DEF ProgressOK, sync
<1>17. \A i \in DOMAIN req'[q].sync :
         /\ req'[q].sync[i] # 0 => instance'[req'[q].sync[i]].exists
         /\ \A j \in DOMAIN req'[q].sync : i # j /\ req'[q].sync[i] # 0 => req'[q].sync[i] # req'[q].sync[j]
  BY <1>13
<1>18. (\A i \in DOMAIN req'[q].sync : req'[q].sync[i] # 0) => ToSet(req'[q].sync) = Upserted(q)'
  BY <1>13
<1> QED BY <1>14, <1>15, <1>16, <1>17, <1>18 DEF ProgressOK

LEMMA DeleteInstanceBoard ==
  ASSUME BoardInv, NEW n \in Names, DeleteInstance(n)
  PROVE  BoardInv'
<1> DEFINE lost == {l \in ItemsOf(n) : item[l].exists}
<1>1. /\ instance' = [instance EXCEPT ![n] = NoInstance]
      /\ item' = [k \in Keys |-> IF k \in ItemsOf(n) THEN NoItem ELSE item[k]]
      /\ shrunk' = shrunk \cup {k[1] : k \in lost}
      /\ UNCHANGED <<late, outdated>>
  BY DEF DeleteInstance
<1>2. instance'[n] = NoInstance /\ \A m \in Names : m # n => instance'[m] = instance[m]
  BY <1>1 DEF BoardInv, TypesOK
<1>3. \A k \in Keys : k[1] \in Profiles /\ k[2] \in Names
  BY DEF Keys
<1>4. \A k \in Keys : item'[k] = IF k[2] = n THEN NoItem ELSE item[k]
  BY <1>1 DEF ItemsOf
<1>5. \A k \in Keys : item'[k].exists \/ item'[k].active => k[2] # n /\ item'[k] = item[k]
  BY <1>4 DEF NoItem
<1>6. lost \subseteq Keys /\ \A k \in Keys : item[k].exists /\ k[2] = n => k[1] \in shrunk'
  BY <1>1 DEF ItemsOf
<1>7. shrunk \subseteq shrunk' /\ shrunk' \subseteq Profiles
  BY <1>1, <1>3, <1>6 DEF BoardInv, TypesOK
<1> HIDE DEF lost
<1>8. NoInstance \in InstanceRow /\ NoItem \in ItemRow
  BY BoardAssumption DEF NoInstance, NoItem, InstanceRow, ItemRow
<1>11. TypesOK'
  <2>1. \A q \in Requests : req'[q] \in AllReqs
    BY DeletedRequest
  <2>2. req' \in [Requests -> AllReqs]
    BY <2>1 DEF DeleteInstance
  <2>3. \A k \in Keys : item'[k] \in ItemRow
    BY <1>4, <1>8 DEF BoardInv, TypesOK
  <2>4. item' \in [Keys -> ItemRow]
    BY <1>1, <2>3
  <2>5. instance' \in [Names -> InstanceRow]
    BY <1>1, <1>8 DEF BoardInv, TypesOK
  <2> QED BY <1>1, <1>7, <2>2, <2>4, <2>5 DEF BoardInv, TypesOK, AllReqs
<1>12. RowsOK'
  BY <1>2, <1>3, <1>5 DEF BoardInv, RowsOK, NoInstance
<1>13. HostsOK'
  BY <1>1, <1>2, <1>3, <1>5 DEF BoardInv, HostsOK
<1>14. TiesOnlyFromOverlap'
  <2> SUFFICES ASSUME NEW k \in Keys, NEW l \in Keys, k # l, k[1] = l[1], k[1] \notin shrunk',
                      item'[k].exists, item'[l].exists, item'[k].order = item'[l].order
               PROVE  k \in late \/ l \in late
    BY <1>1 DEF TiesOnlyFromOverlap
  <2> QED BY <1>5, <1>7 DEF BoardInv, TiesOnlyFromOverlap
<1>16. ImportsOK'
  <2> SUFFICES ASSUME NEW q \in Requests, req'[q].kind = "import" PROVE ProgressOK(q)'
    BY DEF ImportsOK
  <2>1. req[q].kind = "import"
    BY DeletedRequest
  <2>2. ProgressOK(q)
    BY <2>1 DEF BoardInv, ImportsOK
  <2> QED BY <1>2, <2>1, <2>2, DeletedImport
<1>17. HoldingOK'
  <2> SUFFICES ASSUME NEW q \in Requests, IsItemReq(q)' PROVE HoldsOK(q)'
    BY DEF HoldingOK
  <2>1. IsItemReq(q)
    BY DeletedRequest DEF IsItemReq
  <2>2. HoldsOK(q) /\ req[q].name \in Names
    BY <2>1, ReqKinds DEF BoardInv, HoldingOK, ItemReqs
  <2>3. \A t \in req[q].written : Key(q, t) \in Keys /\ Key(q, t)[2] = req[q].name
    BY <2>1, ReqKinds, KeyIn DEF BoardInv, ItemReqs
  <2>4. CASE req[q].name = n
    <3>1. /\ req'[q].at = req[q].at /\ req'[q].todo = req[q].todo
          /\ req'[q].profile = req[q].profile /\ req'[q].name = req[q].name
          /\ req'[q].written = req[q].written
          /\ req'[q].orphan /\ req'[q].gone = req[q].gone \cup ItemsOf(n)
      BY <2>1, <2>4, DeletedRequest
    <3>2. \A t \in req'[q].written : Key(q, t) \in req'[q].gone
      BY <2>3, <2>4, <3>1 DEF ItemsOf
    <3>3. \A t : Key(q, t)' = Key(q, t)
      BY <3>1 DEF Key
    <3> QED BY <2>2, <3>1, <3>2, <3>3 DEF HoldsOK
  <2>5. CASE req[q].name # n
    <3>1. req'[q] = req[q]
      BY <2>1, <2>5, DeletedRequest
    <3>2. instance'[req[q].name] = instance[req[q].name]
      BY <1>2, <2>2, <2>5
    <3>3. \A t \in req[q].written : item'[Key(q, t)] = item[Key(q, t)]
      BY <1>4, <2>3, <2>5
    <3>4. \A t : Key(q, t)' = Key(q, t)
      BY <3>1 DEF Key
    <3> QED BY <2>2, <3>1, <3>2, <3>3, <3>4 DEF HoldsOK
  <2> QED BY <2>4, <2>5
<1>18. PlacesOK'
  <2>1. ASSUME NEW p \in Profiles PROVE IsFiniteSet(InProfile(p)')
    <3>1. InProfile(p)' \subseteq InProfile(p)
      BY <1>5 DEF InProfile
    <3> QED BY <3>1, CountType, FS_Subset
  <2>2. ASSUME NEW p, p \notin shrunk' PROVE Count(p)' = Count(p)
    <3>1. \A k \in Keys : k[1] = p => (item'[k].exists <=> item[k].exists)
      BY <1>4, <1>5, <1>6, <2>2
    <3>2. InProfile(p)' = InProfile(p)
      BY <3>1 DEF InProfile
    <3> QED BY <3>2 DEF Count, InProfile
  <2>3. \A k \in Keys : item'[k].exists /\ k \notin late' /\ k[1] \notin shrunk' =>
          item'[k].order < Count(k[1])'
    BY <1>1, <1>5, <1>7, <2>2 DEF BoardInv, PlacesOK
  <2>4. ASSUME NEW q \in Requests PROVE CountOK(q)'
    <3> SUFFICES ASSUME req'[q].kind = "bulk", req'[q].at = "write", ~req'[q].overtaken,
                        req'[q].profile \notin shrunk'
                 PROVE  req'[q].order = Count(req[q].profile)'
      BY DEF CountOK
    <3>1. req[q].kind = "bulk"
      BY DeletedRequest
    <3>2. /\ req[q].at = "write" /\ ~req[q].overtaken /\ req[q].profile = req'[q].profile
          /\ req[q].order = req'[q].order
      BY <3>1, DeletedRequest DEF IsItemReq
    <3>3. req[q].order = Count(req[q].profile)
      BY <1>7, <3>1, <3>2 DEF CountOK, BoardInv, PlacesOK
    <3> QED BY <2>2, <3>2, <3>3
  <2> QED BY <2>1, <2>3, <2>4 DEF PlacesOK
<1> QED BY <1>11, <1>12, <1>13, <1>14, <1>16, <1>17, <1>18 DEF BoardInv

LEMMA NextBoard == BoardInv /\ [BoardNext]_boardVars => BoardInv'
<1> SUFFICES ASSUME BoardInv, [BoardNext]_boardVars PROVE BoardInv'
  OBVIOUS
<1>1. ASSUME NEW r \in Requests, NEW p \in Profiles, NEW n \in Names, NEW s \in Selections,
             BeginBulk(r, p, n, s)
      PROVE  BoardInv'
  BY <1>1, BeginBulkBoard
<1>2. ASSUME NEW r \in Requests, NEW s \in Streams, BeginAdd(r, s) PROVE BoardInv'
  BY <1>2, BeginAddBoard
<1>3. ASSUME NEW r \in Requests, NEW file \in Files, BeginImport(r, file) PROVE BoardInv'
  BY <1>3, BeginImportBoard
<1>4. ASSUME NEW r \in Requests, RequestStep(r) PROVE BoardInv'
  <2>1. CASE ReadItem(r)
    BY <2>1, ReadItemBoard
  <2>2. CASE WriteItem(r)
    BY <2>2, WriteItemBoard
  <2>3. CASE AddItem(r)
    BY <2>3, AddItemBoard
  <2>4. CASE ImportRow(r)
    BY <2>4, ImportRowBoard
  <2>5. CASE ImportRaises(r)
    BY <2>5, ImportRaisesBoard
  <2>6. CASE FinishImport(r)
    BY <2>6, FinishImportBoard
  <2> QED BY <1>4, <2>1, <2>2, <2>3, <2>4, <2>5, <2>6 DEF RequestStep
<1>5. ASSUME NEW n \in Names, NEW h \in Hosts, AddInstance(n, h) PROVE BoardInv'
  BY <1>5, AddInstanceBoard
<1>6. ASSUME NEW k \in Keys, RemoveItem(k) PROVE BoardInv'
  BY <1>6, RemoveItemBoard
<1>7. ASSUME NEW n \in Names, NEW a \in BOOLEAN, NEW p \in BOOLEAN, EditInstance(n, a, p)
      PROVE  BoardInv'
  BY <1>7, EditInstanceBoard
<1>8. ASSUME NEW n \in Names, DeleteInstance(n) PROVE BoardInv'
  BY <1>8, DeleteInstanceBoard
<1>9. CASE UNCHANGED boardVars
  <2>1. UNCHANGED <<instance, item, req, late, outdated, shrunk>>
    BY <1>9 DEF boardVars
  <2>2. TypesOK' /\ RowsOK' /\ HostsOK' /\ TiesOnlyFromOverlap'
    BY <2>1 DEF BoardInv, TypesOK, RowsOK, HostsOK, TiesOnlyFromOverlap
  <2>3. HoldingOK'
    BY <2>1 DEF BoardInv, HoldingOK, HoldsOK, IsItemReq, Key
  <2>4. PlacesOK'
    BY <2>1 DEF BoardInv, PlacesOK, InProfile, CountOK, Count
  <2>5. ImportsOK'
    BY <2>1 DEF BoardInv, ImportsOK, ProgressOK, Upserted
  <2> QED BY <2>2, <2>3, <2>4, <2>5 DEF BoardInv
<1> QED BY <1>1, <1>2, <1>3, <1>4, <1>5, <1>6, <1>7, <1>8, <1>9 DEF BoardNext

-----------------------------------------------------------------------------
\* The instances that imports are still to have synced

Running(r) == req[r].kind = "import" /\ req[r].at = "row"

\* An instance that is not synced is on the list of an import that runs, or was
\* on the list of one that died.
SyncInv ==
    /\ unsynced \subseteq Names /\ dropped \subseteq Names
    /\ \A n \in unsynced : instance[n].exists
    /\ \A n \in unsynced \ dropped : \E r \in Requests : Running(r) /\ n \in ToSet(req[r].sync)

\* A step that leaves the lists of the imports that run.
LEMMA KeptSync ==
  ASSUME SyncInv, UNCHANGED <<unsynced, dropped>>,
         \A n \in Names : instance[n].exists => instance'[n].exists,
         \A r \in Requests : Running(r) => Running(r)' /\ ToSet(req'[r].sync) = ToSet(req[r].sync)
  PROVE  SyncInv'
<1>1. \A n \in unsynced : n \in Names /\ instance'[n].exists
  BY DEF SyncInv
<1>2. ASSUME NEW n \in unsynced, n \notin dropped
      PROVE  \E r \in Requests : Running(r)' /\ n \in ToSet(req'[r].sync)
  BY <1>2 DEF SyncInv
<1> QED BY <1>1, <1>2 DEF SyncInv

\* A request that is no import that runs moves.
LEMMA OtherSync ==
  ASSUME BoardInv, SyncInv, UNCHANGED <<unsynced, dropped, instance>>, NEW r \in Requests,
         ~Running(r), \A q \in Requests : q # r /\ Running(q) => req'[q] = req[q]
  PROVE  SyncInv'
<1>1. \A q \in Requests : Running(q) => req'[q] = req[q]
  OBVIOUS
<1> QED BY <1>1, KeptSync DEF Running

LEMMA BeginSync ==
  ASSUME BoardInv, SyncInv, UNCHANGED <<unsynced, dropped, instance>>, NEW r \in Requests,
         NEW record, Begin(r, record)
  PROVE  SyncInv'
<1>1. ~Running(r)
  BY DEF Begin, Running
<1>2. \A q \in Requests : q # r => req'[q] = req[q]
  BY DEF Begin, BoardInv, TypesOK
<1> QED BY <1>1, <1>2, OtherSync

LEMMA ItemSync ==
  ASSUME BoardInv, SyncInv, NEW r \in Requests, ReadItem(r) \/ WriteItem(r) \/ AddItem(r)
  PROVE  SyncInv'
<1>1. req[r].kind \in {"bulk", "add"} /\ ~Running(r)
  BY DEF ReadItem, WriteItem, AddItem, Running
<1>2. UNCHANGED <<unsynced, dropped, instance>>
  <2>1. CASE ReadItem(r)
    BY <2>1 DEF ReadItem, syncVars
  <2>2. CASE WriteItem(r)
    BY <2>2 DEF WriteItem, Die, syncVars
  <2>3. CASE AddItem(r)
    BY <2>3 DEF AddItem, Die, syncVars
  <2> QED BY <2>1, <2>2, <2>3
<1>3. ASSUME NEW q \in Requests, q # r, Running(q) PROVE req'[q] = req[q]
  <2>1. CASE ReadItem(r)
    BY <1>3, <2>1 DEF ReadItem, BoardInv, TypesOK
  <2>2. ASSUME NEW s, NEW inserted, Written(r, s, inserted) PROVE req'[q] = req[q]
    BY <1>3, <2>2 DEF Written, Counted, Running
  <2>3. ASSUME Die(r) PROVE req'[q] = req[q]
    BY <1>3, <2>3 DEF Die, BoardInv, TypesOK
  <2>4. CASE WriteItem(r)
    BY <2>2, <2>3, <2>4 DEF WriteItem
  <2>5. CASE AddItem(r)
    BY <2>2, <2>3, <2>5 DEF AddItem
  <2> QED BY <2>1, <2>4, <2>5
<1> QED BY <1>1, <1>2, <1>3, OtherSync

\* The row of an instance is written outside any import.
LEMMA EditSync ==
  ASSUME BoardInv, SyncInv, NEW n \in Names, req' = Edited(n), UNCHANGED <<unsynced, dropped>>,
         \A m \in Names : instance[m].exists => instance'[m].exists
  PROVE  SyncInv'
<1>1. \A q \in Requests : Running(q) => req'[q] = req[q]
  BY DEF Edited, Holds, Running
<1> QED BY <1>1, KeptSync DEF Running

LEMMA RowSync ==
  ASSUME BoardInv, SyncInv, NEW r \in Requests, ImportRow(r)
  PROVE  SyncInv'
<1>1. req[r].kind = "import" /\ req[r].at = "row" /\ req[r] \in ImportReqs
  BY ReqKinds DEF ImportRow, BoardInv
<1>2. PICK i \in req[r].todo :
         LET row == Lines(req[r].file)[i]
             next == [req[r] EXCEPT !.todo = @ \ {i}]
         IN IF Invalid(row)
            THEN /\ req' = [req EXCEPT ![r] = [next EXCEPT !.skipped = @ + 1]]
                 /\ UNCHANGED <<instance, outdated, syncVars>>
            ELSE /\ UpsertInstance(row.name, row.host)
                 /\ req' = [Edited(row.name) EXCEPT ![r] = [next EXCEPT
                          !.created = IF instance[row.name].exists THEN @ ELSE @ + 1,
                          !.updated = IF instance[row.name].exists THEN @ + 1 ELSE @,
                          !.sync = SyncOnce(@, row.name)]]
                 /\ unsynced' = unsynced \cup {row.name}
                 /\ dropped' = dropped \ {row.name}
  BY DEF ImportRow
<1>3. CASE Invalid(Lines(req[r].file)[i])
  <2>1. /\ req' = [req EXCEPT ![r] = [[req[r] EXCEPT !.todo = @ \ {i}] EXCEPT !.skipped = @ + 1]]
        /\ UNCHANGED <<instance, unsynced, dropped>>
    BY <1>2, <1>3 DEF syncVars
  <2>2. req'[r].kind = req[r].kind /\ req'[r].at = req[r].at /\ req'[r].sync = req[r].sync
    BY <1>1, <2>1 DEF BoardInv, TypesOK, ImportReqs
  <2>3. \A q \in Requests : q # r => req'[q] = req[q]
    BY <2>1 DEF BoardInv, TypesOK
  <2> QED BY <2>1, <2>2, <2>3, KeptSync DEF Running
<1>4. CASE ~Invalid(Lines(req[r].file)[i])
  <2>1. PICK n \in Names : n = Lines(req[r].file)[i].name
    <3>1. i \in RowsOf(req[r].file) /\ req[r].file \in Files
      BY <1>1, TakeRow
    <3>2. Lines(req[r].file)[i].name \in Names \cup {0}
      BY <3>1, RowsFinite
    <3> QED BY <1>4, <3>2 DEF Invalid
  <2>2. /\ UpsertInstance(n, Lines(req[r].file)[i].host)
        /\ unsynced' = unsynced \cup {n} /\ dropped' = dropped \ {n}
    BY <1>2, <1>4, <2>1
  <2>3. req' = [Edited(n) EXCEPT ![r] = NextRow(r, i, n)]
    BY <1>1, <1>2, <1>4, <2>1 DEF ImportReqs, NextRow
  <2>4. req'[r] = NextRow(r, i, n) /\ \A q \in Requests : q # r => req'[q] = Edited(n)[q]
    BY <2>3 DEF Edited
  <2>5. /\ req'[r].kind = "import" /\ req'[r].at = "row"
        /\ req'[r].sync = SyncOnce(req[r].sync, n)
    BY <1>1, <2>4 DEF NextRow, ImportReqs
  <2>6. ToSet(req'[r].sync) = ToSet(req[r].sync) \cup {n}
    <3>1. req[r].sync \in Seq(Names \cup {0})
      BY <1>1 DEF ImportReqs
    <3>2. n \in Names \cup {0} /\ SyncOnce(req[r].sync, n) = SyncOnce(req[r].sync, n)
      OBVIOUS
    <3> QED BY <2>5, <3>1, <3>2, SyncOnceList
  <2>7. \A q \in Requests : q # r /\ Running(q) => req'[q] = req[q]
    BY <2>4 DEF Edited, Holds, Running
  <2>8. instance'[n].exists /\ \A m \in Names : instance[m].exists => instance'[m].exists
    BY <2>2 DEF UpsertInstance, BoardInv, TypesOK, InstanceRow
  <2>9. ASSUME NEW m \in unsynced', m \notin dropped'
        PROVE  \E q \in Requests : Running(q)' /\ m \in ToSet(req'[q].sync)
    <3>1. CASE m = n
      BY <2>5, <2>6, <3>1 DEF Running
    <3>2. CASE m # n
      <4>1. PICK q \in Requests : Running(q) /\ m \in ToSet(req[q].sync)
        BY <2>2, <2>9, <3>2 DEF SyncInv
      <4>2. CASE q = r
        BY <2>5, <2>6, <4>1, <4>2 DEF Running
      <4>3. CASE q # r
        BY <2>7, <4>1, <4>3 DEF Running
      <4> QED BY <4>2, <4>3
    <3> QED BY <3>1, <3>2
  <2>10. unsynced' \subseteq Names /\ dropped' \subseteq Names
    BY <2>2 DEF SyncInv
  <2>11. \A m \in unsynced' : instance'[m].exists
    BY <2>2, <2>8 DEF SyncInv
  <2> QED BY <2>9, <2>10, <2>11 DEF SyncInv
<1> QED BY <1>3, <1>4

LEMMA RaisesSync ==
  ASSUME BoardInv, SyncInv, NEW r \in Requests, ImportRaises(r)
  PROVE  SyncInv'
<1>1. /\ dropped' = dropped \cup (unsynced \cap ToSet(req[r].sync))
      /\ UNCHANGED <<instance, unsynced>>
      /\ req' = [req EXCEPT ![r].at = "died"]
  BY DEF ImportRaises
<1>2. ASSUME NEW n \in unsynced, n \notin dropped'
      PROVE  \E q \in Requests : Running(q)' /\ n \in ToSet(req'[q].sync)
  <2>1. PICK q \in Requests : Running(q) /\ n \in ToSet(req[q].sync)
    BY <1>1, <1>2 DEF SyncInv
  <2>2. q # r
    BY <1>1, <1>2, <2>1
  <2> QED BY <1>1, <2>1, <2>2 DEF Running, BoardInv, TypesOK
<1> QED BY <1>1, <1>2 DEF SyncInv

LEMMA FinishSync ==
  ASSUME BoardInv, SyncInv, NEW r \in Requests, FinishImport(r)
  PROVE  SyncInv'
<1>1. /\ unsynced' = unsynced \ ToSet(req[r].sync)
      /\ dropped' = dropped \ ToSet(req[r].sync)
      /\ UNCHANGED instance
      /\ req' = [req EXCEPT ![r].at = "done"]
  BY DEF FinishImport
<1>2. ASSUME NEW n \in unsynced', n \notin dropped'
      PROVE  \E q \in Requests : Running(q)' /\ n \in ToSet(req'[q].sync)
  <2>1. PICK q \in Requests : Running(q) /\ n \in ToSet(req[q].sync)
    BY <1>1, <1>2 DEF SyncInv
  <2>2. q # r
    BY <1>1, <1>2, <2>1
  <2> QED BY <1>1, <2>1, <2>2 DEF Running, BoardInv, TypesOK
<1> QED BY <1>1, <1>2 DEF SyncInv

LEMMA DeleteSync ==
  ASSUME BoardInv, SyncInv, NEW n \in Names, DeleteInstance(n)
  PROVE  SyncInv'
<1>1. /\ unsynced' = unsynced \ {n} /\ dropped' = dropped \ {n}
      /\ \A m \in Names : m # n => instance'[m] = instance[m]
  BY DEF DeleteInstance, BoardInv, TypesOK
<1>2. ASSUME NEW m \in unsynced', m \notin dropped'
      PROVE  \E q \in Requests : Running(q)' /\ m \in ToSet(req'[q].sync)
  <2>1. PICK q \in Requests : Running(q) /\ m \in ToSet(req[q].sync)
    BY <1>1, <1>2 DEF SyncInv
  <2> DEFINE sync == req[q].sync
             less == [i \in DOMAIN sync |-> IF sync[i] = n THEN 0 ELSE sync[i]]
  <2>2. req'[q].kind = "import" /\ req'[q].at = "row" /\ req'[q].sync = less
    BY <2>1, DeletedRequest DEF Running
  <2>3. PICK i \in DOMAIN sync : sync[i] = m
    BY <2>1 DEF ToSet
  <2>4. i \in DOMAIN less /\ less[i] = m
    BY <1>1, <1>2, <2>3
  <2> HIDE DEF less, sync
  <2>5. m \in ToSet(less)
    BY <2>4 DEF ToSet
  <2> QED BY <2>2, <2>5 DEF Running
<1>3. \A m \in unsynced' : m \in Names /\ instance'[m].exists
  BY <1>1 DEF SyncInv
<1> QED BY <1>1, <1>2, <1>3 DEF SyncInv

LEMMA NextSync == BoardInv /\ SyncInv /\ [BoardNext]_boardVars => SyncInv'
<1> SUFFICES ASSUME BoardInv, SyncInv, [BoardNext]_boardVars PROVE SyncInv'
  OBVIOUS
<1>1. ASSUME NEW r \in Requests, NEW p \in Profiles, NEW n \in Names, NEW s \in Selections,
             BeginBulk(r, p, n, s)
      PROVE  SyncInv'
  BY <1>1, BeginSync DEF BeginBulk, syncVars
<1>2. ASSUME NEW r \in Requests, NEW s \in Streams, BeginAdd(r, s) PROVE SyncInv'
  <2>1. PICK record : Begin(r, record)
    BY <1>2 DEF BeginAdd
  <2> QED BY <1>2, <2>1, BeginSync DEF BeginAdd, syncVars
<1>3. ASSUME NEW r \in Requests, NEW file \in Files, BeginImport(r, file) PROVE SyncInv'
  BY <1>3, BeginSync DEF BeginImport, syncVars
<1>4. ASSUME NEW r \in Requests, RequestStep(r) PROVE SyncInv'
  BY <1>4, ItemSync, RowSync, RaisesSync, FinishSync DEF RequestStep
<1>5. ASSUME NEW n \in Names, NEW h \in Hosts, AddInstance(n, h) PROVE SyncInv'
  <2>1. \A m \in Names : instance[m].exists => instance'[m].exists
    BY <1>5 DEF AddInstance, UpsertInstance, BoardInv, TypesOK, InstanceRow
  <2> QED BY <1>5, <2>1, EditSync DEF AddInstance, syncVars
<1>6. ASSUME NEW k \in Keys, RemoveItem(k) PROVE SyncInv'
  <2>1. \A q \in Requests : Running(q) => req'[q] = req[q]
    BY <1>6 DEF RemoveItem, Gone, Running
  <2>2. UNCHANGED <<unsynced, dropped, instance>>
    BY <1>6 DEF RemoveItem, syncVars
  <2> QED BY <2>1, <2>2, KeptSync DEF Running
<1>7. ASSUME NEW n \in Names, NEW a \in BOOLEAN, NEW p \in BOOLEAN, EditInstance(n, a, p)
      PROVE  SyncInv'
  <2>1. \A m \in Names : instance[m].exists => instance'[m].exists
    BY <1>7 DEF EditInstance, BoardInv, TypesOK, InstanceRow
  <2> QED BY <1>7, <2>1, EditSync DEF EditInstance, syncVars
<1>8. ASSUME NEW n \in Names, DeleteInstance(n) PROVE SyncInv'
  BY <1>8, DeleteSync
<1>9. CASE UNCHANGED boardVars
  BY <1>9 DEF boardVars, SyncInv, Running
<1> QED BY <1>1, <1>2, <1>3, <1>4, <1>5, <1>6, <1>7, <1>8, <1>9 DEF BoardNext

LEMMA BoardInvariant == BoardSpec => []BoardInv
  BY InitBoard, NextBoard, PTL DEF BoardSpec

LEMMA SyncInvariant == BoardSpec => []SyncInv
<1>1. BoardInit => SyncInv
  BY DEF BoardInit, SyncInv
<1> QED BY <1>1, NextSync, BoardInvariant, PTL DEF BoardSpec

\* Rows, items and histories keep their types; an item is shown only while its
\* row exists and exists only while its instance does (models.py:374-432: the
\* foreign key cascades).
THEOREM BoardTypeCorrect == BoardSpec => []BoardTypeOK
<1>1. BoardInv /\ SyncInv => BoardTypeOK
  BY DEF BoardInv, TypesOK, RowsOK, SyncInv, BoardTypeOK, InstanceRow, ItemRow
<1> QED BY <1>1, BoardInvariant, SyncInvariant, PTL

\* Two items of a profile share a place only if the count of one of them was
\* overtaken by another addition, or it came from the surveillance form, or rows
\* of the profile were deleted (services.py:1480-1495).
THEOREM TiesCorrect == BoardSpec => []TiesOnlyFromOverlap
<1>1. BoardInv => TiesOnlyFromOverlap
  BY DEF BoardInv
<1> QED BY <1>1, BoardInvariant, PTL

\* What a request has written is shown, at the address of its instance, unless
\* another request removed it or wrote the instance meanwhile
\* (services.py:1475-1501, services_grid.py:152-196).
THEOREM ShownItemsCorrect == BoardSpec => []WrittenItemsShown
<1>1. BoardInv => WrittenItemsShown
  BY DEF BoardInv, HoldingOK, HoldsOK, IsItemReq, HostsOK, WrittenItemsShown
<1> QED BY <1>1, BoardInvariant, PTL

\* An instance that an import has written is synced by an import, unless the
\* import ended before it had sent its syncs; and an import accounts for every
\* line at every step and is to sync each instance it wrote exactly once
\* (services.py:430-472).
THEOREM ImportsCorrect == BoardSpec => []ImportsTold
<1>1. BoardInv /\ SyncInv => ImportsTold
  <2> SUFFICES ASSUME BoardInv, SyncInv PROVE ImportsTold
    OBVIOUS
  <2>1. ASSUME NEW r \in Requests, req[r].kind = "import"
        PROVE  /\ req[r].sync \in Seq(Names \cup {0}) /\ DOMAIN req[r].sync = 1..Len(req[r].sync)
               /\ \A x : Contains(req[r].sync, x) <=> x \in ToSet(req[r].sync)
    <3>1. req[r].sync \in Seq(Names \cup {0})
      BY <2>1, ReqKinds DEF BoardInv, ImportReqs
    <3>2. DOMAIN req[r].sync = 1..Len(req[r].sync)
      BY <3>1
    <3> QED BY <3>1, <3>2 DEF Contains, ToSet
  <2>2. \A n \in unsynced :
          /\ instance[n].exists
          /\ n \notin dropped =>
                \E r \in Requests : /\ req[r].kind = "import" /\ req[r].at = "row"
                                    /\ Contains(req[r].sync, n)
    BY <2>1 DEF SyncInv, Running
  <2>3. ASSUME NEW r \in Requests, req[r].kind = "import"
        PROVE  LET valid == {i \in RowsOf(req[r].file) \ req[r].todo : ~Invalid(Lines(req[r].file)[i])}
               IN /\ req[r].created + req[r].updated + req[r].skipped + Cardinality(req[r].todo)
                         = Cardinality(RowsOf(req[r].file))
                  /\ req[r].created <= Len(req[r].sync)
                  /\ req[r].at = "done" => req[r].todo = {}
                  /\ ~Contains(req[r].sync, 0) =>
                        /\ ToSet(req[r].sync) = {Lines(req[r].file)[i].name : i \in valid}
                        /\ IsInjective(req[r].sync)
    <3>1. ProgressOK(r)
      BY <2>3 DEF BoardInv, ImportsOK
    <3>2. ASSUME ~Contains(req[r].sync, 0)
          PROVE  /\ ToSet(req[r].sync)
                      = {Lines(req[r].file)[i].name :
                            i \in {j \in RowsOf(req[r].file) \ req[r].todo :
                                      ~Invalid(Lines(req[r].file)[j])}}
                 /\ IsInjective(req[r].sync)
      <4>1. \A i \in DOMAIN req[r].sync : req[r].sync[i] # 0
        BY <2>1, <2>3, <3>2 DEF ToSet
      <4>2. ToSet(req[r].sync) = Upserted(r)
        BY <3>1, <4>1 DEF ProgressOK
      <4>3. IsInjective(req[r].sync)
        BY <3>1, <4>1 DEF ProgressOK, IsInjective
      <4> QED BY <4>2, <4>3 DEF Upserted
    <3> QED BY <3>1, <3>2 DEF ProgressOK
  <2> QED BY <2>2, <2>3 DEF ImportsTold
<1> QED BY <1>1, BoardInvariant, SyncInvariant, PTL
=============================================================================
