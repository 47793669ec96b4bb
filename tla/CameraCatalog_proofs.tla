------------------------ MODULE CameraCatalog_proofs ------------------------
(***************************************************************************)
(* CameraCatalog, for every value of the constants: type correctness, that *)
(* the writers of a camera row keep apart (WritersKeepApart), that an      *)
(* upsert that lists all rows leaves one active at most                    *)
(* (DuplicatesDeactivated), and when a page loses its last active row      *)
(* (OnlyDisplacedPagesVanish). The first two follow from RowsInv, which    *)
(* says whose rows the transactions and tasks work on. DedupInv adds that  *)
(* no two saves share an updated_at, that an upsert keeps the lock of its  *)
(* row, and that the newest row is active unless the page is displaced.    *)
(***************************************************************************)
EXTENDS CameraCatalog, FiniteSetTheorems, WellFoundedInduction, TLAPS

\* A row that is not there yet has no updated_at, so no query returns it.
StampOK == \A c \in Rows : camera[c].stamp > 0 => camera[c].exists

\* An upsert past its locking read works on a row that is there.
RowOK == \A u \in Scrapers :
    tx[u].pc \in {"selected", "locked", "saved", "listing"} => tx[u].row \in Existing

\* A row about to appear is new, and its transaction is the only one to know it.
NewRowOK == \A u \in Scrapers : tx[u].pc = "inserted" =>
    /\ tx[u].row \in Rows \ Existing
    /\ \A v \in Scrapers \ {u} : tx[v].row # tx[u].row

\* A check or refresh works on rows that are there.
TaskRowsOK == \A k \in Tasks :
    /\ \A c \in Rows : task[k].copy[c] # None => c \in Existing
    /\ task[k].pc = "saving" => task[k].row \in Existing

RowsInv == TypeOK /\ StampOK /\ RowOK /\ NewRowOK /\ TaskRowsOK

LEMMA NullTypes ==
  /\ NoCamera \in CameraRow
  /\ NoUpsert \in Upsert
  /\ NoTask \in TaskState
BY DEF NoCamera, CameraRow, NoUpsert, NoneSeen, Upsert, NoTask, TaskState

\* Replacing one upsert, task or row by another of the same type.
LEMMA TxEdit ==
  ASSUME TypeOK, NEW u \in Scrapers, NEW next \in Upsert, tx' = [tx EXCEPT ![u] = next]
  PROVE  /\ tx' \in [Scrapers -> Upsert]
         /\ tx'[u] = next
         /\ \A v \in Scrapers \ {u} : tx'[v] = tx[v]
BY DEF TypeOK

LEMMA TaskEdit ==
  ASSUME TypeOK, NEW k \in Tasks, NEW next \in TaskState, task' = [task EXCEPT ![k] = next]
  PROVE  /\ task' \in [Tasks -> TaskState]
         /\ task'[k] = next
         /\ \A l \in Tasks \ {k} : task'[l] = task[l]
BY DEF TypeOK

LEMMA NewestSeen ==
  ASSUME NEW seen, NEW c \in Newest(seen)
  PROVE  c \in Rows /\ seen[c] > 0
BY DEF Newest

LEMMA InitRows == Init => RowsInv
<1> SUFFICES ASSUME Init PROVE RowsInv
  OBVIOUS
<1>1. /\ \A c \in Rows : camera[c] = NoCamera
      /\ \A u \in Scrapers : tx[u] = NoUpsert
      /\ \A k \in Tasks : task[k] = NoTask
  BY DEF Init
<1>2. TypeOK
  BY NullTypes DEF Init, TypeOK
<1>3. StampOK /\ RowOK /\ NewRowOK
  BY <1>1 DEF StampOK, RowOK, NewRowOK, NoCamera, NoUpsert
<1>4. TaskRowsOK
  BY <1>1 DEF TaskRowsOK, NoTask
<1> QED BY <1>2, <1>3, <1>4 DEF RowsInv

\* A step of u's transaction that commits nothing and moves on with a row that is
\* there, or with none.
LEMMA TxStep ==
  ASSUME RowsInv, NEW u \in Scrapers, NEW next \in Upsert,
         tx' = [tx EXCEPT ![u] = next],
         UNCHANGED <<camera, taskVars>>,
         lock' \in [Rows -> Scrapers \cup {None}],
         clock' \in Nat, upserts' \in Nat, settled' \in BOOLEAN, displaced' \in BOOLEAN,
         next.pc # "inserted",
         next.pc \in {"selected", "locked", "saved", "listing"} => next.row \in Existing,
         next.row = None \/ next.row \in Existing
  PROVE  RowsInv'
<1>1. /\ tx' \in [Scrapers -> Upsert]
      /\ tx'[u] = next
      /\ \A v \in Scrapers \ {u} : tx'[v] = tx[v]
  BY TxEdit DEF RowsInv
<1>2. TypeOK'
  BY <1>1 DEF RowsInv, TypeOK, taskVars
<1>3. Existing' = Existing
  BY DEF Existing
<1>4. StampOK' /\ TaskRowsOK'
  BY <1>3 DEF RowsInv, StampOK, TaskRowsOK, taskVars
<1>5. RowOK'
  BY <1>1, <1>3 DEF RowsInv, RowOK
<1>6. NewRowOK'
  <2> SUFFICES ASSUME NEW v \in Scrapers, tx'[v].pc = "inserted"
               PROVE  /\ tx'[v].row \in Rows \ Existing'
                      /\ \A x \in Scrapers \ {v} : tx'[x].row # tx'[v].row
    BY DEF NewRowOK
  <2>1. v # u /\ tx'[v] = tx[v]
    BY <1>1
  <2>2. tx[v].row \in Rows \ Existing /\ \A x \in Scrapers \ {v} : tx[x].row # tx[v].row
    BY <2>1 DEF RowsInv, NewRowOK
  <2>3. tx[v].row # None
    BY <2>2, ConstantsAssumption
  <2> QED BY <1>1, <1>3, <2>1, <2>2, <2>3
<1> QED BY <1>2, <1>4, <1>5, <1>6 DEF RowsInv

\* A step of a check or refresh that saves nothing.
LEMMA TaskOnly ==
  ASSUME RowsInv, NEW k \in Tasks, NEW next \in TaskState,
         task' = [task EXCEPT ![k] = next],
         UNCHANGED <<camera, lock, tx, upserts, observers>>,
         clock' \in Nat, started' \in Nat,
         \A c \in Rows : next.copy[c] # None => c \in Existing,
         next.pc = "saving" => next.row \in Existing
  PROVE  RowsInv'
<1>1. /\ task' \in [Tasks -> TaskState]
      /\ task'[k] = next
      /\ \A l \in Tasks \ {k} : task'[l] = task[l]
  BY TaskEdit DEF RowsInv
<1>2. TypeOK'
  BY <1>1 DEF RowsInv, TypeOK, observers
<1>3. Existing' = Existing
  BY DEF Existing
<1>4. StampOK' /\ RowOK' /\ NewRowOK'
  BY <1>3 DEF RowsInv, StampOK, RowOK, NewRowOK
<1>5. TaskRowsOK'
  BY <1>1, <1>3 DEF RowsInv, TaskRowsOK
<1> QED BY <1>2, <1>4, <1>5 DEF RowsInv

LEMMA SelectRows ==
  ASSUME RowsInv, NEW u \in Scrapers, NEW item \in Items, Select(u, item)
  PROVE  RowsInv'
<1>1. /\ UNCHANGED <<camera, taskVars>>
      /\ lock' \in [Rows -> Scrapers \cup {None}]
      /\ clock' \in Nat /\ upserts' \in Nat /\ settled' \in BOOLEAN /\ displaced' \in BOOLEAN
  <2>1. UNCHANGED <<camera, lock, clock, task, started, settled, displaced>> /\ upserts' = upserts + 1
    BY DEF Select, taskVars, observers
  <2> QED BY <2>1 DEF RowsInv, TypeOK, taskVars
<1>2. CASE tx' = [tx EXCEPT ![u] = [NoUpsert EXCEPT !.pc = "inserting", !.item = item]]
  <2> DEFINE next == [NoUpsert EXCEPT !.pc = "inserting", !.item = item]
  <2>1. next \in Upsert /\ next.pc = "inserting" /\ next.row = None
    BY DEF NoUpsert, NoneSeen, Upsert
  <2>2. tx' = [tx EXCEPT ![u] = next]
    BY <1>2
  <2> HIDE DEF next
  <2> QED BY <1>1, <2>1, <2>2, TxStep
<1>3. ASSUME NEW c \in NewestRow,
             tx' = [tx EXCEPT ![u] = [NoUpsert EXCEPT !.pc = "selected", !.item = item, !.row = c]]
      PROVE  RowsInv'
  <2> DEFINE next == [NoUpsert EXCEPT !.pc = "selected", !.item = item, !.row = c]
  <2>1. c \in Existing
    BY DEF NewestRow, Newest, RowsInv, StampOK, Existing
  <2>2. next \in Upsert /\ next.pc = "selected" /\ next.row = c
    BY <2>1 DEF NoUpsert, NoneSeen, Upsert, Existing
  <2>3. tx' = [tx EXCEPT ![u] = next]
    BY <1>3
  <2> HIDE DEF next
  <2> QED BY <1>1, <2>1, <2>2, <2>3, TxStep
<1> QED BY <1>2, <1>3 DEF Select

LEMMA InsertRows ==
  ASSUME RowsInv, NEW u \in Scrapers, Insert(u)
  PROVE  RowsInv'
<1>1. PICK c \in Rows \ Existing :
        /\ \A v \in Scrapers : tx[v].row # c
        /\ tx' = [tx EXCEPT ![u].pc = "inserted", ![u].row = c, ![u].stamp = clock + 1]
  BY DEF Insert
<1> DEFINE next == [tx[u] EXCEPT !.pc = "inserted", !.row = c, !.stamp = clock + 1]
<1>2. tx[u] \in Upsert /\ clock + 1 \in Nat
  BY DEF RowsInv, TypeOK
<1>3. next \in Upsert /\ next.pc = "inserted" /\ next.row = c
  BY <1>2 DEF Upsert
<1>4. tx' = [tx EXCEPT ![u] = next]
  BY <1>1 DEF RowsInv, TypeOK
<1> HIDE DEF next
<1>5. /\ tx' \in [Scrapers -> Upsert]
      /\ tx'[u] = next
      /\ \A v \in Scrapers \ {u} : tx'[v] = tx[v]
  BY <1>3, <1>4, TxEdit DEF RowsInv
<1>6. TypeOK'
  BY <1>2, <1>5 DEF Insert, RowsInv, TypeOK, taskVars, observers
<1>7. Existing' = Existing
  BY DEF Existing, Insert
<1>8. StampOK' /\ TaskRowsOK'
  BY <1>7 DEF RowsInv, StampOK, TaskRowsOK, Insert, taskVars
<1>9. RowOK'
  BY <1>3, <1>5, <1>7 DEF RowsInv, RowOK
<1>10. NewRowOK'
  BY <1>1, <1>3, <1>5, <1>7 DEF RowsInv, NewRowOK
<1> QED BY <1>6, <1>8, <1>9, <1>10 DEF RowsInv

LEMMA CommitInsertRows ==
  ASSUME RowsInv, NEW u \in Scrapers, CommitInsert(u)
  PROVE  RowsInv'
<1> DEFINE r == tx[u].row
           new == NewCamera(tx[u].item, tx[u].stamp)
<1>1. tx[u] \in Upsert /\ tx[u].pc = "inserted"
  BY DEF RowsInv, TypeOK, CommitInsert
<1>2. r \in Rows \ Existing
  BY <1>1 DEF RowsInv, NewRowOK
<1>3. new \in CameraRow /\ new.exists
  BY <1>1 DEF NewCamera, CameraRow, Upsert
<1>4. camera' = [camera EXCEPT ![r] = new]
  BY DEF CommitInsert
<1> HIDE DEF new
<1>5. /\ camera' \in [Rows -> CameraRow]
      /\ camera'[r] = new
      /\ \A c \in Rows \ {r} : camera'[c] = camera[c]
  BY <1>2, <1>3, <1>4 DEF RowsInv, TypeOK
<1>6. tx' = [tx EXCEPT ![u] = NoUpsert]
  BY DEF CommitInsert
<1>7. /\ tx' \in [Scrapers -> Upsert]
      /\ tx'[u] = NoUpsert
      /\ \A v \in Scrapers \ {u} : tx'[v] = tx[v]
  BY <1>6, NullTypes, TxEdit DEF RowsInv
<1>8. TypeOK'
  BY <1>5, <1>7 DEF CommitInsert, RowsInv, TypeOK, taskVars
<1>9. Existing' = Existing \cup {r}
  BY <1>2, <1>3, <1>5 DEF Existing
<1>10. StampOK'
  BY <1>2, <1>3, <1>5 DEF RowsInv, StampOK
<1>11. RowOK'
  BY <1>7, <1>9 DEF RowsInv, RowOK, NoUpsert
<1>12. NewRowOK'
  <2> SUFFICES ASSUME NEW v \in Scrapers, tx'[v].pc = "inserted"
               PROVE  /\ tx'[v].row \in Rows \ Existing'
                      /\ \A x \in Scrapers \ {v} : tx'[x].row # tx'[v].row
    BY DEF NewRowOK
  <2>1. v # u /\ tx'[v] = tx[v]
    BY <1>7 DEF NoUpsert
  <2>2. tx[v].row \in Rows \ Existing /\ \A x \in Scrapers \ {v} : tx[x].row # tx[v].row
    BY <2>1 DEF RowsInv, NewRowOK
  <2>3. tx[v].row # None
    BY <2>2, ConstantsAssumption
  <2>4. tx'[u].row = None
    BY <1>7 DEF NoUpsert
  <2> QED BY <1>7, <1>9, <2>1, <2>2, <2>3, <2>4
<1>13. TaskRowsOK'
  BY <1>9 DEF RowsInv, TaskRowsOK, CommitInsert, taskVars
<1> QED BY <1>8, <1>10, <1>11, <1>12, <1>13 DEF RowsInv

LEMMA RollBackRows ==
  ASSUME RowsInv, NEW u \in Scrapers, RollBack(u)
  PROVE  RowsInv'
<1>1. /\ UNCHANGED <<camera, taskVars>>
      /\ lock' \in [Rows -> Scrapers \cup {None}]
      /\ clock' \in Nat /\ upserts' \in Nat /\ settled' \in BOOLEAN /\ displaced' \in BOOLEAN
  BY DEF RollBack, Release, RowsInv, TypeOK, observers
<1>2. tx' = [tx EXCEPT ![u] = NoUpsert] /\ NoUpsert.pc = "idle" /\ NoUpsert.row = None
  BY DEF RollBack, NoUpsert
<1> QED BY <1>1, <1>2, NullTypes, TxStep

\* The steps between the locking read and the commit keep the row.
LEMMA HeldRows ==
  ASSUME RowsInv, NEW u \in Scrapers, LockNewest(u) \/ Save(u) \/ List(u) \/ LockNext(u)
  PROVE  RowsInv'
<1>1. tx[u] \in Upsert /\ clock \in Nat /\ clock + 1 \in Nat
  BY DEF RowsInv, TypeOK
<1>2. tx[u].pc \in {"selected", "locked", "saved", "listing"} /\ tx[u].row \in Existing
  BY DEF LockNewest, Save, List, LockNext, RowsInv, RowOK
<1>3. UNCHANGED <<camera, taskVars, upserts, settled>> /\ displaced' \in BOOLEAN
  BY DEF LockNewest, Save, List, LockNext, observers, RowsInv, TypeOK
<1>4. upserts' \in Nat /\ settled' \in BOOLEAN
  BY <1>3 DEF RowsInv, TypeOK
<1>5. CASE LockNewest(u)
  <2> DEFINE next == [tx[u] EXCEPT !.pc = "locked"]
  <2>1. next \in Upsert /\ next.pc = "locked" /\ next.row = tx[u].row
    BY <1>1 DEF Upsert
  <2>2. tx' = [tx EXCEPT ![u] = next]
    BY <1>5 DEF LockNewest, RowsInv, TypeOK
  <2>3. lock' \in [Rows -> Scrapers \cup {None}] /\ clock' \in Nat
    BY <1>1, <1>5 DEF LockNewest, RowsInv, TypeOK
  <2> HIDE DEF next
  <2> QED BY <1>2, <1>3, <1>4, <2>1, <2>2, <2>3, TxStep
<1>6. CASE Save(u)
  <2>1. PICK stamp \in {tx[u].stamp, clock + 1} :
          tx' = [tx EXCEPT ![u] = [tx[u] EXCEPT !.pc = "saved", !.stamp = stamp]]
    <3>1. tx' = [tx EXCEPT ![u].pc = "saved", ![u].stamp = clock + 1]
          \/ tx' = [tx EXCEPT ![u].pc = "saved"]
      BY <1>6 DEF Save
    <3>2. [tx EXCEPT ![u].pc = "saved", ![u].stamp = clock + 1]
            = [tx EXCEPT ![u] = [tx[u] EXCEPT !.pc = "saved", !.stamp = clock + 1]]
      BY <1>1 DEF RowsInv, TypeOK
    <3>3. [tx EXCEPT ![u].pc = "saved"]
            = [tx EXCEPT ![u] = [tx[u] EXCEPT !.pc = "saved", !.stamp = tx[u].stamp]]
      BY <1>1 DEF RowsInv, TypeOK, Upsert
    <3> QED BY <3>1, <3>2, <3>3
  <2> DEFINE next == [tx[u] EXCEPT !.pc = "saved", !.stamp = stamp]
  <2>2. next \in Upsert /\ next.pc = "saved" /\ next.row = tx[u].row
    BY <1>1 DEF Upsert
  <2>3. lock' \in [Rows -> Scrapers \cup {None}] /\ clock' \in Nat
    BY <1>1, <1>6 DEF Save, RowsInv, TypeOK
  <2>4. tx' = [tx EXCEPT ![u] = next]
    BY <2>1
  <2> HIDE DEF next
  <2> QED BY <1>2, <1>3, <1>4, <2>2, <2>3, <2>4, TxStep
<1>7. CASE List(u)
  <2> DEFINE seen == [c \in Rows |-> SeenStamp(u, c)]
             next == [tx[u] EXCEPT !.pc = "listing", !.seen = seen]
  <2>1. seen \in [Rows -> Nat]
    BY <1>1 DEF SeenStamp, RowsInv, TypeOK, Upsert, CameraRow
  <2>2. tx' = [tx EXCEPT ![u] = next]
    BY <1>7 DEF List, RowsInv, TypeOK
  <2> HIDE DEF seen
  <2>3. next \in Upsert /\ next.pc = "listing" /\ next.row = tx[u].row
    BY <1>1, <2>1 DEF Upsert
  <2>4. lock' \in [Rows -> Scrapers \cup {None}] /\ clock' \in Nat
    BY <1>1, <1>7 DEF List, RowsInv, TypeOK
  <2> HIDE DEF next
  <2> QED BY <1>2, <1>3, <1>4, <2>2, <2>3, <2>4, TxStep
<1>8. CASE LockNext(u)
  <2>1. tx' = [tx EXCEPT ![u] = tx[u]]
    BY <1>8 DEF LockNext, RowsInv, TypeOK
  <2>2. lock' \in [Rows -> Scrapers \cup {None}] /\ clock' \in Nat
    BY <1>1, <1>8 DEF LockNext, RowsInv, TypeOK
  <2> QED BY <1>1, <1>2, <1>3, <1>4, <1>8, <2>1, <2>2, TxStep DEF LockNext
<1> QED BY <1>5, <1>6, <1>7, <1>8

LEMMA CommitUpdateRows ==
  ASSUME RowsInv, NEW u \in Scrapers, CommitUpdate(u)
  PROVE  /\ RowsInv'
         /\ \A c \in Rows :
              /\ camera'[c].exists = camera[c].exists
              /\ camera'[c].online = camera[c].online
              /\ camera'[c].active => camera[c].active
              /\ camera'[c].item # camera[c].item => c = tx[u].row /\ camera'[c].item = tx[u].item
<1>1. tx[u] \in Upsert /\ tx[u].pc = "listing" /\ tx[u].row \in Existing
  BY DEF RowsInv, TypeOK, RowOK, CommitUpdate
<1>2. ASSUME NEW row \in CameraRow
      PROVE  /\ Updated(row, u) \in CameraRow
             /\ Updated(row, u).exists = row.exists
             /\ Updated(row, u).online = row.online
             /\ Updated(row, u).active = row.active
             /\ Updated(row, u).item \in {row.item, tx[u].item}
  BY <1>1 DEF Updated, CameraRow, Upsert
<1> DEFINE written(c) == IF c = tx[u].row THEN Updated(camera[c], u) ELSE camera[c]
<1>3. ASSUME NEW c \in Rows
      PROVE  /\ written(c) \in CameraRow
             /\ written(c).exists = camera[c].exists
             /\ written(c).online = camera[c].online
             /\ written(c).active = camera[c].active
             /\ written(c).item # camera[c].item => c = tx[u].row /\ written(c).item = tx[u].item
             /\ c # tx[u].row => written(c) = camera[c]
  <2>1. camera[c] \in CameraRow
    BY DEF RowsInv, TypeOK
  <2> QED BY <1>2, <2>1
<1>4. camera' = [c \in Rows |->
         IF c \in Duplicates(tx[u].seen) THEN [written(c) EXCEPT !.active = FALSE] ELSE written(c)]
  BY DEF CommitUpdate
<1> HIDE DEF written
<1>5. ASSUME NEW c \in Rows
      PROVE  /\ camera'[c] \in CameraRow
             /\ camera'[c].exists = camera[c].exists
             /\ camera'[c].online = camera[c].online
             /\ camera'[c].active => camera[c].active
             /\ camera'[c].item # camera[c].item => c = tx[u].row /\ camera'[c].item = tx[u].item
             /\ c # tx[u].row => camera'[c].stamp = camera[c].stamp
  <2>1. camera'[c] = IF c \in Duplicates(tx[u].seen)
                     THEN [written(c) EXCEPT !.active = FALSE] ELSE written(c)
    BY <1>4
  <2>2. CASE c \in Duplicates(tx[u].seen)
    <3>1. [written(c) EXCEPT !.active = FALSE] \in CameraRow
      BY <1>3 DEF CameraRow
    <3> QED BY <1>3, <2>1, <2>2, <3>1 DEF CameraRow
  <2>3. CASE c \notin Duplicates(tx[u].seen)
    BY <1>3, <2>1, <2>3
  <2> QED BY <2>2, <2>3
<1>6. camera' \in [Rows -> CameraRow]
  BY <1>4, <1>5
<1>7. tx' = [tx EXCEPT ![u] = NoUpsert]
  BY DEF CommitUpdate
<1>8. /\ tx' \in [Scrapers -> Upsert]
      /\ tx'[u] = NoUpsert
      /\ \A v \in Scrapers \ {u} : tx'[v] = tx[v]
  BY <1>7, NullTypes, TxEdit DEF RowsInv
<1>9. lock' \in [Rows -> Scrapers \cup {None}] /\ settled' \in BOOLEAN
  BY DEF CommitUpdate, Release, RowsInv, TypeOK
<1>10. UNCHANGED <<task, clock, upserts, started>> /\ displaced' \in BOOLEAN
  BY DEF CommitUpdate, taskVars
<1>11. TypeOK'
  BY <1>6, <1>8, <1>9, <1>10 DEF RowsInv, TypeOK
<1>12. Existing' = Existing
  BY <1>5 DEF Existing
<1>13. StampOK'
  BY <1>1, <1>5 DEF RowsInv, StampOK, Existing
<1>14. RowOK'
  BY <1>8, <1>12 DEF RowsInv, RowOK, NoUpsert
<1>15. NewRowOK'
  <2> SUFFICES ASSUME NEW v \in Scrapers, tx'[v].pc = "inserted"
               PROVE  /\ tx'[v].row \in Rows \ Existing'
                      /\ \A x \in Scrapers \ {v} : tx'[x].row # tx'[v].row
    BY DEF NewRowOK
  <2>1. v # u /\ tx'[v] = tx[v]
    BY <1>8 DEF NoUpsert
  <2>2. tx[v].row \in Rows \ Existing /\ \A x \in Scrapers \ {v} : tx[x].row # tx[v].row
    BY <2>1 DEF RowsInv, NewRowOK
  <2>3. tx[v].row # None /\ tx'[u].row = None
    BY <1>8, <2>2, ConstantsAssumption DEF NoUpsert
  <2> QED BY <1>8, <1>12, <2>1, <2>2, <2>3
<1>16. TaskRowsOK'
  BY <1>10, <1>12 DEF RowsInv, TaskRowsOK
<1>17. RowsInv'
  BY <1>11, <1>13, <1>14, <1>15, <1>16 DEF RowsInv
<1> QED BY <1>5, <1>17

LEMMA DoneTask ==
  ASSUME RowsInv, NEW k \in Tasks, NEW c \in Rows
  PROVE  /\ Done(k, c) \in TaskState
         /\ \A d \in Rows : Done(k, c).copy[d] # None => d \in Existing
         /\ Done(k, c).pc # "saving"
<1> DEFINE left == [task[k].copy EXCEPT ![c] = None]
           more == [NoTask EXCEPT !.pc = "working", !.kind = task[k].kind, !.copy = left]
<1>1. task[k] \in TaskState /\ left \in [Rows -> Items \cup {None}]
  BY DEF RowsInv, TypeOK, TaskState
<1>2. \A d \in Rows : left[d] # None => d \in Existing
  BY <1>1 DEF RowsInv, TaskRowsOK, TaskState
<1>3. Done(k, c) = more \/ Done(k, c) = NoTask
  BY DEF Done
<1> HIDE DEF left
<1>4. more \in TaskState /\ more.pc = "working" /\ more.copy = left
  BY <1>1 DEF NoTask, TaskState
<1>5. NoTask.pc = "idle" /\ \A d \in Rows : NoTask.copy[d] = None
  BY DEF NoTask
<1> HIDE DEF more
<1> QED BY <1>2, <1>3, <1>4, <1>5, NullTypes

LEMMA LoadRows ==
  ASSUME RowsInv, NEW k \in Tasks, NEW kind \in {"check", "geo"}, NEW rows \in SUBSET Existing,
         Load(k, kind, rows)
  PROVE  RowsInv'
<1> DEFINE copy == [c \in Rows |-> IF c \in rows THEN camera[c].payload ELSE None]
           next == [NoTask EXCEPT !.pc = "working", !.kind = kind, !.copy = copy]
<1>1. copy \in [Rows -> Items \cup {None}] /\ \A c \in Rows : copy[c] # None => c \in Existing
  BY DEF RowsInv, TypeOK, CameraRow
<1>2. task' = [task EXCEPT ![k] = next]
  BY DEF Load
<1> HIDE DEF copy
<1>3. next \in TaskState /\ next.pc = "working" /\ next.copy = copy
  BY <1>1 DEF NoTask, TaskState
<1>4. UNCHANGED <<camera, lock, tx, clock, upserts, observers>> /\ started' = started + 1
  BY DEF Load
<1>5. started' \in Nat /\ clock' \in Nat
  BY <1>4 DEF RowsInv, TypeOK
<1> HIDE DEF next
<1> QED BY <1>1, <1>2, <1>3, <1>4, <1>5, TaskOnly

LEMMA AnswerRows ==
  ASSUME RowsInv, NEW k \in Tasks, NEW c \in Rows, Answer(k, c)
  PROVE  RowsInv'
<1>1. PICK online \in BOOLEAN :
        task' = [task EXCEPT ![k].pc = "saving", ![k].row = c,
                             ![k].online = online, ![k].stamp = clock + 1]
  BY DEF Answer
<1> DEFINE next == [task[k] EXCEPT !.pc = "saving", !.row = c, !.online = online, !.stamp = clock + 1]
<1>2. task[k] \in TaskState /\ clock + 1 \in Nat
  BY DEF RowsInv, TypeOK
<1>3. next \in TaskState /\ next.row = c /\ next.copy = task[k].copy
  BY <1>2 DEF TaskState
<1>4. task' = [task EXCEPT ![k] = next]
  BY <1>1 DEF RowsInv, TypeOK
<1>5. \A d \in Rows : task[k].copy[d] # None => d \in Existing
  BY DEF RowsInv, TaskRowsOK
<1>6. c \in Existing
  BY <1>5 DEF Answer
<1>7. UNCHANGED <<camera, lock, tx, upserts, observers, started>> /\ clock' \in Nat
  BY <1>2 DEF Answer
<1>8. started' \in Nat
  BY <1>7 DEF RowsInv, TypeOK
<1> HIDE DEF next
<1> QED BY <1>3, <1>4, <1>5, <1>6, <1>7, <1>8, TaskOnly

LEMMA SkipRows ==
  ASSUME RowsInv, NEW k \in Tasks, NEW c \in Rows, SkipGeolocation(k, c)
  PROVE  RowsInv'
<1>1. /\ UNCHANGED <<camera, lock, tx, clock, upserts, started, observers>>
      /\ task' = [task EXCEPT ![k] = Done(k, c)]
  BY DEF SkipGeolocation
<1>2. started' \in Nat /\ clock' \in Nat
  BY <1>1 DEF RowsInv, TypeOK
<1> QED BY <1>1, <1>2, DoneTask, TaskOnly

LEMMA StopRows ==
  ASSUME RowsInv, NEW k \in Tasks, StopTask(k)
  PROVE  RowsInv'
<1>1. /\ UNCHANGED <<camera, lock, tx, clock, upserts, started, observers>>
      /\ task' = [task EXCEPT ![k] = NoTask]
  BY DEF StopTask
<1>2. started' \in Nat /\ clock' \in Nat
  BY <1>1 DEF RowsInv, TypeOK
<1>3. NoTask.pc = "idle" /\ \A d \in Rows : NoTask.copy[d] = None
  BY DEF NoTask
<1> QED BY <1>1, <1>2, <1>3, NullTypes, TaskOnly

LEMMA SaveTaskRows ==
  ASSUME RowsInv, NEW k \in Tasks, SaveTask(k)
  PROVE  /\ RowsInv'
         /\ \A c \in Rows :
              /\ camera'[c].exists = camera[c].exists
              /\ camera'[c].active = camera[c].active
              /\ camera'[c].item = camera[c].item
              /\ camera'[c].online # camera[c].online =>
                   c = task[k].row /\ task[k].kind = "check" /\ camera'[c].online = task[k].online
<1> DEFINE r == task[k].row
           next == IF task[k].kind = "check"
                   THEN WithStatus(camera[r], k) ELSE WithGeolocation(camera[r], k)
<1>1. task[k] \in TaskState /\ r \in Existing /\ r \in Rows /\ camera[r] \in CameraRow
  BY DEF SaveTask, RowsInv, TypeOK, TaskRowsOK, Existing
<1>2. task[k].copy[r] \in Items \cup {None}
  BY <1>1 DEF TaskState
<1>3. /\ next \in CameraRow
      /\ next.exists = camera[r].exists
      /\ next.active = camera[r].active
      /\ next.item = camera[r].item
      /\ next.online # camera[r].online =>
           task[k].kind = "check" /\ next.online = task[k].online
  BY <1>1, <1>2 DEF WithStatus, WithGeolocation, CameraRow, TaskState
<1>4. camera' = [camera EXCEPT ![r] = next]
  BY DEF SaveTask
<1> HIDE DEF next
<1>5. /\ camera' \in [Rows -> CameraRow]
      /\ camera'[r] = next
      /\ \A c \in Rows \ {r} : camera'[c] = camera[c]
  BY <1>1, <1>3, <1>4 DEF RowsInv, TypeOK
<1>6. task' = [task EXCEPT ![k] = Done(k, r)]
  BY DEF SaveTask
<1>7. /\ task' \in [Tasks -> TaskState]
      /\ task'[k] = Done(k, r)
      /\ \A l \in Tasks \ {k} : task'[l] = task[l]
  BY <1>1, <1>6, DoneTask, TaskEdit DEF RowsInv
<1>8. UNCHANGED <<lock, tx, clock, upserts, started, settled>> /\ displaced' \in BOOLEAN
  BY DEF SaveTask
<1>9. TypeOK'
  BY <1>5, <1>7, <1>8 DEF RowsInv, TypeOK
<1>10. Existing' = Existing
  BY <1>3, <1>5 DEF Existing
<1>11. StampOK'
  BY <1>1, <1>3, <1>5 DEF RowsInv, StampOK, Existing
<1>12. RowOK' /\ NewRowOK'
  BY <1>8, <1>10 DEF RowsInv, RowOK, NewRowOK
<1>13. TaskRowsOK'
  BY <1>1, <1>7, <1>10, DoneTask DEF RowsInv, TaskRowsOK
<1>14. RowsInv'
  BY <1>9, <1>11, <1>12, <1>13 DEF RowsInv
<1> QED BY <1>3, <1>5, <1>14

LEMMA NextRows ==
  ASSUME RowsInv, [Next]_vars
  PROVE  RowsInv'
<1>1. CASE UNCHANGED vars
  <2>1. Existing' = Existing
    BY <1>1 DEF vars, Existing
  <2> QED BY <1>1, <2>1 DEF vars, RowsInv, TypeOK, StampOK, RowOK, NewRowOK, TaskRowsOK
<1>2. ASSUME NEW u \in Scrapers, UpsertStep(u) \/ FailUpsert(u) \/ \E i \in Items : Select(u, i)
      PROVE  RowsInv'
  BY <1>2, SelectRows, InsertRows, CommitInsertRows, HeldRows, CommitUpdateRows, RollBackRows
     DEF UpsertStep, BreakDeadlock, FailUpsert
<1>3. ASSUME NEW k \in Tasks, TaskStep(k) \/ StopTask(k)
      PROVE  RowsInv'
  BY <1>3, SaveTaskRows, AnswerRows, SkipRows, StopRows DEF TaskStep
<1>4. ASSUME NEW k \in Tasks,
             \/ RefreshStatus(k)
             \/ \E c \in Rows : CheckSingle(k, c)
             \/ \E S \in SUBSET Existing : RefreshGeolocation(k, S)
      PROVE  RowsInv'
  <2>1. Checkable \in SUBSET Existing
    BY DEF Checkable, ActiveRows
  <2>2. CASE RefreshStatus(k)
    BY <2>1, <2>2, LoadRows DEF RefreshStatus
  <2>3. CASE \E c \in Rows : CheckSingle(k, c)
    <3>1. PICK c \in Checkable : Load(k, "check", {c})
      BY <2>3 DEF CheckSingle
    <3> QED BY <2>1, <3>1, LoadRows
  <2>4. CASE \E S \in SUBSET Existing : RefreshGeolocation(k, S)
    BY <2>4, LoadRows DEF RefreshGeolocation
  <2> QED BY <1>4, <2>2, <2>3, <2>4
<1> QED BY <1>1, <1>2, <1>3, <1>4 DEF Next

\* Every reachable state of the catalogue is well typed.
THEOREM CatalogTypeCorrect == Spec => []TypeOK
<1>1. RowsInv => TypeOK
  BY DEF RowsInv
<1> QED BY <1>1, InitRows, NextRows, PTL DEF Spec

\* What WritersKeepApart says of one row.
KeptApart(c) ==
    /\ camera'[c].online # camera[c].online =>
        \E k \in Tasks : /\ task[k].pc = "saving" /\ task[k].kind = "check"
                         /\ task[k].row = c /\ task[k].online = camera'[c].online
    /\ camera'[c].item # camera[c].item =>
        \E u \in Scrapers : /\ tx[u].pc = "listing" /\ tx[u].row = c
                            /\ tx[u].item = camera'[c].item
    /\ camera'[c].active => camera[c].active

LEMMA StepKeepsApart ==
  ASSUME RowsInv, [Next]_vars, NEW c \in Existing
  PROVE  KeptApart(c)
<1>1. c \in Rows
  BY DEF Existing
<1>2. CASE camera' = camera
  BY <1>2 DEF KeptApart
<1>3. ASSUME NEW u \in Scrapers, CommitInsert(u)
      PROVE  KeptApart(c)
  <2>1. tx[u].row \in Rows \ Existing
    BY <1>3 DEF CommitInsert, RowsInv, NewRowOK
  <2>2. camera'[c] = camera[c]
    BY <1>1, <1>3, <2>1 DEF CommitInsert, RowsInv, TypeOK
  <2> QED BY <2>2 DEF KeptApart
<1>4. ASSUME NEW u \in Scrapers, CommitUpdate(u)
      PROVE  KeptApart(c)
  <2>1. tx[u].pc = "listing"
    BY <1>4 DEF CommitUpdate
  <2> QED BY <1>1, <1>4, <2>1, CommitUpdateRows DEF KeptApart
<1>5. ASSUME NEW k \in Tasks, SaveTask(k)
      PROVE  KeptApart(c)
  <2>1. task[k].pc = "saving"
    BY <1>5 DEF SaveTask
  <2> QED BY <1>1, <1>5, <2>1, SaveTaskRows DEF KeptApart
<1>6. ASSUME NEW u \in Scrapers, UpsertStep(u) \/ FailUpsert(u) \/ \E i \in Items : Select(u, i)
      PROVE  camera' = camera \/ CommitInsert(u) \/ CommitUpdate(u)
  BY <1>6 DEF UpsertStep, FailUpsert, BreakDeadlock, RollBack, Select, Insert, LockNewest, Save,
     List, LockNext
<1>7. ASSUME NEW k \in Tasks,
             \/ TaskStep(k) \/ StopTask(k)
             \/ RefreshStatus(k)
             \/ \E d \in Rows : CheckSingle(k, d)
             \/ \E S \in SUBSET Existing : RefreshGeolocation(k, S)
      PROVE  camera' = camera \/ SaveTask(k)
  BY <1>7 DEF TaskStep, StopTask, RefreshStatus, CheckSingle, RefreshGeolocation, Load, Answer,
     SkipGeolocation
<1> QED BY <1>2, <1>3, <1>4, <1>5, <1>6, <1>7 DEF Next, vars

\* The writers of a camera row do not undo each other: no check brings back a
\* deactivated row or old fields, and no scrape decides is_online of a known one.
THEOREM WritersCorrect == Spec => WritersKeepApart
<1>1. ASSUME RowsInv, [Next]_vars
      PROVE  [\A c \in Existing : KeptApart(c)]_vars
  BY <1>1, StepKeepsApart
<1>2. WritersKeepApart <=> [][\A c \in Existing : KeptApart(c)]_vars
  BY PTL DEF WritersKeepApart, KeptApart
<1> QED BY <1>1, <1>2, InitRows, NextRows, PTL DEF Spec

(***************************************************************************)
(* Duplicates. No two saves share an updated_at, wherever it is: in a row, *)
(* or with a transaction or a task that is about to commit it. (Constant   *)
(* lemmas: r, t and k are the times of the rows, upserts and tasks.)       *)
(***************************************************************************)
StampMaps(r, t, k, n) ==
    /\ r \in [Rows -> Nat] /\ t \in [Scrapers -> Nat] /\ k \in [Tasks -> Nat]
    /\ n \in Nat

\* The times that are not 0 differ from each other, and none is after n.
Apart(r, t, k, n) ==
    /\ \A c \in Rows : r[c] <= n /\ \A d \in Rows : c # d /\ r[c] > 0 => r[c] # r[d]
    /\ \A u \in Scrapers : t[u] <= n /\ \A v \in Scrapers : u # v /\ t[u] > 0 => t[u] # t[v]
    /\ \A x \in Tasks : k[x] <= n /\ \A y \in Tasks : x # y /\ k[x] > 0 => k[x] # k[y]
    /\ \A c \in Rows, u \in Scrapers : r[c] > 0 => r[c] # t[u]
    /\ \A c \in Rows, x \in Tasks : r[c] > 0 => r[c] # k[x]
    /\ \A u \in Scrapers, x \in Tasks : t[u] > 0 => t[u] # k[x]

LEMMA ApartQuiet ==
  ASSUME NEW r, NEW t, NEW k, NEW n, NEW t2, NEW k2, NEW n2,
         StampMaps(r, t, k, n), StampMaps(r, t2, k2, n2), Apart(r, t, k, n), n <= n2,
         \A u \in Scrapers : t2[u] \in {0, t[u]},
         \A x \in Tasks : k2[x] \in {0, k[x]}
  PROVE  Apart(r, t2, k2, n2)
BY DEF Apart, StampMaps

LEMMA ApartTx ==
  ASSUME NEW r, NEW t, NEW k, NEW n, NEW t2, NEW u \in Scrapers,
         StampMaps(r, t, k, n), StampMaps(r, t2, k, n + 1), Apart(r, t, k, n),
         t2[u] = n + 1, \A v \in Scrapers \ {u} : t2[v] = t[v]
  PROVE  Apart(r, t2, k, n + 1)
BY DEF Apart, StampMaps

LEMMA ApartTask ==
  ASSUME NEW r, NEW t, NEW k, NEW n, NEW k2, NEW x \in Tasks,
         StampMaps(r, t, k, n), StampMaps(r, t, k2, n + 1), Apart(r, t, k, n),
         k2[x] = n + 1, \A y \in Tasks \ {x} : k2[y] = k[y]
  PROVE  Apart(r, t, k2, n + 1)
BY DEF Apart, StampMaps

LEMMA ApartCommit ==
  ASSUME NEW r, NEW t, NEW k, NEW n, NEW r2, NEW t2, NEW u \in Scrapers, NEW c \in Rows,
         StampMaps(r, t, k, n), StampMaps(r2, t2, k, n), Apart(r, t, k, n),
         r2[c] = t[u] \/ r2[c] = r[c], \A d \in Rows \ {c} : r2[d] = r[d],
         t2[u] = 0, \A v \in Scrapers \ {u} : t2[v] = t[v]
  PROVE  Apart(r2, t2, k, n)
BY DEF Apart, StampMaps

LEMMA ApartSave ==
  ASSUME NEW r, NEW t, NEW k, NEW n, NEW r2, NEW k2, NEW x \in Tasks, NEW c \in Rows,
         StampMaps(r, t, k, n), StampMaps(r2, t, k2, n), Apart(r, t, k, n),
         r2[c] = k[x], \A d \in Rows \ {c} : r2[d] = r[d],
         k2[x] = 0, \A y \in Tasks \ {x} : k2[y] = k[y]
  PROVE  Apart(r2, t, k2, n)
BY DEF Apart, StampMaps

\* A function with a value above 0 and a bound has a greatest value.
LEMMA NewestExists ==
  ASSUME NEW f \in [Rows -> Nat], NEW n \in Nat, \A c \in Rows : f[c] <= n,
         NEW c \in Rows, f[c] > 0
  PROVE  Newest(f) # {}
<1> DEFINE S == {n - f[d] : d \in Rows}
<1>1. S \in SUBSET Nat /\ S # {}
  OBVIOUS
<1>2. PICK x \in S : \A y \in S : ~ (<<y, x>> \in OpToRel(<, Nat))
  BY <1>1, NatLessThanWellFounded, WFMin
<1>3. PICK d \in Rows : x = n - f[d]
  OBVIOUS
<1>4. \A e \in Rows : f[e] <= f[d]
  <2> TAKE e \in Rows
  <2>1. n - f[e] \in S /\ n - f[e] \in Nat /\ x \in Nat
    BY <1>1
  <2>2. ~(n - f[e] < x)
    BY <1>2, <2>1 DEF OpToRel
  <2> QED BY <1>3, <2>2
<1> QED BY <1>4 DEF Newest

RowStamps == [c \in Rows |-> camera[c].stamp]
TxStamps == [u \in Scrapers |-> tx[u].stamp]
TaskStamps == [k \in Tasks |-> task[k].stamp]

StampsApart == Apart(RowStamps, TxStamps, TaskStamps, clock)

\* A transaction has a time of its own from its first save to its commit; a row
\* that is there was saved.
UpsertTimeOK(u) ==
    /\ tx[u].stamp > 0 => tx[u].pc \in {"inserted", "saved", "listing"}
    /\ tx[u].pc = "inserted" => tx[u].stamp > 0

TimesOK ==
    /\ \A c \in Existing : camera[c].stamp > 0
    /\ \A u \in Scrapers : UpsertTimeOK(u)
    /\ \A k \in Tasks : task[k].pc = "saving" => task[k].stamp > 0

\* The row an upsert works on is its own: nobody else deactivates or saves it.
HeldBy(u) == tx[u].pc \in {"locked", "saved", "listing"} =>
    /\ lock[tx[u].row] = u
    /\ ~displaced => camera[tx[u].row].active
    /\ tx[u].stamp > 0 => camera[tx[u].row].stamp < tx[u].stamp

HeldOK == \A u \in Scrapers : HeldBy(u)

\* The list of an upsert has a first row.
ListOK(u) == \A c \in Rows :
    /\ tx[u].seen[c] <= clock
    /\ \A d \in Rows : c # d /\ tx[u].seen[c] > 0 => tx[u].seen[c] # tx[u].seen[d]

ListsOK == \A u \in Scrapers : ListOK(u)

\* Unless the page is displaced, the row that the next upsert keeps is active.
NewestActive == ~displaced => \A c \in NewestRow : camera[c].active

OneActive == settled => \A c, d \in ActiveRows : c = d

DedupInv == /\ RowsInv /\ StampsApart /\ TimesOK /\ HeldOK /\ ListsOK
            /\ NewestActive /\ OneActive

LEMMA Maps ==
  ASSUME TypeOK
  PROVE  StampMaps(RowStamps, TxStamps, TaskStamps, clock)
BY DEF TypeOK, StampMaps, RowStamps, TxStamps, TaskStamps, CameraRow, Upsert, TaskState

LEMMA MapsNext ==
  ASSUME TypeOK'
  PROVE  StampMaps(RowStamps', TxStamps', TaskStamps', clock')
BY DEF TypeOK, StampMaps, RowStamps, TxStamps, TaskStamps, CameraRow, Upsert, TaskState

LEMMA InitDedup == Init => DedupInv
<1> SUFFICES ASSUME Init PROVE DedupInv
  OBVIOUS
<1>1. /\ \A c \in Rows : camera[c] = NoCamera
      /\ \A u \in Scrapers : tx[u] = NoUpsert
      /\ \A k \in Tasks : task[k] = NoTask
      /\ clock = 0
  BY DEF Init
<1>2. RowsInv
  BY InitRows
<1>3. /\ \A c \in Rows : RowStamps[c] = 0
      /\ \A u \in Scrapers : TxStamps[u] = 0
      /\ \A k \in Tasks : TaskStamps[k] = 0
  BY <1>1 DEF RowStamps, TxStamps, TaskStamps, NoCamera, NoUpsert, NoTask
<1>4. StampsApart
  BY <1>1, <1>3 DEF StampsApart, Apart
<1>5. TimesOK /\ HeldOK
  BY <1>1 DEF TimesOK, UpsertTimeOK, HeldOK, HeldBy, Existing, NoCamera, NoUpsert, NoTask
<1>6. ListsOK
  BY <1>1 DEF ListsOK, ListOK, NoUpsert, NoneSeen
<1>7. NewestActive /\ OneActive
  BY <1>3 DEF Init, NewestActive, NewestRow, Newest, RowStamps, OneActive
<1> QED BY <1>2, <1>4, <1>5, <1>6, <1>7 DEF DedupInv

\* A step of u's transaction that commits nothing and releases no other's lock.
LEMMA TxDedup ==
  ASSUME DedupInv, RowsInv', NEW u \in Scrapers,
         UNCHANGED <<camera, task, settled>>,
         displaced => displaced', clock <= clock',
         \A v \in Scrapers \ {u} :
            tx'[v] = tx[v] /\ \A c \in Rows : lock[c] = v => lock'[c] = v,
         StampsApart', UpsertTimeOK(u)', HeldBy(u)', ListOK(u)'
  PROVE  DedupInv'
<1>1. clock \in Nat /\ clock' \in Nat
  BY DEF DedupInv, RowsInv, TypeOK
<1>2. Existing' = Existing /\ ActiveRows' = ActiveRows /\ NewestRow' = NewestRow
  BY DEF Existing, ActiveRows, NewestRow
<1>3. TimesOK'
  BY <1>2 DEF DedupInv, TimesOK, UpsertTimeOK
<1>4. HeldOK'
  <2> SUFFICES ASSUME NEW v \in Scrapers \ {u} PROVE HeldBy(v)'
    BY DEF HeldOK
  <2>1. HeldBy(v) /\ tx'[v] = tx[v]
    BY DEF DedupInv, HeldOK
  <2>2. tx[v].pc \in {"locked", "saved", "listing"} => tx[v].row \in Rows
    BY DEF DedupInv, RowsInv, RowOK, Existing
  <2> QED BY <2>1, <2>2 DEF HeldBy
<1>5. ListsOK'
  <2> SUFFICES ASSUME NEW v \in Scrapers \ {u} PROVE ListOK(v)'
    BY DEF ListsOK
  <2>1. ListOK(v) /\ tx'[v] = tx[v] /\ tx[v] \in Upsert
    BY DEF DedupInv, ListsOK, RowsInv, TypeOK
  <2> QED BY <1>1, <2>1 DEF ListOK, Upsert
<1>6. NewestActive' /\ OneActive'
  BY <1>2 DEF DedupInv, NewestActive, OneActive
<1> QED BY <1>3, <1>4, <1>5, <1>6 DEF DedupInv

\* A step of a task that saves nothing.
LEMMA TaskDedup ==
  ASSUME DedupInv, RowsInv', UNCHANGED <<camera, tx, lock, settled, displaced>>,
         clock <= clock', StampsApart',
         \A k \in Tasks : task'[k].pc = "saving" => task'[k].stamp > 0
  PROVE  DedupInv'
<1>1. clock \in Nat /\ clock' \in Nat
  BY DEF DedupInv, RowsInv, TypeOK
<1>2. Existing' = Existing /\ ActiveRows' = ActiveRows /\ NewestRow' = NewestRow
  BY DEF Existing, ActiveRows, NewestRow
<1>3. TimesOK' /\ HeldOK'
  BY <1>2 DEF DedupInv, TimesOK, UpsertTimeOK, HeldOK, HeldBy
<1>4. ListsOK'
  <2> SUFFICES ASSUME NEW v \in Scrapers PROVE ListOK(v)'
    BY DEF ListsOK
  <2>1. ListOK(v) /\ tx'[v] = tx[v] /\ tx[v] \in Upsert
    BY DEF DedupInv, ListsOK, RowsInv, TypeOK
  <2> QED BY <1>1, <2>1 DEF ListOK, Upsert
<1>5. NewestActive' /\ OneActive'
  BY <1>2 DEF DedupInv, NewestActive, OneActive
<1> QED BY <1>3, <1>4, <1>5 DEF DedupInv

\* A step that gives out no time, and takes none but to forget it.
LEMMA QuietStamps ==
  ASSUME DedupInv, RowsInv', camera' = camera, clock' = clock,
         \A u \in Scrapers : tx'[u].stamp \in {0, tx[u].stamp},
         \A k \in Tasks : task'[k].stamp \in {0, task[k].stamp}
  PROVE  StampsApart'
<1>1. /\ StampMaps(RowStamps, TxStamps, TaskStamps, clock)
      /\ StampMaps(RowStamps', TxStamps', TaskStamps', clock')
  BY Maps, MapsNext DEF DedupInv, RowsInv
<1>2. RowStamps' = RowStamps /\ clock <= clock'
  BY DEF RowStamps, DedupInv, RowsInv, TypeOK
<1>3. /\ \A u \in Scrapers : TxStamps'[u] \in {0, TxStamps[u]}
      /\ \A k \in Tasks : TaskStamps'[k] \in {0, TaskStamps[k]}
  BY DEF TxStamps, TaskStamps
<1>4. Apart(RowStamps, TxStamps, TaskStamps, clock)
  BY DEF DedupInv, StampsApart
<1>5. Apart(RowStamps, TxStamps', TaskStamps', clock')
  BY <1>1, <1>2, <1>3, <1>4, ApartQuiet
<1> QED BY <1>2, <1>5 DEF StampsApart

LEMMA SelectDedup ==
  ASSUME DedupInv, RowsInv', NEW u \in Scrapers, NEW item \in Items, Select(u, item)
  PROVE  DedupInv'
<1>1. UNCHANGED <<camera, lock, clock, task, settled, displaced>>
  BY DEF Select, taskVars, observers
<1>2. PICK next \in Upsert : /\ tx' = [tx EXCEPT ![u] = next]
                             /\ next.pc \in {"inserting", "selected"}
                             /\ next.stamp = 0 /\ next.seen = NoneSeen
  <2>1. CASE tx' = [tx EXCEPT ![u] = [NoUpsert EXCEPT !.pc = "inserting", !.item = item]]
    <3> DEFINE next == [NoUpsert EXCEPT !.pc = "inserting", !.item = item]
    <3>1. next \in Upsert
      BY DEF NoUpsert, NoneSeen, Upsert
    <3>2. next.pc = "inserting" /\ next.stamp = 0 /\ next.seen = NoneSeen
      BY DEF NoUpsert
    <3> QED BY <2>1, <3>1, <3>2
  <2>2. ASSUME NEW c \in NewestRow,
               tx' = [tx EXCEPT ![u] = [NoUpsert EXCEPT !.pc = "selected", !.item = item, !.row = c]]
        PROVE  \E next \in Upsert : /\ tx' = [tx EXCEPT ![u] = next]
                                    /\ next.pc \in {"inserting", "selected"}
                                    /\ next.stamp = 0 /\ next.seen = NoneSeen
    <3> DEFINE next == [NoUpsert EXCEPT !.pc = "selected", !.item = item, !.row = c]
    <3>1. next \in Upsert
      BY DEF NoUpsert, NoneSeen, Upsert, NewestRow, Newest
    <3>2. next.pc = "selected" /\ next.stamp = 0 /\ next.seen = NoneSeen
      BY DEF NoUpsert
    <3> QED BY <2>2, <3>1, <3>2
  <2> QED BY <2>1, <2>2 DEF Select
<1>3. tx'[u] = next /\ \A v \in Scrapers \ {u} : tx'[v] = tx[v]
  BY <1>2, TxEdit DEF DedupInv, RowsInv
<1>4. StampsApart'
  BY <1>1, <1>2, <1>3, QuietStamps
<1>5. UpsertTimeOK(u)' /\ HeldBy(u)'
  BY <1>2, <1>3 DEF UpsertTimeOK, HeldBy
<1>6. clock \in Nat /\ clock' = clock
  BY <1>1 DEF DedupInv, RowsInv, TypeOK
<1>7. ListOK(u)'
  BY <1>2, <1>3, <1>6 DEF ListOK, NoneSeen
<1> QED BY <1>1, <1>3, <1>4, <1>5, <1>6, <1>7, TxDedup

\* u takes clock + 1 for its own.
LEMMA OwnStamp ==
  ASSUME DedupInv, RowsInv', NEW u \in Scrapers, UNCHANGED <<camera, task>>,
         clock' = clock + 1, tx'[u].stamp = clock + 1,
         \A v \in Scrapers \ {u} : tx'[v] = tx[v]
  PROVE  StampsApart'
<1>1. /\ StampMaps(RowStamps, TxStamps, TaskStamps, clock)
      /\ StampMaps(RowStamps', TxStamps', TaskStamps', clock')
  BY Maps, MapsNext DEF DedupInv, RowsInv
<1>2. RowStamps' = RowStamps /\ TaskStamps' = TaskStamps
  BY DEF RowStamps, TaskStamps
<1>3. TxStamps'[u] = clock + 1 /\ \A v \in Scrapers \ {u} : TxStamps'[v] = TxStamps[v]
  BY DEF TxStamps
<1>4. Apart(RowStamps, TxStamps, TaskStamps, clock)
  BY DEF DedupInv, StampsApart
<1>5. Apart(RowStamps, TxStamps', TaskStamps, clock + 1)
  BY <1>1, <1>2, <1>3, <1>4, ApartTx
<1> QED BY <1>2, <1>5 DEF StampsApart

LEMMA InsertDedup ==
  ASSUME DedupInv, RowsInv', NEW u \in Scrapers, Insert(u)
  PROVE  DedupInv'
<1>1. /\ UNCHANGED <<camera, lock, task, settled, displaced>>
      /\ clock' = clock + 1 /\ tx[u].pc = "inserting"
      /\ \E c \in Rows : tx' = [tx EXCEPT ![u].pc = "inserted", ![u].row = c, ![u].stamp = clock + 1]
  BY DEF Insert, taskVars, observers
<1>2. /\ tx'[u].pc = "inserted" /\ tx'[u].stamp = clock + 1 /\ tx'[u].seen = tx[u].seen
      /\ \A v \in Scrapers \ {u} : tx'[v] = tx[v]
  BY <1>1 DEF DedupInv, RowsInv, TypeOK, Upsert
<1>3. clock \in Nat /\ clock' \in Nat /\ clock <= clock' /\ tx[u].seen \in [Rows -> Nat]
  BY <1>1 DEF DedupInv, RowsInv, TypeOK, Upsert
<1>4. StampsApart'
  BY <1>1, <1>2, OwnStamp
<1>5. UpsertTimeOK(u)' /\ HeldBy(u)'
  BY <1>1, <1>2, <1>3 DEF UpsertTimeOK, HeldBy
<1>6. ListOK(u)'
  <2>1. ListOK(u)
    BY DEF DedupInv, ListsOK
  <2> QED BY <1>2, <1>3, <2>1 DEF ListOK
<1> QED BY <1>1, <1>2, <1>3, <1>4, <1>5, <1>6, TxDedup

\* Release gives back the locks of u and of nobody else.
LEMMA RollBackDedup ==
  ASSUME DedupInv, RowsInv', NEW u \in Scrapers, RollBack(u)
  PROVE  DedupInv'
<1>1. UNCHANGED <<camera, clock, task, settled, displaced>>
  BY DEF RollBack, taskVars, observers
<1>2. tx'[u] = NoUpsert /\ \A v \in Scrapers \ {u} : tx'[v] = tx[v]
  BY NullTypes, TxEdit DEF RollBack, DedupInv, RowsInv
<1>3. \A v \in Scrapers \ {u} : \A c \in Rows : lock[c] = v => lock'[c] = v
  BY DEF RollBack, Release
<1>4. /\ NoUpsert.pc = "idle" /\ NoUpsert.stamp = 0
      /\ \A c \in Rows : NoUpsert.seen[c] = 0
  BY DEF NoUpsert, NoneSeen
<1>5. StampsApart'
  BY <1>1, <1>2, <1>4, QuietStamps
<1>6. clock \in Nat /\ clock' = clock
  BY <1>1 DEF DedupInv, RowsInv, TypeOK
<1>7. UpsertTimeOK(u)' /\ HeldBy(u)' /\ ListOK(u)'
  BY <1>2, <1>4, <1>6 DEF UpsertTimeOK, HeldBy, ListOK
<1> QED BY <1>1, <1>2, <1>3, <1>5, <1>6, <1>7, TxDedup

LEMMA LockNewestDedup ==
  ASSUME DedupInv, RowsInv', NEW u \in Scrapers, LockNewest(u)
  PROVE  DedupInv'
<1>1. /\ UNCHANGED <<camera, clock, task, settled>>
      /\ tx[u].pc = "selected" /\ lock[tx[u].row] = None
      /\ displaced' = (displaced \/ ~camera[tx[u].row].active)
  BY DEF LockNewest, taskVars
<1>2. tx[u] \in Upsert /\ tx[u].row \in Rows /\ clock \in Nat
  BY <1>1 DEF DedupInv, RowsInv, TypeOK, RowOK, Existing
<1>3. /\ tx'[u] = [tx[u] EXCEPT !.pc = "locked"]
      /\ \A v \in Scrapers \ {u} : tx'[v] = tx[v]
  BY DEF LockNewest, DedupInv, RowsInv, TypeOK
<1>4. lock'[tx[u].row] = u /\ \A c \in Rows : c # tx[u].row => lock'[c] = lock[c]
  BY <1>2 DEF LockNewest, DedupInv, RowsInv, TypeOK
<1>5. tx'[u].pc = "locked" /\ tx'[u].row = tx[u].row /\ tx'[u].stamp = tx[u].stamp
      /\ tx'[u].seen = tx[u].seen
  BY <1>2, <1>3 DEF Upsert
<1>6. tx[u].stamp = 0
  BY <1>1, <1>2 DEF DedupInv, TimesOK, UpsertTimeOK, Upsert
<1>7. StampsApart'
  BY <1>1, <1>3, <1>5, QuietStamps
<1>8. UpsertTimeOK(u)' /\ HeldBy(u)'
  <2>1. camera'[tx'[u].row].active = camera[tx[u].row].active
    BY <1>1, <1>5
  <2>2. ~displaced' => camera'[tx'[u].row].active
    BY <1>1, <2>1, Zenon
  <2>3. ~(tx'[u].stamp > 0)
    BY <1>5, <1>6
  <2> QED BY <1>4, <1>5, <2>2, <2>3 DEF UpsertTimeOK, HeldBy
<1>9. ListOK(u)'
  BY <1>1, <1>5 DEF ListOK, DedupInv, ListsOK
<1>10. \A v \in Scrapers \ {u} : \A c \in Rows : lock[c] = v => lock'[c] = v
  BY <1>1, <1>4, ConstantsAssumption
<1>11. (displaced => displaced') /\ clock <= clock'
  BY <1>1, <1>2 DEF DedupInv, RowsInv, TypeOK
<1> QED BY <1>1, <1>3, <1>7, <1>8, <1>9, <1>10, <1>11, TxDedup

LEMMA LockNextDedup ==
  ASSUME DedupInv, RowsInv', NEW u \in Scrapers, LockNext(u)
  PROVE  DedupInv'
<1>1. UNCHANGED <<camera, clock, tx, task, settled, displaced>> /\ tx[u].pc = "listing"
  BY DEF LockNext, taskVars, observers
<1>2. PICK c \in NextToLock(u) : lock[c] = None /\ lock' = [lock EXCEPT ![c] = u]
  BY DEF LockNext
<1>3. c \in Rows
  BY DEF NextToLock, Newest
<1>4. /\ lock'[c] = u /\ \A d \in Rows : d # c => lock'[d] = lock[d]
  BY <1>2, <1>3 DEF DedupInv, RowsInv, TypeOK
<1>5. \A v \in Scrapers : \A d \in Rows : lock[d] = v => lock'[d] = v
  BY <1>2, <1>3, <1>4, ConstantsAssumption
<1>6. tx[u] \in Upsert /\ task \in [Tasks -> TaskState] /\ clock \in Nat
      /\ tx[u].row \in Rows
  BY <1>1 DEF DedupInv, RowsInv, TypeOK, RowOK, Existing
<1>7. StampsApart'
  BY <1>1, QuietStamps
<1>8. UpsertTimeOK(u)' /\ HeldBy(u)' /\ ListOK(u)'
  BY <1>1, <1>5, <1>6 DEF UpsertTimeOK, HeldBy, ListOK, DedupInv, TimesOK, HeldOK, ListsOK
<1> QED BY <1>1, <1>5, <1>6, <1>7, <1>8, TxDedup

LEMMA RowTime ==
  ASSUME DedupInv, NEW c \in Rows
  PROVE  camera[c].stamp \in Nat /\ camera[c].stamp <= clock /\ clock \in Nat
<1>1. RowStamps[c] <= clock
  BY DEF DedupInv, StampsApart, Apart
<1> QED BY <1>1 DEF RowStamps, DedupInv, RowsInv, TypeOK, CameraRow

LEMMA SaveDedup ==
  ASSUME DedupInv, RowsInv', NEW u \in Scrapers, Save(u)
  PROVE  DedupInv'
<1>1. UNCHANGED <<camera, lock, task, settled, displaced>> /\ tx[u].pc = "locked"
  BY DEF Save, taskVars, observers
<1>2. tx[u] \in Upsert /\ tx[u].row \in Rows /\ clock \in Nat
  BY <1>1 DEF DedupInv, RowsInv, TypeOK, RowOK, Existing
<1>3. tx[u].stamp = 0
  BY <1>1, <1>2 DEF DedupInv, TimesOK, UpsertTimeOK, Upsert
<1>4. PICK stamp \in {0, clock + 1} :
        /\ clock' = IF stamp = 0 THEN clock ELSE clock + 1
        /\ tx' = [tx EXCEPT ![u] = [tx[u] EXCEPT !.pc = "saved", !.stamp = stamp]]
  <2>1. CASE Differs(camera[tx[u].row], tx[u].item)
    <3>1. clock' = clock + 1 /\ tx' = [tx EXCEPT ![u].pc = "saved", ![u].stamp = clock + 1]
      BY <2>1 DEF Save
    <3>2. tx' = [tx EXCEPT ![u] = [tx[u] EXCEPT !.pc = "saved", !.stamp = clock + 1]]
      BY <1>2, <3>1 DEF DedupInv, RowsInv, TypeOK
    <3>3. clock' = IF clock + 1 = 0 THEN clock ELSE clock + 1
      BY <1>2, <3>1
    <3> WITNESS clock + 1 \in {0, clock + 1}
    <3> QED BY <3>2, <3>3
  <2>2. CASE ~Differs(camera[tx[u].row], tx[u].item)
    <3>1. clock' = clock /\ tx' = [tx EXCEPT ![u].pc = "saved"]
      BY <2>2 DEF Save
    <3>2. tx' = [tx EXCEPT ![u] = [tx[u] EXCEPT !.pc = "saved", !.stamp = 0]]
      BY <1>2, <1>3, <3>1 DEF DedupInv, RowsInv, TypeOK, Upsert
    <3> QED BY <3>1, <3>2
  <2> QED BY <2>1, <2>2
<1>5. /\ tx'[u].pc = "saved" /\ tx'[u].row = tx[u].row /\ tx'[u].stamp = stamp
      /\ tx'[u].seen = tx[u].seen
      /\ \A v \in Scrapers \ {u} : tx'[v] = tx[v]
  BY <1>2, <1>4 DEF DedupInv, RowsInv, TypeOK, Upsert
<1>6. clock <= clock' /\ clock' \in Nat
  BY <1>2, <1>4
<1>7. StampsApart'
  <2>1. CASE stamp = 0
    BY <1>1, <1>4, <1>5, <2>1, QuietStamps
  <2>2. CASE stamp = clock + 1
    <3>1. clock' = clock + 1 /\ tx'[u].stamp = clock + 1
      BY <1>2, <1>4, <1>5, <2>2
    <3> QED BY <1>1, <1>5, <3>1, OwnStamp
  <2> QED BY <2>1, <2>2
<1>8. HeldBy(u)'
  <2>1. HeldBy(u) /\ camera[tx[u].row].stamp \in Nat /\ camera[tx[u].row].stamp <= clock
    BY <1>2, RowTime DEF DedupInv, HeldOK
  <2>2. camera[tx[u].row].stamp < clock + 1
    BY <1>2, <2>1
  <2>3. tx'[u].stamp > 0 => camera[tx[u].row].stamp < tx'[u].stamp
    BY <1>5, <2>2
  <2>4. lock'[tx'[u].row] = u /\ (~displaced' => camera'[tx'[u].row].active)
    BY <1>1, <1>5, <2>1 DEF HeldBy
  <2> QED BY <1>1, <1>5, <2>3, <2>4 DEF HeldBy
<1>9. UpsertTimeOK(u)'
  BY <1>5 DEF UpsertTimeOK
<1>10. ListOK(u)'
  <2>1. ListOK(u) /\ tx[u].seen \in [Rows -> Nat]
    BY <1>2 DEF DedupInv, ListsOK, Upsert
  <2> QED BY <1>2, <1>5, <1>6, <2>1 DEF ListOK
<1>11. \A v \in Scrapers \ {u} : \A c \in Rows : lock[c] = v => lock'[c] = v
  BY <1>1
<1> QED BY <1>1, <1>5, <1>6, <1>7, <1>8, <1>9, <1>10, <1>11, TxDedup

LEMMA ListDedup ==
  ASSUME DedupInv, RowsInv', NEW u \in Scrapers, List(u)
  PROVE  DedupInv'
<1> DEFINE seen == [c \in Rows |-> SeenStamp(u, c)]
<1>1. UNCHANGED <<camera, lock, clock, task, settled, displaced>> /\ tx[u].pc = "saved"
  BY DEF List, taskVars, observers
<1>2. tx[u] \in Upsert /\ tx[u].stamp \in Nat /\ clock \in Nat
  BY DEF DedupInv, RowsInv, TypeOK, Upsert
<1>3. tx' = [tx EXCEPT ![u] = [tx[u] EXCEPT !.pc = "listing", !.seen = seen]]
  BY DEF List, DedupInv, RowsInv, TypeOK
<1> HIDE DEF seen
<1>4. /\ tx'[u].pc = "listing" /\ tx'[u].row = tx[u].row /\ tx'[u].stamp = tx[u].stamp
      /\ tx'[u].seen = seen
      /\ \A v \in Scrapers \ {u} : tx'[v] = tx[v]
  BY <1>2, <1>3 DEF DedupInv, RowsInv, TypeOK, Upsert
<1>5. \A c \in Rows : seen[c] = IF c = tx[u].row /\ tx[u].stamp > 0
                                THEN tx[u].stamp ELSE camera[c].stamp
  BY DEF seen, SeenStamp
<1>6. tx[u].stamp <= clock
  <2>1. TxStamps[u] <= clock
    BY DEF DedupInv, StampsApart, Apart
  <2> QED BY <2>1 DEF TxStamps
<1>7. ASSUME NEW c \in Rows, NEW d \in Rows, c # d, camera[c].stamp > 0
      PROVE  camera[c].stamp # camera[d].stamp
  <2>1. RowStamps[c] > 0 => RowStamps[c] # RowStamps[d]
    BY <1>7 DEF DedupInv, StampsApart, Apart
  <2> QED BY <1>7, <2>1 DEF RowStamps
<1>8. ASSUME NEW c \in Rows, camera[c].stamp > 0
      PROVE  camera[c].stamp # tx[u].stamp
  <2>1. RowStamps[c] > 0 => RowStamps[c] # TxStamps[u]
    BY DEF DedupInv, StampsApart, Apart
  <2> QED BY <1>8, <2>1 DEF RowStamps, TxStamps
<1>9. \A c \in Rows : seen[c] \in Nat /\ seen[c] <= clock
  BY <1>2, <1>5, <1>6, RowTime
<1>10. ListOK(u)'
  <2> SUFFICES ASSUME NEW c \in Rows, NEW d \in Rows, c # d, seen[c] > 0
               PROVE  seen[c] # seen[d]
    BY <1>1, <1>4, <1>9 DEF ListOK
  <2>1. camera[c].stamp \in Nat /\ camera[d].stamp \in Nat
    BY RowTime
  <2>2. CASE tx[u].stamp > 0 /\ c = tx[u].row
    BY <1>2, <1>5, <1>8, <2>1, <2>2
  <2>3. CASE tx[u].stamp > 0 /\ d = tx[u].row
    BY <1>2, <1>5, <1>8, <2>1, <2>3
  <2>4. CASE ~(tx[u].stamp > 0 /\ tx[u].row \in {c, d})
    BY <1>5, <1>7, <2>1, <2>4
  <2> QED BY <2>2, <2>3, <2>4
<1>11. StampsApart'
  BY <1>1, <1>4, QuietStamps
<1>12. UpsertTimeOK(u)'
  BY <1>4 DEF UpsertTimeOK
<1>13. HeldBy(u)'
  <2>1. HeldBy(u)
    BY DEF DedupInv, HeldOK
  <2> QED BY <1>1, <1>4, <2>1 DEF HeldBy
<1> QED BY <1>1, <1>2, <1>4, <1>10, <1>11, <1>12, <1>13, TxDedup

LEMMA CommitInsertDedup ==
  ASSUME DedupInv, RowsInv', NEW u \in Scrapers, CommitInsert(u)
  PROVE  DedupInv'
<1> DEFINE r == tx[u].row
           new == NewCamera(tx[u].item, tx[u].stamp)
<1>1. /\ UNCHANGED <<lock, clock, task, displaced>> /\ ~settled'
      /\ tx[u].pc = "inserted" /\ camera' = [camera EXCEPT ![r] = new]
  BY DEF CommitInsert, taskVars
<1>2. r \in Rows \ Existing /\ clock \in Nat
  BY <1>1 DEF DedupInv, RowsInv, TypeOK, NewRowOK
<1>3. tx'[u] = NoUpsert /\ \A v \in Scrapers \ {u} : tx'[v] = tx[v]
  BY NullTypes, TxEdit DEF CommitInsert, DedupInv, RowsInv
<1>4. camera'[r] = new /\ \A c \in Rows \ {r} : camera'[c] = camera[c]
  BY <1>1, <1>2 DEF DedupInv, RowsInv, TypeOK
<1>5. new.exists /\ new.active /\ new.stamp = tx[u].stamp
  BY DEF NewCamera
<1>6. tx[u].stamp \in Nat /\ tx[u].stamp > 0
  BY <1>1 DEF DedupInv, TimesOK, UpsertTimeOK, RowsInv, TypeOK, Upsert
<1> HIDE DEF new
<1>7. camera[r].stamp = 0
  <2>1. ~camera[r].exists
    BY <1>2 DEF Existing
  <2> QED BY <1>2, <2>1, RowTime DEF DedupInv, RowsInv, StampOK
<1>8. Existing' = Existing \cup {r}
  BY <1>2, <1>4, <1>5 DEF Existing
<1>9. StampsApart'
  <2>1. /\ StampMaps(RowStamps, TxStamps, TaskStamps, clock)
        /\ StampMaps(RowStamps', TxStamps', TaskStamps', clock')
    BY Maps, MapsNext DEF DedupInv, RowsInv
  <2>2. /\ TaskStamps' = TaskStamps
        /\ RowStamps'[r] = TxStamps[u] /\ \A d \in Rows \ {r} : RowStamps'[d] = RowStamps[d]
    BY <1>1, <1>2, <1>4, <1>5 DEF RowStamps, TxStamps, TaskStamps
  <2>3. TxStamps'[u] = 0 /\ \A v \in Scrapers \ {u} : TxStamps'[v] = TxStamps[v]
    BY <1>3 DEF TxStamps, NoUpsert
  <2>4. Apart(RowStamps, TxStamps, TaskStamps, clock)
    BY DEF DedupInv, StampsApart
  <2>5. Apart(RowStamps', TxStamps', TaskStamps, clock)
    BY <1>1, <1>2, <2>1, <2>2, <2>3, <2>4, ApartCommit
  <2> QED BY <1>1, <2>2, <2>5 DEF StampsApart
<1>10. TimesOK'
  <2>1. \A c \in Existing' : camera'[c].stamp > 0
    BY <1>4, <1>5, <1>6, <1>8 DEF DedupInv, TimesOK, Existing
  <2>2. \A v \in Scrapers : UpsertTimeOK(v)'
    BY <1>3 DEF DedupInv, TimesOK, UpsertTimeOK, NoUpsert
  <2> QED BY <1>1, <2>1, <2>2 DEF DedupInv, TimesOK
<1>11. HeldOK'
  <2> SUFFICES ASSUME NEW v \in Scrapers PROVE HeldBy(v)'
    BY DEF HeldOK
  <2>1. CASE v = u
    BY <1>3, <2>1 DEF HeldBy, NoUpsert
  <2>2. CASE v # u
    <3>1. HeldBy(v) /\ tx'[v] = tx[v]
      BY <1>3, <2>2 DEF DedupInv, HeldOK
    <3>2. tx[v].pc \in {"locked", "saved", "listing"} => tx[v].row \in Rows \ {r}
      BY <1>2 DEF DedupInv, RowsInv, RowOK, Existing
    <3> QED BY <1>1, <1>4, <3>1, <3>2 DEF HeldBy
  <2> QED BY <2>1, <2>2
<1>12. ListsOK'
  <2> SUFFICES ASSUME NEW v \in Scrapers PROVE ListOK(v)'
    BY DEF ListsOK
  <2>1. CASE v = u
    BY <1>1, <1>2, <1>3, <2>1 DEF ListOK, NoUpsert, NoneSeen
  <2>2. CASE v # u
    BY <1>1, <1>3, <2>2 DEF ListOK, DedupInv, ListsOK
  <2> QED BY <2>1, <2>2
<1>13. NewestActive'
  <2> SUFFICES ASSUME ~displaced, NEW c \in NewestRow' PROVE camera'[c].active
    BY <1>1 DEF NewestActive
  <2>1. c \in Rows /\ camera'[c].stamp > 0 /\ \A d \in Rows : camera'[d].stamp <= camera'[c].stamp
    BY DEF NewestRow, Newest
  <2>2. CASE c # r
    <3>1. camera[c].stamp > 0 /\ \A d \in Rows \ {r} : camera[d].stamp <= camera[c].stamp
      BY <1>4, <2>1, <2>2
    <3>2. \A d \in Rows : camera[d].stamp <= camera[c].stamp
      BY <1>7, <2>1, <3>1, RowTime
    <3>3. c \in NewestRow
      BY <2>1, <3>1, <3>2 DEF NewestRow, Newest
    <3>4. camera'[c] = camera[c] /\ camera[c].active
      BY <1>4, <2>1, <2>2, <3>3 DEF DedupInv, NewestActive
    <3> QED BY <3>4
  <2> QED BY <1>4, <1>5, <2>2
<1>14. OneActive'
  BY <1>1 DEF OneActive
<1> QED BY <1>9, <1>10, <1>11, <1>12, <1>13, <1>14 DEF DedupInv

\* What an update commits, row by row.
LEMMA CommitUpdateWrites ==
  ASSUME RowsInv, NEW u \in Scrapers, CommitUpdate(u), NEW c \in Rows
  PROVE  /\ camera'[c].stamp = IF c = tx[u].row /\ tx[u].stamp > 0
                               THEN tx[u].stamp ELSE camera[c].stamp
         /\ c \in Duplicates(tx[u].seen) => ~camera'[c].active
         /\ c \notin Duplicates(tx[u].seen) => camera'[c].active = camera[c].active
<1> DEFINE row == IF c = tx[u].row THEN Updated(camera[c], u) ELSE camera[c]
<1>1. camera[c] \in CameraRow /\ tx[u] \in Upsert
  BY DEF RowsInv, TypeOK
<1>2. /\ row \in CameraRow /\ row.active = camera[c].active
      /\ row.stamp = IF c = tx[u].row /\ tx[u].stamp > 0 THEN tx[u].stamp ELSE camera[c].stamp
  <2>1. ASSUME NEW x \in CameraRow
        PROVE  /\ Updated(x, u) \in CameraRow
               /\ Updated(x, u).active = x.active
               /\ Updated(x, u).stamp = IF tx[u].stamp > 0 THEN tx[u].stamp ELSE x.stamp
    <3>1. /\ tx[u].stamp \in Nat /\ tx[u].item \in Items \cup {None}
      BY <1>1 DEF Upsert
    <3>2. CASE tx[u].stamp = 0
      BY <3>2 DEF Updated
    <3>3. CASE tx[u].stamp # 0
      <4> DEFINE y == [x EXCEPT !.item = tx[u].item, !.payload = tx[u].item, !.geo = FALSE,
                                !.stamp = tx[u].stamp]
      <4>1. Updated(x, u) = y
        BY <3>3 DEF Updated
      <4>2. y \in CameraRow /\ y.active = x.active
        BY <3>1 DEF CameraRow
      <4>3. y.stamp = tx[u].stamp
        BY DEF CameraRow
      <4> HIDE DEF y
      <4> QED BY <3>1, <3>3, <4>1, <4>2, <4>3
    <3> QED BY <3>2, <3>3
  <2>2. CASE c = tx[u].row
    BY <1>1, <2>1, <2>2
  <2>3. CASE c # tx[u].row
    BY <1>1, <2>3
  <2> QED BY <2>2, <2>3
<1>3. camera'[c] = IF c \in Duplicates(tx[u].seen) THEN [row EXCEPT !.active = FALSE] ELSE row
  BY DEF CommitUpdate
<1> HIDE DEF row
<1>4. CASE c \in Duplicates(tx[u].seen)
  <2>1. camera'[c].stamp = row.stamp /\ ~camera'[c].active
    BY <1>2, <1>3, <1>4 DEF CameraRow
  <2> QED BY <1>2, <1>4, <2>1
<1>5. CASE c \notin Duplicates(tx[u].seen)
  BY <1>2, <1>3, <1>5
<1> QED BY <1>4, <1>5

\* A transaction that commits an update has the lock of each row it has listed.
LEMMA ListedLocked ==
  ASSUME DedupInv, NEW u \in Scrapers, CommitUpdate(u), NEW c \in Rows, tx[u].seen[c] > 0
  PROVE  lock[c] = u
<1> SUFFICES ASSUME lock[c] # u PROVE FALSE
  OBVIOUS
<1>1. tx[u].seen \in [Rows -> Nat] /\ clock \in Nat /\ \A d \in Rows : tx[u].seen[d] <= clock
  BY DEF DedupInv, RowsInv, TypeOK, Upsert, ListsOK, ListOK
<1>2. Unlocked(u) \in [Rows -> Nat] /\ \A d \in Rows : Unlocked(u)[d] <= clock
  BY <1>1 DEF Unlocked
<1>3. Unlocked(u)[c] > 0
  BY DEF Unlocked
<1>4. NextToLock(u) # {}
  BY <1>1, <1>2, <1>3, NewestExists DEF NextToLock
<1> QED BY <1>4 DEF CommitUpdate

LEMMA CommitUpdateStamps ==
  ASSUME DedupInv, RowsInv', NEW u \in Scrapers, CommitUpdate(u)
  PROVE  StampsApart'
<1> DEFINE r == tx[u].row
<1>1. UNCHANGED <<clock, task>> /\ tx[u].pc = "listing"
  BY DEF CommitUpdate, taskVars
<1>2. r \in Rows
  BY <1>1 DEF DedupInv, RowsInv, RowOK, Existing
<1>3. tx'[u] = NoUpsert /\ \A v \in Scrapers \ {u} : tx'[v] = tx[v]
  BY NullTypes, TxEdit DEF CommitUpdate, DedupInv, RowsInv
<1>4. /\ StampMaps(RowStamps, TxStamps, TaskStamps, clock)
      /\ StampMaps(RowStamps', TxStamps', TaskStamps', clock')
  BY Maps, MapsNext DEF DedupInv, RowsInv
<1>5. \A c \in Rows : camera'[c].stamp = IF c = r /\ tx[u].stamp > 0
                                         THEN tx[u].stamp ELSE camera[c].stamp
  BY CommitUpdateWrites DEF DedupInv
<1>6. TaskStamps' = TaskStamps
  BY <1>1 DEF TaskStamps
<1>7. /\ RowStamps'[r] = TxStamps[u] \/ RowStamps'[r] = RowStamps[r]
      /\ \A d \in Rows \ {r} : RowStamps'[d] = RowStamps[d]
  BY <1>2, <1>5 DEF RowStamps, TxStamps
<1>8. TxStamps'[u] = 0 /\ \A v \in Scrapers \ {u} : TxStamps'[v] = TxStamps[v]
  BY <1>3 DEF TxStamps, NoUpsert
<1>9. Apart(RowStamps, TxStamps, TaskStamps, clock)
  BY DEF DedupInv, StampsApart
<1> HIDE DEF r
<1>10. Apart(RowStamps', TxStamps', TaskStamps, clock)
  BY <1>1, <1>2, <1>4, <1>6, <1>7, <1>8, <1>9, ApartCommit
<1> QED BY <1>1, <1>6, <1>10 DEF StampsApart

\* The rows of the others stay as they were: the updated row and the duplicates
\* are locked by u.
LEMMA CommitUpdateHeld ==
  ASSUME DedupInv, RowsInv', NEW u \in Scrapers, CommitUpdate(u)
  PROVE  HeldOK'
<1> SUFFICES ASSUME NEW v \in Scrapers PROVE HeldBy(v)'
  BY DEF HeldOK
<1>1. tx'[u] = NoUpsert /\ \A x \in Scrapers \ {u} : tx'[x] = tx[x]
  BY NullTypes, TxEdit DEF CommitUpdate, DedupInv, RowsInv
<1>2. CASE v = u
  BY <1>1, <1>2 DEF HeldBy, NoUpsert
<1>3. ASSUME v # u, tx[v].pc \in {"locked", "saved", "listing"} PROVE HeldBy(v)'
  <2> DEFINE c == tx[v].row
  <2>1. tx'[v] = tx[v] /\ HeldBy(v) /\ HeldBy(u) /\ tx[u].pc = "listing"
    BY <1>1, <1>3 DEF DedupInv, HeldOK, CommitUpdate
  <2>2. c \in Rows /\ lock[c] = v
    BY <1>3, <2>1 DEF DedupInv, RowsInv, RowOK, Existing, HeldBy
  <2>3. c # tx[u].row
    BY <1>3, <2>1, <2>2 DEF HeldBy
  <2>4. c \notin Duplicates(tx[u].seen)
    BY <1>3, <2>2, ListedLocked DEF Duplicates
  <2>5. camera'[c].active = camera[c].active /\ camera'[c].stamp = camera[c].stamp
    BY <2>2, <2>3, <2>4, CommitUpdateWrites DEF DedupInv
  <2>6. lock'[c] = v
    BY <1>3, <2>2 DEF CommitUpdate, Release
  <2>7. displaced => displaced'
    BY DEF CommitUpdate
  <2>8. tx[v].stamp > 0 => camera'[c].stamp < tx[v].stamp
    BY <1>3, <2>1, <2>5 DEF HeldBy
  <2>9. ~displaced' => camera'[c].active
    <3>1. ~displaced => camera[c].active
      BY <1>3, <2>1 DEF HeldBy
    <3> QED BY <2>5, <2>7, <3>1
  <2> QED BY <2>1, <2>6, <2>8, <2>9 DEF HeldBy
<1>4. CASE v # u /\ tx[v].pc \notin {"locked", "saved", "listing"}
  BY <1>1, <1>4 DEF HeldBy
<1> QED BY <1>2, <1>3, <1>4

\* The newest row stays active: it is the one u holds, or was the newest before
\* and is no duplicate of what u listed.
LEMMA CommitUpdateNewest ==
  ASSUME DedupInv, NEW u \in Scrapers, CommitUpdate(u)
  PROVE  NewestActive'
<1> SUFFICES ASSUME ~displaced', NEW c \in NewestRow' PROVE camera'[c].active
  BY DEF NewestActive
<1>1. /\ c \in Rows /\ camera'[c].stamp > 0
      /\ \A d \in Rows : camera'[d].stamp <= camera'[c].stamp
  BY DEF NewestRow, Newest
<1>2. ~displaced /\ ~Overtaken(u) /\ tx[u].pc = "listing"
  BY DEF CommitUpdate
<1>3. c \notin Duplicates(tx[u].seen)
  BY <1>1, <1>2 DEF Overtaken, Duplicates
<1>4. camera'[c].active = camera[c].active
  BY <1>1, <1>3, CommitUpdateWrites DEF DedupInv
<1>5. HeldBy(u)
  BY DEF DedupInv, HeldOK
<1>6. CASE c = tx[u].row
  BY <1>2, <1>4, <1>5, <1>6 DEF HeldBy
<1>7. CASE c # tx[u].row
  <2>1. camera'[c].stamp = camera[c].stamp
    BY <1>1, <1>7, CommitUpdateWrites DEF DedupInv
  <2>2. ASSUME NEW d \in Rows PROVE camera[d].stamp <= camera[c].stamp
    <3>1. camera'[d].stamp = IF d = tx[u].row /\ tx[u].stamp > 0
                             THEN tx[u].stamp ELSE camera[d].stamp
      BY CommitUpdateWrites DEF DedupInv
    <3>2. d = tx[u].row /\ tx[u].stamp > 0 => camera[d].stamp < tx[u].stamp
      BY <1>2, <1>5 DEF HeldBy
    <3>3. camera[d].stamp \in Nat /\ camera[c].stamp \in Nat /\ tx[u].stamp \in Nat
      BY <1>1, RowTime DEF DedupInv, RowsInv, TypeOK, Upsert
    <3>4. camera'[d].stamp <= camera[c].stamp
      BY <1>1, <2>1
    <3>5. camera[d].stamp <= camera'[d].stamp /\ camera'[d].stamp \in Nat
      BY <3>1, <3>2, <3>3
    <3> QED BY <3>3, <3>4, <3>5
  <2>3. c \in NewestRow
    BY <1>1, <2>1, <2>2 DEF NewestRow, Newest
  <2> QED BY <1>2, <1>4, <2>3 DEF DedupInv, NewestActive
<1> QED BY <1>6, <1>7

\* An upsert that listed every row leaves the first of them alone active.
LEMMA CommitUpdateOne ==
  ASSUME DedupInv, NEW u \in Scrapers, CommitUpdate(u)
  PROVE  OneActive'
<1> SUFFICES ASSUME settled', NEW c \in ActiveRows', NEW d \in ActiveRows', c # d PROVE FALSE
  BY DEF OneActive
<1>1. ASSUME NEW e \in ActiveRows' PROVE e \in Rows /\ e \in Newest(tx[u].seen)
  <2>1. e \in Rows /\ camera'[e].exists /\ camera'[e].active
    BY DEF ActiveRows, Existing
  <2>2. camera[e].exists
    BY <2>1, CommitUpdateRows DEF DedupInv
  <2>3. tx[u].seen[e] > 0
    BY <2>1, <2>2 DEF CommitUpdate, Existing
  <2>4. e \notin Duplicates(tx[u].seen)
    BY <2>1, CommitUpdateWrites DEF DedupInv
  <2> QED BY <2>1, <2>3, <2>4 DEF Duplicates
<1>2. c \in Rows /\ d \in Rows /\ tx[u].seen \in [Rows -> Nat]
  BY <1>1 DEF DedupInv, RowsInv, TypeOK, Upsert
<1>3. tx[u].seen[c] > 0 /\ tx[u].seen[c] <= tx[u].seen[d] /\ tx[u].seen[d] <= tx[u].seen[c]
  BY <1>1, <1>2 DEF Newest
<1>4. tx[u].seen[c] = tx[u].seen[d]
  BY <1>2, <1>3
<1> QED BY <1>2, <1>3, <1>4 DEF DedupInv, ListsOK, ListOK

LEMMA CommitUpdateDedup ==
  ASSUME DedupInv, RowsInv', NEW u \in Scrapers, CommitUpdate(u)
  PROVE  DedupInv'
<1>1. UNCHANGED <<clock, task>> /\ tx[u].pc = "listing"
  BY DEF CommitUpdate, taskVars
<1>2. tx'[u] = NoUpsert /\ \A v \in Scrapers \ {u} : tx'[v] = tx[v]
  BY NullTypes, TxEdit DEF CommitUpdate, DedupInv, RowsInv
<1>3. TimesOK'
  <2>1. ASSUME NEW c \in Existing' PROVE camera'[c].stamp > 0
    <3>1. c \in Rows /\ c \in Existing
      BY CommitUpdateRows DEF DedupInv, Existing
    <3>2. camera[c].stamp > 0
      BY <3>1 DEF DedupInv, TimesOK
    <3> QED BY <3>1, <3>2, CommitUpdateWrites DEF DedupInv
  <2>2. \A v \in Scrapers : UpsertTimeOK(v)'
    BY <1>2 DEF DedupInv, TimesOK, UpsertTimeOK, NoUpsert
  <2> QED BY <1>1, <2>1, <2>2 DEF DedupInv, TimesOK
<1>4. ListsOK'
  <2> SUFFICES ASSUME NEW v \in Scrapers PROVE ListOK(v)'
    BY DEF ListsOK
  <2>1. clock \in Nat
    BY DEF DedupInv, RowsInv, TypeOK
  <2>2. CASE v = u
    BY <1>1, <1>2, <2>1, <2>2 DEF ListOK, NoUpsert, NoneSeen
  <2>3. CASE v # u
    BY <1>1, <1>2, <2>3 DEF ListOK, DedupInv, ListsOK
  <2> QED BY <2>2, <2>3
<1> QED BY <1>3, <1>4, CommitUpdateStamps, CommitUpdateHeld, CommitUpdateNewest, CommitUpdateOne
        DEF DedupInv

\* A task that starts, goes on, skips a row or ends has no time yet.
LEMMA TaskTurns ==
  ASSUME DedupInv, RowsInv', NEW k \in Tasks, NEW next,
         task' = [task EXCEPT ![k] = next], next.stamp = 0, next.pc # "saving",
         UNCHANGED <<camera, lock, tx, clock, upserts, observers>>
  PROVE  DedupInv'
<1>1. tx \in [Scrapers -> Upsert] /\ task \in [Tasks -> TaskState] /\ clock \in Nat
  BY DEF DedupInv, RowsInv, TypeOK
<1>2. task'[k] = next /\ \A l \in Tasks \ {k} : task'[l] = task[l]
  BY <1>1
<1>3. \A l \in Tasks : /\ task'[l].stamp \in {0, task[l].stamp}
                       /\ task'[l].pc = "saving" => task'[l].stamp > 0
  BY <1>2 DEF DedupInv, TimesOK
<1>4. StampsApart'
  BY <1>1, <1>3, QuietStamps
<1> QED BY <1>1, <1>3, <1>4, TaskDedup DEF observers

LEMMA LoadDedup ==
  ASSUME DedupInv, RowsInv', NEW k \in Tasks, NEW kind, NEW rows, Load(k, kind, rows)
  PROVE  DedupInv'
<1> DEFINE next == [NoTask EXCEPT !.pc = "working", !.kind = kind,
             !.copy = [c \in Rows |-> IF c \in rows THEN camera[c].payload ELSE None]]
<1>1. next.stamp = 0 /\ next.pc = "working"
  BY DEF NoTask
<1>2. /\ task' = [task EXCEPT ![k] = next]
      /\ UNCHANGED <<camera, lock, tx, clock, upserts, observers>>
  BY DEF Load
<1> HIDE DEF next
<1> QED BY <1>1, <1>2, TaskTurns

LEMMA DoneStamp ==
  ASSUME NEW k \in Tasks, NEW c \in Rows
  PROVE  Done(k, c).stamp = 0 /\ Done(k, c).pc # "saving"
<1> DEFINE left == [task[k].copy EXCEPT ![c] = None]
           more == [NoTask EXCEPT !.pc = "working", !.kind = task[k].kind, !.copy = left]
<1>1. Done(k, c) = more \/ Done(k, c) = NoTask
  BY DEF Done
<1> HIDE DEF left
<1>2. more.stamp = 0 /\ more.pc = "working" /\ NoTask.stamp = 0 /\ NoTask.pc = "idle"
  BY DEF NoTask
<1> QED BY <1>1, <1>2

LEMMA SkipStopDedup ==
  ASSUME DedupInv, RowsInv', NEW k \in Tasks,
         StopTask(k) \/ \E c \in Rows : SkipGeolocation(k, c)
  PROVE  DedupInv'
<1>1. NoTask.stamp = 0 /\ NoTask.pc # "saving"
  BY DEF NoTask
<1>2. CASE StopTask(k)
  BY <1>1, <1>2, TaskTurns DEF StopTask
<1>3. ASSUME NEW c \in Rows, SkipGeolocation(k, c) PROVE DedupInv'
  BY <1>3, DoneStamp, TaskTurns DEF SkipGeolocation
<1> QED BY <1>2, <1>3

LEMMA AnswerDedup ==
  ASSUME DedupInv, RowsInv', NEW k \in Tasks, NEW c \in Rows, Answer(k, c)
  PROVE  DedupInv'
<1>1. /\ UNCHANGED <<camera, lock, tx, upserts, started, observers>> /\ clock' = clock + 1
      /\ \E online \in BOOLEAN : task' = [task EXCEPT ![k].pc = "saving", ![k].row = c,
                                               ![k].online = online, ![k].stamp = clock + 1]
  BY DEF Answer
<1>2. /\ task'[k].stamp = clock + 1 /\ \A l \in Tasks \ {k} : task'[l] = task[l]
  BY <1>1 DEF DedupInv, RowsInv, TypeOK, TaskState
<1>3. clock \in Nat /\ clock <= clock' /\ clock + 1 > 0
  BY <1>1 DEF DedupInv, RowsInv, TypeOK
<1>4. StampsApart'
  <2>1. /\ StampMaps(RowStamps, TxStamps, TaskStamps, clock)
        /\ StampMaps(RowStamps', TxStamps', TaskStamps', clock')
    BY Maps, MapsNext DEF DedupInv, RowsInv
  <2>2. RowStamps' = RowStamps /\ TxStamps' = TxStamps
    BY <1>1 DEF RowStamps, TxStamps
  <2>3. TaskStamps'[k] = clock + 1 /\ \A l \in Tasks \ {k} : TaskStamps'[l] = TaskStamps[l]
    BY <1>2 DEF TaskStamps
  <2>4. Apart(RowStamps, TxStamps, TaskStamps, clock)
    BY DEF DedupInv, StampsApart
  <2>5. Apart(RowStamps, TxStamps, TaskStamps', clock + 1)
    BY <1>1, <2>1, <2>2, <2>3, <2>4, ApartTask
  <2> QED BY <1>1, <2>2, <2>5 DEF StampsApart
<1>5. \A l \in Tasks : task'[l].pc = "saving" => task'[l].stamp > 0
  BY <1>2, <1>3 DEF DedupInv, TimesOK
<1> QED BY <1>1, <1>3, <1>4, <1>5, TaskDedup DEF observers

LEMMA SaveTaskDedup ==
  ASSUME DedupInv, RowsInv', NEW k \in Tasks, SaveTask(k)
  PROVE  DedupInv'
<1> DEFINE r == task[k].row
<1>1. /\ UNCHANGED <<lock, tx, clock, settled>>
      /\ task[k].pc = "saving" /\ lock[r] = None
      /\ displaced' = (displaced \/ NewestRow' # NewestRow)
  BY DEF SaveTask
<1>2. r \in Rows /\ task[k] \in TaskState
  BY <1>1 DEF DedupInv, RowsInv, TypeOK, TaskRowsOK, Existing
<1>3. /\ task'[k].stamp = 0 /\ task'[k].pc # "saving"
      /\ \A l \in Tasks \ {k} : task'[l] = task[l]
  <2>1. Done(k, r) \in TaskState /\ Done(k, r).stamp = 0 /\ Done(k, r).pc # "saving"
    BY <1>2, DoneTask, DoneStamp DEF DedupInv
  <2>2. task' = [task EXCEPT ![k] = Done(k, r)]
    BY DEF SaveTask
  <2> QED BY <2>1, <2>2, TaskEdit DEF DedupInv, RowsInv
<1>4. /\ camera'[r].stamp = task[k].stamp
      /\ \A c \in Rows \ {r} : camera'[c] = camera[c]
  <2>1. camera[r] \in CameraRow
    BY <1>2 DEF DedupInv, RowsInv, TypeOK
  <2>2. /\ WithStatus(camera[r], k).stamp = task[k].stamp
        /\ WithGeolocation(camera[r], k).stamp = task[k].stamp
    BY <2>1 DEF WithStatus, WithGeolocation, CameraRow
  <2> QED BY <1>2, <2>2 DEF SaveTask, DedupInv, RowsInv, TypeOK
<1>5. \A c \in Rows : camera'[c].exists = camera[c].exists /\ camera'[c].active = camera[c].active
  BY SaveTaskRows DEF DedupInv
<1>6. Existing' = Existing /\ ActiveRows' = ActiveRows
  BY <1>5 DEF Existing, ActiveRows
<1>7. StampsApart'
  <2>1. /\ StampMaps(RowStamps, TxStamps, TaskStamps, clock)
        /\ StampMaps(RowStamps', TxStamps', TaskStamps', clock')
    BY Maps, MapsNext DEF DedupInv, RowsInv
  <2>2. /\ TxStamps' = TxStamps
        /\ RowStamps'[r] = TaskStamps[k] /\ \A d \in Rows \ {r} : RowStamps'[d] = RowStamps[d]
    BY <1>1, <1>2, <1>4 DEF RowStamps, TxStamps, TaskStamps
  <2>3. TaskStamps'[k] = 0 /\ \A l \in Tasks \ {k} : TaskStamps'[l] = TaskStamps[l]
    BY <1>3 DEF TaskStamps
  <2>4. Apart(RowStamps, TxStamps, TaskStamps, clock)
    BY DEF DedupInv, StampsApart
  <2>5. Apart(RowStamps', TxStamps, TaskStamps', clock)
    BY <1>1, <1>2, <2>1, <2>2, <2>3, <2>4, ApartSave
  <2> QED BY <1>1, <2>2, <2>5 DEF StampsApart
<1>8. TimesOK'
  <2>1. task[k].stamp > 0
    BY <1>1 DEF DedupInv, TimesOK
  <2>2. \A c \in Existing : camera'[c].stamp > 0
    BY <1>4, <2>1 DEF DedupInv, TimesOK, Existing
  <2>3. \A v \in Scrapers : UpsertTimeOK(v)'
    BY <1>1 DEF DedupInv, TimesOK, UpsertTimeOK
  <2> QED BY <1>3, <1>6, <2>2, <2>3 DEF DedupInv, TimesOK
<1>9. HeldOK'
  <2> SUFFICES ASSUME NEW v \in Scrapers, tx[v].pc \in {"locked", "saved", "listing"}
               PROVE  HeldBy(v)'
    BY <1>1 DEF HeldOK, HeldBy
  <2>1. HeldBy(v) /\ tx[v].row \in Rows
    BY DEF DedupInv, HeldOK, RowsInv, RowOK, Existing
  <2>2. lock[tx[v].row] = v /\ v # None
    BY <2>1, ConstantsAssumption DEF HeldBy
  <2>3. camera'[tx[v].row] = camera[tx[v].row]
    BY <1>1, <1>4, <2>1, <2>2
  <2>4. displaced => displaced'
    BY <1>1
  <2>5. ~displaced' => camera'[tx'[v].row].active
    <3>1. ~displaced => camera[tx[v].row].active
      BY <2>1 DEF HeldBy
    <3> QED BY <1>1, <2>3, <2>4, <3>1
  <2>6. tx'[v].stamp > 0 => camera'[tx'[v].row].stamp < tx'[v].stamp
    BY <1>1, <2>1, <2>3 DEF HeldBy
  <2> QED BY <1>1, <2>2, <2>5, <2>6 DEF HeldBy
<1>10. ListsOK'
  BY <1>1 DEF DedupInv, ListsOK, ListOK
<1>11. NewestActive'
  <2> SUFFICES ASSUME ~displaced', NEW c \in NewestRow' PROVE camera'[c].active
    BY DEF NewestActive
  <2>1. ~displaced /\ c \in NewestRow /\ c \in Rows
    BY <1>1 DEF NewestRow, Newest
  <2> QED BY <1>5, <2>1 DEF DedupInv, NewestActive
<1>12. OneActive'
  BY <1>1, <1>6 DEF DedupInv, OneActive
<1> QED BY <1>7, <1>8, <1>9, <1>10, <1>11, <1>12 DEF DedupInv

LEMMA NextDedup ==
  ASSUME DedupInv, [Next]_vars
  PROVE  DedupInv'
<1>1. RowsInv'
  BY NextRows DEF DedupInv
<1>2. CASE UNCHANGED vars
  <2>1. UNCHANGED <<camera, lock, tx, task, clock, settled, displaced>>
    BY <1>2 DEF vars
  <2>2. /\ Existing' = Existing /\ ActiveRows' = ActiveRows /\ NewestRow' = NewestRow
        /\ RowStamps' = RowStamps /\ TxStamps' = TxStamps /\ TaskStamps' = TaskStamps
    BY <2>1 DEF Existing, ActiveRows, NewestRow, RowStamps, TxStamps, TaskStamps
  <2> QED BY <1>1, <2>1, <2>2 DEF DedupInv, StampsApart, TimesOK, UpsertTimeOK, HeldOK, HeldBy,
             ListsOK, ListOK, NewestActive, OneActive
<1>3. ASSUME NEW u \in Scrapers, UpsertStep(u) \/ FailUpsert(u) \/ \E i \in Items : Select(u, i)
      PROVE  DedupInv'
  BY <1>1, <1>3, SelectDedup, InsertDedup, CommitInsertDedup, LockNewestDedup, SaveDedup, ListDedup,
     LockNextDedup, CommitUpdateDedup, RollBackDedup DEF UpsertStep, BreakDeadlock, FailUpsert
<1>4. ASSUME NEW k \in Tasks,
             \/ TaskStep(k) \/ StopTask(k)
             \/ RefreshStatus(k)
             \/ \E c \in Rows : CheckSingle(k, c)
             \/ \E S \in SUBSET Existing : RefreshGeolocation(k, S)
      PROVE  DedupInv'
  <2>1. CASE TaskStep(k) \/ StopTask(k)
    BY <1>1, <2>1, SaveTaskDedup, AnswerDedup, SkipStopDedup DEF TaskStep
  <2>2. CASE \/ RefreshStatus(k)
             \/ \E c \in Rows : CheckSingle(k, c)
             \/ \E S \in SUBSET Existing : RefreshGeolocation(k, S)
    BY <1>1, <2>2, LoadDedup DEF RefreshStatus, CheckSingle, RefreshGeolocation
  <2> QED BY <1>4, <2>1, <2>2
<1> QED BY <1>2, <1>3, <1>4 DEF Next

\* A page with rows has an active one, unless its newest row was deactivated by
\* one of the three ways of OnlyDisplacedPagesVanish.
THEOREM VanishingCorrect == Spec => []OnlyDisplacedPagesVanish
<1>1. ASSUME DedupInv PROVE OnlyDisplacedPagesVanish
  <2> SUFFICES ASSUME NEW c \in Existing, ~displaced PROVE ActiveRows # {}
    BY DEF OnlyDisplacedPagesVanish
  <2>1. c \in Rows /\ camera[c].stamp > 0
    BY <1>1 DEF DedupInv, TimesOK, Existing
  <2>2. RowStamps \in [Rows -> Nat] /\ clock \in Nat /\ \A d \in Rows : RowStamps[d] <= clock
    <3>1. \A d \in Rows : camera[d].stamp \in Nat /\ camera[d].stamp <= clock
      BY <1>1, RowTime
    <3>2. clock \in Nat
      BY <1>1 DEF DedupInv, RowsInv, TypeOK
    <3> QED BY <3>1, <3>2 DEF RowStamps
  <2>3. RowStamps[c] > 0
    BY <2>1 DEF RowStamps
  <2>4. NewestRow # {}
    BY <2>1, <2>2, <2>3, NewestExists DEF NewestRow, RowStamps
  <2>5. PICK d \in NewestRow : TRUE
    BY <2>4
  <2>6. d \in Rows /\ camera[d].stamp > 0
    BY <2>5 DEF NewestRow, Newest
  <2>7. camera[d].exists /\ camera[d].active
    BY <1>1, <2>5, <2>6 DEF DedupInv, NewestActive, RowsInv, StampOK
  <2> QED BY <2>6, <2>7 DEF ActiveRows, Existing
<1> QED BY <1>1, InitDedup, NextDedup, PTL DEF Spec

\* After an upsert that listed every row of the page, one row at most is active,
\* whatever inserts and updates ran at the same time.
THEOREM DuplicatesCorrect == Spec => []DuplicatesDeactivated
<1>1. ASSUME DedupInv PROVE DuplicatesDeactivated
  <2> SUFFICES ASSUME settled PROVE Cardinality(ActiveRows) <= 1
    BY DEF DuplicatesDeactivated
  <2>1. \A c, d \in ActiveRows : c = d
    BY <1>1 DEF DedupInv, OneActive
  <2>2. CASE ActiveRows = {}
    BY <2>2, FS_EmptySet
  <2>3. ASSUME NEW c \in ActiveRows PROVE Cardinality(ActiveRows) <= 1
    <3>1. ActiveRows = {c}
      BY <2>1
    <3> QED BY <3>1, FS_Singleton
  <2> QED BY <2>2, <2>3
<1> QED BY <1>1, InitDedup, NextDedup, PTL DEF Spec
=============================================================================
