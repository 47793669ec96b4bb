--------------------------- MODULE CameraCatalog ---------------------------
(***************************************************************************)
(* The rows of the Camera table that share one source_type and page_url,   *)
(* written by scrape jobs (upsert_camera in apps/cameras/services.py), by  *)
(* status checks (apps/cameras/tasks.py) and by geolocation refreshes      *)
(* (apps/scraping/services.py).                                            *)
(*                                                                         *)
(* Rows of different pages do not interact: an upsert is one transaction   *)
(* over one page. No constraint makes the page unique. The database is     *)
(* PostgreSQL at READ COMMITTED: a statement sees what was committed when  *)
(* it began, SELECT ... FOR UPDATE locks row by row in its order, and an   *)
(* update waits for the row's lock. updated_at is taken in the process     *)
(* when a save begins, before any such wait.                               *)
(***************************************************************************)
EXTENDS Integers, FiniteSets

CONSTANTS
    Rows,        \* primary keys the page may come to hold
    Scrapers,    \* processes that run scrape jobs
    Tasks,       \* processes that run checks and refreshes
    Items,       \* what a scrape may find on the page, equal fields equal item
    Streaming,   \* items with a stream_url
    Source,      \* source_type of the page
    None,        \* no row, no item, no lock
    MaxUpserts,  \* bound: upserts in one behaviour
    MaxTasks     \* bound: checks and refreshes in one behaviour

ASSUME ConstantsAssumption ==
    /\ Streaming \subseteq Items
    /\ Source \in {"INSECAM", "WHATSUPCAMS", "WINDY"}
    /\ Source = "WINDY" => Items \subseteq Streaming
    /\ None \notin Rows \cup Items \cup Scrapers
    /\ MaxUpserts \in Nat /\ MaxTasks \in Nat

VARIABLES
    camera,     \* the committed rows of the page
    lock,       \* the transaction that holds each row's lock
    tx,         \* progress of each scraper's upsert
    task,       \* progress of each check or refresh
    clock,      \* the last updated_at given out
    upserts,    \* upserts begun so far
    started,    \* checks and refreshes begun so far
    \* Observers: no action's guard reads them.
    settled,    \* the last upsert listed every row there is
    displaced   \* the newest row, which an upsert keeps, need not be active any more

vars == <<camera, lock, tx, task, clock, upserts, started, settled, displaced>>

\* item: the scrape whose stream_url and other fields the row has; payload: the
\* scrape whose source_payload it has; geo: the geo fields, the title and the
\* payload's "geocoded" are a refresh's.
CameraRow == [exists : BOOLEAN, active : BOOLEAN, online : BOOLEAN,
              item : Items \cup {None}, payload : Items \cup {None},
              geo : BOOLEAN, stamp : Nat]

\* stamp: updated_at of this transaction's own write, 0 when it made none;
\* seen: updated_at of each row the duplicate query returned, 0 for the others.
Upsert == [pc : {"idle", "inserting", "inserted", "selected", "locked", "saved", "listing"},
           item : Items \cup {None}, row : Rows \cup {None},
           stamp : Nat, seen : [Rows -> Nat]]

\* copy: payload of each row as loaded, None for rows not (any more) to be done.
TaskState == [pc : {"idle", "working", "saving"}, kind : {"check", "geo"},
              copy : [Rows -> Items \cup {None}], row : Rows \cup {None},
              online : BOOLEAN, stamp : Nat]

NoCamera == [exists |-> FALSE, active |-> FALSE, online |-> FALSE, item |-> None,
             payload |-> None, geo |-> FALSE, stamp |-> 0]
NoneSeen == [c \in Rows |-> 0]
NoUpsert == [pc |-> "idle", item |-> None, row |-> None, stamp |-> 0, seen |-> NoneSeen]
NoTask == [pc |-> "idle", kind |-> "check", copy |-> [c \in Rows |-> None],
           row |-> None, online |-> FALSE, stamp |-> 0]

Init ==
    /\ camera = [c \in Rows |-> NoCamera]
    /\ lock = [c \in Rows |-> None]
    /\ tx = [u \in Scrapers |-> NoUpsert]
    /\ task = [k \in Tasks |-> NoTask]
    /\ clock = 0 /\ upserts = 0 /\ started = 0
    /\ settled = FALSE /\ displaced = FALSE

Existing == {c \in Rows : camera[c].exists}
ActiveRows == {c \in Existing : camera[c].active}

\* The first row of order_by("-updated_at", "-id"): no two saves share a time.
Newest(seen) == {c \in Rows : seen[c] > 0 /\ \A d \in Rows : seen[d] <= seen[c]}
NewestRow == Newest([c \in Rows |-> camera[c].stamp])

Release(u) == lock' = [c \in Rows |-> IF lock[c] = u THEN None ELSE lock[c]]

taskVars == <<task, started>>
observers == <<settled, displaced>>

(***************************************************************************)
(* upsert_camera: the locking read of the first row. (Its test for a Windy *)
(* camera without stream_url rejects none: the parser always sets one.)    *)
(***************************************************************************)
Select(u, item) ==
    /\ tx[u].pc = "idle"
    /\ upserts < MaxUpserts
    /\ upserts' = upserts + 1
    /\ \/ /\ Existing = {}
          /\ tx' = [tx EXCEPT ![u] = [NoUpsert EXCEPT !.pc = "inserting", !.item = item]]
       \/ \E c \in NewestRow :
            tx' = [tx EXCEPT ![u] = [NoUpsert EXCEPT !.pc = "selected", !.item = item, !.row = c]]
    /\ UNCHANGED <<camera, lock, clock, taskVars, observers>>

(***************************************************************************)
(* A page nobody has: create, save is_online, commit.                      *)
(***************************************************************************)
Insert(u) ==
    /\ tx[u].pc = "inserting"
    /\ \E c \in Rows \ Existing :
        /\ \A v \in Scrapers : tx[v].row # c
        /\ tx' = [tx EXCEPT ![u].pc = "inserted", ![u].row = c, ![u].stamp = clock + 1]
    /\ clock' = clock + 1
    /\ UNCHANGED <<camera, lock, upserts, taskVars, observers>>

\* Faulty variant: is_online is given the stream_url itself.
NewCameraOnlineIsUrl(item, stamp) ==
    [exists |-> TRUE, active |-> TRUE, online |-> item,
     item |-> item, payload |-> item, geo |-> FALSE, stamp |-> stamp]

NewCamera(item, stamp) ==
    [exists |-> TRUE, active |-> TRUE, online |-> item \in Streaming,
     item |-> item, payload |-> item, geo |-> FALSE, stamp |-> stamp]

CommitInsert(u) ==
    /\ tx[u].pc = "inserted"
    /\ camera' = [camera EXCEPT ![tx[u].row] = NewCamera(tx[u].item, tx[u].stamp)]
    /\ tx' = [tx EXCEPT ![u] = NoUpsert]
    /\ settled' = FALSE
    /\ UNCHANGED <<lock, clock, upserts, taskVars, displaced>>

(***************************************************************************)
(* A page with rows: lock the newest one, save what differs, list the      *)
(* rows again, lock them all and deactivate all but the first.             *)
(***************************************************************************)
\* The order is not looked at again after the wait for the lock.
LockNewest(u) ==
    /\ tx[u].pc = "selected"
    /\ lock[tx[u].row] = None
    /\ lock' = [lock EXCEPT ![tx[u].row] = u]
    /\ tx' = [tx EXCEPT ![u].pc = "locked"]
    /\ displaced' = (displaced \/ ~camera[tx[u].row].active)
    /\ UNCHANGED <<camera, clock, upserts, taskVars, settled>>

Differs(row, item) == row.item # item \/ row.payload # item \/ row.geo

Save(u) ==
    /\ tx[u].pc = "locked"
    /\ IF Differs(camera[tx[u].row], tx[u].item)
       THEN /\ clock' = clock + 1
            /\ tx' = [tx EXCEPT ![u].pc = "saved", ![u].stamp = clock + 1]
       ELSE /\ tx' = [tx EXCEPT ![u].pc = "saved"]
            /\ UNCHANGED clock
    /\ UNCHANGED <<camera, lock, upserts, taskVars, observers>>

\* What u's transaction sees of row c: its own write, or what is committed.
SeenStamp(u, c) ==
    IF c = tx[u].row /\ tx[u].stamp > 0 THEN tx[u].stamp ELSE camera[c].stamp

\* The query of the duplicates: its order is fixed now, its locks follow.
List(u) ==
    /\ tx[u].pc = "saved"
    /\ tx' = [tx EXCEPT ![u].pc = "listing", ![u].seen = [c \in Rows |-> SeenStamp(u, c)]]
    /\ UNCHANGED <<camera, lock, clock, upserts, taskVars, observers>>

\* The listed rows that are not locked yet, and the one whose turn it is.
Unlocked(u) == [c \in Rows |-> IF lock[c] = u THEN 0 ELSE tx[u].seen[c]]

\* Faulty variant: the duplicates are read without a lock.
NothingToLock(u) == {}

NextToLock(u) == Newest(Unlocked(u))

LockNext(u) ==
    /\ tx[u].pc = "listing"
    /\ \E c \in NextToLock(u) :
        /\ lock[c] = None
        /\ lock' = [lock EXCEPT ![c] = u]
    /\ UNCHANGED <<camera, tx, clock, upserts, taskVars, observers>>

\* Faulty variant: the first of the duplicates is taken for the row to keep.
AllButTwo(seen) ==
    LET rest == {c \in Rows : seen[c] > 0} \ Newest(seen)
    IN  rest \ Newest([c \in Rows |-> IF c \in rest THEN seen[c] ELSE 0])

\* Faulty variant: all of the listed rows.
AllListed(seen) == {c \in Rows : seen[c] > 0}

\* values_list("id")[1:]
Duplicates(seen) == {c \in Rows : seen[c] > 0} \ Newest(seen)

\* The row as u saved it: only the fields of the item, if any differed.
Updated(row, u) ==
    IF tx[u].stamp = 0 THEN row
    ELSE [row EXCEPT !.item = tx[u].item, !.payload = tx[u].item, !.geo = FALSE,
                     !.stamp = tx[u].stamp]

\* A row that u is to deactivate was saved while u waited for its lock: it is now
\* newer than the one u keeps.
Overtaken(u) == \E c \in NewestRow' : tx[u].seen[c] > 0 /\ c \notin Newest(tx[u].seen)

CommitUpdate(u) ==
    /\ tx[u].pc = "listing"
    /\ NextToLock(u) = {}
    /\ camera' = [c \in Rows |->
            LET row == IF c = tx[u].row THEN Updated(camera[c], u) ELSE camera[c]
            IN  IF c \in Duplicates(tx[u].seen) THEN [row EXCEPT !.active = FALSE] ELSE row]
    /\ settled' = \A c \in Existing : tx[u].seen[c] > 0
    /\ Release(u)
    /\ tx' = [tx EXCEPT ![u] = NoUpsert]
    /\ displaced' = (displaced \/ Overtaken(u))
    /\ UNCHANGED <<clock, upserts, taskVars>>

(***************************************************************************)
(* A transaction that fails leaves no trace; the batch goes on with its    *)
(* next item. The database fails one of those that wait for each other.    *)
(***************************************************************************)
\* Faulty variant: the error is caught and the transaction left open.
RollBackLeavesOpen(u) ==
    /\ tx' = [tx EXCEPT ![u] = NoUpsert]
    /\ UNCHANGED <<camera, lock, clock, upserts, taskVars, observers>>

RollBack(u) ==
    /\ Release(u)
    /\ tx' = [tx EXCEPT ![u] = NoUpsert]
    /\ UNCHANGED <<camera, clock, upserts, taskVars, observers>>

Wanted(u) ==
    CASE tx[u].pc = "selected" -> {tx[u].row}
      [] tx[u].pc = "listing" -> NextToLock(u)
      [] OTHER -> {}

WaitsFor(u, v) == \E c \in Wanted(u) : v # u /\ lock[c] = v

\* u is on a cycle of waiting transactions.
Deadlocked(u) ==
    \E S \in SUBSET Scrapers :
        /\ u \in S
        /\ \A v \in S : (\E x \in S : WaitsFor(v, x)) /\ (\E x \in S : WaitsFor(x, v))

BreakDeadlock(u) == Deadlocked(u) /\ RollBack(u)

\* An error in a statement, a lost connection, a killed worker.
FailUpsert(u) == tx[u].pc # "idle" /\ RollBack(u)

(***************************************************************************)
(* refresh_camera_status (all rows), check_single_camera_status (one row)  *)
(* and refresh_geolocation_for_camera_ids (chosen rows): load the rows,    *)
(* then probe or geocode and save one after the other, in any order.       *)
(***************************************************************************)
Load(k, kind, rows) ==
    /\ task[k].pc = "idle"
    /\ started < MaxTasks
    /\ rows # {}
    /\ started' = started + 1
    /\ task' = [task EXCEPT ![k] = [NoTask EXCEPT
            !.pc = "working", !.kind = kind,
            !.copy = [c \in Rows |-> IF c \in rows THEN camera[c].payload ELSE None]]]
    /\ UNCHANGED <<camera, lock, tx, clock, upserts, observers>>

Checkable == {c \in ActiveRows : camera[c].item \in Streaming}

RefreshStatus(k) == Load(k, "check", Checkable)
CheckSingle(k, c) == c \in Checkable /\ Load(k, "check", {c})
RefreshGeolocation(k, rows) == Load(k, "geo", rows)

\* The probe, or the geocoder, answered and the save begins.
Answer(k, c) ==
    /\ task[k].pc = "working"
    /\ task[k].copy[c] # None
    /\ task[k].kind = "check" \/ Source = "WHATSUPCAMS"
    /\ \E online \in IF task[k].kind = "check" THEN BOOLEAN ELSE {FALSE} :
        task' = [task EXCEPT ![k].pc = "saving", ![k].row = c,
                             ![k].online = online, ![k].stamp = clock + 1]
    /\ clock' = clock + 1
    /\ UNCHANGED <<camera, lock, tx, upserts, started, observers>>

\* k has done row c: the task goes on or ends.
Done(k, c) ==
    LET left == [task[k].copy EXCEPT ![c] = None]
    IN  IF \E d \in Rows : left[d] # None
        THEN [NoTask EXCEPT !.pc = "working", !.kind = task[k].kind, !.copy = left]
        ELSE NoTask

\* The geocoder raised, or the row has no location candidates: only the
\* WhatsUpCams scraper stores them.
SkipGeolocation(k, c) ==
    /\ task[k].pc = "working" /\ task[k].kind = "geo"
    /\ task[k].copy[c] # None
    /\ task' = [task EXCEPT ![k] = Done(k, c)]
    /\ UNCHANGED <<camera, lock, tx, clock, upserts, started, observers>>

\* Faulty variant: the check saves the object as it loaded it.
StatusSavesAll(row, k) ==
    [row EXCEPT !.online = task[k].online, !.stamp = task[k].stamp,
                !.item = task[k].copy[task[k].row], !.active = TRUE]

\* mark_online, mark_offline.
WithStatus(row, k) == [row EXCEPT !.online = task[k].online, !.stamp = task[k].stamp]

\* The whole source_payload of the copy goes back, "geocoded" added.
WithGeolocation(row, k) ==
    [row EXCEPT !.payload = task[k].copy[task[k].row], !.geo = TRUE, !.stamp = task[k].stamp]

SaveTask(k) ==
    /\ task[k].pc = "saving"
    /\ lock[task[k].row] = None
    /\ camera' = [camera EXCEPT ![task[k].row] =
            IF task[k].kind = "check" THEN WithStatus(@, k) ELSE WithGeolocation(@, k)]
    /\ task' = [task EXCEPT ![k] = Done(k, task[k].row)]
    /\ displaced' = (displaced \/ NewestRow' # NewestRow)
    /\ UNCHANGED <<lock, tx, clock, upserts, started, settled>>

\* A task that dies or is retried starts over.
StopTask(k) ==
    /\ task[k].pc # "idle"
    /\ task' = [task EXCEPT ![k] = NoTask]
    /\ UNCHANGED <<camera, lock, tx, clock, upserts, started, observers>>

-----------------------------------------------------------------------------
UpsertStep(u) ==
    \/ Insert(u) \/ CommitInsert(u)
    \/ LockNewest(u) \/ Save(u) \/ List(u) \/ LockNext(u) \/ CommitUpdate(u)
    \/ BreakDeadlock(u)

TaskStep(k) == SaveTask(k) \/ \E c \in Rows : Answer(k, c) \/ SkipGeolocation(k, c)

Next ==
    \/ \E u \in Scrapers :
        UpsertStep(u) \/ FailUpsert(u) \/ \E i \in Items : Select(u, i)
    \/ \E k \in Tasks :
        \/ TaskStep(k) \/ StopTask(k)
        \/ RefreshStatus(k)
        \/ \E c \in Rows : CheckSingle(k, c)
        \/ \E S \in SUBSET Existing : RefreshGeolocation(k, S)

Spec == Init /\ [][Next]_vars

(***************************************************************************)
(* A transaction that has begun goes on, and so does a task; nothing has   *)
(* to begin, to fail or to be stopped.                                     *)
(***************************************************************************)
Fairness == (\A u \in Scrapers : WF_vars(UpsertStep(u))) /\ (\A k \in Tasks : WF_vars(TaskStep(k)))

FairSpec == Spec /\ Fairness

-----------------------------------------------------------------------------
(***************************************************************************)
(* Properties.                                                             *)
(***************************************************************************)
TypeOK ==
    /\ camera \in [Rows -> CameraRow]
    /\ lock \in [Rows -> Scrapers \cup {None}]
    /\ tx \in [Scrapers -> Upsert]
    /\ task \in [Tasks -> TaskState]
    /\ clock \in Nat /\ upserts \in Nat /\ started \in Nat
    /\ settled \in BOOLEAN /\ displaced \in BOOLEAN

\* A page loses its last active row in three ways only, each of which makes an
\* inactive row the newest: an upsert waited for a row that was deactivated
\* meanwhile, one deactivated a row that another upsert had saved since it listed
\* it, or the save of a check or refresh changed which row is the newest. Otherwise
\* upserts may overlap, insert twice, wait for each other and fail, and one row
\* stays active.
OnlyDisplacedPagesVanish == Existing # {} /\ ~displaced => ActiveRows # {}

\* When the last upsert saw every row there is, the page has one active row at
\* most: duplicates that concurrent inserts made do not outlive it.
DuplicatesDeactivated == settled => Cardinality(ActiveRows) <= 1

\* The writers of a row do not undo each other: is_online of a known camera is
\* what a check of that row found, its scraped fields are what a scrape of the
\* page found, and nothing brings a deactivated row back.
WritersKeepApart ==
    [][\A c \in Existing :
        /\ camera'[c].online # camera[c].online =>
            \E k \in Tasks : /\ task[k].pc = "saving" /\ task[k].kind = "check"
                             /\ task[k].row = c /\ task[k].online = camera'[c].online
        /\ camera'[c].item # camera[c].item =>
            \E u \in Scrapers : /\ tx[u].pc = "listing" /\ tx[u].row = c
                                /\ tx[u].item = camera'[c].item
        /\ camera'[c].active => camera[c].active]_vars

\* An upsert that has begun ends, although upserts and checks wait for each
\* other's rows in different orders: a scraper is idle again and again.
UpsertsEnd == \A u \in Scrapers : []<>(tx[u].pc = "idle")

\* upsert_camera deactivates the duplicates of a page, it says, so it leaves the
\* row they are duplicates of: a page that was found has an active row.
DeduplicationKeepsOne == Existing # {} => ActiveRows # {}

\* refresh_geolocation_for_camera_ids: it "updates camera geo fields and
\* source_payload.geocoded", so the rest of source_payload remains that of the
\* scrape the other fields come from.
PayloadOfScrape == \A c \in Existing : camera[c].payload = camera[c].item
=============================================================================
