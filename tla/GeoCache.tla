------------------------------ MODULE GeoCache ------------------------------
(***************************************************************************)
(* The cache of geocoded queries of ReconEye.  A coroutine that resolves a *)
(* camera tries the candidate queries of the camera in order: it looks a   *)
(* query up, takes the lock of the query, looks it up again, asks the      *)
(* geocoder and stores the answer, a failure like a place that does not    *)
(* exist.  A lookup that finds a row reads it and then counts the hit in   *)
(* it.  The locks live in one worker process and outlive its event loops;  *)
(* the rows are shared by all processes and never expire.  A refresh       *)
(* deletes the rows of a camera before it resolves it again.               *)
(***************************************************************************)
EXTENDS Naturals, Sequences, FiniteSets

CONSTANTS
    Workers,      \* worker processes
    Cameras,      \* cameras, each resolved by a coroutine of its own in a scrape
    Queries,      \* what a geocoder is asked
    Candidates,   \* camera -> the queries to try, best first
    MaxTasks,     \* bound on the tasks begun in a behaviour
    MaxKills,     \* bound on killed processes
    None

ASSUME GeoAssumption ==
    /\ Candidates \in [Cameras -> Seq(Queries) \ {<<>>}]
    /\ MaxTasks \in Nat /\ MaxKills \in Nat
    /\ None \notin Cameras /\ None \notin {"hit", "miss"}

Elements(seq) == {seq[i] : i \in DOMAIN seq}

VARIABLES
    row,          \* query -> "hit", "miss" or None when there is no row
    key,          \* query -> the primary key of its row, or of its next one
    lock,         \* process, query -> the lock _GEO_LOCKS holds
    task,         \* process -> "none", "scrape" or "refresh"
    loop,         \* process -> number of the event loop it runs or ran last
    co,           \* process, camera -> progress of the coroutine
    place,        \* camera -> "found" or "unknown": its stored coordinates
    begun,        \* tasks begun
    kills,        \* processes killed
    blank,        \* history: queries the geocoder gave no place for
    overtaken,    \* history: fetches in whose course another process wrote the row
    hurt          \* history: coroutines whose row was deleted between read and save,
                  \* or whose database access raised

geoVars == <<row, key, lock, task, loop, co, place, begun, kills, blank, overtaken, hurt>>

\* A lock is bound to the loop in which it was first contended; 0 is unbound.
FreeLock == [holder |-> None, waiters |-> <<>>, bound |-> 0]

Off == [at |-> "off", todo |-> <<>>, result |-> None, key |-> 0]
Lost == [Off EXCEPT !.at = "lost"]
Resolving(c) == [Off EXCEPT !.at = "lookup", !.todo = Candidates[c]]

GeoInit ==
    /\ row = [q \in Queries |-> None]
    /\ key = [q \in Queries |-> 0]
    /\ lock = [p \in Workers |-> [q \in Queries |-> FreeLock]]
    /\ task = [p \in Workers |-> "none"]
    /\ loop = [p \in Workers |-> 0]
    /\ co = [p \in Workers |-> [c \in Cameras |-> Off]]
    /\ place = [c \in Cameras |-> "unknown"]
    /\ begun = 0
    /\ kills = 0
    /\ blank = {}
    /\ overtaken = {}
    /\ hurt = {}

Query(p, c) == Head(co[p][c].todo)

Step(p, c, rec) == co' = [co EXCEPT ![p][c] = rec]

-----------------------------------------------------------------------------
\* Tasks

\* asyncio.run: a loop of its own, with one coroutine per camera.
BeginScrape(p) ==
    /\ task[p] = "none" /\ begun < MaxTasks
    /\ begun' = begun + 1
    /\ task' = [task EXCEPT ![p] = "scrape"]
    /\ loop' = [loop EXCEPT ![p] = @ + 1]
    /\ co' = [co EXCEPT ![p] = [c \in Cameras |-> Resolving(c)]]
    /\ UNCHANGED <<row, key, lock, place, kills, blank, overtaken, hurt>>

\* The coroutines of other processes than p that are at one of the steps ats with
\* one of the queries qs.
Others(p, ats, qs) ==
    {o \in Workers \X Cameras :
        o[1] # p /\ co[o[1]][o[2]].at \in ats /\ Query(o[1], o[2]) \in qs}

\* A row written or deleted by p while another process asks for it.
Overtaken(p, qs) == Others(p, {"fetch", "store"}, qs)

\* The rows of the candidates of one camera are deleted, then a loop of its own
\* resolves the camera.
BeginRefresh(p, c) ==
    /\ task[p] = "none" /\ begun < MaxTasks
    /\ begun' = begun + 1
    /\ task' = [task EXCEPT ![p] = "refresh"]
    /\ loop' = [loop EXCEPT ![p] = @ + 1]
    /\ LET qs == Elements(Candidates[c])
           stored == {q \in qs : row[q] # None}
       IN /\ row' = [q \in Queries |-> IF q \in qs THEN None ELSE row[q]]
          /\ key' = [q \in Queries |-> IF q \in stored THEN key[q] + 1 ELSE key[q]]
          /\ overtaken' = overtaken \cup Overtaken(p, qs)
          /\ hurt' = hurt \cup Others(p, {"touch", "retouch"}, stored)
    /\ co' = [co EXCEPT ![p][c] = Resolving(c)]
    /\ UNCHANGED <<lock, place, kills, blank>>

EndTask(p) ==
    /\ task[p] # "none"
    /\ \A c \in Cameras : co[p][c] = Off
    /\ task' = [task EXCEPT ![p] = "none"]
    /\ UNCHANGED <<row, key, lock, loop, co, place, begun, kills, blank, overtaken, hurt>>

\* A worker process is killed and replaced: its locks and coroutines are gone.
Kill(p) ==
    /\ kills < MaxKills
    /\ kills' = kills + 1
    /\ task' = [task EXCEPT ![p] = "none"]
    /\ lock' = [lock EXCEPT ![p] = [q \in Queries |-> FreeLock]]
    /\ loop' = [loop EXCEPT ![p] = 0]
    /\ co' = [co EXCEPT ![p] = [c \in Cameras |-> Off]]
    /\ overtaken' = {o \in overtaken : o[1] # p}
    /\ hurt' = {o \in hurt : o[1] # p}
    /\ UNCHANGED <<row, key, place, begun, blank>>
-----------------------------------------------------------------------------
\* geocode_query and resolve_location_candidates

\* The call for the first candidate answers: a place ends the search, and so
\* does the last candidate; without a place the next candidate is tried.
Returned(p, c, answer) ==
    IF answer = "hit" \/ Tail(co[p][c].todo) = <<>>
    THEN [Off EXCEPT !.at = "resolved", !.result = answer]
    ELSE [Off EXCEPT !.at = "lookup", !.todo = Tail(co[p][c].todo)]

\* _lookup_cache has read the row of the query and is about to save its hits.
Read(p, c, at) == [co[p][c] EXCEPT !.at = at, !.result = row[Query(p, c)], !.key = key[Query(p, c)]]

Lookup(p, c) ==
    /\ co[p][c].at = "lookup"
    /\ Step(p, c, IF row[Query(p, c)] = None THEN [co[p][c] EXCEPT !.at = "lock"]
                  ELSE Read(p, c, "touch"))
    /\ UNCHANGED <<row, key, lock, task, loop, place, begun, kills, blank, overtaken, hurt>>

\* Mutant: a lock belongs to the loop that is current when it is created, the
\* one of the import of the module.
BoundAtImport(p, l) == loop[p] = 0

\* A contended asyncio.Lock may be waited for in one loop only.
MayWait(p, l) == l.bound \in {0, loop[p]}

\* Mutant: every call makes a lock of its own.
OwnLock(l) == FALSE

Taken(l) == l.holder # None

\* A free lock is taken at once.  A taken one is waited for in line - or, when
\* it is bound to a loop that is over, raises RuntimeError: the stream is lost.
Acquire(p, c) ==
    /\ co[p][c].at = "lock"
    /\ LET q == Query(p, c)
           l == lock[p][q]
       IN \/ /\ ~Taken(l)
             /\ lock' = [lock EXCEPT ![p][q].holder = c]
             /\ Step(p, c, [co[p][c] EXCEPT !.at = "recheck"])
          \/ /\ Taken(l) /\ MayWait(p, l)
             /\ lock' = [lock EXCEPT ![p][q].waiters = Append(@, c), ![p][q].bound = loop[p]]
             /\ Step(p, c, [co[p][c] EXCEPT !.at = "wait"])
          \/ /\ Taken(l) /\ ~MayWait(p, l)
             /\ Step(p, c, Lost)
             /\ UNCHANGED lock
    /\ UNCHANGED <<row, key, task, loop, place, begun, kills, blank, overtaken, hurt>>

\* Coroutine c goes on with rec and leaves the lock to the next in line.
ReleaseAnd(p, c, rec) ==
    LET q == Query(p, c)
        line == lock[p][q].waiters
    IN IF line = <<>>
       THEN /\ lock' = [lock EXCEPT ![p][q].holder = None]
            /\ Step(p, c, rec)
       ELSE /\ lock' = [lock EXCEPT ![p][q].holder = Head(line), ![p][q].waiters = Tail(line)]
            /\ co' = [co EXCEPT ![p][c] = rec, ![p][Head(line)].at = "recheck"]

\* geocode_query ends, with the lock when it has it.
Leave(p, c, rec) ==
    IF co[p][c].at \in {"recheck", "retouch", "store"} THEN ReleaseAnd(p, c, rec)
    ELSE Step(p, c, rec) /\ UNCHANGED lock

\* Mutant: the query is not looked up again under the lock.
NoRecheck(p, c) ==
    /\ co[p][c].at = "recheck"
    /\ Step(p, c, [co[p][c] EXCEPT !.at = "fetch"])
    /\ UNCHANGED <<row, key, lock, task, loop, place, begun, kills, blank, overtaken, hurt>>

Recheck(p, c) ==
    /\ co[p][c].at = "recheck"
    /\ Step(p, c, IF row[Query(p, c)] = None THEN [co[p][c] EXCEPT !.at = "fetch"]
                  ELSE Read(p, c, "retouch"))
    /\ UNCHANGED <<row, key, lock, task, loop, place, begun, kills, blank, overtaken, hurt>>

\* save(update_fields) of the row that was read: it raises when the row was
\* deleted meanwhile, whether or not there is a new one.
SaveHits(p, c) ==
    /\ co[p][c].at \in {"touch", "retouch"}
    /\ LET q == Query(p, c)
           there == row[q] # None /\ key[q] = co[p][c].key
       IN Leave(p, c, IF there THEN Returned(p, c, co[p][c].result) ELSE Lost)
    /\ UNCHANGED <<row, key, task, loop, place, begun, kills, blank, overtaken, hurt>>

\* The database fails: the exception leaves geocode_query, and the stream is lost.
DatabaseRaises(p, c) ==
    /\ co[p][c].at \in {"lookup", "touch", "recheck", "retouch", "store"}
    /\ Leave(p, c, Lost)
    /\ hurt' = hurt \cup {<<p, c>>}
    /\ overtaken' = overtaken \ {<<p, c>>}
    /\ UNCHANGED <<row, key, task, loop, place, begun, kills, blank>>

\* The geocoder knows a place, knows none, or fails: the last two are alike.
Fetch(p, c) ==
    /\ co[p][c].at = "fetch"
    /\ \E answer \in {"hit", "miss"} :
          /\ Step(p, c, [co[p][c] EXCEPT !.at = "store", !.result = answer])
          /\ blank' = IF answer = "miss" THEN blank \cup {Query(p, c)} ELSE blank
    /\ UNCHANGED <<row, key, lock, task, loop, place, begun, kills, overtaken, hurt>>

\* Mutant: the exception of the geocoder leaves without a release.
StoreUnlessFailed(p, c) ==
    /\ co[p][c].at = "store"
    /\ LET q == Query(p, c)
           answer == co[p][c].result
       IN IF answer = "miss"
          THEN /\ Step(p, c, Returned(p, c, answer))
               /\ UNCHANGED <<row, lock, overtaken>>
          ELSE /\ row' = [row EXCEPT ![q] = answer]
               /\ ReleaseAnd(p, c, Returned(p, c, answer))
               /\ overtaken' = (overtaken \ {<<p, c>>}) \cup Overtaken(p, {q})
    /\ UNCHANGED <<key, task, loop, place, begun, kills, blank, hurt>>

\* The row is created or overwritten, whatever another process stored meanwhile.
Store(p, c) ==
    /\ co[p][c].at = "store"
    /\ LET q == Query(p, c)
           answer == co[p][c].result
       IN /\ row' = [row EXCEPT ![q] = answer]
          /\ ReleaseAnd(p, c, Returned(p, c, answer))
          /\ overtaken' = (overtaken \ {<<p, c>>}) \cup Overtaken(p, {q})
    /\ UNCHANGED <<key, task, loop, place, begun, kills, blank, hurt>>

\* The answer is stored with the camera, by the upsert of a scrape or by the
\* save of a refresh: without a place the coordinates are cleared.
StorePlace(p, c) ==
    /\ co[p][c].at = "resolved"
    /\ place' = [place EXCEPT ![c] = IF co[p][c].result = "hit" THEN "found" ELSE "unknown"]
    /\ Step(p, c, Off)
    /\ UNCHANGED <<row, key, lock, task, loop, begun, kills, blank, overtaken, hurt>>

\* Mutant: a refresh that failed stores its empty answer.
SkipClears(p, c) ==
    /\ co[p][c].at = "lost"
    /\ Step(p, c, Off)
    /\ place' = [place EXCEPT ![c] = "unknown"]
    /\ hurt' = hurt \ {<<p, c>>}
    /\ UNCHANGED <<row, key, lock, task, loop, begun, kills, blank, overtaken>>

\* A scrape skips the stream, a refresh counts it as failed.
Skip(p, c) ==
    /\ co[p][c].at = "lost"
    /\ Step(p, c, Off)
    /\ hurt' = hurt \ {<<p, c>>}
    /\ UNCHANGED <<row, key, lock, task, loop, place, begun, kills, blank, overtaken>>
-----------------------------------------------------------------------------
CoStep(p, c) ==
    \/ Lookup(p, c) \/ SaveHits(p, c) \/ Acquire(p, c) \/ Recheck(p, c)
    \/ Fetch(p, c) \/ Store(p, c) \/ StorePlace(p, c) \/ Skip(p, c)

GeoNext ==
    \E p \in Workers :
       \/ BeginScrape(p)
       \/ \E c \in Cameras : BeginRefresh(p, c)
       \/ EndTask(p)
       \/ Kill(p)
       \/ \E c \in Cameras : CoStep(p, c) \/ DatabaseRaises(p, c)

GeoSpec == GeoInit /\ [][GeoNext]_geoVars

\* A process whose loop has a coroutine that is ready runs one of them, and a task
\* that is done ends; no task has to arrive and no process to die.
GeoFairness ==
    \A p \in Workers : WF_geoVars(EndTask(p) \/ \E c \in Cameras : CoStep(p, c))
-----------------------------------------------------------------------------
GeoTypeOK ==
    /\ row \in [Queries -> {"hit", "miss", None}]
    /\ key \in [Queries -> 0..begun]
    /\ \A p \in Workers, q \in Queries :
          /\ lock[p][q].holder \in Cameras \cup {None}
          /\ Elements(lock[p][q].waiters) \subseteq Cameras
          /\ lock[p][q].bound \in 0..loop[p]
    /\ task \in [Workers -> {"none", "scrape", "refresh"}]
    /\ loop \in [Workers -> 0..begun]
    /\ \A p \in Workers, c \in Cameras :
          /\ co[p][c].at \in {"off", "lookup", "touch", "lock", "wait", "recheck", "retouch",
                              "fetch", "store", "resolved", "lost"}
          /\ co[p][c].key \in 0..begun
          /\ co[p][c].result \in {"hit", "miss", None}
          /\ co[p][c].todo = <<>> <=> co[p][c].at \in {"off", "resolved", "lost"}
    /\ place \in [Cameras -> {"found", "unknown"}]
    /\ begun \in 0..MaxTasks
    /\ kills \in 0..MaxKills
    /\ blank \subseteq Queries
    /\ overtaken \cup hurt \subseteq Workers \X Cameras

\* Within a process one coroutine at a time is past the lock of a query
\* (geolocation.py:130), so that the geocoder is asked once for what two streams
\* share; and it is asked only for a query without a row: an answer stored while
\* the coroutine stood in line is not fetched again (the second lookup, lines
\* 132-138), only one that another process stores during the fetch.
OneFetchPerProcess ==
    /\ \A p \in Workers : \A c, d \in Cameras :
          (/\ c # d
           /\ co[p][c].at \in {"fetch", "store"}
           /\ co[p][d].at \in {"recheck", "retouch", "fetch", "store"}) => Query(p, c) # Query(p, d)
    /\ \A p \in Workers, c \in Cameras :
          (/\ co[p][c].at \in {"fetch", "store"}
           /\ row[Query(p, c)] # None) => <<p, c>> \in overtaken

\* A stored place turns into a miss by a store only when another process wrote
\* or deleted the row during the fetch (geolocation.py:92-112 overwrites without
\* comparing): in one process a place, once stored, stays until a refresh
\* deletes it.
PlaceOverwrittenOnlyAcross ==
    [][\A q \in Queries :
          (row[q] = "hit" /\ row'[q] = "miss") =>
              \E o \in overtaken : co[o[1]][o[2]].at = "store" /\ Query(o[1], o[2]) = q]_geoVars

\* A camera loses stored coordinates only when the geocoder gave no place for
\* every query it was asked for this camera, by the call itself or by the call
\* that stored the miss - never because a row was deleted or a lock failed.
PlaceLostOnlyByGeocoder ==
    [][\A c \in Cameras :
          (place[c] = "found" /\ place'[c] = "unknown") =>
              Elements(Candidates[c]) \subseteq blank]_geoVars

\* No lock costs a stream in the first loop of a process (asyncio.Lock of
\* _GEO_LOCKS, geolocation.py:20, used by one asyncio.run after the other): there
\* a stream is lost only when its database access raised, or when a refresh of
\* another process deleted the row between the read and the save of its hits
\* (lines 44-59, services.py:112-116).
FirstLoopLocksLoseNone ==
    \A p \in Workers, c \in Cameras :
        co[p][c].at = "lost" => loop[p] > 1 \/ <<p, c>> \in hurt

\* Every task that begins ends and leaves its worker free: no coroutine waits
\* for ever for a lock, also when the geocoder or the database fails under it
\* (geolocation.py:130-201).
TasksEnd == \A p \in Workers : []<>(task[p] = "none")
=============================================================================
