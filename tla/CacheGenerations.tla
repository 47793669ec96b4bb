-------------------------- MODULE CacheGenerations --------------------------
(***************************************************************************)
(* The versioned cache of ReconEye.  A cached view builds its key from the *)
(* generation of a domain, looks it up, reads the database on a miss and   *)
(* stores the result under the key it built.  A write invalidates by       *)
(* bumping the generations of the domains it belongs to, one after the     *)
(* other, after the save (post_save) - and, when the save is inside a      *)
(* transaction, before the commit.  Nothing is atomic across two calls of  *)
(* the cache or of the database.                                           *)
(*                                                                         *)
(* A table of the database is abstracted to the number of writes committed *)
(* to it, and a cached value to the versions of the tables it was read at. *)
(***************************************************************************)
EXTENDS Naturals, Sequences, FiniteSets

CONSTANTS
    Readers,      \* threads that call cached views
    Writers,      \* threads that write
    Views,        \* the cached views they call
    WriteKinds,   \* the kinds of write they make
    Faults,       \* subset of {"evict", "restart"}: what the cache may lose
    MaxWrites,    \* bound on the writes of a behaviour
    MaxFaults,    \* bound on the faults of a behaviour
    None

ASSUME CacheAssumption ==
    /\ MaxWrites \in Nat /\ MaxFaults \in Nat
    /\ Faults \subseteq {"evict", "restart"}
    /\ Views \subseteq {"list", "markers", "dashboard", "countries", "streams"}
    /\ WriteKinds \subseteq {"status", "upsert", "duplicates", "job", "location", "outside"}
    /\ IsFiniteSet(Writers)
    /\ None \notin Nat

Tables == {"camera", "job", "instance", "upstream"}

\* The domain whose generation is in the key of a view.
DomainOf ==
    [list |-> "cameras", markers |-> "cameras", dashboard |-> "dashboard",
     countries |-> "filters", streams |-> "go2rtc"]

\* The domains the chosen views depend on.  A generation that is in no key (the
\* ones of "stats" and "scrape_jobs" never are) is bumped to no effect, so the
\* model leaves out its bumps.
Domains == {DomainOf[v] : v \in Views}

Observed(d) == IF d \in Domains THEN <<d>> ELSE <<>>

\* What a view reads, in order; "list" stands for the camera list, its country
\* choices and the location suggestions, "upstream" for the API of go2rtc.
ReadsOf ==
    [list |-> <<"camera">>, markers |-> <<"camera", "instance">>,
     dashboard |-> <<"camera", "job">>, countries |-> <<"instance">>,
     streams |-> <<"upstream">>]

\* The kinds of write: a camera saved on its own (refresh of its status) or in
\* the transaction of an upsert, duplicates deactivated by a queryset update
\* (no signal), a saved job, a stored location, and a change outside.
TableOf ==
    [status |-> "camera", upsert |-> "camera", duplicates |-> "camera",
     job |-> "job", location |-> "instance", outside |-> "upstream"]

InvalidateCameras ==
    Observed("cameras") \o Observed("filters") \o Observed("stats") \o Observed("dashboard")

\* Mutant: jobs are thought to matter to the statistics only.
InvalidateJobsOnly == Observed("scrape_jobs") \o Observed("stats")

InvalidateScrapeJobs ==
    Observed("scrape_jobs") \o Observed("dashboard") \o Observed("stats")

InvalidateGo2RTC ==
    Observed("go2rtc") \o Observed("filters") \o Observed("dashboard") \o Observed("stats")

BumpsOf(kind) ==
    CASE kind \in {"status", "upsert"} -> InvalidateCameras
      [] kind = "job"                  -> InvalidateScrapeJobs
      [] kind = "location"             -> InvalidateGo2RTC
      [] OTHER                         -> <<>>

InTransaction(kind) == kind = "upsert"

Signalled(kind) == kind \in {"status", "upsert", "job", "location"}

\* The tables whose writes are meant to refresh a view: cameras and jobs for
\* the dashboard, cameras for the lists and the map, instances for the filters.
Covered ==
    {<<"list", "camera">>, <<"markers", "camera">>, <<"countries", "instance">>,
     <<"dashboard", "camera">>, <<"dashboard", "job">>} \cap (Views \X Tables)

VARIABLES
    db,           \* table -> number of committed writes
    generation,   \* domain -> stored generation, None when the key is absent
    entries,      \* view, generation in the key -> stored value or None
    readers,      \* reader -> progress of its call
    writers,      \* writer -> progress of its write
    writes,       \* writes begun
    faults,       \* faults met
    announced,    \* history: table -> newest write on its own that is over
    regressed     \* history: domains whose generation has gone backwards

vars == <<db, generation, entries, readers, writers, writes, faults,
          announced, regressed>>

Generations == 0..MaxWrites

Values(v) == [DOMAIN ReadsOf[v] -> 0..MaxWrites]

IdleReader == [at |-> "idle"]
IdleWriter == [at |-> "idle"]

\* The call of view v whose key has generation g; a forced call of the
\* dashboard does not look the key up.  floor is a history of the call.
Call(v, g, floor, at) ==
    [at |-> at, view |-> v, key |-> g, floor |-> floor, read |-> <<>>]

Write(kind, at, todo, version) ==
    [at |-> at, kind |-> kind, todo |-> todo, version |-> version]

Init ==
    /\ db = [t \in Tables |-> 0]
    /\ generation = [d \in Domains |-> None]
    /\ entries = [v \in Views |-> [g \in Generations |-> None]]
    /\ readers = [r \in Readers |-> IdleReader]
    /\ writers = [w \in Writers |-> IdleWriter]
    /\ writes = 0
    /\ faults = 0
    /\ announced = [t \in Tables |-> 0]
    /\ regressed = {}

-----------------------------------------------------------------------------
\* Generations

\* get_generation: an absent key counts as generation 0.
GetGeneration(d) == IF generation[d] = None THEN 0 ELSE generation[d]

Stored(d, n) ==
    /\ generation' = [generation EXCEPT ![d] = n]
    /\ regressed' = IF n < GetGeneration(d) THEN regressed \cup {d} ELSE regressed
-----------------------------------------------------------------------------
\* Cached views

FloorNow(v) ==
    [i \in DOMAIN ReadsOf[v] |->
       IF <<v, ReadsOf[v][i]>> \in Covered THEN announced[ReadsOf[v][i]] ELSE 0]

\* versioned_key; the dashboard may be forced by warm_cache.
Begin(r, v, force) ==
    /\ readers[r].at = "idle" \/ readers[r].at = "answered"
    /\ force => v = "dashboard"
    /\ readers' = [readers EXCEPT ![r] =
          Call(v, GetGeneration(DomainOf[v]), FloorNow(v),
               IF force THEN "read" ELSE "lookup")]
    /\ UNCHANGED <<db, generation, entries, writers, writes, faults, announced, regressed>>

Answer(r, value) ==
    readers' = [readers EXCEPT ![r].at = "answered", ![r].read = value]

Lookup(r) ==
    /\ readers[r].at = "lookup"
    /\ LET cached == entries[readers[r].view][readers[r].key]
       IN IF cached = None
          THEN readers' = [readers EXCEPT ![r].at = "read"]
          ELSE Answer(r, cached)
    /\ UNCHANGED <<db, generation, entries, writers, writes, faults, announced, regressed>>

\* One query: the next table of the view, as committed now.
Read(r) ==
    /\ readers[r].at = "read"
    /\ LET call == readers[r]
           value == Append(call.read, db[ReadsOf[call.view][Len(call.read) + 1]])
       IN readers' = [readers EXCEPT
             ![r].read = value,
             ![r].at = IF Len(value) = Len(ReadsOf[call.view]) THEN "store" ELSE "read"]
    /\ UNCHANGED <<db, generation, entries, writers, writes, faults, announced, regressed>>

\* Mutant: every view builds its key again when it stores.
KeyOfNow(call) == GetGeneration(DomainOf[call.view])

\* The key of the store is the one of the lookup.  Only the stream list of an
\* instance builds its key a second time.
StoreKey(call) ==
    IF call.view = "streams" THEN GetGeneration("go2rtc") ELSE call.key

Store(r) ==
    /\ readers[r].at = "store"
    /\ entries' = [entries EXCEPT ![readers[r].view][StoreKey(readers[r])] = readers[r].read]
    /\ Answer(r, readers[r].read)
    /\ UNCHANGED <<db, generation, writers, writes, faults, announced, regressed>>

\* The request to go2rtc failed: nothing is stored, the caller gets an error.
FetchFails(r) ==
    /\ readers[r].at = "read" /\ readers[r].view = "streams"
    /\ readers' = [readers EXCEPT ![r] = IdleReader]
    /\ UNCHANGED <<db, generation, entries, writers, writes, faults, announced, regressed>>

\* Mutant: timeout=None, a value lives until it is overwritten.
NeverExpire(v, g) == FALSE /\ UNCHANGED vars

\* Every value is stored with a time to live.
Expire(v, g) ==
    /\ entries[v][g] # None
    /\ entries' = [entries EXCEPT ![v][g] = None]
    /\ UNCHANGED <<db, generation, readers, writers, writes, faults, announced, regressed>>
-----------------------------------------------------------------------------
\* Writers

Committed(kind) == [db EXCEPT ![TableOf[kind]] = @ + 1]

\* A save outside a transaction is committed before post_save runs; one inside
\* a transaction runs post_save first; the rest has no signal.
Save(w, kind) ==
    /\ writers[w].at = "idle" /\ writes < MaxWrites
    /\ writes' = writes + 1
    /\ db' = IF InTransaction(kind) THEN db ELSE Committed(kind)
    /\ writers' = IF Signalled(kind)
                  THEN [writers EXCEPT ![w] =
                          Write(kind, "bump", BumpsOf(kind), db'[TableOf[kind]])]
                  ELSE writers
    /\ UNCHANGED <<generation, entries, readers, faults, announced, regressed>>

\* Mutant: the list of domains is not walked.
BumpedAgain(w) == writers' = [writers EXCEPT ![w].at = "bump"]

\* On to the next domain of the list.
Bumped(w) ==
    writers' = [writers EXCEPT ![w].at = "bump", ![w].todo = Tail(@)]

\* cache.incr; a missing key raises ValueError ...
Incr(w) ==
    /\ writers[w].at = "bump" /\ writers[w].todo # <<>>
    /\ LET d == Head(writers[w].todo)
       IN IF generation[d] = None
          THEN /\ writers' = [writers EXCEPT ![w].at = "first"]
               /\ UNCHANGED <<generation, regressed>>
          ELSE /\ Stored(d, generation[d] + 1)
               /\ Bumped(w)
    /\ UNCHANGED <<db, entries, readers, writes, faults, announced>>

\* ... and the fallback stores 1, whatever has been stored in between.
SetFirst(w) ==
    /\ writers[w].at = "first"
    /\ Stored(Head(writers[w].todo), 1)
    /\ Bumped(w)
    /\ UNCHANGED <<db, entries, readers, writes, faults, announced>>

SignalsSent(w) == writers[w].at = "bump" /\ writers[w].todo = <<>>

\* The write on its own is over: all its domains are bumped.
EndWrite(w) ==
    /\ SignalsSent(w) /\ ~InTransaction(writers[w].kind)
    /\ LET table == TableOf[writers[w].kind]
       IN announced' = IF announced[table] < writers[w].version
                       THEN [announced EXCEPT ![table] = writers[w].version]
                       ELSE announced
    /\ writers' = [writers EXCEPT ![w] = IdleWriter]
    /\ UNCHANGED <<db, generation, entries, readers, writes, faults, regressed>>

\* The transaction of an upsert is committed or rolled back after its signals.
EndTransaction(w, commit) ==
    /\ SignalsSent(w) /\ InTransaction(writers[w].kind)
    /\ db' = IF commit THEN Committed(writers[w].kind) ELSE db
    /\ writers' = [writers EXCEPT ![w] = IdleWriter]
    /\ UNCHANGED <<generation, entries, readers, writes, faults, announced, regressed>>
-----------------------------------------------------------------------------
\* Faults

\* The store drops the key of a generation (culling, an operator).
Evict(d) ==
    /\ "evict" \in Faults /\ faults < MaxFaults
    /\ generation[d] # None
    /\ faults' = faults + 1
    /\ generation' = [generation EXCEPT ![d] = None]
    /\ regressed' = regressed \cup {d}
    /\ UNCHANGED <<db, entries, readers, writers, writes, announced>>

\* The store comes back empty.
Restart ==
    /\ "restart" \in Faults /\ faults < MaxFaults
    /\ faults' = faults + 1
    /\ generation' = [d \in Domains |-> None]
    /\ entries' = [v \in Views |-> [g \in Generations |-> None]]
    /\ regressed' = regressed \cup {d \in Domains : generation[d] # None}
    /\ UNCHANGED <<db, readers, writers, writes, announced>>
-----------------------------------------------------------------------------
ReaderStep(r) == Lookup(r) \/ Read(r) \/ Store(r)

WriterStep(w) ==
    Incr(w) \/ SetFirst(w) \/ EndWrite(w) \/ \E commit \in BOOLEAN : EndTransaction(w, commit)

Next ==
    \/ \E r \in Readers :
          \/ \E v \in Views, force \in BOOLEAN : Begin(r, v, force)
          \/ Lookup(r)
          \/ Read(r)
          \/ Store(r)
          \/ FetchFails(r)
    \/ \E w \in Writers :
          \/ \E kind \in WriteKinds : Save(w, kind)
          \/ Incr(w)
          \/ SetFirst(w)
          \/ EndWrite(w)
          \/ \E commit \in BOOLEAN : EndTransaction(w, commit)
    \/ \E v \in Views, g \in Generations : Expire(v, g)
    \/ \E d \in Domains : Evict(d)
    \/ Restart

Spec == Init /\ [][Next]_vars

Fairness ==
    /\ \A r \in Readers : WF_vars(ReaderStep(r))
    /\ \A w \in Writers : WF_vars(WriterStep(w))
    /\ \A v \in Views, g \in Generations : WF_vars(Expire(v, g))

FairSpec == Spec /\ Fairness
-----------------------------------------------------------------------------
TypeOK ==
    /\ db \in [Tables -> 0..MaxWrites]
    /\ generation \in [Domains -> Generations \cup {None}]
    /\ \A v \in Views, g \in Generations : entries[v][g] \in Values(v) \cup {None}
    /\ \A r \in Readers :
          \/ readers[r] = IdleReader
          \/ /\ readers[r].at \in {"lookup", "read", "store", "answered"}
             /\ readers[r].view \in Views
             /\ readers[r].key \in Generations
             /\ readers[r].floor \in Values(readers[r].view)
             /\ Len(readers[r].read) <= Len(ReadsOf[readers[r].view])
    /\ \A w \in Writers :
          \/ writers[w] = IdleWriter
          \/ /\ writers[w].at \in {"bump", "first"}
             /\ writers[w].kind \in WriteKinds
             /\ writers[w].version \in 0..MaxWrites
             /\ writers[w].at = "first" => writers[w].todo # <<>>
    /\ writes \in 0..MaxWrites
    /\ faults \in 0..MaxFaults
    /\ announced \in [Tables -> 0..MaxWrites]
    /\ regressed \subseteq Domains

\* An entry a call can hit now holds no value older than a write that is over,
\* for the tables whose writes bump the domain of the view - unless the
\* generation of that domain has gone backwards (cache.py 45-53: an evicted
\* key counts as 0, and the fallback of bump_generation stores 1 over a larger
\* value).  A reader that read before the write must not have stored under the
\* key of after it.
LiveEntriesFresh ==
    \A v \in Views :
        LET entry == entries[v][GetGeneration(DomainOf[v])]
        IN (entry # None /\ DomainOf[v] \notin regressed) =>
               \A i \in DOMAIN entry : FloorNow(v)[i] <= entry[i]

\* The version a view shows in the end is the one of the database, whatever
\* was lost, reordered or never announced: a stale value - of a table whose
\* writes do not bump the domain of the view, stored under an old key that has
\* become current again, read before the commit of an upsert - dies of its
\* time to live (TTL policy, cache.py 4-9).
EventuallyCurrent ==
    <>[](\A v \in Views, g \in Generations :
            entries[v][g] # None =>
                \A i \in DOMAIN entries[v][g] : entries[v][g][i] = db[ReadsOf[v][i]])

\* The cache implements the promise of FreshReads: an answer is between what
\* was over when the call began and what is committed, for the covered pairs
\* and the domains that have not gone backwards.
CallOf(r) ==
    CASE readers[r].at = "idle" -> [at |-> "none"]
      [] readers[r].at = "answered" ->
            [at |-> "answered", view |-> readers[r].view, answer |-> readers[r].read]
      [] OTHER ->
            [at |-> "asked", view |-> readers[r].view, floor |-> readers[r].floor]

Promise == INSTANCE FreshReads WITH
    Callers   <- Readers,
    ViewReads <- [v \in Views |-> ReadsOf[v]],
    Promised  <- Covered,
    committed <- db,
    trusted   <- {v \in Views : DomainOf[v] \notin regressed},
    calls     <- [r \in Readers |-> CallOf(r)]

ImplementsFreshReads == Promise!Spec
=============================================================================
