----------------------------- MODULE Go2RTCSync -----------------------------
(***************************************************************************)
(* Synchronisation of one go2rtc instance (sync_go2rtc_instance in         *)
(* apps/cameras/services.py): its addresses and location, its stream rows, *)
(* its config snapshots and its status, written by requests, Celery tasks  *)
(* and the batch task, beside the admin's refresh of the location.         *)
(*                                                                         *)
(* Instances share nothing but the GeoIP cache. The database is PostgreSQL *)
(* at READ COMMITTED. Every sync locks stream rows in one order (the       *)
(* model's default ordering), so taking them all at once loses nothing.    *)
(***************************************************************************)
EXTENDS Integers, FiniteSets, FiniteSetsExt

CONSTANTS
    Processes,  \* web requests and pool processes
    Kinds,      \* what they do: "request", "task", "batch", "geo"
    Streams,    \* stream names the server may list
    Configs,    \* configurations it may have
    Hidden,     \* the empty config stored for one it does not give
    IPs,        \* addresses its host may resolve to, in sort order
    PublicIPs,  \* those that is_public_ip accepts
    None,       \* no address, no config, no lock, no sync
    MaxRetries, \* bound: repetitions of a failed task or batch entry, 2 in the code
    MaxSyncs    \* bound: processes begun in one behaviour

ASSUME ConstantsAssumption ==
    /\ IsFiniteSet(Processes) /\ IsFiniteSet(Streams)
    /\ Kinds \subseteq {"request", "task", "batch", "geo"}
    /\ IPs \subseteq Nat /\ PublicIPs \subseteq IPs
    /\ Hidden \notin Configs
    /\ None \notin Processes \cup IPs \cup Configs \cup {Hidden}
    /\ MaxRetries \in Nat /\ MaxSyncs \in Nat

VARIABLES
    instance,   \* addresses, geo_ip_hash, location and status of the instance
    geoip,      \* the GeoIPCache row of each address
    rows,       \* the Go2RTCStream rows
    lock,       \* the transaction that holds each name's row or index entry
    snapshot,   \* the newest Go2RTCConfigSnapshot row, the only one a sync reads
    sync,       \* progress of each process
    begun,      \* processes begun so far
    counts,     \* what the batch task of a process counted for this instance
    mirror      \* observer: what the last commit fetched, None if it missed a new row

vars == <<instance, geoip, rows, lock, snapshot, sync, begun, counts, mirror>>

Statuses == {"NEVER", "SUCCESS", "UNAUTHORIZED", "FAILED"}
Outcomes == {"synced", "failed", "unauthorized"}

\* What one fetch of /api/streams and /api/config yields: 401 for the streams lists
\* none, 401, 403 or 404 for the config hides it, anything else is an error.
Answers ==
    {a \in [error : BOOLEAN, unauthorized : BOOLEAN, streams : SUBSET Streams,
            config : Configs \cup {Hidden}] :
        /\ a.error => a.streams = {} /\ a.config = Hidden /\ ~a.unauthorized
        /\ a.unauthorized => a.config = Hidden}

\* resolved, hash: sets of addresses, hash as of the last location update.
Instance == [resolved : SUBSET IPs, hash : SUBSET IPs, location : IPs \cup {None},
             status : Statuses]

\* born: the fetch that inserted the row, 0 if there is none; version: the fetch whose
\* counts and payload it has.
Row == [born : Nat, version : Nat]
NoRow == [born |-> 0, version |-> 0]

Snapshot == [config : Configs \cup {Hidden}, changed : BOOLEAN, stamp : Nat]

PCs == {"idle", "begun", "loaded", "locating", "asking", "located", "fetched",
        "listing", "locking", "writing", "written", "committed"}

\* hash: the copy's geo_ip_hash; left: addresses not located yet; seen: born of each row
\* the locking query lists; held: those it returned. Observers:
\* missed: a row was inserted since the rows were listed; alone: no other sync was in
\* its transaction at the same time.
Sync == [pc : PCs, kind : {"request", "task", "batch", "geo"}, retries : Nat,
         hash : SUBSET IPs, ips : SUBSET IPs, left : SUBSET IPs, found : IPs \cup {None},
         answer : Answers, at : Nat, previous : Configs \cup {Hidden, None},
         seen : [Streams -> Nat], held : SUBSET Streams, stamp : Nat,
         missed : BOOLEAN, alone : BOOLEAN]

NoAnswer == [error |-> TRUE, unauthorized |-> FALSE, streams |-> {}, config |-> Hidden]
NoSync == [pc |-> "idle", kind |-> "request", retries |-> 0, hash |-> {}, ips |-> {},
           left |-> {}, found |-> None, answer |-> NoAnswer, at |-> 0, previous |-> None,
           seen |-> [n \in Streams |-> 0], held |-> {}, stamp |-> 0,
           missed |-> FALSE, alone |-> TRUE]

NoCounts == [o \in Outcomes |-> 0]

Init ==
    /\ instance = [resolved |-> {}, hash |-> {}, location |-> None, status |-> "NEVER"]
    /\ geoip = [ip \in IPs |-> "none"]
    /\ rows = [n \in Streams |-> NoRow]
    /\ lock = [n \in Streams |-> None]
    /\ snapshot = None
    /\ sync = [p \in Processes |-> NoSync]
    /\ begun = 0
    /\ counts = [p \in Processes |-> NoCounts]
    /\ mirror = None

geoVars == <<instance, geoip>>
streamVars == <<rows, lock, snapshot, mirror>>

(***************************************************************************)
(* The ends of a sync.                                                     *)
(***************************************************************************)
Release(p) == lock' = [n \in Streams |-> IF lock[n] = p THEN None ELSE lock[n]]

\* The batch counts its instance and goes on.
Finish(p, outcome) ==
    /\ sync' = [sync EXCEPT ![p] = NoSync]
    /\ IF sync[p].kind = "batch"
       THEN counts' = [counts EXCEPT ![p][outcome] = @ + 1]
       ELSE UNCHANGED counts

Again(p) == sync' = [sync EXCEPT ![p] =
    [NoSync EXCEPT !.pc = "begun", !.kind = sync[p].kind, !.retries = sync[p].retries + 1]]

\* Faulty variant: the failed attempt is counted although it is repeated.
DatabaseErrorCounts(p) ==
    /\ sync[p].pc # "idle"
    /\ Release(p)
    /\ IF sync[p].kind \in {"task", "batch"} /\ sync[p].retries < MaxRetries
       THEN /\ Again(p)
            /\ counts' = [counts EXCEPT ![p]["failed"] = @ + 1]
       ELSE Finish(p, "failed")
    /\ UNCHANGED <<geoVars, rows, snapshot, mirror, begun>>

\* Faulty variant: the failed attempt leaves its transaction open.
DatabaseErrorLeavesOpen(p) ==
    /\ sync[p].pc # "idle"
    /\ IF sync[p].kind \in {"task", "batch"} /\ sync[p].retries < MaxRetries
       THEN Again(p) /\ UNCHANGED counts
       ELSE Finish(p, "failed")
    /\ UNCHANGED <<geoVars, streamVars, begun>>

\* OperationalError or TransactionManagementError in any statement: a task and a
\* batch entry start over, a request answers with an error.
DatabaseError(p) ==
    /\ sync[p].pc # "idle"
    /\ Release(p)
    /\ IF sync[p].kind \in {"task", "batch"} /\ sync[p].retries < MaxRetries
       THEN Again(p) /\ UNCHANGED counts
       ELSE Finish(p, "failed")
    /\ UNCHANGED <<geoVars, rows, snapshot, mirror, begun>>

\* Any other exception, also when the instance is gone or inactive: the batch gives
\* the instance up, only a task is retried.
Unexpected(p) ==
    /\ sync[p].pc # "idle"
    /\ Release(p)
    /\ IF sync[p].kind = "task" /\ sync[p].retries < MaxRetries
       THEN Again(p) /\ UNCHANGED counts
       ELSE Finish(p, "failed")
    /\ UNCHANGED <<geoVars, rows, snapshot, mirror, begun>>

(***************************************************************************)
(* Fetch, resolve the host, and locate its addresses if they changed.      *)
(***************************************************************************)
Begin(p, kind) ==
    /\ sync[p].pc = "idle"
    /\ begun < MaxSyncs
    /\ begun' = begun + 1
    /\ sync' = [sync EXCEPT ![p] = [NoSync EXCEPT !.pc = "begun", !.kind = kind]]
    /\ counts' = [counts EXCEPT ![p] = NoCounts]
    /\ UNCHANGED <<geoVars, streamVars>>

Load(p) ==
    /\ sync[p].pc = "begun"
    /\ sync' = [sync EXCEPT ![p].pc = "loaded", ![p].hash = instance.hash]
    /\ UNCHANGED <<geoVars, streamVars, begun, counts>>

\* Fetches are told apart by a number, the least that no row and no sync carries.
FetchNumber ==
    LET used == UNION ({{rows[n].born, rows[n].version} : n \in Streams}
                       \cup {{sync[p].at} \cup {sync[p].seen[n] : n \in Streams} : p \in Processes})
    IN  Min((1..(Cardinality(used) + 1)) \ used)

\* What p still needs of a fetch when the addresses are dealt with.
Fetched(p, answer, at) ==
    [NoSync EXCEPT !.pc = "fetched", !.kind = sync[p].kind, !.retries = sync[p].retries,
                   !.answer = answer, !.at = at]

\* The server answers, then DNS does; addresses, if any, are saved.
Fetch(p) ==
    /\ sync[p].pc = "loaded" /\ sync[p].kind # "geo"
    /\ \E answer \in Answers, ips \in SUBSET IPs :
        /\ sync' = [sync EXCEPT ![p] =
                IF ips \in {{}, sync[p].hash} THEN Fetched(p, answer, FetchNumber)
                ELSE [Fetched(p, answer, FetchNumber) EXCEPT
                        !.pc = "locating", !.ips = ips, !.left = ips \cap PublicIPs]]
        /\ instance' = IF ips = {} THEN instance ELSE [instance EXCEPT !.resolved = ips]
    /\ UNCHANGED <<geoip, streamVars, begun, counts>>

\* refresh_instance_geoip: locates whatever the host resolves to.
Resolve(p) ==
    /\ sync[p].pc = "loaded" /\ sync[p].kind = "geo"
    /\ \E ips \in SUBSET IPs :
        sync' = [sync EXCEPT ![p] = IF ips = {} THEN NoSync
            ELSE [@ EXCEPT !.pc = "locating", !.ips = ips, !.left = ips \cap PublicIPs]]
    /\ UNCHANGED <<geoVars, streamVars, begun, counts>>

Turn(p) == Min(sync[p].left)

\* The cache answers for an address, a miss as well as a hit.
LookupIP(p) ==
    /\ sync[p].pc = "locating"
    /\ sync' = [sync EXCEPT ![p] =
            IF sync[p].left = {} THEN [@ EXCEPT !.pc = "located"]
            ELSE IF sync[p].kind = "geo" \/ geoip[Turn(p)] = "none" THEN [@ EXCEPT !.pc = "asking"]
            ELSE IF geoip[Turn(p)] = "hit" THEN [@ EXCEPT !.pc = "located", !.found = Turn(p)]
            ELSE [@ EXCEPT !.left = sync[p].left \ {Turn(p)}]]
    /\ UNCHANGED <<geoVars, streamVars, begun, counts>>

\* ip-api answers or fails; either is stored, if the store succeeds.
AskIP(p) ==
    /\ sync[p].pc = "asking"
    /\ \E found \in BOOLEAN, stored \in BOOLEAN :
        /\ sync' = [sync EXCEPT ![p] =
                IF found THEN [@ EXCEPT !.pc = "located", !.found = Turn(p)]
                ELSE [@ EXCEPT !.pc = "locating", !.left = sync[p].left \ {Turn(p)}]]
        /\ geoip' = IF ~stored THEN geoip
                    ELSE [geoip EXCEPT ![Turn(p)] = IF found THEN "hit" ELSE "miss"]
    /\ UNCHANGED <<instance, streamVars, begun, counts>>

\* The hash is updated whether or not a location was found; the location only if.
SaveGeo(p) ==
    /\ sync[p].pc = "located"
    /\ instance' = [instance EXCEPT !.hash = sync[p].ips,
            !.location = IF sync[p].found = None THEN @ ELSE sync[p].found]
    /\ sync' = [sync EXCEPT ![p] = IF sync[p].kind = "geo" THEN NoSync ELSE Fetched(p, @.answer, @.at)]
    /\ UNCHANGED <<geoip, streamVars, begun, counts>>

(***************************************************************************)
(* Nothing to store.                                                       *)
(***************************************************************************)
\* Faulty variant: stores the word the batch counts under, not the model's choice.
StoreFailedOutcome(p) ==
    /\ sync[p].pc = "fetched"
    /\ sync[p].answer.error
    /\ instance' = [instance EXCEPT !.status = "failed"]
    /\ Finish(p, "failed")
    /\ UNCHANGED <<geoip, streamVars, begun>>

StoreFailed(p) ==
    /\ sync[p].pc = "fetched"
    /\ sync[p].answer.error
    /\ instance' = [instance EXCEPT !.status = "FAILED"]
    /\ Finish(p, "failed")
    /\ UNCHANGED <<geoip, streamVars, begun>>

NothingListed(p) == sync[p].answer.unauthorized /\ sync[p].answer.streams = {}

StoreUnauthorized(p) ==
    /\ sync[p].pc = "fetched"
    /\ NothingListed(p)
    /\ instance' = [instance EXCEPT !.status = "UNAUTHORIZED"]
    /\ Finish(p, "unauthorized")
    /\ UNCHANGED <<geoip, streamVars, begun>>

(***************************************************************************)
(* The transaction that stores streams and config.                         *)
(***************************************************************************)
InTransaction(p) == sync[p].pc \in {"listing", "locking", "writing", "written"}

\* Reads the previous snapshot before anything is locked.
ReadPrevious(p) ==
    /\ sync[p].pc = "fetched"
    /\ ~sync[p].answer.error /\ ~NothingListed(p)
    /\ sync' = [q \in Processes |->
            IF q = p
            THEN [sync[p] EXCEPT !.pc = "listing",
                    !.previous = IF snapshot = None THEN None ELSE snapshot.config,
                    !.alone = \A r \in Processes : ~InTransaction(r)]
            ELSE IF InTransaction(q) THEN [sync[q] EXCEPT !.alone = FALSE] ELSE sync[q]]
    /\ UNCHANGED <<geoVars, streamVars, begun, counts>>

\* SELECT ... FOR UPDATE: the rows are those committed now, the locks follow.
List(p) ==
    /\ sync[p].pc = "listing"
    /\ sync' = [sync EXCEPT ![p].pc = "locking", ![p].seen = [n \in Streams |-> rows[n].born]]
    /\ UNCHANGED <<geoVars, streamVars, begun, counts>>

Listed(p) == {n \in Streams : sync[p].seen[n] > 0}

\* A row that was deleted meanwhile is not returned, one inserted anew neither.
LockRows(p) ==
    LET held == {n \in Listed(p) : rows[n].born = sync[p].seen[n]}
    IN  /\ sync[p].pc = "locking"
        /\ \A n \in held : lock[n] = None
        /\ lock' = [n \in Streams |-> IF n \in held THEN p ELSE lock[n]]
        /\ sync' = [sync EXCEPT ![p].pc = "writing", ![p].held = held,
                                 ![p].seen = NoSync.seen]
        /\ UNCHANGED <<geoVars, rows, snapshot, mirror, begun, counts>>

New(p) == sync[p].answer.streams \ sync[p].held

\* fetched_at of a new snapshot: later than any other.
Now == 1 + Max({sync[p].stamp : p \in Processes}
               \cup {IF snapshot = None THEN 0 ELSE snapshot.stamp})

\* bulk_create, which waits for whoever is inserting or deleting a name, then the other
\* statements and the new snapshot.
Write(p) ==
    /\ sync[p].pc = "writing"
    /\ \A n \in New(p) : lock[n] = None /\ rows[n] = NoRow
    /\ lock' = [n \in Streams |-> IF n \in New(p) THEN p ELSE lock[n]]
    /\ sync' = [sync EXCEPT ![p].pc = "written", ![p].stamp = Now]
    /\ UNCHANGED <<geoVars, rows, snapshot, mirror, begun, counts>>

BeingDeleted(n) ==
    \E q \in Processes : sync[q].pc = "written" /\ n \in sync[q].held \ sync[q].answer.streams

\* A name in New(p) was inserted since the rows were listed and is there to stay: the
\* unique constraint fails bulk_create.
Conflict(p) ==
    /\ sync[p].pc = "writing"
    /\ \E n \in New(p) : rows[n] # NoRow /\ ~BeingDeleted(n)
    /\ Unexpected(p)

\* Faulty variant: the rows that are no longer listed stay.
StoredKeepsStale(p) == [n \in Streams |->
    IF n \in New(p) THEN [born |-> sync[p].at, version |-> sync[p].at]
    ELSE IF n \in sync[p].held /\ n \in sync[p].answer.streams
         THEN [rows[n] EXCEPT !.version = sync[p].at]
    ELSE rows[n]]

\* New rows, updated rows, deleted rows, and those the sync did not see.
Stored(p) == [n \in Streams |->
    IF n \in New(p) THEN [born |-> sync[p].at, version |-> sync[p].at]
    ELSE IF n \notin sync[p].held THEN rows[n]
    ELSE IF n \in sync[p].answer.streams THEN [rows[n] EXCEPT !.version = sync[p].at]
    ELSE NoRow]

\* Faulty variant: the first snapshot of an instance counts as a change.
ChangedFromNothing(p) == sync[p].previous # sync[p].answer.config

Changed(p) == sync[p].previous # None /\ sync[p].previous # sync[p].answer.config

Commit(p) ==
    /\ sync[p].pc = "written"
    /\ rows' = Stored(p)
    /\ snapshot' = IF snapshot # None /\ snapshot.stamp > sync[p].stamp THEN snapshot
                   ELSE [config |-> sync[p].answer.config, changed |-> Changed(p),
                         stamp |-> sync[p].stamp]
    /\ Release(p)
    /\ sync' = [q \in Processes |->
            IF q = p THEN [Fetched(p, sync[p].answer, 0) EXCEPT !.pc = "committed"]
            ELSE IF InTransaction(q) /\ New(p) # {} THEN [sync[q] EXCEPT !.missed = TRUE]
            ELSE sync[q]]
    /\ mirror' = IF sync[p].missed THEN None
                 ELSE [at |-> sync[p].at, streams |-> sync[p].answer.streams]
    /\ UNCHANGED <<geoVars, begun, counts>>

SaveStatus(p) ==
    /\ sync[p].pc = "committed"
    /\ instance' = [instance EXCEPT !.status =
            IF sync[p].answer.unauthorized THEN "UNAUTHORIZED" ELSE "SUCCESS"]
    /\ Finish(p, IF sync[p].answer.unauthorized THEN "unauthorized" ELSE "synced")
    /\ UNCHANGED <<geoip, streamVars, begun>>

-----------------------------------------------------------------------------
SyncStep(p) ==
    \/ Load(p) \/ Fetch(p) \/ Resolve(p) \/ LookupIP(p) \/ AskIP(p) \/ SaveGeo(p)
    \/ StoreFailed(p) \/ StoreUnauthorized(p)
    \/ ReadPrevious(p) \/ List(p) \/ LockRows(p) \/ Write(p) \/ Commit(p) \/ SaveStatus(p)

Next == \E p \in Processes :
    \/ \E kind \in Kinds : Begin(p, kind)
    \/ SyncStep(p) \/ Conflict(p) \/ DatabaseError(p) \/ Unexpected(p)

Spec == Init /\ [][Next]_vars

(***************************************************************************)
(* A sync that has begun goes on; nothing has to begin or to fail.         *)
(***************************************************************************)
Fairness == \A p \in Processes : WF_vars(SyncStep(p) \/ Conflict(p))

FairSpec == Spec /\ Fairness

-----------------------------------------------------------------------------
(***************************************************************************)
(* Properties.                                                             *)
(***************************************************************************)
TypeOK ==
    /\ instance \in Instance
    /\ geoip \in [IPs -> {"none", "hit", "miss"}]
    /\ rows \in [Streams -> Row]
    /\ lock \in [Streams -> Processes \cup {None}]
    /\ snapshot \in Snapshot \cup {None}
    /\ sync \in [Processes -> Sync]
    /\ begun \in Nat
    /\ counts \in [Processes -> [Outcomes -> Nat]]
    /\ mirror \in [at : Nat, streams : SUBSET Streams] \cup {None}

\* The stream rows are those of one fetch, the one committed last, with its counts
\* and payloads, although other syncs write the same rows, wait for each other, fail
\* and start over; only a commit that missed a row inserted meanwhile may
\* leave one more.
RowsMirrorLastFetch ==
    mirror # None => \A n \in Streams :
        IF n \in mirror.streams THEN rows[n].version = mirror.at ELSE rows[n] = NoRow

\* is_changed says whether the config differs from that of the snapshot before,
\* whatever failed and was repeated in between, unless two transactions overlapped.
SnapshotsTellChanges ==
    [][\A p \in Processes :
        sync[p].pc = "written" /\ sync'[p].pc = "committed" /\ sync[p].alone =>
            (snapshot'.changed <=> snapshot # None /\ snapshot'.config # snapshot.config)]_vars

\* The batch counts an instance once, when it is done with it, however often it tried.
BatchCountsOnce ==
    [][\A p \in Processes : sync[p].pc # "idle" /\ sync[p].kind = "batch" =>
        counts'[p]["synced"] + counts'[p]["failed"] + counts'[p]["unauthorized"]
            = IF sync'[p].pc = "idle" THEN 1 ELSE 0]_vars

\* A sync that has begun ends: no two wait for each other's rows and names.
SyncsEnd == \A p \in Processes : sync[p].pc # "idle" ~> sync[p].pc = "idle"

\* The lookup follows the addresses, "preserving fresh location data when DNS records
\* rotate": a location is that of one of the addresses it was last looked up for.
LocationOfAddresses == instance.location # None => instance.location \in instance.hash
=============================================================================
