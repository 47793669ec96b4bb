------------------------------ MODULE GridBoard ------------------------------
(***************************************************************************)
(* The go2rtc instances of ReconEye and the items that operators put on    *)
(* grid profiles.  An import and the add form write instances row by row;  *)
(* a bulk add and the surveillance form write items; a removal only marks  *)
(* an item; the admin edits an instance or deletes it with its items.      *)
(* Every request is a web thread of its own.                               *)
(***************************************************************************)
EXTENDS Integers, Sequences, FiniteSets, SequencesExt

CONSTANTS
    Names,          \* names of instances, in their order
    Hosts,          \* addresses of instances
    Localhost,      \* the address the surveillance form falls back to
    Streams,        \* streams of an instance
    Profiles,       \* grid profiles
    Surveillance,   \* the profile of the surveillance page
    Selections,     \* sequences of streams a bulk add may select
    Files,          \* the files that are imported; 0 is a missing name or address
    Requests,       \* web threads
    MaxRequests,    \* bound on the requests begun
    MaxEdits        \* bound on removals and on edits and deletions by the admin

ASSUME BoardAssumption ==
    /\ Names \subseteq Nat \ {0} /\ Hosts \subseteq Nat \ {0}
    /\ Localhost \in Hosts /\ Surveillance \in Profiles
    /\ Selections \subseteq Seq(Streams) \ {<<>>}
    /\ Files \subseteq [header : BOOLEAN,
                      lines : Seq([name : Names \cup {0}, host : Hosts \cup {0}, wrong : BOOLEAN])]
    /\ MaxRequests \in Nat /\ MaxEdits \in Nat

VARIABLES
    instance,   \* name -> row of the instance
    item,       \* profile, name, stream -> row of the item
    req,        \* web thread -> its request
    begun,      \* requests begun
    edits,      \* removals, edits and deletions
    unsynced,   \* history: instances an import wrote and no import has had synced since
    dropped,    \* history: those of them whose import ended before it had them synced
    late,       \* history: items placed by a count that was out of date
    outdated,   \* history: items whose instance was readdressed since it was loaded for them
    shrunk      \* history: profiles that lost rows

syncVars == <<unsynced, dropped>>
boardVars == <<instance, item, req, begun, edits, unsynced, dropped, late, outdated, shrunk>>

Keys == Profiles \X Names \X Streams

NoInstance == [exists |-> FALSE, host |-> Localhost, active |-> FALSE, private |-> FALSE]
NoItem == [exists |-> FALSE, active |-> FALSE, order |-> 0, host |-> Localhost]
NoRequest == [kind |-> "none", at |-> "idle"]

BoardInit ==
    /\ instance = [n \in Names |-> NoInstance]
    /\ item = [k \in Keys |-> NoItem]
    /\ req = [r \in Requests |-> NoRequest]
    /\ begun = 0 /\ edits = 0
    /\ unsynced = {} /\ dropped = {}
    /\ late = {} /\ outdated = {} /\ shrunk = {}

\* Mutant: the items of a deleted instance stay.
NoItems(n) == {}

\* The items of an instance go with it; an import keeps the key of its row (0).
ItemsOf(n) == {k \in Keys : k[2] = n}

Count(profile) == Cardinality({k \in Keys : k[1] = profile /\ item[k].exists})

Key(r, stream) == <<req[r].profile, req[r].name, stream>>

Begin(r, record) ==
    /\ req[r].at \in {"idle", "done", "died", "unreported"} /\ begun < MaxRequests
    /\ begun' = begun + 1
    /\ req' = [req EXCEPT ![r] = record]

\* An exception ends the request; what it wrote stays.
Die(r) ==
    /\ req' = [req EXCEPT ![r].at = "died"]
    /\ UNCHANGED <<instance, item, late, outdated>>

-----------------------------------------------------------------------------
\* Items: BulkAddGo2RTCStreamsView, AddGo2RTCCameraView

\* gone: keys a removal or a deletion took after the request had written them;
\* moved: the instance was edited after the request had loaded it;
\* orphan: the instance was deleted, and its row is none of a later one's name.
ItemRequest(kind, profile, name, streams) ==
    [kind |-> kind, at |-> "read", profile |-> profile, name |-> name, todo |-> streams,
     host |-> instance[name].host, order |-> 0, found |-> FALSE, overtaken |-> FALSE,
     listed |-> instance[name].active /\ instance[name].private,
     written |-> {}, gone |-> {}, moved |-> FALSE, orphan |-> FALSE]

BeginBulk(r, profile, name, streams) ==
    /\ instance[name].active
    /\ Begin(r, ItemRequest("bulk", profile, name, streams))
    /\ UNCHANGED <<instance, item, edits, syncVars, late, outdated, shrunk>>

\* Mutant: only the items that are shown are counted.
PlaceAfterShown(profile) == Cardinality({k \in Keys : k[1] = profile /\ item[k].active})

\* A new item goes behind all rows of its profile.
Place(profile) == Count(profile)

\* upsert_go2rtc_grid_item of services.py reads ...
ReadItem(r) ==
    /\ req[r].kind = "bulk" /\ req[r].at = "read"
    /\ req' = [req EXCEPT ![r].order = Place(req[r].profile),
                          ![r].found = item[Key(r, Head(req[r].todo))].exists,
                          ![r].overtaken = FALSE, ![r].at = "write"]
    /\ UNCHANGED <<instance, item, begun, edits, syncVars, late, outdated, shrunk>>

\* Requests that have counted the rows of a profile when it gets one more.
Counted(profile) ==
    {r \in Requests : req[r].kind = "bulk" /\ req[r].at = "write" /\ req[r].profile = profile}

\* A bulk add that wrote its last item fails without a report: the loop has
\* bound the name of the translation function to an item.
Written(r, stream, inserted) ==
    LET next == [req[r] EXCEPT !.todo = Tail(@), !.written = @ \cup {stream},
                               !.gone = @ \ {Key(r, stream)},
                               !.at = IF Len(req[r].todo) > 1 THEN "read"
                                      ELSE IF req[r].kind = "bulk" THEN "unreported" ELSE "done"]
    IN req' = [q \in Requests |->
          IF q = r THEN next
          ELSE IF inserted /\ q \in Counted(req[r].profile) THEN [req[q] EXCEPT !.overtaken = TRUE]
               ELSE req[q]]

Insert(k, order, host) ==
    item' = [item EXCEPT ![k] = [exists |-> TRUE, active |-> TRUE, order |-> order, host |-> host]]

\* Mutant: an item that was removed stays removed.
ShowOnlyNew(k, host) == item' = [item EXCEPT ![k].host = host]

\* An update keeps the place.
ShowAgain(k, host) == item' = [item EXCEPT ![k].active = TRUE, ![k].host = host]

\* ... and writes: the unique constraint, the missing instance and the missing
\* row raise, and end the request.
WriteItem(r) ==
    /\ req[r].kind = "bulk" /\ req[r].at = "write"
    /\ LET k == Key(r, Head(req[r].todo))
       IN IF req[r].orphan \/ req[r].found # item[k].exists THEN Die(r)
          ELSE /\ Written(r, Head(req[r].todo), ~req[r].found)
               /\ IF req[r].found
                  THEN ShowAgain(k, req[r].host) /\ UNCHANGED late
                  ELSE /\ Insert(k, req[r].order, req[r].host)
                       /\ late' = IF req[r].overtaken THEN late \cup {k} ELSE late
               /\ outdated' = IF req[r].moved THEN outdated \cup {k} ELSE outdated \ {k}
               /\ UNCHANGED instance
    /\ UNCHANGED <<begun, edits, syncVars, shrunk>>

\* get_or_create_default_private_instance: the first private instance, else
\* the only one at the fallback address; a missing one cannot be made, since
\* its defaults name a read-only property.
DefaultPrivate ==
    LET private == {n \in Names : instance[n].active /\ instance[n].private}
        local == {n \in Names : instance[n].exists /\ instance[n].host = Localhost}
    IN IF private # {} THEN {n \in private : \A m \in private : n <= m}
       ELSE IF Cardinality(local) = 1 THEN local ELSE {}

BeginAdd(r, stream) ==
    /\ IF DefaultPrivate = {} THEN Begin(r, [kind |-> "none", at |-> "died"])
       ELSE \E n \in DefaultPrivate : Begin(r, ItemRequest("add", Surveillance, n, <<stream>>))
    /\ UNCHANGED <<instance, item, edits, syncVars, late, outdated, shrunk>>

\* upsert_go2rtc_grid_item of services_grid.py: update_or_create, without a place.
AddItem(r) ==
    /\ req[r].kind = "add" /\ req[r].at = "read"
    /\ LET k == Key(r, Head(req[r].todo))
       IN IF req[r].orphan THEN Die(r)
          ELSE /\ Written(r, Head(req[r].todo), ~item[k].exists)
               /\ IF item[k].exists
                  THEN ShowAgain(k, req[r].host) /\ UNCHANGED late
                  ELSE Insert(k, 0, req[r].host) /\ late' = late \cup {k}
               /\ outdated' = IF req[r].moved THEN outdated \cup {k} ELSE outdated \ {k}
               /\ UNCHANGED instance
    /\ UNCHANGED <<begun, edits, syncVars, shrunk>>
-----------------------------------------------------------------------------
\* Instances: import_go2rtc_instances, AddGo2RTCInstanceView

Invalid(row) == row.name = 0 \/ row.host = 0 \/ row.wrong

Blank(line) == line.name = 0 /\ line.host = 0 /\ ~line.wrong

\* CsvInstanceImportSource: a bad header is one invalid line.
Lines(file) ==
    IF file.header THEN file.lines ELSE <<[name |-> 0, host |-> 0, wrong |-> TRUE]>>

\* The numbers of the lines that iter_rows yields: blank ones are left out.
RowsOf(file) == {i \in DOMAIN Lines(file) : ~Blank(Lines(file)[i])}

BeginImport(r, file) ==
    /\ Begin(r, [kind |-> "import", at |-> "row", file |-> file, todo |-> RowsOf(file),
                 created |-> 0, updated |-> 0, skipped |-> 0, sync |-> <<>>])
    /\ UNCHANGED <<instance, item, edits, syncVars, late, outdated, shrunk>>

\* Mutant: only an instance that is new is synced.
SyncNew(sync, name) ==
    IF instance[name].exists \/ Contains(sync, name) THEN sync ELSE Append(sync, name)

\* Every instance is synced once.
SyncOnce(sync, name) == IF Contains(sync, name) THEN sync ELSE Append(sync, name)

Holds(r, n) == req[r].kind \in {"bulk", "add"} /\ req[r].name = n

\* Requests that have loaded instance n hold a row that was edited.
Edited(n) ==
    [r \in Requests |-> IF Holds(r, n) THEN [req[r] EXCEPT !.moved = TRUE] ELSE req[r]]

\* update_or_create by name: the row is active again, and private as it was.
UpsertInstance(n, host) ==
    /\ instance' = [instance EXCEPT ![n].exists = TRUE, ![n].host = host, ![n].active = TRUE]
    /\ outdated' = outdated \cup {k \in ItemsOf(n) : item[k].exists}

\* The next row: an invalid one is skipped, any other upserted.
ImportRow(r) ==
    /\ req[r].kind = "import" /\ req[r].at = "row"
    /\ \E i \in req[r].todo :
        /\ \A j \in req[r].todo : i <= j
        /\ LET row == Lines(req[r].file)[i]
               next == [req[r] EXCEPT !.todo = @ \ {i}]
           IN IF Invalid(row)
              THEN /\ req' = [req EXCEPT ![r] = [next EXCEPT !.skipped = @ + 1]]
                   /\ UNCHANGED <<instance, outdated, syncVars>>
              ELSE /\ UpsertInstance(row.name, row.host)
                   /\ req' = [Edited(row.name) EXCEPT ![r] = [next EXCEPT
                            !.created = IF instance[row.name].exists THEN @ ELSE @ + 1,
                            !.updated = IF instance[row.name].exists THEN @ + 1 ELSE @,
                            !.sync = SyncOnce(@, row.name)]]
                   /\ unsynced' = unsynced \cup {row.name}
                   /\ dropped' = dropped \ {row.name}
    /\ UNCHANGED <<item, begun, edits, late, shrunk>>

\* Nothing catches what the database raises for a row or the broker for the
\* syncs: the rows before stay, and the request ends without a report.
ImportRaises(r) ==
    /\ req[r].kind = "import" /\ req[r].at = "row"
    /\ IF req[r].todo = {} THEN req[r].sync # <<>>
       ELSE \E i \in req[r].todo :
               ~Invalid(Lines(req[r].file)[i]) /\ \A j \in req[r].todo : i <= j
    /\ req' = [req EXCEPT ![r].at = "died"]
    /\ dropped' = dropped \cup (unsynced \cap ToSet(req[r].sync))
    /\ UNCHANGED <<instance, item, begun, edits, unsynced, late, outdated, shrunk>>

\* All rows are handled: one task is to sync the instances, and the view reports.
FinishImport(r) ==
    /\ req[r].kind = "import" /\ req[r].at = "row" /\ req[r].todo = {}
    /\ req' = [req EXCEPT ![r].at = "done"]
    /\ unsynced' = unsynced \ ToSet(req[r].sync)
    /\ dropped' = dropped \ ToSet(req[r].sync)
    /\ UNCHANGED <<instance, item, begun, edits, late, outdated, shrunk>>

\* AddGo2RTCInstanceView upserts the one row of its form.
AddInstance(n, host) ==
    /\ begun < MaxRequests /\ begun' = begun + 1
    /\ UpsertInstance(n, host)
    /\ req' = Edited(n)
    /\ UNCHANGED <<item, edits, syncVars, late, shrunk>>
-----------------------------------------------------------------------------
\* RemoveGo2RTCCameraView, RemoveGo2RTCProfileItemView, the admin

Edit == edits < MaxEdits /\ edits' = edits + 1

\* Requests that wrote one of keys have lost it.
Gone(keys) ==
    [r \in Requests |-> IF req[r].kind \in {"bulk", "add"}
                        THEN [req[r] EXCEPT !.gone = @ \cup keys] ELSE req[r]]

RemoveItem(k) ==
    /\ item[k].active /\ Edit
    /\ item' = [item EXCEPT ![k].active = FALSE]
    /\ req' = Gone({k})
    /\ UNCHANGED <<instance, begun, syncVars, late, outdated, shrunk>>

EditInstance(n, active, private) ==
    /\ instance[n].exists /\ Edit
    /\ <<active, private>> # <<instance[n].active, instance[n].private>>
    /\ instance' = [instance EXCEPT ![n].active = active, ![n].private = private]
    /\ req' = Edited(n)
    /\ UNCHANGED <<item, begun, syncVars, late, outdated, shrunk>>

DeleteInstance(n) ==
    /\ instance[n].exists /\ Edit
    /\ instance' = [instance EXCEPT ![n] = NoInstance]
    /\ item' = [k \in Keys |-> IF k \in ItemsOf(n) THEN NoItem ELSE item[k]]
    /\ req' = [r \in Requests |->
          IF Holds(r, n) THEN [req[r] EXCEPT !.orphan = TRUE, !.gone = @ \cup ItemsOf(n)]
          ELSE IF req[r].kind = "import"
               THEN [req[r] EXCEPT !.sync = [i \in DOMAIN @ |-> IF @[i] = n THEN 0 ELSE @[i]]]
               ELSE req[r]]
    /\ unsynced' = unsynced \ {n} /\ dropped' = dropped \ {n}
    /\ shrunk' = shrunk \cup {k[1] : k \in {l \in ItemsOf(n) : item[l].exists}}
    /\ UNCHANGED <<begun, late, outdated>>

RequestStep(r) ==
    ReadItem(r) \/ WriteItem(r) \/ AddItem(r) \/ ImportRow(r) \/ ImportRaises(r) \/ FinishImport(r)

BoardNext ==
    \/ \E r \in Requests :
          \/ \E p \in Profiles, n \in Names, s \in Selections : BeginBulk(r, p, n, s)
          \/ \E s \in Streams : BeginAdd(r, s)
          \/ \E file \in Files : BeginImport(r, file)
          \/ RequestStep(r)
    \/ \E n \in Names, h \in Hosts : AddInstance(n, h)
    \/ \E k \in Keys : RemoveItem(k)
    \/ \E n \in Names, a, p \in BOOLEAN : EditInstance(n, a, p)
    \/ \E n \in Names : DeleteInstance(n)

BoardSpec == BoardInit /\ [][BoardNext]_boardVars
-----------------------------------------------------------------------------
\* Properties

BoardTypeOK ==
    /\ instance \in [Names -> [exists : BOOLEAN, host : Hosts, active : BOOLEAN, private : BOOLEAN]]
    /\ item \in [Keys -> [exists : BOOLEAN, active : BOOLEAN, order : Nat, host : Hosts]]
    /\ unsynced \subseteq Names /\ dropped \subseteq Names
    /\ late \subseteq Keys /\ outdated \subseteq Keys /\ shrunk \subseteq Profiles
    /\ \A k \in Keys : item[k].exists => instance[k[2]].exists
    /\ \A k \in Keys : item[k].active => item[k].exists

\* Two items of a profile share a place only if one of them was placed by a
\* count that another addition had overtaken, or came from the surveillance form,
\* or rows of the profile were deleted (services.py:1480-1495): removing an item
\* and adding it again never moves it onto another's place.
TiesOnlyFromOverlap ==
    \A k, l \in Keys :
        /\ k # l /\ k[1] = l[1] /\ k[1] \notin shrunk
        /\ item[k].exists /\ item[l].exists /\ item[k].order = item[l].order
        => k \in late \/ l \in late

\* An item that a request has written is shown, on the surveillance page when
\* the request had loaded a private instance, unless the item was removed or the
\* instance edited meanwhile; and it shows the address of its instance unless
\* the instance was readdressed after the item's last writer had loaded it
\* (services.py:1475-1501, services_grid.py:152-196).
WrittenItemsShown ==
    /\ \A r \in Requests :
          req[r].kind \in {"bulk", "add"} =>
              \A s \in req[r].written :
                  Key(r, s) \notin req[r].gone =>
                      /\ item[Key(r, s)].active
                      /\ req[r].listed /\ ~req[r].moved =>
                            instance[req[r].name].active /\ instance[req[r].name].private
    /\ \A k \in Keys :
          item[k].exists /\ k \notin outdated => item[k].host = instance[k[2]].host

\* An instance that an import has written is synced, by that import or another,
\* unless the import ended before it had sent its syncs; and at every step of an
\* import its counters and the rows to do are all lines of its file that are not
\* blank, and the instances it is to sync are those of the valid lines behind it,
\* each once, unless one was deleted (services.py:430-472).
ImportsTold ==
    /\ \A n \in unsynced :
          /\ instance[n].exists
          /\ n \notin dropped =>
                \E r \in Requests : /\ req[r].kind = "import" /\ req[r].at = "row"
                                    /\ Contains(req[r].sync, n)
    /\ \A r \in Requests :
          req[r].kind = "import" =>
              LET valid == {i \in RowsOf(req[r].file) \ req[r].todo : ~Invalid(Lines(req[r].file)[i])}
              IN /\ req[r].created + req[r].updated + req[r].skipped + Cardinality(req[r].todo)
                        = Cardinality(RowsOf(req[r].file))
                 /\ req[r].created <= Len(req[r].sync)
                 /\ req[r].at = "done" => req[r].todo = {}
                 /\ ~Contains(req[r].sync, 0) =>
                       /\ ToSet(req[r].sync) = {Lines(req[r].file)[i].name : i \in valid}
                       /\ IsInjective(req[r].sync)
=============================================================================
