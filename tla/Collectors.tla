----------------------------- MODULE Collectors -----------------------------
(***************************************************************************)
(* How a scrape of ReconEye collects the cameras of a source and hands     *)
(* them to the catalogue in batches: Insecam page by page until a page     *)
(* brings nothing new, Windy page by page up to the highest offset its API *)
(* accepts, WhatsUpCams from one list in chunks.  Every request is tried   *)
(* three times.  The source may change between two requests.               *)
(***************************************************************************)
EXTENDS Integers, Sequences, SequencesExt, Excerpts

CONSTANTS
    Cams,            \* the cameras a source may list
    Sites,           \* what a source may list when a run begins: cameras in order, each once
    Live,            \* cameras whose Windy listing item says they stream
    LiveInDetail,    \* cameras of which only the Windy detail says so
    Sources,         \* subset of {"INSECAM", "WINDY", "WHATSUPCAMS"}
    PerPage,         \* cameras on a page, streams in a chunk: 50 and 25 in the code
    BatchSize,       \* cameras stored at once: 10
    MaxPages,        \* pages of one run: 200 and 20
    StartPages,      \* pages a Windy run may start at: multiples of 20
    OffsetLimit,     \* the highest offset asked for: 1000
    ApiLimits,       \* the highest offset the API accepts
    Attempts,        \* tries of a request: 3
    MaxShifts        \* bound on the changes of the source during a run

ASSUME CollectorsAssumption ==
    /\ Sites \subseteq Seq(Cams) /\ \A s \in Sites : IsInjective(s)
    /\ Sources \subseteq {"INSECAM", "WINDY", "WHATSUPCAMS"}
    /\ Live \subseteq Cams /\ LiveInDetail \subseteq Cams \ Live
    /\ {PerPage, BatchSize, MaxPages, Attempts} \subseteq Nat \ {0}
    /\ StartPages \cup ApiLimits \cup {OffsetLimit, MaxShifts} \subseteq Nat

VARIABLES
    site,       \* the cameras the source lists now, in order
    run,        \* the run: source, phase, pages fetched, failed tries, stream ids
    listing,    \* the cameras collected so far
    batch,      \* those of them that are not handed to the catalogue yet
    stored,     \* those the catalogue took
    told,       \* the counters of the job: cameras processed, and new or updated
    shifts,     \* changes of the source since the run began
    lost,       \* history: a camera or page was given up
    refused     \* history: a request was refused with 400

collectVars == <<site, run, listing, batch, stored, told, shifts, lost, refused>>

NoRun == [source |-> "none", phase |-> "none", start |-> 0, page |-> 0, failed |-> 0, limit |-> 0,
          ids |-> <<>>]

CollectInit ==
    /\ site \in Sites
    /\ run = NoRun
    /\ listing = <<>> /\ batch = <<>> /\ stored = <<>>
    /\ told = [processed |-> 0, stored |-> 0]
    /\ shifts = 0
    /\ lost = FALSE /\ refused = FALSE

Listing(source) == run.phase = "list" /\ run.source = source

Slice(s, offset) == SubSeq(s, offset + 1, IF offset + PerPage < Len(s) THEN offset + PerPage ELSE Len(s))

\* Cameras handed over by a page or a chunk.
Take(cams) == listing' = listing \o cams /\ batch' = batch \o cams

Enter(phase) == run' = [run EXCEPT !.phase = phase]

\* The next page of at most n.
NextOf(n) == run' = [run EXCEPT !.page = @ + 1, !.failed = 0,
                                !.phase = IF run.page + 1 = n THEN "flush" ELSE "list"]

\* _run_scrape begins; only Windy starts at another page.
BeginRun(source, start, limit) ==
    /\ run.phase = "none"
    /\ source # "WINDY" => start = 0 /\ limit = OffsetLimit
    /\ run' = [NoRun EXCEPT !.source = source, !.phase = "list", !.start = start, !.limit = limit]
    /\ UNCHANGED <<site, listing, batch, stored, told, shifts, lost, refused>>

\* A camera leaves the source, or a new one appears at the top.
Shift ==
    /\ run.phase = "list" /\ shifts < MaxShifts
    /\ shifts' = shifts + 1
    /\ \/ \E i \in DOMAIN site : site' = RemoveAt(site, i)
       \/ \E c \in Cams \ ToSet(site) : site' = <<c>> \o site
    /\ UNCHANGED <<run, listing, batch, stored, told, lost, refused>>

-----------------------------------------------------------------------------
\* Insecam: collect_listing

\* A page past the end shows page 1 again.
InsecamPage(page) ==
    IF page * PerPage < Len(site) THEN Slice(site, page * PerPage) ELSE Slice(site, 0)

\* Mutant: what has been seen is forgotten with every page.
FreshOfPage(items) == Excerpt(items, FirstPlaces(items))

\* Items whose page_url has not been seen.
Fresh(items) == Excerpt(items, {i \in FirstPlaces(items) : items[i] \notin ToSet(listing)})

\* A page with nothing on it fails the run when it is the first.
AfterInsecamPage(items) ==
    IF items = <<>> THEN Enter(IF run.page = 0 THEN "failed" ELSE "flush")
    ELSE IF Fresh(items) = <<>> THEN Enter("flush")
    ELSE NextOf(MaxPages)

ListPage ==
    /\ Listing("INSECAM")
    /\ LET items == InsecamPage(run.page)
       IN Take(Fresh(items)) /\ AfterInsecamPage(items)
    /\ UNCHANGED <<site, stored, told, shifts, lost, refused>>
-----------------------------------------------------------------------------
\* Windy: scrape_all

\* Mutant: the page that begins at the limit is left out.
PagesBeforeLimit(start) == (OffsetLimit - start * PerPage) \div PerPage

\* _pages_until_offset_limit
PagesUntilOffsetLimit(start) ==
    LET pages == (OffsetLimit - start * PerPage) \div PerPage + 1
    IN IF start * PerPage > OffsetLimit THEN 0
       ELSE IF MaxPages < pages THEN MaxPages ELSE pages

Offset == (run.start + run.page) * PerPage

\* Of every item without a live player the detail is asked, once.
Asked(items) == ToSet(items) \ Live

\* What is left of a page: an item is no camera when neither the item nor its
\* detail, if that was found, has a live player.
Playing(items, found) == Keep(items, Live \cup (found \cap LiveInDetail))

\* 400 ends the listing, what was collected counts.  An empty page ends the
\* listing, and so does a short one.
WindyPage ==
    /\ Listing("WINDY")
    /\ IF run.page >= PagesUntilOffsetLimit(run.start)
       THEN Enter("flush") /\ UNCHANGED <<listing, batch, lost, refused>>
       ELSE IF Offset > run.limit
       THEN Enter("flush") /\ lost' = TRUE /\ refused' = TRUE /\ UNCHANGED <<listing, batch>>
       ELSE LET items == Slice(site, Offset)
            IN \E found \in SUBSET Asked(items) :
                  /\ Take(Playing(items, found))
                  /\ lost' = (lost \/ found # Asked(items))
                  /\ IF Len(items) < PerPage THEN Enter("flush")
                     ELSE run' = [run EXCEPT !.page = @ + 1, !.failed = 0]
                  /\ UNCHANGED refused
    /\ UNCHANGED <<site, stored, told, shifts>>
-----------------------------------------------------------------------------
\* WhatsUpCams: scrape_all

\* One request lists the streams of the wanted countries; page 0 stands for it.
ListStreams ==
    /\ Listing("WHATSUPCAMS") /\ run.page = 0
    /\ run' = [run EXCEPT !.page = 1, !.ids = site,
                          !.phase = IF site = <<>> THEN "flush" ELSE "list"]
    /\ UNCHANGED <<site, listing, batch, stored, told, shifts, lost, refused>>

\* A chunk is resolved when the job has stored what it has; an exception loses
\* its stream only, and a detail that cannot be fetched not even that.
ResolveChunk ==
    /\ Listing("WHATSUPCAMS") /\ run.page > 0 /\ Len(batch) < BatchSize
    /\ LET chunk == Slice(run.ids, (run.page - 1) * PerPage)
       IN \E raised \in SUBSET ToSet(chunk) :
             /\ Take(Keep(chunk, Cams \ raised))
             /\ lost' = (lost \/ raised # {})
    /\ run' = [run EXCEPT !.page = @ + 1,
                          !.phase = IF run.page * PerPage >= Len(run.ids) THEN "flush" ELSE "list"]
    /\ UNCHANGED <<site, stored, told, shifts, refused>>
-----------------------------------------------------------------------------
\* Failures and storing

\* Mutant: a request is tried again and again.
GiveUpTriesOn == run' = [run EXCEPT !.failed = @ + 1]

\* The last try failed.  Insecam takes it for an empty page, Windy raises,
\* WhatsUpCams ends with nothing.
GiveUp == Enter(IF run.source = "WINDY" \/ (run.source = "INSECAM" /\ run.page = 0)
                THEN "failed" ELSE "flush")

RequestFails ==
    /\ \/ Listing("INSECAM")
       \/ Listing("WINDY") /\ run.page < PagesUntilOffsetLimit(run.start)
       \/ Listing("WHATSUPCAMS") /\ run.page = 0
    /\ IF run.failed + 1 < Attempts
       THEN run' = [run EXCEPT !.failed = @ + 1] /\ UNCHANGED lost
       ELSE GiveUp /\ lost' = TRUE
    /\ UNCHANGED <<site, listing, batch, stored, told, shifts, refused>>

\* WhatsUpCams stores while it lists, the others store when all is listed; the
\* last batch may be small.
Due ==
    \/ run.phase = "flush" /\ batch # <<>>
    \/ Listing("WHATSUPCAMS") /\ Len(batch) >= BatchSize

\* The cameras that go to the catalogue next.
NextBatch ==
    IF ~Due THEN <<>>
    ELSE SubSeq(batch, 1, IF Len(batch) < BatchSize THEN Len(batch) ELSE BatchSize)

\* Of a batch the catalogue takes the cameras at the places kept: an upsert that
\* raises loses its camera only.
Upserted(kept) == stored' = stored \o Excerpt(NextBatch, kept)

\* Mutant: what the catalogue refused counts as updated.
CountedAll(n, kept) == [processed |-> told.processed + n, stored |-> told.stored + n]

\* update_counters: of n cameras those kept were new or updated.
Counted(n, kept) ==
    [processed |-> told.processed + n, stored |-> told.stored + Cardinality(kept)]

FlushBatch ==
    /\ run.phase \in {"list", "flush"} /\ Due
    /\ LET n == Len(NextBatch)
       IN \E kept \in SUBSET (1..n) :
             /\ Upserted(kept)
             /\ told' = Counted(n, kept)
             /\ lost' = (lost \/ kept # 1..n)
             /\ batch' = SubSeq(batch, n + 1, Len(batch))
    /\ UNCHANGED <<site, run, listing, shifts, refused>>

\* Anything else raises - a parser, the soft time limit, the save of the
\* counters: the run fails, with part of the batch stored and not counted.
RunRaises ==
    /\ run.phase \in {"list", "flush"}
    /\ \E kept \in SUBSET (1..Len(NextBatch)) : Upserted(kept)
    /\ Enter("failed") /\ lost' = TRUE
    /\ UNCHANGED <<site, listing, batch, told, shifts, refused>>

EndRun ==
    /\ run.phase = "flush" /\ ~Due
    /\ Enter("done")
    /\ UNCHANGED <<site, listing, batch, stored, told, shifts, lost, refused>>

\* What the collector does while nothing raises.
CollectStep == ListPage \/ WindyPage \/ ListStreams \/ ResolveChunk \/ FlushBatch \/ EndRun

CollectNext ==
    \/ \E s \in Sources, start \in StartPages, l \in ApiLimits : BeginRun(s, start, l)
    \/ CollectStep \/ RequestFails \/ RunRaises \/ Shift

CollectSpec == CollectInit /\ [][CollectNext]_collectVars
-----------------------------------------------------------------------------
\* Properties

CollectTypeOK ==
    /\ site \in Seq(Cams) /\ listing \in Seq(Cams) /\ stored \in Seq(Cams) /\ batch \in Seq(Cams)
    /\ run.phase \in {"none", "list", "flush", "done", "failed"}
    /\ run.failed \in 0..Attempts - 1 /\ run.page \in Nat
    /\ told \in [processed : Nat, stored : Nat]
    /\ {lost, refused} \subseteq BOOLEAN /\ shifts \in 0..MaxShifts

\* The cameras a run can reach when nothing fails: the first pages of Insecam;
\* of Windy those that stream, on pages whose offset the API accepts; all of
\* WhatsUpCams.
OffsetOf(i) == ((i - 1) \div PerPage) * PerPage

Reachable ==
    CASE run.source = "INSECAM" -> {site[i] : i \in {k \in DOMAIN site : k <= MaxPages * PerPage}}
      [] run.source = "WINDY" ->
            {site[i] : i \in {k \in DOMAIN site :
                /\ OffsetOf(k) >= run.start * PerPage
                /\ OffsetOf(k) <= OffsetLimit
                /\ OffsetOf(k) < (run.start + MaxPages) * PerPage}} \cap (Live \cup LiveInDetail)
      [] OTHER -> ToSet(site)

\* A run over a source that stood still, in which nothing was given up, stores
\* exactly the cameras within its reach, each once and in order
\* (insecam.py:215-246, windy.py:275-280 and 468-511, whatsupcams.py:407-415,
\* services.py:229-307): no page at the limit, no repeated page and no partial
\* batch is left out or counted twice. Nor does it ask for more than there is:
\* an API that accepts all offsets up to the limit refuses no page.
QuietRunStoresAll ==
    /\ run.phase = "done" /\ shifts = 0 /\ ~lost =>
          /\ ToSet(stored) = Reachable
          /\ \A i, j \in DOMAIN stored : i < j => \E k, l \in DOMAIN site :
                k < l /\ site[k] = stored[i] /\ site[l] = stored[j]
    /\ refused => run.limit < OffsetLimit

\* However an Insecam listing shifts from page to page, and whatever fails, no
\* camera is listed twice (insecam.py:225-230).
InsecamListsOnce == run.source = "INSECAM" => IsInjective(listing)

\* What a job tells of its run is what the catalogue took, whichever upserts
\* and requests fail and however the source shrinks: processed and waiting are
\* the cameras listed, a run that ends has all of them processed, the counters of
\* new and updated cameras are right, and only a run that fails may have stored
\* more than it counted, by at most the batch it was storing (services.py:229-312,
\* 324-342).  An Insecam run that succeeds has listed something: a first page that
\* cannot be fetched, or has nothing on it, fails it (insecam.py:166-169, 217-221).
RunsTellWhatTheyStored ==
    /\ told.processed + Len(batch) = Len(listing)
    /\ told.stored <= told.processed
    /\ run.phase # "failed" => told.stored = Len(stored)
    /\ run.phase = "failed" => told.stored <= Len(stored) /\ Len(stored) <= told.stored + BatchSize
    /\ run.phase = "done" => batch = <<>> /\ (run.source = "INSECAM" => listing # <<>>)
=============================================================================
