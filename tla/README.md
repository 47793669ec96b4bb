# ReconEye in TLA+

ReconEye is a Django application that collects public web cameras (Insecam,
WhatsUpCams, Windy), keeps them in a catalogue, checks whether they are online,
and mirrors the streams of go2rtc servers. Pages are served by web processes;
scraping, status checks and synchronisation run as Celery tasks on one worker
node with a Redis broker (`docker-compose.yml`: `--concurrency=2`). Rows live in
PostgreSQL, cached values and the "what is running" map in a Redis cache.

Nothing in the program locks for longer than one transaction, so most of what can
go wrong is an interleaving: a request, a task, a retry and a redelivered task
read a row, keep it as a Python object and save fields of it later. The
specifications here model those accesses, one action for what happens between two of
them.

## Inventory

| Component | State | Operations | Interacts with | Hard behaviour | Correct when |
|---|---|---|---|---|---|
| Scrape jobs: `apps/scraping/models.py`, `views.py`, `tasks.py`, `services.py` | `ScrapeJob` rows; messages in the broker; revoked ids in the worker node; row copies in each process | trigger, cancel, beat tick, admin "trigger now", start, counter updates, success, failure, retry, ack | catalogue (upserts), Celery, broker | retries beside redelivery, cancel against a running worker, hard time limit, node crash, double submission | counters add up; a job's row is moved by somebody until it is terminal; a cancel that took effect stays; a task is not run more often than it may |
| Parsers: `apps/scraping/parsers/` | none kept | list, stream, fetch, page | scrape jobs | paging against limits, batches of a stream | each source yields every page once |
| Camera catalogue: `apps/cameras/services.py:860`, `models.py` | `Camera` rows | upsert, duplicate clean-up, admin clean-up | scrape jobs, status checks | concurrent inserts without a constraint, locks on the first row only, deactivation that leaves `updated_at` | one active row per page; the scraper never decides `is_online` of a known camera |
| Status checks: `apps/cameras/tasks.py` | `is_online`, `last_checked` | batch refresh, single check | catalogue | late answers, stale copies | the newest probe wins; a check never undoes an upsert |
| Cache generations: `apps/common/cache.py`, the `signals.py` files, `apps/dashboard/services.py` | generation numbers, versioned entries | get or compute, bump | every saver | missing generation, bump inside a transaction, eviction | a reader that starts after a commit sees it |
| Task activity: `apps/common/celery_activity.py` | one cached map of running tasks | prerun, postrun, read | every task | unlocked read-modify-write, expiry | a running task is shown, a finished one is not |
| go2rtc synchronisation: `apps/cameras/services.py:1241`, `tasks.py`, `apps/scraping/geoip.py` | instances, stream rows, config snapshots, located addresses | sync one, sync a batch with retries, refresh the location | go2rtc servers, DNS, ip-api | two syncs of one instance, snapshot read before the lock, retries of the batch, failed lookups | the rows equal one payload; each change is reported once; the location is one of the addresses' |
| Geocoding: `apps/scraping/geolocation.py` | cache table, in-process locks | lookup, fetch, store | catalogue | lock per process, transient failures stored as misses | a failure is not remembered as an answer |
| Surveillance grid: `apps/cameras/services_grid.py` | profile, items, default instance | add, remove, reorder | web requests | get-or-create, sort order from a count | one profile per user, distinct positions |
| Instance groups, config diff, import: `services.py`, `imports.py` | none kept | group, diff, preview, import | sync, pages | recursion, shared addresses | a diff names exactly what changed |
| Schedule: `config/celery.py` | none kept | minute and hour per country | beat | minutes above 59 | every entry is a valid crontab |
| Users, audit, middleware, health, pages | sessions, audit rows | one test or one append per request | all | none that interleaves | – |

`PROJECT.json` lists the hazards of each component at their lines.

## Modules

| Module | What it is |
|---|---|
| `ScrapeJobs`, `MCScrapeJobs`, `ScrapeJobs_*.cfg` | the scrape job life cycle, its properties and fairness; its instances |
| `ScrapeJobs_proofs` | type correctness, the counters, what an effective cancel guarantees, how often a task is delivered and run, who owns an active row, what a row run once shows, proved |
| `BeatSchedule` | the daily schedule that starts scrapes |
| `Collectors` | what a run collects from each source, page by page and batch by batch |
| `Excerpts` | the lists that `BeatSchedule`, `Collectors`, `InstanceGroups` and `ConfigDiff` build by walking a sequence or a set and keeping some of its members |
| `Excerpts_proofs` | what these lists contain and in which order, and the facts about numbers, sequences and recursive definitions that several proofs use |
| `GeoCache` | the cache of geocoded queries with its in-process locks |
| `TaskActivity` | the map of running tasks |
| `MCScrapeTask`, `ScrapeTask_task.cfg` | schedule, collectors, geocoding cache and markers side by side: one scrape task from four sides |
| `ScrapeTask_proofs` | the schedule, what a run collects, the geocoding cache and the markers, proved, and that the four sides together are well typed |
| `CameraCatalog`, `MCCameraCatalog`, `CameraCatalog_*.cfg` | the camera rows of one page under upserts, status checks and geolocation refreshes |
| `CameraCatalog_proofs` | type correctness, that the writers keep apart, when duplicates remain and when the last active row is lost, proved |
| `Go2RTCSync`, `MCGo2RTCSync`, `Go2RTCSync_*.cfg` | one go2rtc instance under syncs of requests, tasks and the batch, and refreshes of its location |
| `Go2RTCSync_proofs` | type correctness, and all safety properties that hold of it, proved |
| `CacheGenerations`, `MCCacheGenerations`, `CacheGenerations_reads.cfg` | the versioned cache beside a database, its readers and writers |
| `FreshReads` | the abstract specification: what a cached view promises, with no cache in it |
| `CacheGenerations_proofs` | how old a live entry may be, and that the cache implements `FreshReads`, proved |
| `GridBoard`, `GridBoard_proofs` | instances and grid items under the forms, bulk additions, imports and the admin; its safety, proved |
| `InstanceGroups` | how the sidebars group, sort and page the instances |
| `ConfigDiff` | the summary and the rows of a comparison of two configurations |
| `MCGridBoard`, `GridBoard_board.cfg` | the three modules above side by side: the go2rtc manager |
| `Manager_proofs` | the sidebars and the comparison, proved, and that the three keep their properties side by side |

How the parts compose. `ScrapeJobs` says when a scrape runs, `Collectors` what it hands to
the catalogue, `GeoCache` which place goes with a camera and `CameraCatalog` what an upsert does to the
rows; the counters of `ScrapeJobs` count what `Collectors` flushes. `GridBoard` imports make instances that
`Go2RTCSync` synchronises, and every one of these writes is a write of `CacheGenerations`. Where two parts share
a variable in the code (a job row and its task, a camera row and its checks, an instance and its
location) they are in one module. The MC modules `MCScrapeTask` and `MCGridBoard` put
together modules that share no variable: no step of one enables or disables a step of another, so every
behaviour of the whole is a shuffle of behaviours of the parts, and it is enough to let one
part move while the others stay in their initial states.

### ScrapeJobs

State. `job` is the table: status, target (the pair of source type and country),
`celery_task_id`, whether `started_at` and `finished_at` are set, and the four
counters. `"ABSENT"` is a primary key not handed out yet. `worker[w]` is a pool
process: where it is in the task, the message it will acknowledge, the row it
loaded, and `mem`, the counters of the Python object it will save over the row.
`request[r]` and `cancel[c]` are web threads inside `TriggerScrapeView.post` and
`CancelScrapeView.post`. `queue` is the broker, with retries that wait for their
countdown; `broadcast` and `revoked` are revoke commands on their way and the node's
in-memory set. `attempts`, `redelivered` and `abandoned` are observers: no guard
reads them; properties name the exceptions they grant with them. `abandoned` are the rows that lost a process
and those whose request, task or cancel ended with an exception that nothing answers for (`Unsaved`). `faults` bounds
the fault actions.

| Actions | Code |
|---|---|
| `CheckActive`, `NoWorkersOnline`, `CreateJob`, `Enqueue`, `EnqueueFails`, `SaveTaskId` | `TriggerScrapeView.post`: the active check, the worker ping, the create, `delay`, the handler of a broker failure, the save of `celery_task_id` |
| `RequestCancel`, `SaveCancelled` | `CancelScrapeView.post`: read and revoke, then `mark_cancelled` |
| `Tick` | beat and the admin actions, which enqueue without a row |
| `StartTriggered`, `StartPeriodic` | the entry of `_run_existing_job` and `_create_and_run` |
| `StartRaises` | an exception before their `try`: loading or creating the row, saving its task id, the marker cache |
| `StartScrape` | `mark_running` |
| `CollectPage`, `FinishListing` | the listing of Insecam (counting pages as it goes) and of Windy (all at once) |
| `FlushBatch`, `StreamBatch` | `_flush_batch_async` over a listing, and over the WhatsUpCams stream |
| `Succeed`, `Return`, `Fail`, `FailToStart`, `RetryTask`, `Ack` | `mark_success`, the rest of the `try`, its handler, the task's handler with `self.retry`, the late acknowledgement |
| `DeliverRevoke`, `DropRevoked` | the node's control loop: terminate what runs, discard what arrives |
| `KillWorker`, `CrashNode`, `RestoreUnacked`, `TriggerDies`, `CancelDies` | the hard time limit, a node restart, the Redis visibility timeout, a web process that dies |

Why some things look as they do:

- `save(update_fields=...)` writes only the named fields, so `mark_success` does
  not touch the counters, and `update_counters` saves all four of the copy. That is why
  two deliveries of one task can overwrite each other's counters and why `mem` is
  part of the state.
- `revoke(terminate=True, signal="SIGTERM")` ends the pool process without running a
  handler of the task, and the node acknowledges the message. If the worker's
  `mark_running` lands after the `CANCELLED` of the view and the process is then
  terminated, the row stays `RUNNING`. The model has this; the row is counted in
  `abandoned`.
- Late acknowledgement (`CELERY_TASK_ACKS_LATE`) makes a message survive the node but
  not a pool process killed by the hard limit, which Celery acknowledges
  (`task_reject_on_worker_lost` is not set). A create-and-run task that is delivered
  again makes a new row; the old one stays `RUNNING`.
- Handlers fail as well. A `mark_failed` that raises in the task's handler or in the view's, a `mark_cancelled` that raises, and
  anything that raises before the task's `try` leave the row as it was, with no retry and the message acknowledged (`RetryTask`,
  `EnqueueFails`, `SaveCancelled`, `StartRaises`). The `mark_failed` of `_run_scrape` may raise too, but the task's handler repeats
  it; a save of `celery_task_id` that raises leaves the worker to save its own; and a retry that cannot be published leaves `FAILED`.
- A retry continues with the counters the row already has (`update_counters` adds to
  them), so after a retry the page may show other than 100 %.

### CameraCatalog

State. `camera[c]` is a committed row of the page: `is_active`, `is_online`, whose scrape
its fields (`item`) and its `source_payload` (`payload`) come from, whether a
refresh wrote its geo fields, and `updated_at` (`stamp`). `lock` is the row locks,
`tx[u]` the transaction of one scraper inside `upsert_camera`, with the order its
duplicate query fixed (`seen`), and `task[k]` a check or refresh with the copies it
loaded. `clock` hands out `updated_at`. `settled` and
`displaced` are observers: the last upsert listed every row there is; the newest row may be inactive.

| Actions | Code |
|---|---|
| `Select`, `Insert`, `CommitInsert` | `queryset.first()`, and the branch that creates the row and presumes it online |
| `LockNewest`, `Save`, `List`, `LockNext`, `CommitUpdate` | the wait of `first()` for its row, the save of what differs, the query of the duplicates with its locks, their deactivation and the commit |
| `FailUpsert`, `BreakDeadlock` | an error in a statement; PostgreSQL fails one of the transactions that wait for each other |
| `RefreshStatus`, `CheckSingle`, `RefreshGeolocation` | `refresh_camera_status`, `check_single_camera_status` and `refresh_geolocation_for_camera_ids` load their rows |
| `Answer`, `SaveTask`, `SkipGeolocation`, `StopTask` | the probe or geocoder answers and `save` takes its time; the save gets the row; nothing to save; the task dies |

Why some things look as they do:

- An upsert is one transaction over the rows of one page, and a check or refresh saves
  each row on its own, so pages do not interact and one page is modelled.
- At READ COMMITTED, `SELECT ... FOR UPDATE ORDER BY` sorts first and locks afterwards:
  a row that changed while the query waited is returned in its old place. `Select` and `List` are
  therefore apart from `LockNewest` and `LockNext`. The rows that `[1:]` skips are locked too.
- `auto_now` takes `updated_at` when `save` begins, which may be long before the row's
  lock is free: a later save can carry an earlier time.
- `QuerySet.update(is_active=False)` leaves `updated_at`, and `is_active` is never among
  the scraped fields: once deactivated, a row is brought back by hand only.
- A refresh saves the rows in some order that the code leaves to a query or a caller; the model
  allows any.
- `refresh_geolocation_for_camera_ids` finds location candidates only in payloads of the
  WhatsUpCams scraper; for the other sources it skips every row.
- The Windy test of `upsert_camera` (no `stream_url`) rejects nothing the Windy parser
  makes, since that parser sets one for every camera; `ConstantsAssumption` says so.

### Go2RTCSync

State. `instance` is the row: the addresses its host resolved to, those of the last
location update (`hash`), the address its location belongs to, and the sync status.
`geoip` is the `GeoIPCache` row of each address. `rows` are the `Go2RTCStream` rows, each with the
fetch that inserted it and the one whose counts and payload it has; `lock` is the row locks and
the entries of the unique index; `snapshot` is the newest config snapshot. `sync[p]` is
a process inside `sync_go2rtc_instance` or `refresh_instance_geoip`, `counts[p]` what its batch counted.
`mirror`, `missed` and `alone` are observers; fetches are told apart by numbers that are
reused once no row carries them.

| Actions | Code |
|---|---|
| `Begin`, `Load` | a view, a task, a batch entry or the admin action, and its query of the instance |
| `Fetch`, `Resolve` | the requests to the server and DNS with the save of the addresses; the forced refresh resolves only |
| `LookupIP`, `AskIP`, `SaveGeo` | `geolocate_public_ips`: the cache, ip-api and the store, address by address, then the update of the geo fields |
| `StoreFailed`, `StoreUnauthorized` | the two early returns |
| `ReadPrevious`, `List`, `LockRows`, `Write`, `Commit` | the transaction: the previous snapshot, the locking query, `bulk_create` and the other statements, the commit |
| `SaveStatus` | the save of the status after it |
| `Conflict`, `Unexpected`, `DatabaseError` | the unique constraint fails `bulk_create`; any exception; the two the batch repeats |

Why some things look as they do:

- An attempt that stored its rows and then fails is repeated like any other: `DatabaseError`
  is possible at every point, so the batch may store twice what it counts once.
- Stream rows are ordered by name in the locking query (`Meta.ordering`) and in the
  payload, so taking them at once loses no deadlock. The query lists the rows that are there when it
  starts and waits afterwards: a row deleted meanwhile is dropped, one inserted meanwhile is
  not seen. The sync then inserts the name itself and fails (`Conflict`), or it leaves the row
  alone though the server no longer lists it (`missed`).
- An insert waits only for a transaction that inserts or deletes the name; against a row that
  is locked but stays, it fails at once.
- `Unexpected` stands for the instance being deleted or deactivated, too.

### BeatSchedule

State. `beat` is the schedule that was loaded and the settings it came from. The one action
`LoadBeat` is the making of `CELERY_BEAT_SCHEDULE` in `config/celery.py`: the codes of the
configuration without blanks and repetitions (`Codes`), the slot of a country (`DefaultSlot`, or an
override brought into range, `SlotOf`), and `crontab`, which raises for a minute above 59 so that the
application does not load.

### Collectors

State. `site` is what the source lists now, `run` the run (source, phase, page, failed tries, the ids of the
WhatsUpCams list), `listing` what was collected, `batch` what is not handed to the catalogue yet, `stored` what it took, and
`told` the counters of the job: cameras processed, and those of them that were new or updated.
`lost` and `refused` are observers.

| Actions | Code |
|---|---|
| `BeginRun` | the collector `_run_scrape` picks; Windy may start at a later page |
| `ListPage` | `collect_listing` of Insecam: the page, its new items, the end at a page without any |
| `WindyPage` | `scrape_all` of Windy: the pages up to the offset limit, the refusal with 400, the detail requests, the short page |
| `ListStreams`, `ResolveChunk` | `scrape_all` of WhatsUpCams: the list, then chunks whose exceptions lose one stream |
| `RequestFails` | a try of a request fails; the third failure is an empty page, an exception or an empty list, depending on the source |
| `FlushBatch`, `EndRun` | the batches handed to `upsert_camera`, while WhatsUpCams lists and after the others have; an upsert that raises loses its camera only; the counters of the batch |
| `RunRaises` | the handler of `_run_scrape`: anything else that raises, also between the upserts of a batch and its counters |
| `Shift` | the source changes between two requests |

Why some things look as they do:

- A page past the end of Insecam shows page 1 again, which is why the code compares with everything listed.
- Windy raises when its requests fail, Insecam only on its first page, WhatsUpCams never: an
  empty list of WhatsUpCams (or of Windy) is a success that found nothing.
- `_flush_batch_async` swallows what an upsert raises, so a batch may be stored in part or not at all and the run still succeeds;
  and a run that fails keeps the batches it stored.
- A failing page of Windy loses what was collected before it, since the others store after the listing only.

### GeoCache

State. `row` is the cache table and `key` the primary keys of its rows; `lock[p][q]` the `asyncio.Lock` of a query in a worker process, with its
holder, its line of waiters and the event loop it is bound to; `loop[p]` numbers the loops of the process; `co[p][c]`
is the coroutine that resolves a camera, with the candidate queries it has left; `place` the
coordinates stored with a camera. `blank`, `overtaken` and `hurt` are observers.

| Actions | Code |
|---|---|
| `BeginScrape`, `EndTask` | a task's `asyncio.run` with one coroutine per camera |
| `BeginRefresh` | `refresh_geolocation_for_camera_ids`, which deletes the rows of the candidates first |
| `Lookup`, `Acquire`, `Recheck` | `geocode_query`: the lookup, the lock, the second lookup under it, each the read of a row |
| `SaveHits` | the rest of a lookup that found a row: its hits are saved, which raises when the row was deleted meanwhile |
| `DatabaseRaises` | a read or save raises; the exception leaves `geocode_query`, and the lock with it |
| `Fetch`, `Store` | the geocoder answers or fails; the row is overwritten and the lock released; `resolve_location_candidates` goes on to the next candidate after a miss |
| `StorePlace`, `Skip` | the answer is stored with the camera; a stream that raised is skipped |
| `Kill` | a worker process dies and is replaced |

Why some things look as they do:

- A lock that was contended once is bound to its loop for good (`asyncio` binds it on the first
  wait). The locks are module globals, so the loop of a later task that has to wait for the same query gets a
  `RuntimeError`, and the stream is lost. An uncontended acquire never looks at the loop.
- The geocoder's failure and its "no such place" are stored alike, without expiry.
- A row that was deleted and stored again has another primary key, so the save of the hits of the old one raises all the same.
- A process that dies frees its locks, but not what it stored.
- The soft time limit raises in whatever runs at that moment and cancels the other coroutines with the loop; that all coroutines of a task end at
  once without an answer is not modelled.

### TaskActivity

State. `activity` is the stored map: for each task id the run whose marker it holds; `expired` are the runs whose marker's time has passed,
`act[w]` is a worker inside `track_task_activity` and `page[v]` a page, each with the map it loaded.
`overwritten` (markers that a save from an older map dropped or brought back) and `shared` (markers of several runs, since a
retry keeps its task id) are observers.

| Actions | Code |
|---|---|
| `LoadForStart`, `SaveStart` | `register_task_start` |
| `EnterBody`, `LeaveBody` | the body of the task |
| `LoadForFinish`, `SaveFinish` | `register_task_finish` |
| `LoadSummary`, `SaveSummary` | `get_active_task_summary`: the map is filtered when it is loaded, and that map is saved |
| `KillTask`, `MarkerExpires` | a process dies with its marker in the map; the hour of a marker is over |

### CacheGenerations and FreshReads

State. A table is the number of writes committed to it (`db`), a cached value the versions it was read
at. `generation[d]` is the stored number of a domain or none, `entries[v][g]` the value of a view under
the key with generation `g`; `readers` and `writers` are calls and writes in progress. `announced` (writes that are
over) and `regressed` (domains whose generation has gone backwards) are observers.

| Actions | Code |
|---|---|
| `Begin`, `Lookup`, `Read`, `Store`, `FetchFails` | `versioned_key`, `cache.get`, one query after the other, `cache.set`; the request to go2rtc that fails |
| `Save`, `Incr`, `SetFirst`, `EndWrite`, `EndTransaction` | a save and its `post_save`: the walk over the domains, `cache.incr` or the fallback `cache.set(1)`; the commit or rollback after the signals of an upsert |
| `Expire`, `Evict`, `Restart` | time to live; the store drops a generation; the store comes back empty |

Why some things look as they do:

- The signal of an upsert runs before its commit. A reader in between stores the old value under the new
  generation; the value stays until it expires. `Covered` and `announced` therefore promise nothing for writes inside
  transactions, and neither does the code for writes without a signal (`QuerySet.update`, go2rtc itself).
- The stream list of an instance computes its key twice, before and after the request.
- The map caches instances under the domain of the cameras, which the invalidation of go2rtc does
  not bump.

`FreshReads` has only committed and announced versions, calls and trust: an answer lies between what was over when the
call began and what is visible when it ends. Its `trusted` views are mapped to those whose domain has
not regressed.

### GridBoard

State. `instance` and `item` are the rows, `req[r]` a request between its statements. `unsynced`, `dropped`, `late`,
`outdated` and `shrunk` are observers.

| Actions | Code |
|---|---|
| `BeginBulk`, `ReadItem`, `WriteItem` | `BulkAddGo2RTCStreamsView`: the instance; the count and lookup of `upsert_go2rtc_grid_item`; its insert or update |
| `BeginAdd`, `AddItem` | `AddGo2RTCCameraView`: `get_or_create_default_private_instance`, `update_or_create` of `services_grid.py` |
| `BeginImport`, `ImportRow`, `FinishImport` | `import_go2rtc_instances`, row by row; the syncs are sent and the report is shown |
| `ImportRaises` | the database refuses a row, or the broker the syncs: nothing catches it |
| `AddInstance` | the form of one instance |
| `RemoveItem` | the removals, which only mark an item |
| `EditInstance`, `DeleteInstance` | the admin |

Why some things look as they do:

- A request holds the instance row it loaded, so it writes an address that may be outdated (`outdated`) and fails when
  the row is gone (`orphan`).
- `ReadItem` merges the count and the lookup of the item: a step between them changes the count or the item, and either
  is also possible before both.
- After its last item the bulk view raises: the loop variable shadows the translation function. The items stay, the
  report is never shown; `unreported` stands for it.
- An import that raises keeps the rows it has stored, sends no sync and shows no report; `dropped` are the instances it wrote that
  nobody has synced.
- The rows of an import are the numbers of the lines of its file that are not blank; they are read in order.
- The name of an instance is its key for an import; a deleted instance of the same name is another row, which is why
  the observers forget what they knew of it.

### InstanceGroups and ConfigDiff

`BrowseManager` and `BrowseViewer` are the two views that show a sidebar: `Groups` is
`group_go2rtc_instances` with its union-find over addresses, `Sorted` the two-level sort, `FindPage` and
`Resolve` the choice of the page. A set's order of iteration (`Orders`) is a parameter, since Python does not fix it, and the instances come
in any order (`listed`): `Count("streams")` groups the query, and Django leaves `Meta.ordering` out of a grouped query.

The loops of the code are recursive functions here: `Root` follows parents as `find` does, `Unite` and `Roots` hang the
keys of one address and then of the next below one another, `Buckets` is a dictionary of lists. `StableSort` ranks the places of
a list by the keys and, for equal keys, by place.

`Compare` is the comparison of `Go2RTCManagerView`: `Summary` is `_config_diff_summary`, `Rows` is
`build_config_diff_rows` with its bound. Both walk the trees as the code does: `TellSummary` and `TellRows` are one step of a
walk, given what was told of every pair of parts, and `Summary` and `AllRows` are the functions that solve them. `Depth` is not part of
the code: that every part of a tree is nested less deep than the whole says that JSON is finite, and the walks end because of it.

## Runs

| Run | Question | Instance | Distinct states |
|---|---|---|---|
| `counters` | do the counters of a row add up, for each source, over retries and duplicated deliveries? | one row, two workers, one retry, batches of 2 of at most 3 cameras, one redelivery, up to the first unanswered exception | 3,827,149 |
| `delivery` | who may still move a row, how often is a task delivered and run, what may overwrite a final status, and does everything queued come to rest? | one row, a trigger, a tick and a canceller, two workers, one retry, any two faults of all four kinds, fairness | 561,543 |
| `duplicate_runs` (violated) | are duplicate concurrent runs avoided, as `views.py:168` says? | two requests, two rows, no fault | – |
| `writers` | how do duplicates come and go, when is the last active row lost, which fields may each writer change, do upserts end? | two rows, two scrapers with four upserts, one check or refresh, items with and without a stream, fairness | 520,545 |
| `page_lost` (violated) | does the clean-up of duplicates leave the row they duplicate? | two rows, two scrapers, no check | – |
| `payload_lost` (violated) | does a geolocation refresh change only what its docstring says? | one row, one scraper, one refresh | – |
| `sync_rows` | whose rows remain after overlapping and repeated syncs, what do snapshots and counts say? | two batch processes with two attempts each, two streams, two configs (one hidden), no address | 1,582,413 |
| `syncs_end` | do syncs and refreshes that wait for each other end? | a task or a refresh in each of two processes, two streams, one address, fairness | 153,044 |
| `stale_location` (violated) | is the location one of the addresses it was looked up for? | one process, two syncs, two addresses | – |
| `cache_reads` | how old may an answer be, does the cache implement `FreshReads`, do stale values die? | one reader, two writers, two writes of four kinds, the dashboard and the stream list, one fault, fairness | 324,601 |
| `board` | do items and instances survive overlapping requests and edits, do reports and sidebars say what is there, does a diff name what changed? | two web threads with three requests, two instances, two profiles, two streams, two edits; all sidebars and comparisons over small fleets and configurations | 1,183,791 |
| `task` | is the schedule right, does a run store what its source lists, how often is a place looked up and when is one lost, is a running task shown? | see below, fairness | 885,136 |

What the properties say:

- `CountersAgree`: new plus updated never exceeds processed, in the row and in
  every copy that will be saved over it.
- `SingleRunProgress`: a row run once never shows more processed than found, and shows
  100 % once it succeeded.
- `ActiveHasOwner`: a row that blocks its target (the active check) has a message, a
  process, or a request behind it, unless a process working for it died or an exception that nothing answers for
  (before the task's `try`, or in the last `mark_failed` or `mark_cancelled`) ended its task or cancel.
- `OneDelivery`, `AttemptsBounded`, `SuccessNotRerun`: unless the broker delivers
  again, at most one delivery of a task is alive, it runs at most `max_retries + 1`
  times, and a success is not run again.
- `RevokedStaysCancelled`: once the node has processed the revoke of a cancelled job,
  nothing overwrites `CANCELLED`.
- `EnqueuedSettles`: a queued job ends in a terminal status for good, with the same two exceptions; failed runs,
  failed publishes and node crashes only delay it.

- `OnlyDisplacedPagesVanish`: a page loses its last active row only if an upsert waited
  for a row that was deactivated meanwhile, if it deactivated a row that another upsert saved
  after it had listed the duplicates (which takes three scrapers, and five upserts), or if the save of a
  check or refresh changed which row is the newest. Otherwise upserts may overlap, insert twice,
  wait for each other and fail, and an active row remains.
- `DuplicatesDeactivated`: when the last upsert listed every row there is, at most
  one row is active.
- `WritersKeepApart`: a step changes `is_online` of a known row only by what a check of that
  row found, its scraped fields only by what a scrape found, and reactivates nothing.
- `UpsertsEnd`: an upsert that has begun ends.

- `RowsMirrorLastFetch`: unless the commit missed a row, the stream rows are exactly those
  of the fetch that was committed last, with its counts and payloads.
- `SnapshotsTellChanges`: a snapshot says "changed" exactly when its config differs from the one
  before, unless two transactions overlapped; failed attempts in between make no difference.
- `BatchCountsOnce`: a batch counts an instance when it is done with it, and once.
- `SyncsEnd`: a sync or refresh that has begun ends.

- `LiveEntriesFresh`: an entry that a call can hit now is not older than any write that is over, for the tables
  whose signals bump its domain, unless that domain's generation has gone backwards.
- `ImplementsFreshReads`: every step of the cache is a step of `FreshReads` or a stutter.
- `EventuallyCurrent`: whatever was lost, reordered or never announced, in the end no entry differs
  from the database.

- `TiesOnlyFromOverlap`: two items share a place only by a count that another addition overtook, by the surveillance
  form (which sets none), or after rows were deleted.
- `WrittenItemsShown`: an item a request wrote is shown unless it was removed or its instance edited
  meanwhile, and carries the address of its instance unless that changed after it was loaded.
- `ImportsTold`: what an import wrote is synced, by it or another, unless the import ended before it had sent its
  syncs; and at each of its steps an import accounts for every line and is to sync each instance it wrote, once.
- `SidebarRight`: the groups are exactly the classes of instances that share a label, a chain of addresses, or a
  host; pages divide them; a request that selects an instance is shown its page.
- `DiffTellsChanges`: a diff is empty exactly when nothing differs, and the bound on rows hides no difference.

- `CountriesApart`: a loaded schedule scrapes every configured country once a day, no two of them at one time
  unless overridden or the day is full (288 slots); and it loads unless the minute step is above 5 and there are too many countries for it.
- `QuietRunStoresAll`: over a source that stands still, a run in which nothing is given up stores exactly what is
  within its reach, each camera once and in order.
- `InsecamListsOnce`: however the listing shifts, no camera is listed twice.
- `RunsTellWhatTheyStored`: whichever upserts and requests fail, processed and waiting are the cameras listed, and the counters of new and
  updated cameras are what the catalogue took; a run that fails may have stored more, by at most a batch. An Insecam run
  that succeeds has listed something.
- `RunningTasksShown`: a task that runs has the marker of this very run in the map until it expires, unless a
  save from an older map dropped it or another run has its id.
- `OneFetchPerProcess`: no two coroutines of a process are past the lock of one query at once, and the geocoder is asked only for a
  query without a row or one whose row another process stored during the fetch.
- `FirstLoopLocksLoseNone`: in the first loop of a process a stream is lost only when its database access raised or another process deleted
  the row between its read and the save of its hits; a lock costs a stream only after it outlived its loop.
- `PlaceOverwrittenOnlyAcross`: a stored place becomes a miss only by a fetch that another process overtook.
- `PlaceLostOnlyByGeocoder`: coordinates are cleared only when the geocoder gave no place for any candidate
  of the camera.
- `TasksEnd`: a task that begins ends, also when the geocoder or the database fails under a lock.

Bounds. Jobs do not share state except through the active check and the workers, so one
row meets every interleaving of the safety properties but the duplicate run (two).
`MaxRetries` is 1 where the code has 2 or more: the first and the last retry
are the cases the code tells apart. Batches of 2 out of 3 cameras give a full and a
partial batch. `counters` follows no behaviour beyond the first exception that nothing answers for (`Answered`): afterwards only a redelivered twin
of the task could count, as it can before, and the theorem about `CountersAgree` has no such bound. Two faults give a crash of what an earlier fault left. Rows, workers and
web threads are interchangeable and reduced by symmetry in safety runs; runs
with fairness use none. `counters` and `delivery` check deadlock: there a job can be
triggered or cancelled again in every state. In `duplicate_runs` rows and ticks run out and deadlock is not checked.

Duplicates arise when two upserts find no row; with `--concurrency=2` that makes two rows,
and in `writers` four upserts are two to insert and two to overlap again on the duplicates; one check or
refresh meets every state they leave. A larger pool makes a third row and lets one upsert list two rows of
which another saves one: that takes three scrapers, `c3`, `u3` and five upserts, which with one item and symmetry are 266,420
states but too many for a run with fairness. The theorem about `OnlyDisplacedPagesVanish` covers any number of them. Their numbers are bounded, so the
catalogue stops when they are used up and
its runs do not check deadlock; that an upsert does not get stuck is `UpsertsEnd`.

Instances share only the cache of located addresses, so one instance is modelled. Two syncs
with a second attempt each make up to four attempts, two at a time: one can leave rows, and
the next two overlap on them. Two streams give a row that is inserted beside one that is
updated or deleted. The safety run has no address and the other two have, because the location
and the streams touch different fields of the instance. The syncs are bounded, so their runs do not check
deadlock; `SyncsEnd` does instead.

In `cache_reads` one reader may repeat its call and may be forced (`warm_cache`), so it meets every entry it left; two writers give two
first bumps of one generation and a bump between another's `incr` and its fallback. The dashboard reads two tables and
belongs to a domain that three kinds of writes bump; the stream list has the second key. One fault is an eviction or a
restart at any point. Every cached view expires, so the run never stops and deadlock is checked.

In `board` a bulk addition of two streams, another over the same and a third request are enough for a count
that was overtaken, an update of what another inserted and a removal in between; two edits delete an instance and make
it again. Fleets have up to four instances with up to two addresses each, enough for a chain in which
the ends share nothing; configurations have two keys and lists of two.

In `task`, ten countries, twenty-seven countries and none meet the change of the hour, the minutes above 59 and the step of
zero. Pages of 2, batches of 3, 2 pages a run and sources of up to 5 cameras, of 6 that may turn up, give full and short pages, batches that
cross pages, a run that ends at the page limit, at the end and at the offset limit (4, with an API that accepts as much or
half of it). Two workers and three starts give a start or an end between another's load and save. Two cameras with the candidate
lists `q2, q1` and `q1` contend for one query and fall through to it; two tasks, in one process or two, and a kill let
one store a place and the other delete its row while the first reads it, or contend for it in a later loop. These are the longest stories the
properties name. What is bounded runs out, so `task` and `board` do not check deadlock.

Fairness. Each pool process keeps taking messages and working on the one it has, the
node's control loop keeps processing revokes, and a web request that has begun goes
on: that is what Celery and the web server do while they run. Nobody has to
trigger, cancel or tick, and no fault has to happen. In the catalogue, a transaction or a
task that has begun goes on, and the database resolves deadlocks; that is what
`deadlock_timeout` and the bounded timeouts of the probes give. A sync that has begun goes on as well: requests to the
server, DNS and ip-api have timeouts, and a lock is free when its holder is done. Nothing has to begin or to fail.
A cached call and a write that have begun go on, and every value expires, since each is stored with a
timeout. The event loop of a process goes on as long as one of its coroutines is ready, the geocoder's requests have timeouts, and a
task whose coroutines are done ends; fairness is that of a process, not of each coroutine.

Every property of these runs was also checked to fail when the code is changed in a plausible wrong way; the changed
definitions stand before the real ones, marked as mutants, and `PROJECT.json` pairs them with the properties.

## What is proved

For every value of the constants that satisfies the named assumptions (`ConstantsAssumption` and its like), with TLAPS:

- `TypeCorrect`: `Spec => []TypeOK` for `ScrapeJobs`. `TypeOK` alone is not inductive: actions read the
  row through the job a process or a request remembers, so `MemoryOK` adds that a
  process that is not idle holds a message and a row, and a request or cancel under way
  holds a row.
- `CountersCorrect`: `Spec => []CountersAgree`. The property is stated on rows and
  copies together because a copy is taken from the row at the start and saved over it
  later: either half alone is not inductive.
- `RevocationCorrect`: `Spec => RevokedStaysCancelled`. The invariant `RevokeInv` says
  that a process whose row carries a task id works for that very task (`HolderOK`),
  that a request which still has to save the id has a row that no one else named
  (`CreatedOK`), and that a named row is reached by its own task only (`NamedOK`). Hence when the
  node processes the revoke it terminates every process that could save the row and drops
  every message for it. Steps that touch no row are handled by one frame lemma.

- `DeliveryCorrect`, `AttemptsCorrect`, `SuccessCorrect`, `OwnerCorrect` and `ProgressCorrect`: `Spec => []OneDelivery`,
  `[]AttemptsBounded`, `SuccessNotRerun`, `[]ActiveHasOwner` and `[]SingleRunProgress`. Every step has one of
  a few shapes: a process takes a message (`Takes`), moves on with its row (`Turns`), a request or canceller edits a row (`Edits`), something is
  dropped (`Drops`), or a row or tick is enqueued; each invariant is carried over each shape once.
  `DeliveryInv`: a task not delivered again is in one message or with one process that may write. `AttemptInv`: the retries a
  message has left behind bound the attempts on its row. `SuccessInv`: nothing that may still start a row finds it
  successful. `OwnerInv`: a message and a request that has created its row count as owners only while the task is not
  being revoked, because the node drops the message of a revoked task without a word to the database. Every step that leaves a row without an owner
  puts it into `abandoned` (`Unsaved`, `OwnerRaises`).
  `ProgressInv`: while a row had one attempt, only the process that made it saves counters, and what it holds agrees
  with the row.

- `CatalogTypeCorrect`: `Spec => []TypeOK` for `CameraCatalog`, and `WritersCorrect`:
  `Spec => WritersKeepApart`. Both follow from `RowsInv`: a row without `exists` has no
  `updated_at`, so no query returns it (`StampOK`); an upsert past its locking read and a task
  past its load work on rows that are there (`RowOK`, `TaskRowsOK`); and a row about to
  appear is new and known to its own transaction only (`NewRowOK`). Without the last, the
  commit of an insert could overwrite a known row, which `WritersKeepApart` forbids. There is
  one lemma per action; those that commit also say what they leave of the rows.

- `VanishingCorrect` and `DuplicatesCorrect`: `Spec => []OnlyDisplacedPagesVanish` and `Spec => []DuplicatesDeactivated` for
  `CameraCatalog`, from `DedupInv`. `StampsApart`: no two rows, transactions or tasks carry one `updated_at`, so "the newest
  row" is one row. `HeldOK`: an upsert has the lock of the row it keeps, which nobody deactivates meanwhile. `NewestActive`:
  the newest row of a page is active unless the page is `displaced`; it is the newest row, and not just some row,
  because that is the one the next upsert keeps. The attempt to prove it for any number of rows showed the
  third way into `displaced`, which two rows cannot take.

- `SyncTypeCorrect`, `RowsCorrect`, `SnapshotsCorrect` and `CountsCorrect`:
  `Spec => []TypeOK`, `Spec => []RowsMirrorLastFetch`, `Spec => SnapshotsTellChanges` and
  `Spec => BatchCountsOnce` for `Go2RTCSync`, all from `SyncInv`. `LocksOK`: the rows
  a transaction will update or delete, and the names it will insert, are locked by it and
  unchanged since. `SeenOK`: a transaction that missed no insert has listed, then locked,
  every row there is, so what it leaves is its own fetch. `AloneOK`: a transaction that ran alone
  still has the newest snapshot as its previous one, and a later time for its own. `CountsOK`: nothing is
  counted before the end. The choices `Min` and `Max` over fetch numbers, addresses and times need that
  these sets are finite; `MaxOf` is proved by a set without a greatest element that has the
  least cardinality.

- `SpreadOverTheDay`: `BeatSpec => []CountriesApart` for `BeatSchedule`. `BeatInv` says that what is loaded was made of some
  configuration by `Entries`. That each country comes once is a fact about first places (`EveryFirst`: every member of a
  sequence has one; `CodesFacts`), and that placed countries start apart one about numbers: a slot tells the place modulo
  24 × 12 as long as the step keeps the minute below 60 (`Quotient`, `SlotsApart`), and where it does not, `crontab` refuses
  (`SlotRefused`).
- `StoresAll`, `ListsOnce` and `CountersTold`: `CollectSpec => []QuietRunStoresAll`, `[]InsecamListsOnce` and
  `[]RunsTellWhatTheyStored` for `Collectors`, from `CollectInv`. `AccountOK`: unless something was given up, what was listed is what was stored
  followed by what waits to be. `CountsOK`: what was processed and what waits are the cameras listed, and what is stored is what was counted, but for
  at most one batch of a run that failed.
  `PagesOK`: Insecam has listed something exactly when it is past its first page, so that an empty page can only fail the run there.
  `QuietOK` is the one that says how far a run has come: while nothing shifted and nothing was given up, the list
  consists of the members of the site at the places the run has passed (`Passed`), in order, and when it has ended, at all the places
  within its reach. Each page adds the places of its slice (`PagePlaces`), less those that cannot play; Insecam's last page, which
  may be the first one shown again, adds none (`QuietPage`). What an excerpt contains and that it keeps the order
  is `ExcerptFacts`, which rests on the rank of a place among finitely many (`RankFacts`). Assumed (`CollectorsAssumption`): a source that
  stands still lists each of its cameras once; shifts may still show one twice to a run.
- `MarkersTypeCorrect` and `ShownCorrect`: `ActSpec => []ActTypeOK` and
  `ActSpec => []RunningTasksShown` for `TaskActivity`, from `ActInv`. `SharedOK` says that a marker of two
  running tasks is `shared`; without it the end of one would take the marker of the other. `PurgedOK`: the map a page is about
  to save is the one it loaded, less markers that had expired by then. Every other loss of a marker is a save from
  a map that is not the stored one, and such a save puts what it drops into `overwritten`.
- `WellTyped`: `Spec => []TypeOK` for `MCScrapeTask`. The four sides share no variable, so a step of the whole is a step or a
  stutter of each (`SidesAlone`), and what is proved of a side alone holds of it here.

- `GeoTypeCorrect`, `OneFetchCorrect`, `FirstLoopCorrect`, `OverwrittenOnlyAcross` and `PlaceLostCorrect`:
  `GeoSpec => []GeoTypeOK`, `[]OneFetchPerProcess`, `[]FirstLoopLocksLoseNone`, `PlaceOverwrittenOnlyAcross` and
  `PlaceLostOnlyByGeocoder` for `GeoCache`, all from `GeoInv`. `HolderOK`: a coroutine past the lock of its query holds
  it. `LineOK`: the waiters of a lock wait for that very query, each once; without it the release could hand the lock to a
  coroutine that is past it already. `OvertakenOK`: a row that exists during a fetch of its query was
  written or deleted by another process. `BlankOK`: every miss goes back to the geocoder, and a coroutine leaves a candidate behind
  only after a miss. `LoopOK`: a lock is bound to a loop the process has had. `KeyOK`: a coroutine about
  to save the hits of a row finds that very row, unless it is `hurt`. A coroutine that moves alone (`SoloMove`), one
  that answers and hands its lock on (`AnsweredInv`, `LeaveInv`) and a task that begins or ends (`TaskMove`) are three lemmas that the actions
  share.

- `CacheTypeCorrect`, `FreshCorrect` and `Refinement`: `Spec => []TypeOK`, `[]LiveEntriesFresh` and `ImplementsFreshReads` for
  `CacheGenerations`, from `CacheInv`. `BudgetOK`: a generation plus the bumps pending for it never exceeds the
  writes begun, which bounds every generation. For a view whose generation has not gone backwards, `KeysOK` says that no entry and
  no call has a key later than the current generation; `FreshOK` that what is read or stored for the current one has all
  that was announced; `WritersOK` that a write on its own still has the bump to do, or that everything for the current key was
  read after it; `FirstOK` the same of the write that found no generation and is about to store 1, for every later key, since it may
  repeat one; and `CallsOK` that nothing held for the key of a call is older than the call may get. The refinement maps a
  call to what it has been promised and answered: every action is a commit, a call, an answer or a stutter of `FreshReads`.

- `BoardTypeCorrect`, `TiesCorrect`, `ShownItemsCorrect` and `ImportsCorrect`: `BoardSpec => []BoardTypeOK`, `[]TiesOnlyFromOverlap`,
  `[]WrittenItemsShown` and `[]ImportsTold` for `GridBoard`, from `BoardInv` and `SyncInv`. `PlacesOK`: a count that nobody has overtaken is
  still the count, and every place is below it but for the late ones; so a new item that is not late ties with none. `HoldingOK`: what
  a request remembers of its instance agrees with the row unless it was edited (`moved`) or deleted (`orphan`). `ImportsOK`:
  while an import runs, the rows counted and those left make up the file, and the list of its syncs names what it
  upserted so far, each once, with 0 in place of an instance that was deleted. `SyncInv`: an unsynced instance exists and is on the list of a
  running import, unless it was dropped.

- `SidebarCorrect`: `SidebarSpec => []SidebarRight` for `InstanceGroups`, in `Manager_proofs`. A view is shown in one step, so the
  work is in what that step computes. A map of parents is a `Forest` when a height proves that its paths end; then `Root` is
  defined (`RootFacts`), a union makes a forest again and moves exactly the nodes of one root (`UnionFacts`), and uniting keys joins these
  and no others (`Joins`, `UniteJoins`). After all addresses two instances have one root exactly when no set closed under sharing an address
  divides them (`RootsFacts`), whatever the order of the addresses. A dictionary of lists parts its keys by their marks (`Parting`,
  `MarkedFacts`), the three kinds of groups are apart (`JoinedParting`), and another order of the groups or of the members of a
  group parts them as before (`RearrangedParting`, `ResortedParting`). That a sort rearranges needs that its keys are ordered, hence that the
  keys of one sort mode are of one length (`InstanceKeys`, `GroupKeys`, `SortRearranges`). The pages up to one and the next page are the pages
  up to the next one (`PageJoins`), so they divide the groups (`PagesDivide`), and the first group of a selected instance is on the page
  computed for it (`FoundOnPage`).
- `DiffCorrect`: `DiffSpec => []DiffTellsChanges` for `ConfigDiff`. A recursive definition whose recursion descends in a natural number has a
  solution (`FixedPoint`), so both walks are functions on all pairs of trees (`WalksEnd`). `SummaryRight` and `RowsRight` of a pair follow
  from those of its parts (`SummaryStep`, `RowsStep`): what is told of different keys is told at different paths, and trees of one shape of
  which nothing is told have the same keys and the same parts (`NothingTold`). `WalksRight` puts these together by the least depth at which
  one could fail.
- `ManagerRight`: `Spec => []SidebarRight /\ []DiffTellsChanges` and the four properties of `GridBoard` for `MCGridBoard`, the
  specification that the run `board` checks: a step of the three together is a step or a stutter of each (`ManagerAlone`).

What the two need of the code (`GroupsAssumption`, `DiffAssumption`): instances have keys above 0, different names (`models.py:138`) and different places in the list, every
address occurs in the order in which a process meets them, fleets and objects are finite, and a part of a configuration is nested less deep than
the whole.

How recursion is proved about. The induction theorems of the library take an operator as a parameter, which the provers here cannot
instantiate; the proofs use least numbers instead (`LeastNatural`, `AllNumbers` for a set of numbers), state a recursive definition as a
function that is a fixed point, and show that there is one (`Iterates`, `FixedPoint`). Folds take an operator as well, so that the lists
of `Collectors`, `BeatSchedule` and `InstanceGroups` are excerpts by a set of places (`Excerpts`); the one fold used, `FlattenSeq`, is
unfolded once (`FlattenSteps`).

Only model-checked: the liveness properties `EnqueuedSettles`, `UpsertsEnd`, `SyncsEnd`, `EventuallyCurrent` and `TasksEnd`. They rest on
fairness and `ENABLED`, which the prover does not handle. Every safety property of a passing run is proved.

## Findings

- The active check and the create of a row are separate statements, so two submissions
  can both pass it; `views.py:168` says the check avoids duplicate concurrent runs
  (run `duplicate_runs`).
- Two upserts of a page that already has duplicates can deactivate each other's row: the
  second gets the lock of the row it saw as the newest, does not notice that it was deactivated
  meanwhile, and deactivates the row the first one kept. The page then has no active camera,
  and no scrape brings one back (run `page_lost`).
- A geolocation refresh writes back the whole `source_payload` it loaded before the
  geocoder answered, over one that a scrape stored meanwhile (run `payload_lost`).
- When the lookup of changed addresses finds nothing, their hash is stored beside the
  location of the old ones, and as it now matches no sync looks again; the comment in
  `sync_go2rtc_instance` says fresh location data is preserved when DNS records rotate (run
  `stale_location`).

Noticed while reading, without a run of their own:

- `BulkAddGo2RTCStreamsView` binds `_` to the flag of `upsert_go2rtc_grid_item` (`views.py:1185`), which makes the
  translation function a local name: after the last item it raises a `TypeError` (1198) with all items written and neither message
  nor audit entry, and an invalid form raises an `UnboundLocalError` (1172). Modelled as `unreported`.
- The docstring of `import_go2rtc_instances` (`services.py:430`) says that invalid rows never abort the whole import; a row that passes the import's
  checks but not the database's (a name longer than its column) does, and so does a broker that refuses the syncs (472): the rows
  before it stay, without syncs and without a report.
- What raises before the `try` of a scrape task, or in its last `mark_failed`, leaves a row that blocks its target until somebody edits it.
- A run whose upserts all fail is a `SUCCESS` with nothing new and nothing updated (`services.py:341`).
- `mark_running` leaves `finished_at` (`models.py:75`), so a retried job is `RUNNING` with one, against the contract in
  `.github/copilot-instructions.md:59`.
- `get_or_create_default_private_instance` names the read-only property `base_url` among its defaults, so it cannot make the missing
  instance; modelled as a request that dies.
- A grid item takes the address of the instance row its request loaded, also after the instance got another one.
- `upsert_go2rtc_grid_item` of `services_grid.py` gives no place, so items of the surveillance form share place 0.
- A retry and a redelivery share a marker id with the first run; the end of one hides the other.
- The signal of an upsert bumps generations before its commit, the deactivation of duplicates (`services.py:931`) sends no
  signal, and the map shows instances under a domain that changes of instances do not bump: each leaves
  a stale value until it expires.
- The fallback of `bump_generation` stores 1 over whatever another process stored in between. With `LocMemCache`, as in
  development, every process has generations of its own.
- The key of the location suggestions does not name their `limit` (`views.py:1527`).
- A minute step above 5 with enough countries keeps the application from loading.
- `services.py:226` says Insecam is enriched while it is listed; the listing is complete before anything is enriched.
- The `streams_*` branches of `_compare_go2rtc_groups` (364–373) are never reached, and descending names
  are not the reverse of ascending ones when one label begins another.

## Not modelled

- Users, roles, permissions and audit entries: one test or one append per request. Middleware, context processors and the
  health view: no state of their own.
- Pages, templates, static assets and the paging of tiles; texts of errors and messages.
- The admin's edits and deletions of job and camera rows, its Windy clean-up (which no row that the parser makes can
  meet), its reordering of items and its re-resolution of hosts: single statements on rows the modelled
  requests read again.
- HTML and JSON parsing, the mapping tables of WhatsUpCams, the choice of a stream or an image among the fields of an item: data
  that no property tells apart.
- The end of all coroutines of a geocoding task at once, by its soft time limit.
- The probes' and geocoders' HTTP traffic beyond its outcomes; the decoding of imported files and the form's checks of single values.

## Plan

`JobBoard`, the abstract life of a job (a status that only an owner moves), with `ScrapeJobs` shown to implement it and the step
simulation proved from `OwnerInv`; and a timing of the stream list's second cache key, once its data is part of the covered tables.
