----------------------------- MODULE ScrapeJobs -----------------------------
(***************************************************************************)
(* The life of scrape jobs in ReconEye: the operator's trigger and cancel  *)
(* requests (apps/scraping/views.py), the Celery queue, and the worker     *)
(* processes that run a job and report its progress                        *)
(* (apps/scraping/tasks.py, services.py, models.py).                       *)
(*                                                                         *)
(* A web request or a worker keeps the job it loaded as an object in its   *)
(* own memory and saves chosen fields of it back; nothing locks the row.   *)
(* So every action below is what happens between two accesses to the       *)
(* database or to the broker.                                              *)
(*                                                                         *)
(* A task is identified by the job it was enqueued for (one delay() per    *)
(* triggered row) or, for beat and the admin actions, by its tick.         *)
(***************************************************************************)
EXTENDS Integers, FiniteSets

CONSTANTS
    Jobs,        \* rows the table may come to hold
    Ticks,       \* beat or admin deliveries of a create-and-run task
    Targets,     \* (source_type, target_country_code) pairs
    Requests,    \* web threads serving TriggerScrapeView
    Cancellers,  \* web threads serving CancelScrapeView
    Workers,     \* Celery pool processes of the one worker node
    None,        \* the blank celery_task_id, and an empty slot of memory
    Source,      \* source_type of each target
    TickTarget,  \* target of each tick
    MaxRetries,  \* max_retries of the tasks
    BatchSize,   \* BATCH_SIZE of services.py
    MaxItems,    \* bound: cameras one attempt may discover
    Faults,      \* the kinds of fault a run of the model lets happen
    MaxFaults    \* bound: faults in one behaviour

FaultKinds == {"kill", "crash", "restore", "web"}

ASSUME ConstantsAssumption ==
    /\ Source \in [Targets -> {"INSECAM", "WHATSUPCAMS", "WINDY"}]
    /\ TickTarget \in [Ticks -> Targets]
    /\ Jobs \cap Ticks = {}
    /\ None \notin Jobs \cup Ticks \cup Targets
    /\ MaxRetries \in Nat
    /\ BatchSize \in Nat \ {0}
    /\ MaxItems \in Nat
    /\ Faults \subseteq FaultKinds
    /\ MaxFaults \in Nat

VARIABLES
    job,          \* the ScrapeJob table
    request,      \* progress of each trigger request
    cancel,       \* progress of each cancel request
    worker,       \* what each pool process holds in memory
    queue,        \* messages waiting in the broker, retries' countdown included
    ticked,       \* ticks already sent
    broadcast,    \* revoke commands sent and not yet seen by the worker node
    revoked,      \* the worker node's in-memory set of revoked task ids
    \* Observers: no action's guard reads them.
    attempts,     \* how often each row was marked RUNNING
    redelivered,  \* tasks whose message the broker delivered again
    abandoned,    \* rows whose process died, was terminated or could not save
    \* Bound.
    faults        \* faults so far

vars == <<job, request, cancel, worker, queue, ticked, broadcast, revoked,
          attempts, redelivered, abandoned, faults>>

Task == Jobs \cup Ticks
Message == [task : Task, retries : 0..MaxRetries]
Active == {"PENDING", "RUNNING"}
Terminal == {"SUCCESS", "FAILED", "CANCELLED"}
Counters == [found : Nat, processed : Nat, new : Nat, updated : Nat]
Zero == [found |-> 0, processed |-> 0, new |-> 0, updated |-> 0]

\* "ABSENT" is a primary key the sequence has not handed out yet.
JobRow == [status : Active \cup Terminal \cup {"ABSENT"}, target : Targets \cup {None},
           task : Task \cup {None}, started : BOOLEAN, finished : BOOLEAN,
           counts : Counters]

RequestState == [pc : {"idle", "checked", "created", "enqueued"},
                 target : Targets \cup {None}, job : Jobs \cup {None}]
CancelState == [pc : {"idle", "revoking"}, job : Jobs \cup {None}]

\* seen: items this attempt discovered; done: items it flushed.
WorkerState == [pc : {"idle", "loaded", "collecting", "streaming", "flushing",
                      "returning", "failed", "finishing"},
                msg : Message \cup {None}, job : Jobs \cup {None},
                mem : Counters, seen : Nat, done : Nat]

NoRow == [status |-> "ABSENT", target |-> None, task |-> None,
          started |-> FALSE, finished |-> FALSE, counts |-> Zero]
NoRequest == [pc |-> "idle", target |-> None, job |-> None]
NoCancel == [pc |-> "idle", job |-> None]
IdleWorker == [pc |-> "idle", msg |-> None, job |-> None,
               mem |-> Zero, seen |-> 0, done |-> 0]

Busy(w) == worker[w].pc # "idle"
\* The process is inside the try block of _run_scrape, which also covers the
\* end of the run after mark_success.
Scraping(w) == worker[w].pc \in {"collecting", "streaming", "flushing", "returning"}
\* The process may still write to its row.
Writing(w) == worker[w].pc \notin {"idle", "finishing"}

\* The process at pc, keeping only the message it will acknowledge and its job:
\* nothing after the run saves the counters.
Leave(w, pc) ==
    [IdleWorker EXCEPT !.pc = pc, !.msg = worker[w].msg, !.job = worker[w].job]

Init ==
    /\ job = [j \in Jobs |-> NoRow]
    /\ request = [r \in Requests |-> NoRequest]
    /\ cancel = [c \in Cancellers |-> NoCancel]
    /\ worker = [w \in Workers |-> IdleWorker]
    /\ queue = {} /\ ticked = {} /\ broadcast = {} /\ revoked = {}
    /\ attempts = [j \in Jobs |-> 0]
    /\ redelivered = {} /\ abandoned = {} /\ faults = 0

webVars == <<request, cancel>>
brokerVars == <<queue, ticked, broadcast, revoked>>
observers == <<attempts, redelivered, abandoned>>

Min2(a, b) == IF a < b THEN a ELSE b

(***************************************************************************)
(* The methods of ScrapeJob. Each saves only the fields it names.          *)
(***************************************************************************)
NewRow(target, task) ==
    [NoRow EXCEPT !.status = "PENDING", !.target = target, !.task = task]

\* Faulty variant: the status is left as it was.
MarkFailedKeepsStatus(j) == job' = [job EXCEPT ![j].finished = TRUE]

MarkRunning(j) == job' = [job EXCEPT ![j].status = "RUNNING", ![j].started = TRUE]
MarkSuccess(j) == job' = [job EXCEPT ![j].status = "SUCCESS", ![j].finished = TRUE]
MarkFailed(j) == job' = [job EXCEPT ![j].status = "FAILED", ![j].finished = TRUE]
MarkCancelled(j) == job' = [job EXCEPT ![j].status = "CANCELLED", ![j].finished = TRUE]

\* An access to the database that no handler of j's request or task answers
\* for: it raised and nothing was saved.
Unsaved(j) == UNCHANGED job /\ abandoned' = abandoned \cup {j}

\* Faulty variant: the batch's size replaces the counter.
UpdateCountersLosesTotal(mem, found, processed, new, updated) ==
    [found |-> IF found # 0 THEN found ELSE mem.found, processed |-> processed,
     new |-> mem.new + new, updated |-> mem.updated + updated]

\* Faulty variant: only the first discovery counts.
UpdateCountersFoundOnce(mem, found, processed, new, updated) ==
    [found |-> IF mem.found = 0 THEN found ELSE mem.found,
     processed |-> mem.processed + processed, new |-> mem.new + new,
     updated |-> mem.updated + updated]

\* update_counters on the in-memory copy: "found or self.total_found".
UpdateCounters(mem, found, processed, new, updated) ==
    [found |-> IF found # 0 THEN found ELSE mem.found,
     processed |-> mem.processed + processed,
     new |-> mem.new + new,
     updated |-> mem.updated + updated]

\* Python's round of the quotient n/d: halves go to the even neighbour.
Round(n, d) ==
    LET q == n \div d
        twice == 2 * (n % d)
    IN  IF twice > d \/ (twice = d /\ q % 2 = 1) THEN q + 1 ELSE q

\* min(100, round(100 * processed / max(found, 1)))
Ratio(row) ==
    LET of == IF row.counts.found > 1 THEN row.counts.found ELSE 1
    IN  Min2(100, Round(100 * row.counts.processed, of))

ProgressPct(row) ==
    IF row.status = "SUCCESS" /\ row.counts.found = 0 THEN 100 ELSE Ratio(row)

(***************************************************************************)
(* TriggerScrapeView.post, for a submission that passed validation.        *)
(***************************************************************************)
ActiveJobs(t) == {j \in Jobs : job[j].status \in Active /\ job[j].target = t}

CheckActive(r, t) ==
    /\ request[r].pc = "idle"
    /\ ActiveJobs(t) = {}
    /\ request' = [request EXCEPT ![r] = [pc |-> "checked", target |-> t, job |-> None]]
    /\ UNCHANGED <<job, cancel, worker, brokerVars, observers, faults>>

\* No worker answered the ping in time, or the create raised.
NoWorkersOnline(r) ==
    /\ request[r].pc = "checked"
    /\ request' = [request EXCEPT ![r] = NoRequest]
    /\ UNCHANGED <<job, cancel, worker, brokerVars, observers, faults>>

CreateJob(r) ==
    /\ request[r].pc = "checked"
    /\ \E j \in Jobs :
        /\ job[j].status = "ABSENT"
        /\ job' = [job EXCEPT ![j] = NewRow(request[r].target, None)]
        /\ request' = [request EXCEPT ![r] =
                [pc |-> "created", target |-> request[r].target, job |-> j]]
    /\ UNCHANGED <<cancel, worker, brokerVars, observers, faults>>

Enqueue(r) ==
    /\ request[r].pc = "created"
    /\ queue' = queue \cup {[task |-> request[r].job, retries |-> 0]}
    /\ request' = [request EXCEPT ![r].pc = "enqueued"]
    /\ UNCHANGED <<job, cancel, worker, ticked, broadcast, revoked, observers, faults>>

\* delay() raised; the handler's mark_failed, outside every try, may raise too.
EnqueueFails(r) ==
    /\ request[r].pc = "created"
    /\ \/ MarkFailed(request[r].job) /\ UNCHANGED abandoned
       \/ Unsaved(request[r].job)
    /\ request' = [request EXCEPT ![r] = NoRequest]
    /\ UNCHANGED <<cancel, worker, brokerVars, attempts, redelivered, faults>>

\* A save that raises leaves the task to save its id itself.
SaveTaskId(r) ==
    /\ request[r].pc = "enqueued"
    /\ \/ job' = [job EXCEPT ![request[r].job].task = request[r].job]
       \/ UNCHANGED job
    /\ request' = [request EXCEPT ![r] = NoRequest]
    /\ UNCHANGED <<cancel, worker, brokerVars, observers, faults>>

(***************************************************************************)
(* CancelScrapeView.post: read the row, broadcast the revoke, save.        *)
(***************************************************************************)
RequestCancel(c, j) ==
    /\ cancel[c].pc = "idle"
    /\ job[j].status \in Active
    /\ broadcast' = broadcast \cup ({job[j].task} \ {None})
    /\ cancel' = [cancel EXCEPT ![c] = [pc |-> "revoking", job |-> j]]
    /\ UNCHANGED <<job, request, worker, queue, ticked, revoked, observers, faults>>

SaveCancelled(c) ==
    /\ cancel[c].pc = "revoking"
    /\ \/ MarkCancelled(cancel[c].job) /\ UNCHANGED abandoned
       \/ Unsaved(cancel[c].job)
    /\ cancel' = [cancel EXCEPT ![c] = NoCancel]
    /\ UNCHANGED <<request, worker, brokerVars, attempts, redelivered, faults>>

(***************************************************************************)
(* Beat, and the admin "trigger now" actions: no row, no active check.     *)
(***************************************************************************)
Tick(t) ==
    /\ t \notin ticked
    /\ ticked' = ticked \cup {t}
    /\ queue' = queue \cup {[task |-> t, retries |-> 0]}
    /\ UNCHANGED <<job, webVars, worker, broadcast, revoked, observers, faults>>

(***************************************************************************)
(* The worker node: revocation.                                            *)
(***************************************************************************)
\* Faulty variant: revoked without terminate.
DeliverRevokeOnly(t) ==
    /\ t \in broadcast
    /\ broadcast' = broadcast \ {t}
    /\ revoked' = revoked \cup {t}
    /\ UNCHANGED <<job, webVars, worker, queue, ticked, observers, faults>>

\* The node learns of a revoke: it remembers the task and terminates the
\* processes that run it, whose message it acknowledges.
DeliverRevoke(t) ==
    /\ t \in broadcast
    /\ broadcast' = broadcast \ {t}
    /\ revoked' = revoked \cup {t}
    /\ LET hit == {w \in Workers : Busy(w) /\ worker[w].msg.task = t}
       IN  /\ worker' = [w \in Workers |-> IF w \in hit THEN IdleWorker ELSE worker[w]]
           /\ abandoned' = abandoned \cup {worker[w].job : w \in {v \in hit : Writing(v)}}
    /\ UNCHANGED <<job, webVars, queue, ticked, attempts, redelivered, faults>>

DropRevoked(m) ==
    /\ m \in queue
    /\ m.task \in revoked
    /\ queue' = queue \ {m}
    /\ UNCHANGED <<job, webVars, worker, ticked, broadcast, revoked, observers, faults>>

(***************************************************************************)
(* A pool process takes a message (acks_late: it is acknowledged at the    *)
(* end) and runs _run_existing_job or _create_and_run.                     *)
(***************************************************************************)
\* Faulty variant: the message stays deliverable while it runs.
ConsumeNothing(m) == queue' = queue
Consume(m) == queue' = queue \ {m}

MayRun(m) == m \in queue /\ m.task \notin revoked

Begin(w, m, j) ==
    /\ Consume(m)
    /\ worker' = [worker EXCEPT ![w] =
            [IdleWorker EXCEPT !.pc = "loaded", !.msg = m, !.job = j,
                               !.mem = job[j].counts]]

StartTriggered(w, m) ==
    /\ ~Busy(w)
    /\ MayRun(m) /\ m.task \in Jobs
    /\ Begin(w, m, m.task)
    /\ job' = [job EXCEPT ![m.task].task = IF @ = None THEN m.task ELSE @]
    /\ UNCHANGED <<webVars, ticked, broadcast, revoked, observers, faults>>

StartPeriodic(w, m) ==
    /\ ~Busy(w)
    /\ MayRun(m) /\ m.task \in Ticks
    /\ \E j \in Jobs :
        /\ job[j].status = "ABSENT"
        /\ Begin(w, m, j)
        /\ job' = [job EXCEPT ![j] = NewRow(TickTarget[m.task], m.task)]
    /\ UNCHANGED <<webVars, ticked, broadcast, revoked, observers, faults>>

\* What a task does before its try block raises: reading the row, saving the
\* id of the task, creating the row, or the markers of track_task_activity in
\* the cache. Nothing marks the row and nothing is retried; the message is
\* acknowledged.
StartRaises(w, m) ==
    /\ ~Busy(w)
    /\ MayRun(m)
    /\ Consume(m)
    /\ abandoned' = abandoned \cup ({m.task} \cap Jobs)
    /\ UNCHANGED <<job, webVars, worker, ticked, broadcast, revoked, attempts,
                   redelivered, faults>>

SourceOf(w) == Source[job[worker[w].job].target]

\* mark_running, then the branch of the job's source.
StartScrape(w) ==
    /\ worker[w].pc = "loaded"
    /\ MarkRunning(worker[w].job)
    /\ attempts' = [attempts EXCEPT ![worker[w].job] = @ + 1]
    /\ worker' = [worker EXCEPT ![w].pc =
            IF SourceOf(w) = "WHATSUPCAMS" THEN "streaming" ELSE "collecting"]
    /\ UNCHANGED <<webVars, brokerVars, redelivered, abandoned, faults>>

\* update_counters: change the copy in memory, save all four counters of it.
SaveCounters(w, next) ==
    /\ worker' = [worker EXCEPT ![w] = next]
    /\ job' = [job EXCEPT ![worker[w].job].counts = next.mem]
    /\ UNCHANGED <<webVars, brokerVars, observers, faults>>

\* One Insecam listing page; a page with nothing new ends the listing.
CollectPage(w) ==
    /\ worker[w].pc = "collecting"
    /\ SourceOf(w) = "INSECAM"
    /\ \E n \in (worker[w].seen + 1)..MaxItems :
        SaveCounters(w, [worker[w] EXCEPT
            !.seen = n, !.mem = UpdateCounters(@, n, 0, 0, 0)])

\* The listing is complete: Insecam's first page was not empty, Windy's
\* collect_webcams may find nothing.
FinishListing(w) ==
    /\ worker[w].pc = "collecting"
    /\ \E n \in 0..MaxItems :
        /\ SourceOf(w) = "INSECAM" => n = worker[w].seen /\ n > 0
        /\ SaveCounters(w, [worker[w] EXCEPT
                !.pc = "flushing", !.seen = n, !.mem = UpdateCounters(@, n, 0, 0, 0)])

\* _flush_batch_async: an item is new, updated, or its upsert raised.
Outcomes(size) == {o \in (0..size) \X (0..size) : o[1] + o[2] <= size}

FlushBatch(w) ==
    /\ worker[w].pc = "flushing"
    /\ worker[w].done < worker[w].seen
    /\ LET size == Min2(BatchSize, worker[w].seen - worker[w].done)
       IN  \E o \in Outcomes(size) :
            SaveCounters(w, [worker[w] EXCEPT
                !.done = @ + size,
                !.mem = UpdateCounters(@, worker[w].seen, size, o[1], o[2])])

\* WhatsUpCams: a batch is flushed as soon as it is full, the rest at the end.
StreamBatch(w) ==
    /\ worker[w].pc = "streaming"
    /\ \E size \in 1..Min2(BatchSize, MaxItems - worker[w].seen) :
        \E o \in Outcomes(size) :
            SaveCounters(w, [worker[w] EXCEPT
                !.pc = IF size = BatchSize THEN "streaming" ELSE "flushing",
                !.seen = @ + size, !.done = @ + size,
                !.mem = UpdateCounters(@, worker[w].seen + size, size, o[1], o[2])])

Succeed(w) ==
    /\ \/ worker[w].pc = "flushing" /\ worker[w].done = worker[w].seen
       \/ worker[w].pc = "streaming"
    /\ MarkSuccess(worker[w].job)
    /\ worker' = [worker EXCEPT ![w] = Leave(w, "returning")]
    /\ UNCHANGED <<webVars, brokerVars, observers, faults>>

Return(w) ==
    /\ worker[w].pc = "returning"
    /\ worker' = [worker EXCEPT ![w] = Leave(w, "finishing")]
    /\ UNCHANGED <<job, webVars, brokerVars, observers, faults>>

\* Any exception inside the try, the soft time limit included. A mark_failed
\* that raises in the handler leaves the row to the task's own handler.
Fail(w) ==
    /\ Scraping(w)
    /\ MarkFailed(worker[w].job) \/ UNCHANGED job
    /\ worker' = [worker EXCEPT ![w] = Leave(w, "failed")]
    /\ UNCHANGED <<webVars, brokerVars, observers, faults>>

\* mark_running itself raised: only the task's own handler sees it.
FailToStart(w) ==
    /\ worker[w].pc = "loaded"
    /\ worker' = [worker EXCEPT ![w] = Leave(w, "failed")]
    /\ UNCHANGED <<job, webVars, brokerVars, observers, faults>>

\* Faulty variant: one retry too many.
RetryTooOften(m) == IF m.retries <= MaxRetries THEN {[m EXCEPT !.retries = @ + 1]} ELSE {}

\* What self.retry publishes, if it does not give up.
RetryOf(m) == IF m.retries < MaxRetries THEN {[m EXCEPT !.retries = @ + 1]} ELSE {}

\* The task's handler: mark_failed once more, then self.retry, whose publish
\* may fail (the message is then rejected); a mark_failed that raises ends the
\* task without a retry.
RetryTask(w) ==
    /\ worker[w].pc = "failed"
    /\ \/ /\ MarkFailed(worker[w].job) /\ UNCHANGED abandoned
          /\ queue' = queue \cup RetryOf(worker[w].msg) \/ UNCHANGED queue
       \/ Unsaved(worker[w].job) /\ UNCHANGED queue
    /\ worker' = [worker EXCEPT ![w] = Leave(w, "finishing")]
    /\ UNCHANGED <<webVars, ticked, broadcast, revoked, attempts, redelivered, faults>>

Ack(w) ==
    /\ worker[w].pc = "finishing"
    /\ worker' = [worker EXCEPT ![w] = IdleWorker]
    /\ UNCHANGED <<job, webVars, brokerVars, observers, faults>>

(***************************************************************************)
(* Faults, at most MaxFaults of the kinds in Faults.                       *)
(***************************************************************************)
FaultOf(kind) ==
    /\ kind \in Faults
    /\ faults < MaxFaults
    /\ faults' = faults + 1

\* The hard time limit, or the pool process dies: Celery acknowledges the
\* message and no handler of the task runs.
KillWorker(w) ==
    /\ FaultOf("kill")
    /\ Busy(w)
    /\ worker' = [worker EXCEPT ![w] = IdleWorker]
    /\ abandoned' = IF Writing(w) THEN abandoned \cup {worker[w].job} ELSE abandoned
    /\ UNCHANGED <<job, webVars, brokerVars, attempts, redelivered>>

\* The worker node dies and starts again: what was not acknowledged is
\* delivered again, the revoked set and commands under way are lost. A
\* create-and-run task will make a new row and leave the old one.
CrashNode ==
    /\ FaultOf("crash")
    /\ LET held == {worker[w].msg : w \in {v \in Workers : Busy(v)}}
           left == {v \in Workers : Writing(v) /\ worker[v].msg.task \in Ticks}
       IN  /\ queue' = queue \cup held
           /\ redelivered' = redelivered \cup {m.task : m \in held}
           /\ abandoned' = abandoned \cup {worker[v].job : v \in left}
    /\ worker' = [w \in Workers |-> IdleWorker]
    /\ broadcast' = {} /\ revoked' = {}
    /\ UNCHANGED <<job, webVars, ticked, attempts>>

\* Redis restores a message not acknowledged within the visibility timeout:
\* a retry, held through its countdown and its run, can outlast it.
RestoreUnacked(w) ==
    /\ FaultOf("restore")
    /\ Busy(w)
    /\ worker[w].msg.retries > 0
    /\ queue' = queue \cup {worker[w].msg}
    /\ redelivered' = redelivered \cup {worker[w].msg.task}
    /\ UNCHANGED <<job, webVars, worker, ticked, broadcast, revoked, attempts, abandoned>>

\* A web process dies in the middle of a request.
TriggerDies(r) ==
    /\ FaultOf("web")
    /\ request[r].pc # "idle"
    /\ request' = [request EXCEPT ![r] = NoRequest]
    /\ abandoned' = IF request[r].pc = "created"
                    THEN abandoned \cup {request[r].job} ELSE abandoned
    /\ UNCHANGED <<job, cancel, worker, brokerVars, attempts, redelivered>>

CancelDies(c) ==
    /\ FaultOf("web")
    /\ cancel[c].pc = "revoking"
    /\ abandoned' = abandoned \cup {cancel[c].job}
    /\ cancel' = [cancel EXCEPT ![c] = NoCancel]
    /\ UNCHANGED <<job, request, worker, brokerVars, attempts, redelivered>>

-----------------------------------------------------------------------------
TriggerStep(r) ==
    CreateJob(r) \/ Enqueue(r) \/ EnqueueFails(r) \/ SaveTaskId(r) \/ NoWorkersOnline(r)

Attempt(w) ==
    \/ StartScrape(w) \/ CollectPage(w) \/ FinishListing(w) \/ FlushBatch(w)
    \/ StreamBatch(w) \/ Succeed(w) \/ Fail(w) \/ FailToStart(w)
    \/ Return(w) \/ RetryTask(w) \/ Ack(w)

Take(w) ==
    \E m \in queue : StartTriggered(w, m) \/ StartPeriodic(w, m) \/ StartRaises(w, m)

Revocation ==
    \/ \E t \in broadcast : DeliverRevoke(t)
    \/ \E m \in queue : DropRevoked(m)

Fault ==
    \/ CrashNode
    \/ \E w \in Workers : KillWorker(w) \/ RestoreUnacked(w)
    \/ \E r \in Requests : TriggerDies(r)
    \/ \E c \in Cancellers : CancelDies(c)

Next ==
    \/ \E r \in Requests : TriggerStep(r) \/ \E t \in Targets : CheckActive(r, t)
    \/ \E c \in Cancellers : SaveCancelled(c) \/ \E j \in Jobs : RequestCancel(c, j)
    \/ \E t \in Ticks : Tick(t)
    \/ \E w \in Workers : Take(w) \/ Attempt(w)
    \/ Revocation
    \/ Fault

Spec == Init /\ [][Next]_vars

(***************************************************************************)
(* The worker processes, the node's control loop and a web thread that has *)
(* begun a request keep running; nobody has to trigger, cancel or tick.    *)
(***************************************************************************)
Fairness ==
    /\ \A w \in Workers : WF_vars(Take(w)) /\ WF_vars(Attempt(w))
    /\ \A r \in Requests : WF_vars(TriggerStep(r))
    /\ \A c \in Cancellers : WF_vars(SaveCancelled(c))
    /\ WF_vars(Revocation)

FairSpec == Spec /\ Fairness

-----------------------------------------------------------------------------
(***************************************************************************)
(* Properties.                                                             *)
(***************************************************************************)
TypeOK ==
    /\ job \in [Jobs -> JobRow]
    /\ request \in [Requests -> RequestState]
    /\ cancel \in [Cancellers -> CancelState]
    /\ worker \in [Workers -> WorkerState]
    /\ queue \subseteq Message
    /\ ticked \subseteq Ticks
    /\ broadcast \subseteq Task /\ revoked \subseteq Task /\ redelivered \subseteq Task
    /\ abandoned \subseteq Jobs
    /\ attempts \in [Jobs -> Nat]
    /\ faults \in Nat

\* Every camera counted as new or updated was counted as processed, in the row
\* and in the copy each worker will save over it, although retries go on from
\* the row's counters and two deliveries may overwrite each other's.
CountersAgree ==
    /\ \A j \in Jobs : job[j].counts.new + job[j].counts.updated <= job[j].counts.processed
    /\ \A w \in Workers : worker[w].mem.new + worker[w].mem.updated <= worker[w].mem.processed

\* A job that was marked RUNNING at most once never shows more processed than
\* found, whichever of the three sources it scrapes, and shows 100% once it
\* succeeded, also when it found nothing. (Retries break this: they add to the
\* counters of the attempt before.)
SingleRunProgress ==
    \A j \in Jobs : attempts[j] <= 1 =>
        /\ job[j].counts.processed <= job[j].counts.found
        /\ job[j].status = "SUCCESS" => ProgressPct(job[j]) = 100

\* What may still end job j: its message, a worker's process, the request that
\* is about to enqueue it, or a cancel about to be saved.
HasOwner(j) ==
    \/ \E m \in queue : m.task = j
    \/ \E w \in Workers : Writing(w) /\ worker[w].job = j
    \/ \E r \in Requests : request[r].pc = "created" /\ request[r].job = j
    \/ \E c \in Cancellers : cancel[c].pc = "revoking" /\ cancel[c].job = j

\* A job that looks active to the trigger's check is one that something will
\* still move, whatever fails inside the run (mark_running, counters, upserts,
\* mark_success, the mark_failed of _run_scrape), in the publish of the task or
\* of its retry, or in saving the task's id. Only a process that died, and an
\* exception nothing answers for (before the task's try, or in the last
\* mark_failed or mark_cancelled), leave an active job with nobody behind it.
ActiveHasOwner ==
    \A j \in Jobs : job[j].status \in Active => j \in abandoned \/ HasOwner(j)

Deliveries(t) ==
    Cardinality({m \in queue : m.task = t})
    + Cardinality({w \in Workers : Writing(w) /\ worker[w].msg.task = t})

\* Unless the broker delivers again, at most one delivery of a task is alive:
\* a retry is published by the attempt it replaces, not beside it.
OneDelivery == \A t \in Task \ redelivered : Deliveries(t) <= 1

\* Unless the broker delivers again, a row is run at most max_retries + 1 times.
AttemptsBounded ==
    \A j \in Jobs : job[j].task \notin redelivered => attempts[j] <= MaxRetries + 1

\* Once the worker node has processed the revoke of a cancelled job's task, the
\* job stays CANCELLED: no process that still holds the row in memory, and no
\* message left in the queue, can overwrite it.
RevokedStaysCancelled ==
    [][\A j \in Jobs :
        job[j].status = "CANCELLED" /\ job[j].task \in revoked
            => job'[j].status = "CANCELLED"]_vars

\* A job that succeeded is not run again unless the broker delivers its message
\* again (late acknowledgement, visibility timeout); otherwise only the end of
\* the same attempt, or a cancel that read the row earlier, changes it.
SuccessNotRerun ==
    [][\A j \in Jobs :
        job[j].status = "SUCCESS" /\ job[j].task \notin redelivered
            => job'[j].status \in Terminal]_vars

\* A queued job comes to rest: from some moment on it is terminal, unless a
\* process working for it died or an exception nothing answers for ended its
\* task or its cancel (see ActiveHasOwner). Node crashes, failed runs, failed
\* publishes and retries only delay it.
EnqueuedSettles ==
    \A j \in Jobs : [](
        (\E m \in queue : m.task = j)
            => <>[](job[j].status \in Terminal \/ j \in abandoned))

\* views.py: the active check is there "to avoid duplicate concurrent runs".
NoDuplicateRuns ==
    \A v, w \in Workers :
        v # w /\ Scraping(v) /\ Scraping(w)
            => job[worker[v].job].target # job[worker[w].job].target
=============================================================================
