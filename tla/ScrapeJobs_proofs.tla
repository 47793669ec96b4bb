-------------------------- MODULE ScrapeJobs_proofs --------------------------
(***************************************************************************)
(* What is proved about ScrapeJobs for every value of its constants.       *)
(*                                                                         *)
(* TypeOK is not inductive by itself: a request past its create, a cancel  *)
(* past its read and a busy process hold a job in memory, and what they    *)
(* save or publish is well typed only because of that (MemoryOK).          *)
(*                                                                         *)
(* What the deliveries of the broker and the processes that handle them    *)
(* cannot do, for every value of the constants: run a task twice at once,  *)
(* run a row more often than its retries allow, run a row again that       *)
(* succeeded, leave a row active with nobody behind it, or show a progress *)
(* above what was found.                                                   *)
(*                                                                         *)
(* The proofs first put every step into one of six shapes (Turns, Takes,   *)
(* Edits, Drops and the two sends) that say what it does to the rows, the  *)
(* messages and the workers. Each property then has an inductive invariant *)
(* of its own, carried over the six shapes: DeliveryInv, AttemptInv,       *)
(* SuccessInv, OwnerInv and ProgressInv.                                   *)
(***************************************************************************)
EXTENDS ScrapeJobs, FiniteSetTheorems, TLAPS

MemoryOK ==
    /\ \A w \in Workers : Busy(w) => worker[w].msg \in Message /\ worker[w].job \in Jobs
    /\ \A r \in Requests : request[r].pc \in {"created", "enqueued"} => request[r].job \in Jobs
    /\ \A c \in Cancellers : cancel[c].pc = "revoking" => cancel[c].job \in Jobs

TypeInv == TypeOK /\ MemoryOK

LEMMA TypeInit == Init => TypeInv
  BY ConstantsAssumption
  DEF Init, TypeInv, TypeOK, MemoryOK, Busy, JobRow, NoRow, Zero, Counters, NoRequest,
      RequestState, NoCancel, CancelState, IdleWorker, WorkerState, Active, Terminal, Task

\* Replacing one row by a well-typed one keeps the table well typed.
LEMMA RowEdit ==
  ASSUME TypeOK, NEW j \in Jobs, NEW row \in JobRow, job' = [job EXCEPT ![j] = row]
  PROVE  job' \in [Jobs -> JobRow]
  BY DEF TypeOK

\* The methods that mark a row keep the table well typed.
LEMMA Marks ==
  ASSUME TypeOK, NEW j \in Jobs,
         MarkRunning(j) \/ MarkSuccess(j) \/ MarkFailed(j) \/ MarkCancelled(j)
  PROVE  job' \in [Jobs -> JobRow]
<1> DEFINE Marked(status) == [job[j] EXCEPT !.status = status, !.finished = TRUE]
           Started == [job[j] EXCEPT !.status = "RUNNING", !.started = TRUE]
<1>1. job[j] \in JobRow
  BY DEF TypeOK
<1>2. Started \in JobRow /\ \A status \in Terminal : Marked(status) \in JobRow
  BY <1>1 DEF JobRow, Active, Terminal
<1>3. CASE MarkRunning(j)
  <2>1. job' = [job EXCEPT ![j] = Started]
    BY <1>3 DEF MarkRunning, TypeOK
  <2> QED BY <2>1, <1>2, RowEdit
<1>4. CASE MarkSuccess(j) \/ MarkFailed(j) \/ MarkCancelled(j)
  <2>1. \E status \in Terminal : job' = [job EXCEPT ![j] = Marked(status)]
    BY <1>4 DEF MarkSuccess, MarkFailed, MarkCancelled, TypeOK, Terminal
  <2> QED BY <2>1, <1>2, RowEdit
<1> QED BY <1>3, <1>4

\* update_counters keeps the four counters natural numbers.
LEMMA UpdateCountersType ==
  ASSUME NEW mem \in Counters, NEW f \in Nat, NEW p \in Nat, NEW n \in Nat, NEW u \in Nat
  PROVE  UpdateCounters(mem, f, p, n, u) \in Counters
  BY DEF UpdateCounters, Counters

\* The fields that are saved one by one.
LEMMA RowFields ==
  ASSUME NEW row \in JobRow
  PROVE  /\ \A mem \in Counters : [row EXCEPT !.counts = mem] \in JobRow
         /\ \A t \in Task : [row EXCEPT !.task = t] \in JobRow
  BY DEF JobRow

\* A request or a worker that replaces what it holds in memory.
LEMMA RequestEdit ==
  ASSUME TypeInv, NEW r \in Requests, NEW q \in RequestState,
         q.pc \in {"created", "enqueued"} => q.job \in Jobs,
         request' = [request EXCEPT ![r] = q]
  PROVE  /\ request' \in [Requests -> RequestState]
         /\ \A p \in Requests :
              request'[p].pc \in {"created", "enqueued"} => request'[p].job \in Jobs
  BY DEF TypeInv, TypeOK, MemoryOK

LEMMA WorkerEdit ==
  ASSUME TypeInv, NEW w \in Workers, NEW next \in WorkerState,
         next.pc # "idle" => next.msg \in Message /\ next.job \in Jobs,
         worker' = [worker EXCEPT ![w] = next]
  PROVE  /\ worker' \in [Workers -> WorkerState]
         /\ \A v \in Workers : Busy(v)' => worker'[v].msg \in Message /\ worker'[v].job \in Jobs
  BY DEF TypeInv, TypeOK, MemoryOK, Busy

\* A worker saving its counters keeps everything well typed.
LEMMA SaveCountersType ==
  ASSUME TypeInv, NEW w \in Workers, Busy(w), NEW next \in WorkerState,
         next.pc # "idle", next.msg = worker[w].msg, next.job = worker[w].job,
         SaveCounters(w, next)
  PROVE  TypeInv'
<1> DEFINE j == worker[w].job
<1>1. j \in Jobs /\ worker[w].msg \in Message /\ next.mem \in Counters /\ job[j] \in JobRow
  BY DEF TypeInv, TypeOK, MemoryOK, Busy, WorkerState
<1>2. [job[j] EXCEPT !.counts = next.mem] \in JobRow
  BY <1>1, RowFields
<1>3. job' = [job EXCEPT ![j] = [job[j] EXCEPT !.counts = next.mem]]
  BY DEF SaveCounters
<1>4. job' \in [Jobs -> JobRow]
  BY <1>1, <1>2, <1>3, RowEdit DEF TypeInv
<1>5. worker' = [worker EXCEPT ![w] = next]
  BY DEF SaveCounters
<1>6. /\ worker' \in [Workers -> WorkerState]
      /\ \A v \in Workers : Busy(v)' => worker'[v].msg \in Message /\ worker'[v].job \in Jobs
  BY <1>1, <1>5, WorkerEdit
<1>7. UNCHANGED <<request, cancel, queue, ticked, broadcast, revoked,
                  attempts, redelivered, abandoned, faults>>
  BY DEF SaveCounters, webVars, brokerVars, observers
<1> QED BY <1>4, <1>6, <1>7 DEF TypeInv, TypeOK, MemoryOK

\* A worker that leaves its run keeps its message and its job.
LEMMA LeaveType ==
  ASSUME TypeInv, NEW w \in Workers, Busy(w),
         NEW pc \in {"returning", "failed", "finishing"},
         worker' = [worker EXCEPT ![w] = Leave(w, pc)]
  PROVE  /\ worker' \in [Workers -> WorkerState]
         /\ \A v \in Workers : Busy(v)' => worker'[v].msg \in Message /\ worker'[v].job \in Jobs
  BY DEF TypeInv, TypeOK, MemoryOK, Leave, IdleWorker, WorkerState, Busy, Zero, Counters

LEMMA TypeTrigger ==
  ASSUME TypeInv, NEW r \in Requests,
         TriggerStep(r) \/ \E t \in Targets : CheckActive(r, t)
  PROVE  TypeInv'
<1> USE DEF webVars, brokerVars, observers
<1>0. request[r] \in RequestState /\ NoRequest \in RequestState
  BY DEF TypeInv, TypeOK, NoRequest, RequestState
<1>1. CASE CreateJob(r)
  <2>1. PICK j \in Jobs :
          /\ job' = [job EXCEPT ![j] = NewRow(request[r].target, None)]
          /\ request' = [request EXCEPT ![r] =
                [pc |-> "created", target |-> request[r].target, job |-> j]]
    BY <1>1 DEF CreateJob
  <2>2. NewRow(request[r].target, None) \in JobRow
    BY <1>0 DEF RequestState, NewRow, NoRow, Zero, Counters, JobRow, Active
  <2>3. job' \in [Jobs -> JobRow]
    BY <2>1, <2>2, RowEdit DEF TypeInv
  <2>4. [pc |-> "created", target |-> request[r].target, job |-> j] \in RequestState
    BY <1>0 DEF RequestState
  <2> QED BY <1>1, <2>1, <2>3, <2>4, RequestEdit DEF CreateJob, TypeInv, TypeOK, MemoryOK, Busy
<1>2. CASE Enqueue(r)
  <2>1. request[r].job \in Jobs
    BY <1>2 DEF Enqueue, TypeInv, MemoryOK
  <2>2. [task |-> request[r].job, retries |-> 0] \in Message
    BY <2>1, ConstantsAssumption DEF Message, Task
  <2>3. [request[r] EXCEPT !.pc = "enqueued"] \in RequestState
    BY <1>0 DEF RequestState
  <2>4. request' = [request EXCEPT ![r] = [request[r] EXCEPT !.pc = "enqueued"]]
    BY <1>2 DEF Enqueue
  <2>5. [request[r] EXCEPT !.pc = "enqueued"].job \in Jobs
    BY <1>0, <2>1 DEF RequestState
  <2> QED BY <1>2, <2>2, <2>3, <2>4, <2>5, RequestEdit
       DEF Enqueue, TypeInv, TypeOK, MemoryOK, Busy
<1>3. CASE EnqueueFails(r)
  <2>1. request[r].job \in Jobs /\ NoRequest.pc = "idle"
    BY <1>3 DEF EnqueueFails, TypeInv, MemoryOK, NoRequest
  <2>2. job' \in [Jobs -> JobRow]
    BY <1>3, <2>1, Marks DEF EnqueueFails, Unsaved, TypeInv, TypeOK
  <2>3. abandoned' \subseteq Jobs
    BY <1>3, <2>1 DEF EnqueueFails, Unsaved, TypeInv, TypeOK
  <2> QED BY <1>0, <1>3, <2>1, <2>2, <2>3, RequestEdit
       DEF EnqueueFails, TypeInv, TypeOK, MemoryOK, Busy
<1>4. CASE SaveTaskId(r)
  <2> DEFINE j == request[r].job
  <2>1. j \in Jobs /\ job[j] \in JobRow /\ NoRequest.pc = "idle"
    BY <1>4 DEF SaveTaskId, TypeInv, TypeOK, MemoryOK, NoRequest
  <2>2. [job[j] EXCEPT !.task = j] \in JobRow
    BY <2>1, RowFields DEF Task
  <2>3. job' = [job EXCEPT ![j] = [job[j] EXCEPT !.task = j]] \/ job' = job
    BY <1>4 DEF SaveTaskId
  <2>4. job' \in [Jobs -> JobRow]
    BY <2>1, <2>2, <2>3, RowEdit DEF TypeInv, TypeOK
  <2> QED BY <1>0, <1>4, <2>1, <2>4, RequestEdit
       DEF SaveTaskId, TypeInv, TypeOK, MemoryOK, Busy
<1>5. CASE NoWorkersOnline(r)
  <2>1. NoRequest.pc = "idle"
    BY DEF NoRequest
  <2> QED BY <1>0, <1>5, <2>1, RequestEdit
       DEF NoWorkersOnline, TypeInv, TypeOK, MemoryOK, Busy
<1>6. ASSUME NEW t \in Targets, CheckActive(r, t) PROVE TypeInv'
  <2>1. [pc |-> "checked", target |-> t, job |-> None] \in RequestState
    BY DEF RequestState
  <2> QED BY <1>6, <2>1, RequestEdit DEF CheckActive, TypeInv, TypeOK, MemoryOK, Busy
<1> QED BY <1>1, <1>2, <1>3, <1>4, <1>5, <1>6 DEF TriggerStep

LEMMA TypeCancel ==
  ASSUME TypeInv, NEW c \in Cancellers,
         SaveCancelled(c) \/ \E j \in Jobs : RequestCancel(c, j)
  PROVE  TypeInv'
<1> USE DEF TypeInv, TypeOK, MemoryOK, CancelState, Busy, webVars, brokerVars, observers
<1>1. CASE SaveCancelled(c)
  <2>1. cancel[c].job \in Jobs /\ abandoned' \subseteq Jobs
    BY <1>1 DEF SaveCancelled, Unsaved
  <2>2. job' \in [Jobs -> JobRow]
    BY <1>1, <2>1, Marks DEF SaveCancelled, Unsaved
  <2> QED BY <1>1, <2>1, <2>2 DEF SaveCancelled, NoCancel
<1>2. ASSUME NEW j \in Jobs, RequestCancel(c, j) PROVE TypeInv'
  <2>1. {job[j].task} \ {None} \subseteq Task
    BY DEF JobRow
  <2> QED BY <1>2, <2>1 DEF RequestCancel
<1> QED BY <1>1, <1>2

LEMMA IdleOK == IdleWorker \in WorkerState /\ IdleWorker.pc = "idle"
  BY DEF IdleWorker, WorkerState, Zero, Counters

LEMMA TypeTick ==
  ASSUME TypeInv, NEW t \in Ticks, Tick(t)
  PROVE  TypeInv'
<1>1. [task |-> t, retries |-> 0] \in Message
  BY ConstantsAssumption DEF Message, Task
<1> QED BY <1>1 DEF Tick, TypeInv, TypeOK, MemoryOK, Busy, webVars, observers

LEMMA TypeRevocation ==
  ASSUME TypeInv, Revocation
  PROVE  TypeInv'
<1> USE DEF webVars, observers
<1>1. ASSUME NEW t \in broadcast, DeliverRevoke(t) PROVE TypeInv'
  <2> DEFINE hit == {w \in Workers : Busy(w) /\ worker[w].msg.task = t}
  <2>1. worker' = [w \in Workers |-> IF w \in hit THEN IdleWorker ELSE worker[w]]
    BY <1>1 DEF DeliverRevoke
  <2>2. /\ worker' \in [Workers -> WorkerState]
        /\ \A w \in Workers : Busy(w)' => worker'[w].msg \in Message /\ worker'[w].job \in Jobs
    <3> HIDE DEF hit
    <3> QED BY <2>1, IdleOK DEF TypeInv, TypeOK, MemoryOK, Busy
  <2>3. abandoned' \subseteq Jobs
    BY <1>1 DEF DeliverRevoke, TypeInv, TypeOK, MemoryOK
  <2>4. broadcast' \subseteq Task /\ revoked' \subseteq Task
    BY <1>1 DEF DeliverRevoke, TypeInv, TypeOK
  <2>5. UNCHANGED <<job, request, cancel, queue, ticked, attempts, redelivered, faults>>
    BY <1>1 DEF DeliverRevoke
  <2> QED BY <2>2, <2>3, <2>4, <2>5 DEF TypeInv, TypeOK, MemoryOK
<1>2. ASSUME NEW m \in queue, DropRevoked(m) PROVE TypeInv'
  BY <1>2 DEF DropRevoked, TypeInv, TypeOK, MemoryOK, Busy
<1> QED BY <1>1, <1>2 DEF Revocation

LEMMA TypeStart ==
  ASSUME TypeInv, NEW w \in Workers, Take(w)
  PROVE  TypeInv'
<1> USE DEF webVars, observers
<1>1. ASSUME NEW m \in Message, NEW j \in Jobs, Begin(w, m, j)
      PROVE  /\ worker' \in [Workers -> WorkerState]
             /\ \A v \in Workers : Busy(v)' => worker'[v].msg \in Message /\ worker'[v].job \in Jobs
             /\ queue' \subseteq Message
  <2> DEFINE next == [IdleWorker EXCEPT !.pc = "loaded", !.msg = m, !.job = j,
                                        !.mem = job[j].counts]
  <2>1. job[j].counts \in Counters
    BY DEF TypeInv, TypeOK, JobRow
  <2>2. next \in WorkerState /\ next.msg = m /\ next.job = j
    BY <2>1 DEF IdleWorker, WorkerState
  <2>3. worker' = [worker EXCEPT ![w] = next]
    BY <1>1 DEF Begin
  <2>4. queue' \subseteq Message
    BY <1>1 DEF Begin, Consume, TypeInv, TypeOK
  <2> HIDE DEF next
  <2> QED BY <2>2, <2>3, <2>4, WorkerEdit
<1>2. ASSUME NEW m \in queue, StartTriggered(w, m) PROVE TypeInv'
  <2> DEFINE j == m.task
             task == IF job[j].task = None THEN j ELSE job[j].task
  <2>1. m \in Message /\ j \in Jobs /\ job[j] \in JobRow
    BY <1>2 DEF StartTriggered, TypeInv, TypeOK
  <2>2. task \in Task
    BY <2>1 DEF JobRow, Task
  <2>3. [job[j] EXCEPT !.task = task] \in JobRow
    BY <2>1, <2>2, RowFields
  <2>4. job' = [job EXCEPT ![j] = [job[j] EXCEPT !.task = task]]
    BY <1>2 DEF StartTriggered
  <2>5. job' \in [Jobs -> JobRow]
    BY <2>1, <2>3, <2>4, RowEdit DEF TypeInv
  <2>6. Begin(w, m, j)
    BY <1>2 DEF StartTriggered
  <2> QED BY <1>1, <1>2, <2>1, <2>5, <2>6 DEF StartTriggered, TypeInv, TypeOK, MemoryOK
<1>3. ASSUME NEW m \in queue, StartPeriodic(w, m) PROVE TypeInv'
  <2>1. PICK j \in Jobs :
          Begin(w, m, j) /\ job' = [job EXCEPT ![j] = NewRow(TickTarget[m.task], m.task)]
    BY <1>3 DEF StartPeriodic
  <2>2. m \in Message /\ m.task \in Task /\ TickTarget[m.task] \in Targets
    BY <1>3, ConstantsAssumption DEF StartPeriodic, TypeInv, TypeOK, Task
  <2>3. NewRow(TickTarget[m.task], m.task) \in JobRow
    BY <2>2 DEF NewRow, NoRow, JobRow, Zero, Counters, Active
  <2>4. job' \in [Jobs -> JobRow]
    BY <2>1, <2>3, RowEdit DEF TypeInv
  <2> QED BY <1>1, <1>3, <2>1, <2>2, <2>4 DEF StartPeriodic, TypeInv, TypeOK, MemoryOK
<1>4. ASSUME NEW m \in queue, StartRaises(w, m) PROVE TypeInv'
  BY <1>4 DEF StartRaises, Consume, TypeInv, TypeOK, MemoryOK, Busy
<1> QED BY <1>2, <1>3, <1>4 DEF Take

LEMMA TypeFault ==
  ASSUME TypeInv, Fault
  PROVE  TypeInv'
<1> USE DEF webVars, brokerVars, FaultOf
<1>1. CASE CrashNode
  <2>1. worker' = [w \in Workers |-> IdleWorker]
    BY <1>1 DEF CrashNode
  <2>2. \A w \in Workers : ~Busy(w)'
    BY <2>1, IdleOK DEF Busy
  <2>3. queue' \subseteq Message
    BY <1>1 DEF CrashNode, TypeInv, TypeOK, MemoryOK
  <2>4. redelivered' \subseteq Task
    BY <1>1 DEF CrashNode, TypeInv, TypeOK, MemoryOK, Message
  <2>5. abandoned' \subseteq Jobs
    BY <1>1 DEF CrashNode, Writing, TypeInv, TypeOK, MemoryOK, Busy
  <2>6. broadcast' = {} /\ revoked' = {} /\ faults' = faults + 1
        /\ UNCHANGED <<job, request, cancel, ticked, attempts>>
    BY <1>1 DEF CrashNode
  <2> QED BY <2>1, <2>2, <2>3, <2>4, <2>5, <2>6, IdleOK DEF TypeInv, TypeOK, MemoryOK
<1>2. ASSUME NEW w \in Workers, KillWorker(w) PROVE TypeInv'
  <2>1. worker' = [worker EXCEPT ![w] = IdleWorker] /\ worker[w].job \in Jobs
    BY <1>2 DEF KillWorker, TypeInv, MemoryOK
  <2>2. /\ worker' \in [Workers -> WorkerState]
        /\ \A v \in Workers : Busy(v)' => worker'[v].msg \in Message /\ worker'[v].job \in Jobs
    BY <2>1, IdleOK, WorkerEdit
  <2>3. abandoned' \subseteq Jobs
    BY <1>2, <2>1 DEF KillWorker, TypeInv, TypeOK
  <2>4. faults' = faults + 1
        /\ UNCHANGED <<job, request, cancel, queue, ticked, broadcast, revoked,
                      attempts, redelivered>>
    BY <1>2 DEF KillWorker
  <2> QED BY <2>2, <2>3, <2>4 DEF TypeInv, TypeOK, MemoryOK
<1>3. ASSUME NEW w \in Workers, RestoreUnacked(w) PROVE TypeInv'
  <2>1. worker[w].msg \in Message /\ worker[w].msg.task \in Task
    BY <1>3 DEF RestoreUnacked, TypeInv, MemoryOK, Message
  <2> QED BY <1>3, <2>1 DEF RestoreUnacked, TypeInv, TypeOK, MemoryOK, Busy
<1>4. ASSUME NEW r \in Requests, TriggerDies(r) PROVE TypeInv'
  <2>1. NoRequest \in RequestState /\ NoRequest.pc = "idle"
    BY DEF NoRequest, RequestState
  <2>2. abandoned' \subseteq Jobs
    BY <1>4 DEF TriggerDies, TypeInv, TypeOK, MemoryOK
  <2> QED BY <1>4, <2>1, <2>2, RequestEdit DEF TriggerDies, TypeInv, TypeOK, MemoryOK, Busy
<1>5. ASSUME NEW c \in Cancellers, CancelDies(c) PROVE TypeInv'
  BY <1>5 DEF CancelDies, TypeInv, TypeOK, MemoryOK, Busy, NoCancel, CancelState
<1> QED BY <1>1, <1>2, <1>3, <1>4, <1>5 DEF Fault

\* The four kinds of step that save counters.
LEMMA TypeCollect ==
  ASSUME TypeInv, NEW w \in Workers,
         CollectPage(w) \/ FinishListing(w) \/ FlushBatch(w) \/ StreamBatch(w)
  PROVE  TypeInv'
<1>0. worker[w] \in WorkerState /\ worker[w].mem \in Counters
      /\ worker[w].seen \in Nat /\ worker[w].done \in Nat
      /\ BatchSize \in Nat \ {0} /\ MaxItems \in Nat
  BY ConstantsAssumption DEF TypeInv, TypeOK, WorkerState
<1>1. CASE CollectPage(w)
  <2>1. PICK n \in (worker[w].seen + 1)..MaxItems :
          SaveCounters(w, [worker[w] EXCEPT
            !.seen = n, !.mem = UpdateCounters(@, n, 0, 0, 0)])
    BY <1>1 DEF CollectPage
  <2> DEFINE mem == UpdateCounters(worker[w].mem, n, 0, 0, 0)
             next == [worker[w] EXCEPT !.seen = n, !.mem = mem]
  <2>2. n \in Nat /\ mem \in Counters
    BY <1>0, UpdateCountersType
  <2>3. Busy(w) /\ worker[w].pc = "collecting"
    BY <1>1 DEF CollectPage, Busy
  <2> HIDE DEF mem
  <2>4. /\ next \in WorkerState /\ next.pc # "idle"
        /\ next.msg = worker[w].msg /\ next.job = worker[w].job
    BY <1>0, <2>2, <2>3 DEF WorkerState
  <2>5. SaveCounters(w, next)
    BY <2>1 DEF mem
  <2> QED BY <2>3, <2>4, <2>5, SaveCountersType
<1>2. CASE FinishListing(w)
  <2>1. PICK n \in 0..MaxItems :
          SaveCounters(w, [worker[w] EXCEPT
            !.pc = "flushing", !.seen = n, !.mem = UpdateCounters(@, n, 0, 0, 0)])
    BY <1>2 DEF FinishListing
  <2> DEFINE mem == UpdateCounters(worker[w].mem, n, 0, 0, 0)
             next == [worker[w] EXCEPT !.pc = "flushing", !.seen = n, !.mem = mem]
  <2>2. n \in Nat /\ mem \in Counters
    BY <1>0, UpdateCountersType
  <2>3. Busy(w)
    BY <1>2 DEF FinishListing, Busy
  <2> HIDE DEF mem
  <2>4. /\ next \in WorkerState /\ next.pc # "idle"
        /\ next.msg = worker[w].msg /\ next.job = worker[w].job
    BY <1>0, <2>2 DEF WorkerState
  <2>5. SaveCounters(w, next)
    BY <2>1 DEF mem
  <2> QED BY <2>3, <2>4, <2>5, SaveCountersType
<1>3. CASE FlushBatch(w)
  <2> DEFINE size == Min2(BatchSize, worker[w].seen - worker[w].done)
  <2>1. PICK o \in Outcomes(size) :
          SaveCounters(w, [worker[w] EXCEPT
                !.done = @ + size,
                !.mem = UpdateCounters(@, worker[w].seen, size, o[1], o[2])])
    BY <1>3 DEF FlushBatch
  <2> DEFINE mem == UpdateCounters(worker[w].mem, worker[w].seen, size, o[1], o[2])
             done == worker[w].done + size
             next == [worker[w] EXCEPT !.done = done, !.mem = mem]
  <2>0. worker[w].done < worker[w].seen
    BY <1>3 DEF FlushBatch
  <2>2. size \in Nat /\ done \in Nat
    BY <1>0, <2>0 DEF Min2
  <2> HIDE DEF size
  <2>3. o[1] \in Nat /\ o[2] \in Nat
    BY <2>2 DEF Outcomes
  <2>4. mem \in Counters
    BY <1>0, <2>2, <2>3, UpdateCountersType
  <2>5. Busy(w) /\ worker[w].pc = "flushing"
    BY <1>3 DEF FlushBatch, Busy
  <2> HIDE DEF mem, done
  <2>6. /\ next \in WorkerState /\ next.pc # "idle"
        /\ next.msg = worker[w].msg /\ next.job = worker[w].job
    BY <1>0, <2>2, <2>4, <2>5 DEF WorkerState
  <2>7. SaveCounters(w, next)
    BY <2>1 DEF mem, done
  <2> QED BY <2>5, <2>6, <2>7, SaveCountersType
<1>4. CASE StreamBatch(w)
  <2>0. PICK size \in 1..Min2(BatchSize, MaxItems - worker[w].seen) :
          \E o \in Outcomes(size) : SaveCounters(w, [worker[w] EXCEPT
                !.pc = IF size = BatchSize THEN "streaming" ELSE "flushing",
                !.seen = @ + size, !.done = @ + size,
                !.mem = UpdateCounters(@, worker[w].seen + size, size, o[1], o[2])])
    BY <1>4 DEF StreamBatch
  <2>1. PICK o \in Outcomes(size) :
          SaveCounters(w, [worker[w] EXCEPT
                !.pc = IF size = BatchSize THEN "streaming" ELSE "flushing",
                !.seen = @ + size, !.done = @ + size,
                !.mem = UpdateCounters(@, worker[w].seen + size, size, o[1], o[2])])
    BY <2>0
  <2> DEFINE pc == IF size = BatchSize THEN "streaming" ELSE "flushing"
             mem == UpdateCounters(worker[w].mem, worker[w].seen + size, size, o[1], o[2])
             seen == worker[w].seen + size
             done == worker[w].done + size
             next == [worker[w] EXCEPT !.pc = pc, !.seen = seen, !.done = done, !.mem = mem]
  <2>2. size \in Nat /\ seen \in Nat /\ done \in Nat
    BY <1>0
  <2>3. o[1] \in Nat /\ o[2] \in Nat
    BY <2>2 DEF Outcomes
  <2>4. mem \in Counters
    BY <1>0, <2>2, <2>3, UpdateCountersType
  <2>5. Busy(w) /\ pc \in {"streaming", "flushing"}
    BY <1>4 DEF StreamBatch, Busy
  <2> HIDE DEF mem, pc, seen, done
  <2>6. /\ next \in WorkerState /\ next.pc # "idle"
        /\ next.msg = worker[w].msg /\ next.job = worker[w].job
    BY <1>0, <2>2, <2>4, <2>5 DEF WorkerState
  <2>7. SaveCounters(w, next)
    BY <2>1 DEF mem, pc, seen, done
  <2> QED BY <2>5, <2>6, <2>7, SaveCountersType
<1> QED BY <1>1, <1>2, <1>3, <1>4

LEMMA TypeAttempt ==
  ASSUME TypeInv, NEW w \in Workers, Attempt(w)
  PROVE  TypeInv'
<1> USE DEF webVars, brokerVars, observers
<1>0. Busy(w) => worker[w].job \in Jobs /\ worker[w].msg \in Message
  BY DEF TypeInv, MemoryOK
<1>1. CASE StartScrape(w)
  <2> DEFINE pc == IF SourceOf(w) = "WHATSUPCAMS" THEN "streaming" ELSE "collecting"
             next == [worker[w] EXCEPT !.pc = pc]
  <2>1. Busy(w) /\ pc \in {"streaming", "collecting"} /\ worker' = [worker EXCEPT ![w] = next]
    BY <1>1 DEF StartScrape, Busy
  <2> HIDE DEF pc
  <2>2. next \in WorkerState /\ next.msg = worker[w].msg /\ next.job = worker[w].job
    BY <2>1 DEF TypeInv, TypeOK, WorkerState
  <2> HIDE DEF next
  <2>3. /\ worker' \in [Workers -> WorkerState]
        /\ \A v \in Workers : Busy(v)' => worker'[v].msg \in Message /\ worker'[v].job \in Jobs
    BY <1>0, <2>1, <2>2, WorkerEdit
  <2>4. job' \in [Jobs -> JobRow]
    BY <1>0, <1>1, <2>1, Marks DEF StartScrape, TypeInv
  <2>5. attempts' \in [Jobs -> Nat]
    <3> DEFINE n == attempts[worker[w].job] + 1
    <3>1. attempts' = [attempts EXCEPT ![worker[w].job] = n]
      BY <1>1 DEF StartScrape
    <3>2. attempts \in [Jobs -> Nat] /\ n \in Nat
      BY <1>0, <2>1 DEF TypeInv, TypeOK
    <3> HIDE DEF n
    <3> QED BY <3>1, <3>2
  <2>6. UNCHANGED <<request, cancel, queue, ticked, broadcast, revoked,
                    redelivered, abandoned, faults>>
    BY <1>1 DEF StartScrape
  <2> QED BY <2>3, <2>4, <2>5, <2>6 DEF TypeInv, TypeOK, MemoryOK
<1>2. CASE CollectPage(w) \/ FinishListing(w) \/ FlushBatch(w) \/ StreamBatch(w)
  BY <1>2, TypeCollect
<1>3. CASE Succeed(w) \/ Fail(w)
  <2>1. Busy(w)
    BY <1>3 DEF Succeed, Fail, Scraping, Busy
  <2>2. job' \in [Jobs -> JobRow]
    BY <1>0, <1>3, <2>1, Marks DEF Succeed, Fail, TypeInv, TypeOK
  <2>3. /\ worker' \in [Workers -> WorkerState]
        /\ \A v \in Workers : Busy(v)' => worker'[v].msg \in Message /\ worker'[v].job \in Jobs
    BY <1>3, <2>1, LeaveType DEF Succeed, Fail
  <2>4. UNCHANGED <<request, cancel, queue, ticked, broadcast, revoked,
                    attempts, redelivered, abandoned, faults>>
    BY <1>3 DEF Succeed, Fail
  <2> QED BY <2>2, <2>3, <2>4 DEF TypeInv, TypeOK, MemoryOK
<1>4. CASE Return(w) \/ FailToStart(w)
  <2>1. Busy(w)
    BY <1>4 DEF Return, FailToStart, Busy
  <2>2. /\ worker' \in [Workers -> WorkerState]
        /\ \A v \in Workers : Busy(v)' => worker'[v].msg \in Message /\ worker'[v].job \in Jobs
    BY <1>4, <2>1, LeaveType DEF Return, FailToStart
  <2>3. UNCHANGED <<job, request, cancel, queue, ticked, broadcast, revoked,
                    attempts, redelivered, abandoned, faults>>
    BY <1>4 DEF Return, FailToStart
  <2> QED BY <2>2, <2>3 DEF TypeInv, TypeOK, MemoryOK
<1>5. CASE RetryTask(w)
  <2>1. Busy(w)
    BY <1>5 DEF RetryTask, Busy
  <2>2. RetryOf(worker[w].msg) \subseteq Message
    BY <1>0, <2>1, ConstantsAssumption DEF RetryOf, Message
  <2>3. job' \in [Jobs -> JobRow]
    BY <1>0, <1>5, <2>1, Marks DEF RetryTask, Unsaved, TypeInv, TypeOK
  <2>4. /\ worker' \in [Workers -> WorkerState]
        /\ \A v \in Workers : Busy(v)' => worker'[v].msg \in Message /\ worker'[v].job \in Jobs
    BY <1>5, <2>1, LeaveType DEF RetryTask
  <2>5. queue' \subseteq Message /\ abandoned' \subseteq Jobs
        /\ UNCHANGED <<request, cancel, ticked, broadcast, revoked,
                      attempts, redelivered, faults>>
    BY <1>0, <1>5, <2>1, <2>2 DEF RetryTask, Unsaved, TypeInv, TypeOK
  <2> QED BY <2>3, <2>4, <2>5 DEF TypeInv, TypeOK, MemoryOK
<1>6. CASE Ack(w)
  <2>1. /\ worker' \in [Workers -> WorkerState]
        /\ \A v \in Workers : Busy(v)' => worker'[v].msg \in Message /\ worker'[v].job \in Jobs
    BY <1>6, IdleOK, WorkerEdit DEF Ack
  <2>2. UNCHANGED <<job, request, cancel, queue, ticked, broadcast, revoked,
                    attempts, redelivered, abandoned, faults>>
    BY <1>6 DEF Ack
  <2> QED BY <2>1, <2>2 DEF TypeInv, TypeOK, MemoryOK
<1> QED BY <1>1, <1>2, <1>3, <1>4, <1>5, <1>6 DEF Attempt

LEMMA TypeNext == TypeInv /\ [Next]_vars => TypeInv'
<1> SUFFICES ASSUME TypeInv, [Next]_vars PROVE TypeInv'
  OBVIOUS
<1>1. ASSUME NEW r \in Requests, TriggerStep(r) \/ \E t \in Targets : CheckActive(r, t)
      PROVE  TypeInv'
  BY <1>1, TypeTrigger
<1>2. ASSUME NEW c \in Cancellers, SaveCancelled(c) \/ \E j \in Jobs : RequestCancel(c, j)
      PROVE  TypeInv'
  BY <1>2, TypeCancel
<1>3. ASSUME NEW t \in Ticks, Tick(t) PROVE TypeInv'
  BY <1>3, TypeTick
<1>4. ASSUME NEW w \in Workers, Take(w) \/ Attempt(w) PROVE TypeInv'
  BY <1>4, TypeStart, TypeAttempt
<1>5. CASE Revocation \/ Fault
  BY <1>5, TypeRevocation, TypeFault
<1>6. CASE UNCHANGED vars
  BY <1>6 DEF vars, TypeInv, TypeOK, MemoryOK, Busy
<1> QED BY <1>1, <1>2, <1>3, <1>4, <1>5, <1>6 DEF Next

\* Type correctness: whatever the requests, workers, retries, revocations and
\* faults do, every row keeps a legal status, a legal task id and natural
\* counters, and nothing but well-formed messages is queued.
THEOREM TypeCorrect == Spec => []TypeOK
<1>1. TypeInv => TypeOK
  BY DEF TypeInv
<1> QED BY <1>1, TypeInit, TypeNext, PTL DEF Spec

-----------------------------------------------------------------------------
(***************************************************************************)
(* The counters. Every step but a flush copies counters from one place to  *)
(* another or starts from zero; a flush adds to processed at least what it *)
(* adds to new and updated.                                                *)
(***************************************************************************)
Agree(c) == c.new + c.updated <= c.processed

Copied == {job[j].counts : j \in Jobs} \cup {worker[w].mem : w \in Workers} \cup {Zero}

LEMMA AgreeCopied ==
  ASSUME CountersAgree,
         \A j \in Jobs : job'[j].counts \in Copied,
         \A w \in Workers : worker'[w].mem \in Copied
  PROVE  CountersAgree'
<1>1. \A c \in Copied : Agree(c)
  BY DEF CountersAgree, Copied, Agree, Zero
<1>2. /\ \A j \in Jobs : Agree(job'[j].counts)
      /\ \A w \in Workers : Agree(worker'[w].mem)
  BY <1>1
<1> QED BY <1>2 DEF CountersAgree, Agree

LEMMA AgreeSave ==
  ASSUME TypeInv, CountersAgree, NEW w \in Workers, NEW next \in WorkerState,
         Agree(next.mem), SaveCounters(w, next)
  PROVE  CountersAgree'
<1>1. worker' = [worker EXCEPT ![w] = next] /\ worker \in [Workers -> WorkerState]
  BY DEF SaveCounters, TypeInv, TypeOK
<1>2. /\ job' = [job EXCEPT ![worker[w].job] = [job[worker[w].job] EXCEPT !.counts = next.mem]]
      /\ job \in [Jobs -> JobRow]
  BY DEF SaveCounters, TypeInv, TypeOK
<1>3. \A v \in Workers : worker'[v].mem = next.mem \/ worker'[v].mem = worker[v].mem
  BY <1>1
<1>4. \A j \in Jobs : job'[j].counts = next.mem \/ job'[j].counts = job[j].counts
  BY <1>2 DEF JobRow
<1>5. /\ \A j \in Jobs : Agree(job'[j].counts)
      /\ \A v \in Workers : Agree(worker'[v].mem)
  BY <1>3, <1>4 DEF CountersAgree, Agree
<1> QED BY <1>5 DEF CountersAgree, Agree

\* The methods that mark a row, and the edits of its task id, leave the counters.
LEMMA MarksKeepCounts ==
  ASSUME TypeInv, NEW j \in Jobs,
         \/ MarkRunning(j) \/ MarkSuccess(j) \/ MarkFailed(j) \/ MarkCancelled(j)
         \/ \E t \in Task : job' = [job EXCEPT ![j].task = t]
  PROVE  \A i \in Jobs : job'[i].counts = job[i].counts
  BY DEF MarkRunning, MarkSuccess, MarkFailed, MarkCancelled, TypeInv, TypeOK, JobRow

\* A row that is created starts from zero.
LEMMA NewRowCounts ==
  ASSUME TypeInv, NEW j \in Jobs, NEW target, NEW task,
         job' = [job EXCEPT ![j] = NewRow(target, task)]
  PROVE  \A i \in Jobs : job'[i].counts \in {job[i].counts, Zero}
<1>1. NewRow(target, task).counts = Zero
  BY DEF NewRow, NoRow
<1> QED BY <1>1 DEF TypeInv, TypeOK

LEMMA CountersInit == Init => CountersAgree
  BY DEF Init, CountersAgree, NoRow, IdleWorker, Zero

LEMMA CountersWeb ==
  ASSUME TypeInv, CountersAgree,
         \/ \E r \in Requests : TriggerStep(r) \/ \E t \in Targets : CheckActive(r, t)
         \/ \E c \in Cancellers : SaveCancelled(c) \/ \E j \in Jobs : RequestCancel(c, j)
         \/ \E t \in Ticks : Tick(t)
  PROVE  CountersAgree'
<1>1. \A j \in Jobs : job'[j].counts \in {job[j].counts, Zero}
  <2>1. ASSUME NEW r \in Requests, CreateJob(r)
        PROVE  \A j \in Jobs : job'[j].counts \in {job[j].counts, Zero}
    <3>1. \E i \in Jobs : job' = [job EXCEPT ![i] = NewRow(request[r].target, None)]
      BY <2>1 DEF CreateJob
    <3> QED BY <3>1, NewRowCounts
  <2>2. ASSUME NEW r \in Requests, EnqueueFails(r) \/ SaveTaskId(r)
        PROVE  \A j \in Jobs : job'[j].counts \in {job[j].counts, Zero}
    BY <2>2, MarksKeepCounts DEF EnqueueFails, SaveTaskId, Unsaved, TypeInv, MemoryOK, Task
  <2>3. ASSUME NEW c \in Cancellers, SaveCancelled(c)
        PROVE  \A j \in Jobs : job'[j].counts \in {job[j].counts, Zero}
    BY <2>3, MarksKeepCounts DEF SaveCancelled, Unsaved, TypeInv, MemoryOK
  <2> QED BY <2>1, <2>2, <2>3
       DEF TriggerStep, Enqueue, NoWorkersOnline, CheckActive, RequestCancel, Tick
<1>2. UNCHANGED worker
  BY DEF TriggerStep, CreateJob, Enqueue, EnqueueFails, SaveTaskId, NoWorkersOnline,
         CheckActive, SaveCancelled, RequestCancel, Tick
<1> QED BY <1>1, <1>2, AgreeCopied DEF Copied

LEMMA CountersStart ==
  ASSUME TypeInv, CountersAgree, NEW w \in Workers, Take(w)
  PROVE  CountersAgree'
<1>1. PICK m \in queue : StartTriggered(w, m) \/ StartPeriodic(w, m) \/ StartRaises(w, m)
  BY DEF Take
<1>2. ASSUME NEW j \in Jobs, Begin(w, m, j)
      PROVE  \A v \in Workers : worker'[v].mem \in Copied
  <2>1. [IdleWorker EXCEPT !.pc = "loaded", !.msg = m, !.job = j, !.mem = job[j].counts].mem
          = job[j].counts
    BY DEF IdleWorker
  <2> QED BY <1>2, <2>1 DEF Begin, Copied, TypeInv, TypeOK
<1>3. CASE StartTriggered(w, m)
  <2> DEFINE j == m.task
             task == IF job[j].task = None THEN j ELSE job[j].task
  <2>1. \A i \in Jobs : job'[i].counts = job[i].counts
    <3>1. j \in Jobs /\ job[j] \in JobRow /\ job' = [job EXCEPT ![j].task = task]
      BY <1>3 DEF StartTriggered, TypeInv, TypeOK
    <3>2. task \in Task
      BY <3>1 DEF JobRow, Task
    <3> HIDE DEF task, j
    <3> QED BY <3>1, <3>2, MarksKeepCounts
  <2> QED BY <1>2, <1>3, <2>1, AgreeCopied DEF StartTriggered, Copied
<1>4. CASE StartPeriodic(w, m)
  <2>1. PICK j \in Jobs :
          Begin(w, m, j) /\ job' = [job EXCEPT ![j] = NewRow(TickTarget[m.task], m.task)]
    BY <1>4 DEF StartPeriodic
  <2>2. \A i \in Jobs : job'[i].counts \in {job[i].counts, Zero}
    BY <2>1, NewRowCounts
  <2> QED BY <1>2, <2>1, <2>2, AgreeCopied DEF Copied
<1>5. CASE StartRaises(w, m)
  BY <1>5 DEF StartRaises, CountersAgree
<1> QED BY <1>1, <1>3, <1>4, <1>5

\* update_counters keeps counters that agree in agreement when a batch counts
\* no more cameras as new or updated than as processed.
LEMMA UpdateCountersAgree ==
  ASSUME NEW mem \in Counters, Agree(mem), NEW f, NEW p \in Nat, NEW n \in Nat, NEW u \in Nat,
         n + u <= p
  PROVE  Agree(UpdateCounters(mem, f, p, n, u))
  BY DEF UpdateCounters, Counters, Agree

LEMMA CountersAttempt ==
  ASSUME TypeInv, CountersAgree, NEW w \in Workers, Attempt(w)
  PROVE  CountersAgree'
<1>0. worker[w] \in WorkerState /\ worker[w].mem \in Counters /\ Agree(worker[w].mem)
      /\ worker[w].seen \in Nat /\ worker[w].done \in Nat
      /\ BatchSize \in Nat \ {0} /\ MaxItems \in Nat
  BY ConstantsAssumption DEF TypeInv, TypeOK, WorkerState, CountersAgree, Agree
<1>1. ASSUME NEW next \in WorkerState, Agree(next.mem), SaveCounters(w, next)
      PROVE  CountersAgree'
  BY <1>1, AgreeSave
<1>2. CASE CollectPage(w)
  <2>1. PICK n \in (worker[w].seen + 1)..MaxItems :
          SaveCounters(w, [worker[w] EXCEPT
            !.seen = n, !.mem = UpdateCounters(@, n, 0, 0, 0)])
    BY <1>2 DEF CollectPage
  <2> DEFINE mem == UpdateCounters(worker[w].mem, n, 0, 0, 0)
  <2>0. n \in Nat
    BY <1>0
  <2>2. mem \in Counters /\ Agree(mem)
    <3>1. mem \in Counters
      BY <1>0, <2>0, UpdateCountersType
    <3>2. 0 \in Nat /\ 0 + 0 <= 0
      OBVIOUS
    <3>3. Agree(mem)
      BY <1>0, <3>2, UpdateCountersAgree
    <3> QED BY <3>1, <3>3
  <2>3. SaveCounters(w, [worker[w] EXCEPT !.seen = n, !.mem = mem])
    BY <2>1
  <2> HIDE DEF mem
  <2>4. /\ [worker[w] EXCEPT !.seen = n, !.mem = mem] \in WorkerState
        /\ [worker[w] EXCEPT !.seen = n, !.mem = mem].mem = mem
    BY <1>0, <2>0, <2>2 DEF WorkerState
  <2> QED BY <1>1, <2>2, <2>3, <2>4
<1>3. CASE FinishListing(w)
  <2>1. PICK n \in 0..MaxItems :
          SaveCounters(w, [worker[w] EXCEPT
            !.pc = "flushing", !.seen = n, !.mem = UpdateCounters(@, n, 0, 0, 0)])
    BY <1>3 DEF FinishListing
  <2> DEFINE mem == UpdateCounters(worker[w].mem, n, 0, 0, 0)
             next == [worker[w] EXCEPT !.pc = "flushing", !.seen = n, !.mem = mem]
  <2>2. n \in Nat /\ mem \in Counters /\ Agree(mem)
    BY <1>0, UpdateCountersType, UpdateCountersAgree
  <2>3. SaveCounters(w, next)
    BY <2>1
  <2> HIDE DEF mem
  <2>4. next \in WorkerState /\ next.mem = mem
    BY <1>0, <2>2 DEF WorkerState
  <2> QED BY <1>1, <2>2, <2>3, <2>4
<1>4. CASE FlushBatch(w)
  <2> DEFINE size == Min2(BatchSize, worker[w].seen - worker[w].done)
             done == worker[w].done + size
  <2>1. PICK o \in Outcomes(size) :
          SaveCounters(w, [worker[w] EXCEPT
                !.done = @ + size,
                !.mem = UpdateCounters(@, worker[w].seen, size, o[1], o[2])])
    BY <1>4 DEF FlushBatch
  <2> DEFINE mem == UpdateCounters(worker[w].mem, worker[w].seen, size, o[1], o[2])
             next == [worker[w] EXCEPT !.done = done, !.mem = mem]
  <2>2. worker[w].done < worker[w].seen
    BY <1>4 DEF FlushBatch
  <2>3. size \in Nat /\ done \in Nat
    BY <1>0, <2>2 DEF Min2
  <2> HIDE DEF size
  <2>4. o[1] \in Nat /\ o[2] \in Nat /\ o[1] + o[2] <= size
    BY <2>3 DEF Outcomes
  <2>5. mem \in Counters /\ Agree(mem)
    BY <1>0, <2>3, <2>4, UpdateCountersType, UpdateCountersAgree
  <2>6. SaveCounters(w, next)
    BY <2>1
  <2> HIDE DEF mem, done
  <2>7. next \in WorkerState /\ next.mem = mem
    BY <1>0, <2>3, <2>5 DEF WorkerState
  <2> QED BY <1>1, <2>5, <2>6, <2>7
<1>5. CASE StreamBatch(w)
  <2>1. PICK size \in 1..Min2(BatchSize, MaxItems - worker[w].seen) :
          \E o \in Outcomes(size) : SaveCounters(w, [worker[w] EXCEPT
                !.pc = IF size = BatchSize THEN "streaming" ELSE "flushing",
                !.seen = @ + size, !.done = @ + size,
                !.mem = UpdateCounters(@, worker[w].seen + size, size, o[1], o[2])])
    BY <1>5 DEF StreamBatch
  <2> DEFINE pc == IF size = BatchSize THEN "streaming" ELSE "flushing"
             seen == worker[w].seen + size
             done == worker[w].done + size
  <2>2. PICK o \in Outcomes(size) :
          SaveCounters(w, [worker[w] EXCEPT
                !.pc = pc, !.seen = seen, !.done = done,
                !.mem = UpdateCounters(@, seen, size, o[1], o[2])])
    BY <2>1
  <2> DEFINE mem == UpdateCounters(worker[w].mem, seen, size, o[1], o[2])
             next == [worker[w] EXCEPT !.pc = pc, !.seen = seen, !.done = done, !.mem = mem]
  <2>3. size \in Nat /\ seen \in Nat /\ done \in Nat /\ pc \in {"streaming", "flushing"}
    BY <1>0
  <2>4. o[1] \in Nat /\ o[2] \in Nat /\ o[1] + o[2] <= size
    BY <2>3 DEF Outcomes
  <2>5. mem \in Counters /\ Agree(mem)
    BY <1>0, <2>3, <2>4, UpdateCountersType, UpdateCountersAgree
  <2>6. SaveCounters(w, next)
    BY <2>2
  <2> HIDE DEF mem, pc, seen, done
  <2>7. next \in WorkerState /\ next.mem = mem
    BY <1>0, <2>3, <2>5 DEF WorkerState
  <2> QED BY <1>1, <2>5, <2>6, <2>7
<1>6. CASE StartScrape(w)
  <2>1. \A j \in Jobs : job'[j].counts = job[j].counts
    BY <1>6, MarksKeepCounts DEF StartScrape, TypeInv, MemoryOK, Busy
  <2>2. \A v \in Workers : worker'[v].mem = worker[v].mem
    BY <1>6 DEF StartScrape, TypeInv, TypeOK, WorkerState
  <2> QED BY <2>1, <2>2, AgreeCopied DEF Copied
<1>7. CASE Succeed(w) \/ Fail(w) \/ RetryTask(w) \/ Return(w) \/ FailToStart(w) \/ Ack(w)
  <2>1. \A j \in Jobs : job'[j].counts = job[j].counts
    BY <1>7, MarksKeepCounts
    DEF Succeed, Fail, RetryTask, Return, FailToStart, Ack, Unsaved, Scraping, TypeInv,
        MemoryOK, Busy
  <2>2. \A v \in Workers : worker'[v].mem \in {worker[v].mem, Zero}
    <3>1. IdleWorker.mem = Zero
          /\ \A pc \in {"returning", "failed", "finishing"} : Leave(w, pc).mem = Zero
      BY DEF Leave, IdleWorker
    <3> QED BY <1>7, <3>1
         DEF Succeed, Fail, RetryTask, Return, FailToStart, Ack, TypeInv, TypeOK
  <2> QED BY <2>1, <2>2, AgreeCopied DEF Copied
<1> QED BY <1>2, <1>3, <1>4, <1>5, <1>6, <1>7 DEF Attempt

LEMMA CountersBroker ==
  ASSUME TypeInv, CountersAgree, Revocation \/ Fault
  PROVE  CountersAgree'
<1>1. IdleWorker.mem = Zero
  BY DEF IdleWorker
<1>2. UNCHANGED job
  BY DEF Revocation, DeliverRevoke, DropRevoked, Fault, CrashNode, KillWorker,
         RestoreUnacked, TriggerDies, CancelDies
<1>3. \A v \in Workers : worker'[v].mem \in {worker[v].mem, Zero}
  BY <1>1 DEF Revocation, DeliverRevoke, DropRevoked, Fault, CrashNode, KillWorker,
         RestoreUnacked, TriggerDies, CancelDies, TypeInv, TypeOK
<1> QED BY <1>2, <1>3, AgreeCopied DEF Copied

\* The counters agree in every reachable state: retries that go on from a
\* row's counters, a message run twice at once and the order in which two
\* copies are saved never make a row count more new and updated cameras than
\* processed ones, for any batch size, number of workers and of retries.
THEOREM CountersCorrect == Spec => []CountersAgree
<1>1. TypeInv /\ CountersAgree /\ [Next]_vars => CountersAgree'
  <2> SUFFICES ASSUME TypeInv, CountersAgree, [Next]_vars PROVE CountersAgree'
    OBVIOUS
  <2>1. CASE UNCHANGED vars
    BY <2>1 DEF vars, CountersAgree
  <2>2. ASSUME NEW w \in Workers, Take(w) \/ Attempt(w) PROVE CountersAgree'
    BY <2>2, CountersStart, CountersAttempt
  <2>3. CASE Revocation \/ Fault
    BY <2>3, CountersBroker
  <2> QED BY <2>1, <2>2, <2>3, CountersWeb DEF Next
<1> QED BY <1>1, CountersInit, TypeInit, TypeNext, PTL DEF Spec

(***************************************************************************)
(* A cancelled job whose revoke the worker node has processed stays        *)
(* CANCELLED. The argument: whoever may still write a row's status holds a *)
(* task that is not revoked, and it is the row's own task (HolderOK). This *)
(* needs the rows named by messages and by requests to carry no other task *)
(* (NamedOK), and a created row nobody has enqueued to be unknown to the   *)
(* queue and to the workers (CreatedOK).                                   *)
(***************************************************************************)
HolderOK(w) ==
    /\ worker[w].msg.task \notin revoked
    /\ job[worker[w].job].task = worker[w].msg.task
    /\ job[worker[w].job].status # "ABSENT"
    /\ worker[w].msg.task \in Jobs => worker[w].job = worker[w].msg.task

Linked(r) == request[r].pc \in {"created", "enqueued"}

CreatedOK(r) ==
    /\ job[request[r].job].status # "ABSENT"
    /\ job[request[r].job].task = None
    /\ \A m \in queue : m.task # request[r].job
    /\ \A w \in Workers : Busy(w) => worker[w].msg.task # request[r].job
    /\ \A p \in Requests : p # r /\ Linked(p) => request[p].job # request[r].job

NamedOK(j) == job[j].status # "ABSENT" /\ job[j].task \in {None, j}

RevokeInv ==
    /\ \A w \in Workers : Busy(w) => HolderOK(w)
    /\ \A r \in Requests : request[r].pc = "created" => CreatedOK(r)
    /\ \A r \in Requests : request[r].pc = "enqueued" => NamedOK(request[r].job)
    /\ \A m \in queue : m.task \in Jobs => NamedOK(m.task)

LEMMA RevokeInit == Init => RevokeInv
  BY DEF Init, RevokeInv, Busy, IdleWorker, NoRequest

\* A step that changes nobody's task and publishes, of the messages that name a
\* row, only those a worker holds.
Quiet ==
    /\ \A j \in Jobs : /\ job'[j].task = job[j].task
                       /\ job[j].status # "ABSENT" => job'[j].status # "ABSENT"
    /\ \A w \in Workers : Busy(w)' =>
          /\ Busy(w) /\ worker'[w].msg = worker[w].msg /\ worker'[w].job = worker[w].job
          /\ worker[w].msg.task \in revoked' => worker[w].msg.task \in revoked
    /\ \A r \in Requests : Linked(r)' => request'[r] = request[r]
    /\ \A m \in queue' : \/ m \in queue \/ m.task \notin Jobs
                         \/ \E w \in Workers : Busy(w) /\ m.task = worker[w].msg.task

LEMMA QuietStep ==
  ASSUME TypeInv, RevokeInv, Quiet
  PROVE  RevokeInv'
<1>1. ASSUME NEW w \in Workers, Busy(w)' PROVE HolderOK(w)'
  <2>1. Busy(w) /\ HolderOK(w) /\ worker[w].job \in Jobs
    BY <1>1 DEF Quiet, RevokeInv, TypeInv, MemoryOK
  <2> QED BY <1>1, <2>1 DEF Quiet, HolderOK
<1>2. ASSUME NEW m \in queue', m.task \in Jobs PROVE NamedOK(m.task)'
  <2>1. NamedOK(m.task)
    <3>1. CASE m \in queue
      BY <1>2, <3>1 DEF RevokeInv
    <3>2. ASSUME NEW w \in Workers, Busy(w), m.task = worker[w].msg.task PROVE NamedOK(m.task)
      BY <1>2, <3>2 DEF RevokeInv, HolderOK, NamedOK
    <3> QED BY <1>2, <3>1, <3>2 DEF Quiet
  <2> QED BY <1>2, <2>1 DEF Quiet, NamedOK
<1>3. ASSUME NEW r \in Requests, request'[r].pc = "enqueued" PROVE NamedOK(request[r].job)'
  <2>1. request'[r] = request[r] /\ NamedOK(request[r].job) /\ request[r].job \in Jobs
    BY <1>3 DEF Quiet, Linked, RevokeInv, TypeInv, MemoryOK
  <2> QED BY <1>3, <2>1 DEF Quiet, NamedOK
<1>4. ASSUME NEW r \in Requests, request'[r].pc = "created" PROVE CreatedOK(r)'
  <2>1. request'[r] = request[r] /\ CreatedOK(r) /\ request[r].job \in Jobs
    BY <1>4 DEF Quiet, Linked, RevokeInv, TypeInv, MemoryOK
  <2>2. \A m \in queue' : m.task # request[r].job
    BY <2>1 DEF Quiet, CreatedOK
  <2>3. \A w \in Workers : Busy(w)' => worker'[w].msg.task # request[r].job
    BY <2>1 DEF Quiet, CreatedOK
  <2>4. \A p \in Requests : p # r /\ Linked(p)' => request'[p].job # request[r].job
    BY <2>1 DEF Quiet, CreatedOK, Linked
  <2>5. job'[request[r].job].status # "ABSENT" /\ job'[request[r].job].task = None
    BY <2>1 DEF Quiet, CreatedOK
  <2> QED BY <2>1, <2>2, <2>3, <2>4, <2>5 DEF CreatedOK
<1> QED BY <1>1, <1>2, <1>3, <1>4 DEF RevokeInv

\* The methods that mark a row leave its task and never remove it.
LEMMA MarksKeepTask ==
  ASSUME TypeInv, NEW j \in Jobs,
         MarkRunning(j) \/ MarkSuccess(j) \/ MarkFailed(j) \/ MarkCancelled(j)
  PROVE  \A i \in Jobs : /\ job'[i].task = job[i].task
                         /\ job[i].status # "ABSENT" => job'[i].status # "ABSENT"
  BY DEF MarkRunning, MarkSuccess, MarkFailed, MarkCancelled, TypeInv, TypeOK, JobRow

LEMMA QuietAttempt ==
  ASSUME TypeInv, NEW w \in Workers, Attempt(w)
  PROVE  Quiet
<1>0. Busy(w) /\ worker[w].job \in Jobs /\ worker[w].msg \in Message
  BY DEF Attempt, StartScrape, CollectPage, FinishListing, FlushBatch, StreamBatch, Succeed,
         Fail, Scraping, FailToStart, Return, RetryTask, Ack, Busy, TypeInv, MemoryOK
<1>1. UNCHANGED <<request, revoked>>
  BY DEF Attempt, StartScrape, CollectPage, FinishListing, FlushBatch, StreamBatch, Succeed,
         Fail, FailToStart, Return, RetryTask, Ack, SaveCounters, webVars, brokerVars
<1>2. \A m \in queue' : m \in queue \/ m.task = worker[w].msg.task
  <2>1. \A m \in RetryOf(worker[w].msg) : m.task = worker[w].msg.task
    BY <1>0 DEF RetryOf, Message
  <2> QED BY <2>1 DEF Attempt, StartScrape, CollectPage, FinishListing, FlushBatch, StreamBatch,
         Succeed, Fail, FailToStart, Return, RetryTask, Ack, SaveCounters, brokerVars
<1>3. \A j \in Jobs : /\ job'[j].task = job[j].task
                      /\ job[j].status # "ABSENT" => job'[j].status # "ABSENT"
  <2>1. CASE \/ CollectPage(w) \/ FinishListing(w) \/ FlushBatch(w) \/ StreamBatch(w)
    <3>1. \E c : job' = [job EXCEPT ![worker[w].job].counts = c]
      BY <2>1 DEF CollectPage, FinishListing, FlushBatch, StreamBatch, SaveCounters
    <3> QED BY <3>1 DEF TypeInv, TypeOK, JobRow
  <2>2. CASE \/ StartScrape(w) \/ Succeed(w) \/ Fail(w) \/ RetryTask(w)
             \/ FailToStart(w) \/ Return(w) \/ Ack(w)
    BY <1>0, <2>2, MarksKeepTask
    DEF StartScrape, Succeed, Fail, RetryTask, FailToStart, Return, Ack, Unsaved
  <2> QED BY <2>1, <2>2 DEF Attempt
<1>4. \A v \in Workers : Busy(v)' =>
          Busy(v) /\ worker'[v].msg = worker[v].msg /\ worker'[v].job = worker[v].job
  <2>1. \A pc \in {"returning", "failed", "finishing"} :
          Leave(w, pc).msg = worker[w].msg /\ Leave(w, pc).job = worker[w].job
    BY DEF Leave, IdleWorker
  <2>2. worker[w] \in WorkerState
    BY DEF TypeInv, TypeOK
  <2>3. \E next : /\ worker' = [worker EXCEPT ![w] = next]
                  /\ \/ next.msg = worker[w].msg /\ next.job = worker[w].job
                     \/ next.pc = "idle"
    <3>1. CASE \/ Succeed(w) \/ Fail(w) \/ RetryTask(w) \/ FailToStart(w) \/ Return(w)
      BY <2>1, <3>1 DEF Succeed, Fail, RetryTask, FailToStart, Return
    <3>2. CASE Ack(w)
      BY <3>2, IdleOK DEF Ack
    <3>3. CASE StartScrape(w)
      <4>1. \E pc : worker' = [worker EXCEPT ![w] = [worker[w] EXCEPT !.pc = pc]]
        BY <3>3 DEF StartScrape
      <4> QED BY <2>2, <4>1 DEF WorkerState
    <3>4. CASE CollectPage(w)
      BY <2>2, <3>4 DEF CollectPage, SaveCounters, WorkerState
    <3>5. CASE FinishListing(w)
      BY <2>2, <3>5 DEF FinishListing, SaveCounters, WorkerState
    <3>6. CASE FlushBatch(w)
      BY <2>2, <3>6 DEF FlushBatch, SaveCounters, WorkerState
    <3>7. CASE StreamBatch(w)
      <4>1. PICK size \in 1..Min2(BatchSize, MaxItems - worker[w].seen) :
              \E o \in Outcomes(size) : worker' = [worker EXCEPT ![w] = [worker[w] EXCEPT
                    !.pc = IF size = BatchSize THEN "streaming" ELSE "flushing",
                    !.seen = @ + size, !.done = @ + size,
                    !.mem = UpdateCounters(@, worker[w].seen + size, size, o[1], o[2])]]
        BY <3>7 DEF StreamBatch, SaveCounters
      <4>2. PICK o : worker' = [worker EXCEPT ![w] = [worker[w] EXCEPT
                    !.pc = IF size = BatchSize THEN "streaming" ELSE "flushing",
                    !.seen = @ + size, !.done = @ + size,
                    !.mem = UpdateCounters(@, worker[w].seen + size, size, o[1], o[2])]]
        BY <4>1
      <4> DEFINE pc == IF size = BatchSize THEN "streaming" ELSE "flushing"
                 seen == worker[w].seen + size
                 done == worker[w].done + size
                 mem == UpdateCounters(worker[w].mem, seen, size, o[1], o[2])
                 next == [worker[w] EXCEPT !.pc = pc, !.seen = seen, !.done = done, !.mem = mem]
      <4>3. worker' = [worker EXCEPT ![w] = next]
        BY <4>2
      <4> HIDE DEF pc, seen, done, mem
      <4>4. next.msg = worker[w].msg /\ next.job = worker[w].job
        BY <2>2 DEF WorkerState
      <4> QED BY <4>3, <4>4
    <3> QED BY <3>1, <3>2, <3>3, <3>4, <3>5, <3>6, <3>7 DEF Attempt
  <2> QED BY <1>0, <2>3 DEF Busy, TypeInv, TypeOK
<1> QED BY <1>0, <1>1, <1>2, <1>3, <1>4 DEF Quiet, Linked

LEMMA QuietOthers ==
  ASSUME TypeInv,
         \/ Fault
         \/ Revocation
         \/ \E t \in Ticks : Tick(t)
         \/ \E c \in Cancellers : SaveCancelled(c) \/ \E j \in Jobs : RequestCancel(c, j)
         \/ \E r \in Requests : \/ EnqueueFails(r) \/ NoWorkersOnline(r)
                               \/ \E t \in Targets : CheckActive(r, t)
         \/ UNCHANGED vars
  PROVE  Quiet
<1> USE DEF webVars, brokerVars
<1>1. CASE Fault
  <2>1. UNCHANGED job /\ revoked' \subseteq revoked
    BY <1>1 DEF Fault, CrashNode, KillWorker, RestoreUnacked, TriggerDies, CancelDies
  <2>2. \A w \in Workers : Busy(w)' => UNCHANGED worker[w]
    BY <1>1, IdleOK
    DEF Fault, CrashNode, KillWorker, RestoreUnacked, TriggerDies, CancelDies, Busy, TypeInv, TypeOK
  <2>3. \A r \in Requests : Linked(r)' => UNCHANGED request[r]
    BY <1>1 DEF Fault, CrashNode, KillWorker, RestoreUnacked, TriggerDies, CancelDies, Linked,
                NoRequest, TypeInv, TypeOK
  <2>4. \A m \in queue' : m \in queue \/ \E w \in Workers : Busy(w) /\ m = worker[w].msg
    BY <1>1 DEF Fault, CrashNode, KillWorker, RestoreUnacked, TriggerDies, CancelDies
  <2> QED BY <2>1, <2>2, <2>3, <2>4 DEF Quiet, Busy
<1>2. CASE Revocation
  <2>1. UNCHANGED <<job, request>> /\ queue' \subseteq queue
    BY <1>2 DEF Revocation, DeliverRevoke, DropRevoked
  <2>2. ASSUME NEW w \in Workers, Busy(w)'
        PROVE  /\ UNCHANGED worker[w]
               /\ worker[w].msg.task \in revoked' => worker[w].msg.task \in revoked
    BY <1>2, <2>2, IdleOK DEF Revocation, DeliverRevoke, DropRevoked, Busy
  <2>3. \A w \in Workers : Busy(w)' =>
          /\ Busy(w) /\ worker'[w].msg = worker[w].msg /\ worker'[w].job = worker[w].job
          /\ worker[w].msg.task \in revoked' => worker[w].msg.task \in revoked
    BY <2>2 DEF Busy
  <2> QED BY <2>1, <2>3 DEF Quiet, Linked
<1>3. ASSUME NEW t \in Ticks, Tick(t) PROVE Quiet
  BY <1>3, ConstantsAssumption DEF Tick, Quiet, Busy, Linked
<1>4. ASSUME NEW c \in Cancellers, SaveCancelled(c) PROVE Quiet
  BY <1>4, MarksKeepTask DEF SaveCancelled, Unsaved, Quiet, Busy, Linked, TypeInv, MemoryOK
<1>5. ASSUME NEW c \in Cancellers, NEW j \in Jobs, RequestCancel(c, j) PROVE Quiet
  BY <1>5 DEF RequestCancel, Quiet, Busy, Linked
<1>6. ASSUME NEW r \in Requests, EnqueueFails(r) PROVE Quiet
  <2>1. \A i \in Jobs : /\ job'[i].task = job[i].task
                        /\ job[i].status # "ABSENT" => job'[i].status # "ABSENT"
    BY <1>6, MarksKeepTask DEF EnqueueFails, Unsaved, TypeInv, MemoryOK
  <2>2. \A p \in Requests : Linked(p)' => UNCHANGED request[p]
    BY <1>6 DEF EnqueueFails, Linked, NoRequest, TypeInv, TypeOK
  <2> QED BY <1>6, <2>1, <2>2 DEF EnqueueFails, Quiet, Busy
<1>7. ASSUME NEW r \in Requests, NoWorkersOnline(r) \/ \E t \in Targets : CheckActive(r, t)
      PROVE  Quiet
  <2>1. \A p \in Requests : Linked(p)' => UNCHANGED request[p]
    BY <1>7 DEF NoWorkersOnline, CheckActive, Linked, NoRequest, TypeInv, TypeOK
  <2> QED BY <1>7, <2>1 DEF NoWorkersOnline, CheckActive, Quiet, Busy
<1>8. CASE UNCHANGED vars
  BY <1>8 DEF vars, Quiet, Busy, Linked
<1> QED BY <1>1, <1>2, <1>3, <1>4, <1>5, <1>6, <1>7, <1>8

LEMMA RevokeCreate ==
  ASSUME TypeInv, RevokeInv, NEW r \in Requests, CreateJob(r)
  PROVE  RevokeInv'
<1> USE DEF brokerVars
<1>1. PICK j \in Jobs :
        /\ job[j].status = "ABSENT"
        /\ job' = [job EXCEPT ![j] = NewRow(request[r].target, None)]
        /\ request' = [request EXCEPT ![r] =
              [pc |-> "created", target |-> request[r].target, job |-> j]]
  BY DEF CreateJob
<1>2. job'[j].status = "PENDING" /\ job'[j].task = None /\ \A i \in Jobs \ {j} : job'[i] = job[i]
  BY <1>1 DEF NewRow, NoRow, TypeInv, TypeOK
<1>3. request'[r].pc = "created" /\ request'[r].job = j
      /\ \A p \in Requests \ {r} : request'[p] = request[p]
  BY <1>1 DEF TypeInv, TypeOK
<1>4. UNCHANGED <<worker, queue, revoked>>
  BY DEF CreateJob
<1>5. \A w \in Workers : Busy(w) => worker[w].msg.task # j /\ worker[w].job # j
                                    /\ worker[w].job \in Jobs /\ HolderOK(w)
  BY <1>1 DEF RevokeInv, HolderOK, TypeInv, MemoryOK
<1>6. \A m \in queue : m.task # j
  BY <1>1 DEF RevokeInv, NamedOK
<1>7. \A p \in Requests : Linked(p) => request[p].job # j /\ request[p].job \in Jobs
  BY <1>1 DEF RevokeInv, CreatedOK, NamedOK, Linked, TypeInv, MemoryOK
<1>8. \A w \in Workers : Busy(w)' => HolderOK(w)'
  BY <1>2, <1>4, <1>5 DEF HolderOK, Busy
<1>9. ASSUME NEW p \in Requests, request'[p].pc = "created" PROVE CreatedOK(p)'
  <2>1. CASE p = r
    BY <1>2, <1>3, <1>4, <1>5, <1>6, <1>7, <2>1 DEF CreatedOK, Busy, Linked
  <2>2. CASE p # r
    <3>1. CreatedOK(p) /\ request[p].job # j /\ request[p].job \in Jobs /\ request'[p] = request[p]
      BY <1>3, <1>7, <1>9, <2>2 DEF RevokeInv, Linked
    <3> QED BY <1>2, <1>3, <1>4, <3>1 DEF CreatedOK, Busy, Linked
  <2> QED BY <2>1, <2>2
<1>10. ASSUME NEW p \in Requests, request'[p].pc = "enqueued" PROVE NamedOK(request[p].job)'
  <2>1. p # r /\ request'[p] = request[p]
    BY <1>3, <1>10
  <2> QED BY <1>2, <1>7, <1>10, <2>1 DEF RevokeInv, NamedOK, Linked
<1>11. \A m \in queue' : m.task \in Jobs => NamedOK(m.task)'
  BY <1>2, <1>4, <1>6 DEF RevokeInv, NamedOK
<1> QED BY <1>8, <1>9, <1>10, <1>11 DEF RevokeInv

LEMMA RevokeEnqueue ==
  ASSUME TypeInv, RevokeInv, NEW r \in Requests, Enqueue(r)
  PROVE  RevokeInv'
<1> DEFINE j == request[r].job
           m == [task |-> j, retries |-> 0]
<1>1. j \in Jobs /\ CreatedOK(r) /\ Linked(r)
  BY DEF Enqueue, RevokeInv, TypeInv, MemoryOK, Linked
<1>2. UNCHANGED <<job, worker, revoked>> /\ queue' = queue \cup {m} /\ m.task = j
  BY DEF Enqueue
<1>3. request'[r].pc = "enqueued" /\ request'[r].job = j
      /\ \A p \in Requests \ {r} : request'[p] = request[p]
  BY DEF Enqueue, TypeInv, TypeOK, RequestState
<1>4. NamedOK(j)
  BY <1>1 DEF CreatedOK, NamedOK
<1> HIDE DEF m, j
<1>5. \A w \in Workers : Busy(w)' => HolderOK(w)'
  BY <1>2 DEF RevokeInv, HolderOK, Busy
<1>6. ASSUME NEW p \in Requests, request'[p].pc = "created" PROVE CreatedOK(p)'
  <2>1. p # r /\ request'[p] = request[p] /\ CreatedOK(p)
    BY <1>3, <1>6 DEF RevokeInv
  <2>2. request[p].job # j
    BY <1>1, <2>1 DEF CreatedOK, Linked, j
  <2>3. \A q \in Requests : q # p /\ Linked(q)' => request'[q].job # request[p].job
    BY <1>3, <2>1, <2>2 DEF CreatedOK, Linked
  <2> QED BY <1>2, <2>1, <2>2, <2>3 DEF CreatedOK, Busy
<1>7. \A p \in Requests : request'[p].pc = "enqueued" => NamedOK(request'[p].job)
  BY <1>3, <1>4 DEF RevokeInv
<1>8. \A n \in queue' : n.task \in Jobs => NamedOK(n.task)
  BY <1>2, <1>4 DEF RevokeInv
<1>9. \A i : NamedOK(i) => job'[i].status # "ABSENT" /\ job'[i].task \in {None, i}
  BY <1>2 DEF NamedOK
<1> QED BY <1>5, <1>6, <1>7, <1>8, <1>9 DEF RevokeInv, NamedOK

LEMMA RevokeSaveTaskId ==
  ASSUME TypeInv, RevokeInv, NEW r \in Requests, SaveTaskId(r)
  PROVE  RevokeInv'
<1> USE DEF brokerVars
<1> DEFINE j == request[r].job
<1>1. j \in Jobs /\ NamedOK(j) /\ Linked(r)
  BY DEF SaveTaskId, RevokeInv, TypeInv, MemoryOK, Linked
<1>2. /\ job'[j].task \in {j, job[j].task} /\ job'[j].status = job[j].status
      /\ \A i \in Jobs \ {j} : job'[i] = job[i]
  BY <1>1 DEF SaveTaskId, TypeInv, TypeOK, JobRow
<1>3. ~Linked(r)' /\ \A p \in Requests \ {r} : request'[p] = request[p]
  BY DEF SaveTaskId, NoRequest, Linked, TypeInv, TypeOK
<1>4. UNCHANGED <<worker, queue, revoked>>
  BY DEF SaveTaskId
<1> HIDE DEF j
<1>5. \A i \in Jobs : NamedOK(i) => NamedOK(i)'
  BY <1>1, <1>2 DEF NamedOK
<1>6. ASSUME NEW w \in Workers, Busy(w)' PROVE HolderOK(w)'
  <2>1. /\ HolderOK(w) /\ worker[w].job \in Jobs /\ worker[w].msg.task \in Task
    BY <1>4, <1>6 DEF RevokeInv, Busy, TypeInv, MemoryOK, Message
  <2>2. worker[w].job = j => worker[w].msg.task = j
    BY <1>1, <2>1, ConstantsAssumption DEF HolderOK, NamedOK, Task
  <2> QED BY <1>2, <1>4, <2>1, <2>2 DEF HolderOK
<1>7. ASSUME NEW p \in Requests, request'[p].pc = "created" PROVE CreatedOK(p)'
  <2>1. p # r /\ request'[p] = request[p] /\ CreatedOK(p) /\ request[p].job \in Jobs
    BY <1>3, <1>7 DEF RevokeInv, Linked, TypeInv, MemoryOK
  <2>2. request[p].job # j
    BY <1>1, <2>1 DEF CreatedOK, j
  <2>3. \A q \in Requests : q # p /\ Linked(q)' => request'[q].job # request[p].job
    BY <1>3, <2>1 DEF CreatedOK, Linked
  <2> QED BY <1>2, <1>4, <2>1, <2>2, <2>3 DEF CreatedOK, Busy
<1>8. ASSUME NEW p \in Requests, request'[p].pc = "enqueued" PROVE NamedOK(request[p].job)'
  <2>1. p # r /\ request'[p] = request[p] /\ NamedOK(request[p].job) /\ request[p].job \in Jobs
    BY <1>3, <1>8 DEF RevokeInv, Linked, TypeInv, MemoryOK
  <2> QED BY <1>5, <2>1 DEF NamedOK
<1>9. \A m \in queue' : m.task \in Jobs => NamedOK(m.task)'
  BY <1>4, <1>5 DEF RevokeInv
<1> QED BY <1>6, <1>7, <1>8, <1>9 DEF RevokeInv

\* A worker that takes a message for row j and leaves the row named by its task.
LEMMA RevokeBegin ==
  ASSUME TypeInv, RevokeInv, NEW w \in Workers, NEW m \in queue, NEW j \in Jobs,
         ~Busy(w), MayRun(m), Begin(w, m, j), UNCHANGED <<request, revoked>>,
         job'[j].task = m.task, job'[j].status # "ABSENT",
         \A i \in Jobs \ {j} : job'[i] = job[i],
         (job[j].status = "ABSENT" /\ m.task \notin Jobs) \/ m.task = j
  PROVE  RevokeInv'
<1>1. worker'[w].pc = "loaded" /\ worker'[w].msg = m /\ worker'[w].job = j
      /\ \A v \in Workers \ {w} : worker'[v] = worker[v]
  BY DEF Begin, IdleWorker, TypeInv, TypeOK
<1>2. \A n \in queue' : n \in queue
  BY DEF Begin, Consume
<1>3. m.task = j => NamedOK(j)
  BY DEF RevokeInv
<1>4. \A i \in Jobs : NamedOK(i) => NamedOK(i)'
  BY DEF NamedOK
<1>5. ASSUME NEW v \in Workers, Busy(v)' PROVE HolderOK(v)'
  <2>1. CASE v = w
    BY <1>1, <2>1 DEF HolderOK, MayRun
  <2>2. CASE v # w
    <3>1. /\ worker'[v] = worker[v] /\ HolderOK(v) /\ worker[v].job \in Jobs
          /\ worker[v].msg.task \in Task
      BY <1>1, <1>5, <2>2 DEF RevokeInv, Busy, TypeInv, MemoryOK, Message
    <3>2. worker[v].job = j => worker[v].msg.task = m.task
      BY <1>3, <3>1, ConstantsAssumption DEF HolderOK, NamedOK, Task
    <3> QED BY <3>1, <3>2 DEF HolderOK
  <2> QED BY <2>1, <2>2
<1>6. ASSUME NEW p \in Requests, request'[p].pc = "created" PROVE CreatedOK(p)'
  <2>1. CreatedOK(p) /\ request[p].job \in Jobs
    BY <1>6 DEF RevokeInv, TypeInv, MemoryOK
  <2>2. request[p].job # j /\ m.task # request[p].job
    BY <2>1 DEF CreatedOK
  <2>3. \A n \in queue' : n.task # request[p].job
    BY <1>2, <2>1 DEF CreatedOK
  <2>4. \A v \in Workers : Busy(v)' => worker'[v].msg.task # request[p].job
    BY <1>1, <2>1, <2>2 DEF CreatedOK, Busy
  <2> QED BY <2>1, <2>2, <2>3, <2>4 DEF CreatedOK, Linked
<1>7. ASSUME NEW p \in Requests, request'[p].pc = "enqueued" PROVE NamedOK(request[p].job)'
  BY <1>4, <1>7 DEF RevokeInv, TypeInv, MemoryOK
<1>8. \A n \in queue' : n.task \in Jobs => NamedOK(n.task)'
  BY <1>2, <1>4 DEF RevokeInv
<1> QED BY <1>5, <1>6, <1>7, <1>8 DEF RevokeInv

LEMMA RevokeTake ==
  ASSUME TypeInv, RevokeInv, NEW w \in Workers, Take(w)
  PROVE  RevokeInv'
<1> USE DEF webVars
<1>1. ASSUME NEW m \in queue, StartTriggered(w, m) PROVE RevokeInv'
  <2> DEFINE j == m.task
  <2>1. j \in Jobs /\ NamedOK(j)
    BY <1>1 DEF StartTriggered, RevokeInv
  <2>2. /\ job'[j].task = j /\ job'[j].status = job[j].status
        /\ \A i \in Jobs \ {j} : job'[i] = job[i]
    BY <1>1, <2>1 DEF StartTriggered, NamedOK, TypeInv, TypeOK, JobRow
  <2>3. job'[j].status # "ABSENT"
    BY <2>1, <2>2 DEF NamedOK
  <2>4. ~Busy(w) /\ MayRun(m) /\ Begin(w, m, j) /\ UNCHANGED <<request, revoked>>
    BY <1>1 DEF StartTriggered
  <2> QED BY <2>1, <2>2, <2>3, <2>4, RevokeBegin
<1>2. ASSUME NEW m \in queue, StartPeriodic(w, m) PROVE RevokeInv'
  <2>1. PICK j \in Jobs :
          /\ job[j].status = "ABSENT" /\ Begin(w, m, j)
          /\ job' = [job EXCEPT ![j] = NewRow(TickTarget[m.task], m.task)]
    BY <1>2 DEF StartPeriodic
  <2>2. /\ job'[j].task = m.task /\ job'[j].status = "PENDING"
        /\ \A i \in Jobs \ {j} : job'[i] = job[i]
    BY <2>1 DEF NewRow, NoRow, TypeInv, TypeOK
  <2>3. m.task \notin Jobs
    BY <1>2, ConstantsAssumption DEF StartPeriodic
  <2>4. ~Busy(w) /\ MayRun(m) /\ UNCHANGED <<request, revoked>>
    BY <1>2 DEF StartPeriodic
  <2> QED BY <2>1, <2>2, <2>3, <2>4, RevokeBegin
<1>3. ASSUME NEW m \in queue, StartRaises(w, m) PROVE RevokeInv'
  <2>1. Quiet
    BY <1>3 DEF StartRaises, Consume, Quiet, Busy, Linked
  <2> QED BY <2>1, QuietStep
<1> QED BY <1>1, <1>2, <1>3 DEF Take

LEMMA RevokeNext == TypeInv /\ RevokeInv /\ [Next]_vars => RevokeInv'
<1> SUFFICES ASSUME TypeInv, RevokeInv, [Next]_vars PROVE RevokeInv'
  OBVIOUS
<1>1. ASSUME NEW r \in Requests, TriggerStep(r) \/ \E t \in Targets : CheckActive(r, t)
      PROVE  RevokeInv'
  BY <1>1, RevokeCreate, RevokeEnqueue, RevokeSaveTaskId, QuietOthers, QuietStep
  DEF TriggerStep
<1>2. ASSUME NEW w \in Workers, Take(w) \/ Attempt(w) PROVE RevokeInv'
  BY <1>2, RevokeTake, QuietAttempt, QuietStep
<1> QED BY <1>1, <1>2, QuietOthers, QuietStep DEF Next

\* The methods that mark one row leave the others.
LEMMA MarksKeepOthers ==
  ASSUME TypeInv, NEW i \in Jobs, NEW j \in Jobs, i # j,
         MarkRunning(i) \/ MarkSuccess(i) \/ MarkFailed(i) \/ MarkCancelled(i)
  PROVE  job'[j] = job[j]
  BY DEF MarkRunning, MarkSuccess, MarkFailed, MarkCancelled, TypeInv, TypeOK

LEMMA StaysCancelled ==
  ASSUME TypeInv, RevokeInv, Next, NEW j \in Jobs,
         job[j].status = "CANCELLED", job[j].task \in revoked
  PROVE  job'[j].status = "CANCELLED"
<1>0. job[j].task # None
  BY ConstantsAssumption DEF TypeInv, TypeOK, Task
<1>1. ASSUME NEW w \in Workers, Busy(w) PROVE worker[w].job \in Jobs /\ worker[w].job # j
  BY <1>1 DEF RevokeInv, HolderOK, TypeInv, MemoryOK
<1>2. ASSUME NEW w \in Workers, Attempt(w) PROVE job'[j].status = "CANCELLED"
  <2>1. CASE CollectPage(w) \/ FinishListing(w) \/ FlushBatch(w) \/ StreamBatch(w)
    <3>1. \E c : job' = [job EXCEPT ![worker[w].job].counts = c]
      BY <2>1 DEF CollectPage, FinishListing, FlushBatch, StreamBatch, SaveCounters
    <3> QED BY <3>1 DEF TypeInv, TypeOK, JobRow
  <2>2. CASE StartScrape(w) \/ Succeed(w) \/ Fail(w) \/ RetryTask(w)
    <3>1. Busy(w)
      BY <2>2 DEF StartScrape, Succeed, Fail, RetryTask, Scraping, Busy
    <3> QED BY <1>1, <2>2, <3>1, MarksKeepOthers
         DEF StartScrape, Succeed, Fail, RetryTask, Unsaved
  <2>3. CASE FailToStart(w) \/ Return(w) \/ Ack(w)
    BY <2>3 DEF FailToStart, Return, Ack
  <2> QED BY <1>2, <2>1, <2>2, <2>3 DEF Attempt
<1>3. ASSUME NEW w \in Workers, Take(w) PROVE job'[j].status = "CANCELLED"
  BY <1>3 DEF Take, StartTriggered, StartPeriodic, StartRaises, TypeInv, TypeOK, JobRow
<1>4. ASSUME NEW r \in Requests, TriggerStep(r) \/ \E t \in Targets : CheckActive(r, t)
      PROVE  job'[j].status = "CANCELLED"
  <2>1. CASE EnqueueFails(r)
    <3>1. request[r].job \in Jobs /\ request[r].job # j
      BY <1>0, <2>1 DEF EnqueueFails, RevokeInv, CreatedOK, TypeInv, MemoryOK
    <3> QED BY <2>1, <3>1, MarksKeepOthers DEF EnqueueFails, Unsaved
  <2>2. CASE SaveTaskId(r)
    BY <2>2 DEF SaveTaskId, TypeInv, TypeOK, JobRow
  <2>3. CASE CreateJob(r)
    BY <2>3 DEF CreateJob, TypeInv, TypeOK
  <2> QED BY <1>4, <2>1, <2>2, <2>3 DEF TriggerStep, Enqueue, NoWorkersOnline, CheckActive
<1>5. ASSUME NEW c \in Cancellers, SaveCancelled(c) PROVE job'[j].status = "CANCELLED"
  BY <1>5 DEF SaveCancelled, MarkCancelled, Unsaved, TypeInv, TypeOK, JobRow
<1>6. CASE \/ \E c \in Cancellers, i \in Jobs : RequestCancel(c, i)
           \/ \E t \in Ticks : Tick(t)
           \/ Revocation \/ Fault
  BY <1>6 DEF RequestCancel, Tick, Revocation, DeliverRevoke, DropRevoked, Fault, CrashNode,
              KillWorker, RestoreUnacked, TriggerDies, CancelDies
<1> QED BY <1>2, <1>3, <1>4, <1>5, <1>6 DEF Next

\* Cancellation is final once the worker node has processed the revoke: no
\* copy of the row in a worker's or a request's memory, no retry and no
\* redelivered message can overwrite the CANCELLED of CancelScrapeView, for
\* any number of workers, requests, retries and faults.
THEOREM RevocationCorrect == Spec => RevokedStaysCancelled
<1>1. TypeInv /\ RevokeInv /\ [Next]_vars =>
        [\A j \in Jobs : job[j].status = "CANCELLED" /\ job[j].task \in revoked
                            => job'[j].status = "CANCELLED"]_vars
  BY StaysCancelled
<1> QED BY <1>1, RevokeInit, RevokeNext, TypeInit, TypeNext, PTL DEF Spec, RevokedStaysCancelled
-----------------------------------------------------------------------------
\* Deliveries and workers

(***************************************************************************)
(* The shapes of the steps.                                                *)
(***************************************************************************)
Kept == <<request, cancel, ticked, broadcast, revoked, redelivered>>

Saving(w) == worker[w].pc \in {"collecting", "streaming", "flushing"}

\* The counters worker w holds tell what this attempt did, and the row has them.
Held(w) ==
    LET mem == worker[w].mem
    IN  /\ job[worker[w].job].counts = mem
        /\ mem.found = worker[w].seen
        /\ mem.processed = worker[w].done
        /\ worker[w].done <= worker[w].seen
        /\ worker[w].pc = "streaming" => worker[w].done = worker[w].seen
        /\ worker[w].pc = "collecting" =>
              worker[w].done = 0 /\ (SourceOf(w) # "INSECAM" => worker[w].seen = 0)

\* Worker w leaves the program points from for to and sets its row's status.
Turn(w, from, to, status, begun) ==
    /\ worker[w].pc \in from
    /\ worker'[w].pc \in to
    /\ job'[worker[w].job].status = status
    /\ attempts'[worker[w].job] = attempts[worker[w].job] + begun

SameCounts(w) == job'[worker[w].job].counts = job[worker[w].job].counts

Starts(w) ==
    /\ Turn(w, {"loaded"}, {"collecting", "streaming"}, "RUNNING", 1)
    /\ worker'[w].mem = worker[w].mem
    /\ worker'[w].seen = worker[w].seen /\ worker'[w].done = worker[w].done
    /\ queue' = queue /\ SameCounts(w)

Saves(w) ==
    /\ Turn(w, {"collecting", "streaming", "flushing"},
            {"collecting", "streaming", "flushing"}, job[worker[w].job].status, 0)
    /\ Held(w) => Held(w)'
    /\ queue' = queue

Succeeds(w) ==
    /\ Turn(w, {"streaming", "flushing"}, {"returning"}, "SUCCESS", 0)
    /\ Held(w) => worker[w].done = worker[w].seen
    /\ queue' = queue /\ SameCounts(w)

Ends(w) ==
    /\ \/ Turn(w, {"collecting", "streaming", "flushing", "returning"}, {"failed"}, "FAILED", 0)
       \/ Turn(w, {"loaded", "collecting", "streaming", "flushing", "returning"}, {"failed"},
               job[worker[w].job].status, 0)
       \/ /\ Turn(w, {"failed"}, {"finishing"}, job[worker[w].job].status, 0)
          /\ worker[w].job \in abandoned'
       \/ Turn(w, {"returning"}, {"finishing"}, job[worker[w].job].status, 0)
       \/ Turn(w, {"finishing"}, {"idle"}, job[worker[w].job].status, 0)
    /\ queue' = queue /\ SameCounts(w)

Retries(w) ==
    /\ Turn(w, {"failed"}, {"finishing"}, "FAILED", 0)
    /\ queue' \in {queue, queue \cup RetryOf(worker[w].msg)} /\ SameCounts(w)

\* A step of the attempt worker w makes.
Turns(w) ==
    /\ Busy(w)
    /\ UNCHANGED Kept /\ abandoned \subseteq abandoned'
    /\ \A v \in Workers \ {w} : worker'[v] = worker[v]
    /\ Busy(w)' => worker'[w].msg = worker[w].msg /\ worker'[w].job = worker[w].job
    /\ \A j \in Jobs \ {worker[w].job} : job'[j] = job[j] /\ attempts'[j] = attempts[j]
    /\ job'[worker[w].job].task = job[worker[w].job].task
    /\ job'[worker[w].job].target = job[worker[w].job].target
    /\ Starts(w) \/ Saves(w) \/ Succeeds(w) \/ Ends(w) \/ Retries(w)

\* Worker w takes message m for row j, a new row if a tick sent m.
Takes(w, m, j) ==
    /\ ~Busy(w) /\ m \in queue /\ m.task \notin revoked
    /\ UNCHANGED Kept /\ UNCHANGED <<attempts, abandoned>>
    /\ queue' = queue \ {m}
    /\ worker'[w].pc = "loaded" /\ worker'[w].msg = m /\ worker'[w].job = j
    /\ worker'[w].mem = job[j].counts /\ worker'[w].seen = 0 /\ worker'[w].done = 0
    /\ \A v \in Workers \ {w} : worker'[v] = worker[v]
    /\ \A i \in Jobs \ {j} : job'[i] = job[i]
    /\ job'[j].task = m.task
    /\ \/ /\ m.task = j /\ job'[j].status = job[j].status
          /\ job'[j].counts = job[j].counts /\ job'[j].target = job[j].target
       \/ /\ m.task \notin Jobs /\ job[j].status = "ABSENT"
          /\ job'[j].status = "PENDING" /\ job'[j].counts = Zero

\* What a web thread may do to row j: create it, mark it, or give it its task.
Edit(j) ==
    \/ job'[j] = job[j]
    \/ /\ job[j].status = "ABSENT" /\ job'[j].status = "PENDING"
       /\ job'[j].counts = Zero /\ job'[j].task = None
    \/ /\ job'[j].counts = job[j].counts /\ job'[j].target = job[j].target
       /\ \/ job'[j].status \in {"FAILED", "CANCELLED"} /\ job'[j].task = job[j].task
          \/ /\ job'[j].status = job[j].status
             /\ job'[j].task = j /\ job[j].task \in {None, j}

\* A step of a web thread that sends no message.
Edits ==
    /\ UNCHANGED <<worker, queue, ticked, redelivered, attempts>>
    /\ \A j \in Jobs : Edit(j)
    /\ \A r \in Requests : request'[r].pc = "created" =>
          request'[r] = request[r] \/ job'[request'[r].job].status = "PENDING"

\* A step of the worker node's control loop, a fault, or a task that raises
\* before its try.
Drops ==
    /\ UNCHANGED <<job, ticked, attempts>>
    /\ \A w \in Workers : Busy(w)' => worker'[w] = worker[w]
    /\ \A m \in queue' : \/ m \in queue
                         \/ /\ m.task \in redelivered'
                            /\ \E w \in Workers : Busy(w) /\ m = worker[w].msg
    /\ redelivered \subseteq redelivered'
    /\ \A r \in Requests : request'[r].pc = "created" => request'[r] = request[r]

\* Every save of the counters keeps Held.
LEMMA HeldSaved ==
  ASSUME TypeInv, NEW w \in Workers, Held(w),
         CollectPage(w) \/ FinishListing(w) \/ FlushBatch(w) \/ StreamBatch(w)
  PROVE  Held(w)'
<1> DEFINE me == worker[w]
           j == me.job
<1>0. me \in WorkerState /\ me.mem \in Counters /\ me.seen \in Nat /\ me.done \in Nat /\ j \in Jobs
      /\ job[j] \in JobRow
  BY DEF TypeInv, TypeOK, MemoryOK, WorkerState, Busy, CollectPage, FinishListing, FlushBatch,
         StreamBatch
<1>1. ASSUME NEW next \in WorkerState, SaveCounters(w, next), next.job = j,
             next.mem.found = next.seen, next.mem.processed = next.done,
             next.done <= next.seen,
             next.pc = "streaming" => next.done = next.seen,
             next.pc = "collecting" => next.done = 0 /\ SourceOf(w) = "INSECAM"
      PROVE  Held(w)'
  <2>1. worker' = [worker EXCEPT ![w] = next] /\ job' = [job EXCEPT ![j].counts = next.mem]
    BY <1>1 DEF SaveCounters
  <2>2. worker'[w] = next /\ job'[j].counts = next.mem /\ job'[j].target = job[j].target
    BY <1>0, <2>1 DEF TypeInv, TypeOK, JobRow
  <2>3. SourceOf(w)' = SourceOf(w)
    BY <1>1, <2>2 DEF SourceOf
  <2> QED BY <1>1, <2>2, <2>3 DEF Held
<1>2. CASE CollectPage(w)
  <2>1. PICK n \in (me.seen + 1)..MaxItems :
          SaveCounters(w, [me EXCEPT !.seen = n, !.mem = UpdateCounters(me.mem, n, 0, 0, 0)])
    BY <1>2 DEF CollectPage
  <2> DEFINE mem == UpdateCounters(me.mem, n, 0, 0, 0)
             next == [me EXCEPT !.seen = n, !.mem = mem]
  <2>2. n \in Nat /\ n > 0 /\ MaxItems \in Nat
    BY <1>0, <2>1, ConstantsAssumption
  <2>3. mem \in Counters
    BY <1>0, <2>2, UpdateCountersType
  <2>4. me.pc = "collecting" /\ me.done = 0 /\ SourceOf(w) = "INSECAM"
        /\ me.mem.processed = 0
    BY <1>2 DEF CollectPage, Held
  <2>5. mem.found = n /\ mem.processed = 0
    BY <2>2, <2>4 DEF UpdateCounters
  <2>6. SaveCounters(w, next)
    BY <2>1
  <2> HIDE DEF mem
  <2>7. next \in WorkerState /\ next.pc = "collecting" /\ next.job = j /\ next.mem = mem
        /\ next.seen = n /\ next.done = 0
    BY <1>0, <2>2, <2>3, <2>4 DEF WorkerState
  <2> HIDE DEF next
  <2> QED BY <1>1, <2>2, <2>4, <2>5, <2>6, <2>7
<1>3. CASE FinishListing(w)
  <2>1. PICK n \in 0..MaxItems :
          /\ SourceOf(w) = "INSECAM" => n = me.seen /\ n > 0
          /\ SaveCounters(w, [me EXCEPT !.pc = "flushing", !.seen = n,
                                        !.mem = UpdateCounters(me.mem, n, 0, 0, 0)])
    BY <1>3 DEF FinishListing
  <2> DEFINE mem == UpdateCounters(me.mem, n, 0, 0, 0)
             next == [me EXCEPT !.pc = "flushing", !.seen = n, !.mem = mem]
  <2>2. n \in Nat /\ MaxItems \in Nat
    BY <1>0, <2>1, ConstantsAssumption
  <2>3. mem \in Counters
    BY <1>0, <2>2, UpdateCountersType
  <2>4. me.pc = "collecting" /\ me.done = 0 /\ me.mem.processed = 0 /\ me.mem.found = me.seen
        /\ (SourceOf(w) # "INSECAM" => me.seen = 0)
    BY <1>3 DEF FinishListing, Held
  <2>5. mem.found = n /\ mem.processed = 0
    BY <2>1, <2>2, <2>4 DEF UpdateCounters
  <2>6. SaveCounters(w, next)
    BY <2>1
  <2> HIDE DEF mem
  <2>7. next \in WorkerState /\ next.pc = "flushing" /\ next.job = j /\ next.mem = mem
        /\ next.seen = n /\ next.done = 0
    BY <1>0, <2>2, <2>3, <2>4 DEF WorkerState
  <2> HIDE DEF next
  <2> QED BY <1>1, <2>2, <2>5, <2>6, <2>7
<1>4. CASE FlushBatch(w)
  <2> DEFINE size == Min2(BatchSize, me.seen - me.done)
  <2>1. PICK o \in Outcomes(size) :
          SaveCounters(w, [me EXCEPT !.done = me.done + size,
                            !.mem = UpdateCounters(me.mem, me.seen, size, o[1], o[2])])
    BY <1>4 DEF FlushBatch
  <2> DEFINE mem == UpdateCounters(me.mem, me.seen, size, o[1], o[2])
             next == [me EXCEPT !.done = me.done + size, !.mem = mem]
  <2>2. me.pc = "flushing" /\ me.done < me.seen /\ me.mem.processed = me.done
    BY <1>4 DEF FlushBatch, Held
  <2>3. size \in Nat /\ me.done + size <= me.seen /\ me.done + size \in Nat
    BY <1>0, <2>2, ConstantsAssumption DEF Min2
  <2> HIDE DEF size
  <2>4. o[1] \in Nat /\ o[2] \in Nat
    BY <2>1, <2>3 DEF Outcomes
  <2>5. mem \in Counters
    BY <1>0, <2>3, <2>4, UpdateCountersType
  <2>6. mem.found = me.seen /\ mem.processed = me.done + size
    BY <1>0, <2>2, <2>3 DEF UpdateCounters
  <2>7. SaveCounters(w, next)
    BY <2>1
  <2> HIDE DEF mem
  <2>8. next \in WorkerState /\ next.pc = "flushing" /\ next.job = j /\ next.mem = mem
        /\ next.seen = me.seen /\ next.done = me.done + size
    BY <1>0, <2>2, <2>3, <2>5 DEF WorkerState
  <2> HIDE DEF next
  <2> QED BY <1>1, <2>3, <2>6, <2>7, <2>8
<1>5. CASE StreamBatch(w)
  <2>1. PICK size \in 1..Min2(BatchSize, MaxItems - me.seen) : \E o \in Outcomes(size) :
          SaveCounters(w, [me EXCEPT
                !.pc = IF size = BatchSize THEN "streaming" ELSE "flushing",
                !.seen = me.seen + size, !.done = me.done + size,
                !.mem = UpdateCounters(me.mem, me.seen + size, size, o[1], o[2])])
    BY <1>5 DEF StreamBatch
  <2>2. PICK o \in Outcomes(size) :
          SaveCounters(w, [me EXCEPT
                !.pc = IF size = BatchSize THEN "streaming" ELSE "flushing",
                !.seen = me.seen + size, !.done = me.done + size,
                !.mem = UpdateCounters(me.mem, me.seen + size, size, o[1], o[2])])
    BY <2>1
  <2> DEFINE pc == IF size = BatchSize THEN "streaming" ELSE "flushing"
             seen == me.seen + size
             done == me.done + size
             mem == UpdateCounters(me.mem, seen, size, o[1], o[2])
             next == [me EXCEPT !.pc = pc, !.seen = seen, !.done = done, !.mem = mem]
  <2>3. me.pc = "streaming" /\ me.mem.processed = me.done /\ me.done = me.seen
    BY <1>5 DEF StreamBatch, Held
  <2>4. size \in Nat /\ size > 0
    BY <1>0, <2>1, ConstantsAssumption DEF Min2
  <2>5. o[1] \in Nat /\ o[2] \in Nat
    BY <2>2, <2>4 DEF Outcomes
  <2>6. seen \in Nat /\ done \in Nat /\ seen > 0 /\ done = seen /\ pc \in {"streaming", "flushing"}
    BY <1>0, <2>3, <2>4
  <2>7. mem \in Counters
    BY <1>0, <2>4, <2>5, <2>6, UpdateCountersType
  <2>8. mem.found = seen /\ mem.processed = done
    BY <1>0, <2>3, <2>4, <2>6 DEF UpdateCounters
  <2>9. SaveCounters(w, next)
    BY <2>2
  <2> HIDE DEF pc, seen, done, mem
  <2>10. next \in WorkerState /\ next.pc = pc /\ next.job = j /\ next.mem = mem
         /\ next.seen = seen /\ next.done = done
    BY <1>0, <2>6, <2>7 DEF WorkerState
  <2> HIDE DEF next
  <2> QED BY <1>1, <2>6, <2>8, <2>9, <2>10
<1> QED BY <1>2, <1>3, <1>4, <1>5

LEMMA AttemptTurns ==
  ASSUME TypeInv, NEW w \in Workers, Attempt(w)
  PROVE  Turns(w)
<1> DEFINE me == worker[w]
           j == me.job
<1>0. Busy(w) /\ me \in WorkerState /\ j \in Jobs /\ job[j] \in JobRow /\ attempts[j] \in Nat
  BY DEF Attempt, StartScrape, CollectPage, FinishListing, FlushBatch, StreamBatch, Succeed,
         Fail, Scraping, FailToStart, Return, RetryTask, Ack, Busy, TypeInv, TypeOK, MemoryOK
<1>1. UNCHANGED Kept /\ abandoned \subseteq abandoned'
  BY DEF Attempt, StartScrape, CollectPage, FinishListing, FlushBatch, StreamBatch, Succeed,
         Fail, FailToStart, Return, RetryTask, Ack, Unsaved, SaveCounters, webVars, brokerVars,
         observers, Kept
<1>2. \A v \in Workers \ {w} : worker'[v] = worker[v]
  <2>1. \E next : worker' = [worker EXCEPT ![w] = next]
    BY DEF Attempt, StartScrape, CollectPage, FinishListing, FlushBatch, StreamBatch, Succeed,
           Fail, FailToStart, Return, RetryTask, Ack, SaveCounters
  <2> QED BY <2>1 DEF TypeInv, TypeOK
<1>3. Busy(w)' => worker'[w].msg = me.msg /\ worker'[w].job = j
  BY QuietAttempt DEF Quiet
<1>4. /\ \A i \in Jobs \ {j} : job'[i] = job[i] /\ attempts'[i] = attempts[i]
      /\ job'[j].task = job[j].task /\ job'[j].target = job[j].target
  <2>1. \/ \E c : job' = [job EXCEPT ![j].counts = c]
        \/ MarkRunning(j) \/ MarkSuccess(j) \/ MarkFailed(j)
        \/ job' = job
    BY DEF Attempt, StartScrape, CollectPage, FinishListing, FlushBatch, StreamBatch, Succeed,
           Fail, FailToStart, Return, RetryTask, Ack, Unsaved, SaveCounters
  <2>2. \A i \in Jobs \ {j} : job'[i] = job[i]
    BY <2>1 DEF MarkRunning, MarkSuccess, MarkFailed, TypeInv, TypeOK
  <2>3. job'[j].task = job[j].task /\ job'[j].target = job[j].target
    <3>1. ASSUME NEW c, job' = [job EXCEPT ![j].counts = c]
          PROVE  job'[j].task = job[j].task /\ job'[j].target = job[j].target
      BY <1>0, <3>1 DEF TypeInv, TypeOK, JobRow
    <3>2. CASE MarkRunning(j)
      BY <1>0, <3>2 DEF MarkRunning, TypeInv, TypeOK, JobRow
    <3>3. CASE MarkSuccess(j) \/ MarkFailed(j)
      BY <1>0, <3>3 DEF MarkSuccess, MarkFailed, TypeInv, TypeOK, JobRow
    <3> QED BY <2>1, <3>1, <3>2, <3>3
  <2>4. attempts' = attempts \/ attempts' = [attempts EXCEPT ![j] = @ + 1]
    BY DEF Attempt, StartScrape, CollectPage, FinishListing, FlushBatch, StreamBatch, Succeed,
           Fail, FailToStart, Return, RetryTask, Ack, SaveCounters, observers
  <2> QED BY <2>2, <2>3, <2>4 DEF TypeInv, TypeOK
<1>5. \A pc \in {"returning", "failed", "finishing"} : Leave(w, pc).pc = pc
  BY DEF Leave, IdleWorker
<1>6. CASE StartScrape(w)
  <2>1. PICK pc \in {"collecting", "streaming"} : worker' = [worker EXCEPT ![w].pc = pc]
    BY <1>6 DEF StartScrape
  <2>2. worker'[w].pc = pc /\ worker'[w].mem = me.mem
        /\ worker'[w].seen = me.seen /\ worker'[w].done = me.done
    BY <1>0, <2>1 DEF WorkerState, TypeInv, TypeOK
  <2>3. job'[j].status = "RUNNING" /\ job'[j].counts = job[j].counts
    BY <1>0, <1>6 DEF StartScrape, MarkRunning, TypeInv, TypeOK, JobRow
  <2>4. attempts'[j] = attempts[j] + 1 /\ queue' = queue /\ me.pc = "loaded"
    BY <1>0, <1>6 DEF StartScrape, brokerVars, TypeInv, TypeOK
  <2>5. Starts(w)
    BY <2>2, <2>3, <2>4 DEF Starts, Turn, SameCounts
  <2> QED BY <1>0, <1>1, <1>2, <1>3, <1>4, <2>5 DEF Turns
<1>7. CASE CollectPage(w) \/ FinishListing(w) \/ FlushBatch(w) \/ StreamBatch(w)
  <2>1. Held(w) => Held(w)'
    BY <1>7, HeldSaved
  <2>2. me.pc \in {"collecting", "streaming", "flushing"}
        /\ queue' = queue /\ attempts'[j] = attempts[j] + 0
    <3>1. /\ me.pc \in {"collecting", "streaming", "flushing"}
          /\ UNCHANGED <<brokerVars, observers>>
      BY <1>7 DEF CollectPage, FinishListing, FlushBatch, StreamBatch, SaveCounters
    <3> QED BY <1>0, <3>1 DEF brokerVars, observers
  <2>3. job'[j].status = job[j].status
    <3>1. \E c : job' = [job EXCEPT ![j].counts = c]
      BY <1>7 DEF CollectPage, FinishListing, FlushBatch, StreamBatch, SaveCounters
    <3> QED BY <1>0, <3>1 DEF TypeInv, TypeOK, JobRow
  <2>4. worker'[w].pc \in {"collecting", "streaming", "flushing"}
    <3>1. CASE CollectPage(w)
      BY <1>0, <3>1 DEF CollectPage, SaveCounters, WorkerState, TypeInv, TypeOK
    <3>2. CASE FinishListing(w)
      BY <1>0, <3>2 DEF FinishListing, SaveCounters, WorkerState, TypeInv, TypeOK
    <3>3. CASE FlushBatch(w)
      BY <1>0, <3>3 DEF FlushBatch, SaveCounters, WorkerState, TypeInv, TypeOK
    <3>4. CASE StreamBatch(w)
      <4>1. PICK size \in 1..Min2(BatchSize, MaxItems - me.seen) : \E o \in Outcomes(size) :
              worker' = [worker EXCEPT ![w] = [me EXCEPT
                    !.pc = IF size = BatchSize THEN "streaming" ELSE "flushing",
                    !.seen = me.seen + size, !.done = me.done + size,
                    !.mem = UpdateCounters(me.mem, me.seen + size, size, o[1], o[2])]]
        BY <3>4 DEF StreamBatch, SaveCounters
      <4>2. PICK o : worker' = [worker EXCEPT ![w] = [me EXCEPT
                    !.pc = IF size = BatchSize THEN "streaming" ELSE "flushing",
                    !.seen = me.seen + size, !.done = me.done + size,
                    !.mem = UpdateCounters(me.mem, me.seen + size, size, o[1], o[2])]]
        BY <4>1
      <4> DEFINE pc == IF size = BatchSize THEN "streaming" ELSE "flushing"
                 seen == me.seen + size
                 done == me.done + size
                 mem == UpdateCounters(me.mem, seen, size, o[1], o[2])
                 next == [me EXCEPT !.pc = pc, !.seen = seen, !.done = done, !.mem = mem]
      <4>3. worker' = [worker EXCEPT ![w] = next]
        BY <4>2
      <4>4. pc \in {"streaming", "flushing"}
        OBVIOUS
      <4> HIDE DEF pc, seen, done, mem
      <4>5. next.pc = pc
        BY <1>0 DEF WorkerState
      <4> QED BY <4>3, <4>4, <4>5 DEF TypeInv, TypeOK
    <3> QED BY <1>7, <3>1, <3>2, <3>3, <3>4
  <2>5. Saves(w)
    BY <2>1, <2>2, <2>3, <2>4 DEF Saves, Turn
  <2> QED BY <1>0, <1>1, <1>2, <1>3, <1>4, <2>5 DEF Turns
<1>8. CASE Succeed(w)
  <2>1. job'[j].status = "SUCCESS" /\ job'[j].counts = job[j].counts
    BY <1>0, <1>8 DEF Succeed, MarkSuccess, TypeInv, TypeOK, JobRow
  <2>2. worker'[w].pc = "returning" /\ queue' = queue /\ attempts'[j] = attempts[j] + 0
    BY <1>0, <1>5, <1>8 DEF Succeed, brokerVars, observers, TypeInv, TypeOK
  <2>3. me.pc \in {"streaming", "flushing"} /\ (Held(w) => me.done = me.seen)
    BY <1>8 DEF Succeed, Held
  <2>4. Succeeds(w)
    BY <2>1, <2>2, <2>3 DEF Succeeds, Turn, SameCounts
  <2> QED BY <1>0, <1>1, <1>2, <1>3, <1>4, <2>4 DEF Turns
<1>9. CASE Fail(w) \/ FailToStart(w) \/ Return(w) \/ Ack(w)
  <2>1. queue' = queue /\ attempts'[j] = attempts[j] + 0
    BY <1>0, <1>9 DEF Fail, FailToStart, Return, Ack, brokerVars, observers
  <2>2. ASSUME Fail(w) PROVE Ends(w)
    <3>1. job'[j].status \in {"FAILED", job[j].status} /\ job'[j].counts = job[j].counts
      BY <1>0, <2>2 DEF Fail, MarkFailed, TypeInv, TypeOK, JobRow
    <3>2. worker'[w].pc = "failed"
          /\ me.pc \in {"collecting", "streaming", "flushing", "returning"}
      BY <1>0, <1>5, <2>2 DEF Fail, Scraping, TypeInv, TypeOK
    <3>3. \/ Turn(w, {"collecting", "streaming", "flushing", "returning"}, {"failed"}, "FAILED", 0)
          \/ Turn(w, {"loaded", "collecting", "streaming", "flushing", "returning"}, {"failed"},
                  job[j].status, 0)
      BY <2>1, <3>1, <3>2 DEF Turn
    <3> QED BY <2>1, <3>1, <3>3 DEF Ends, SameCounts
  <2>3. ASSUME FailToStart(w) \/ Return(w) \/ Ack(w) PROVE Ends(w)
    <3>1. job' = job
      BY <2>3 DEF FailToStart, Return, Ack
    <3>2. CASE FailToStart(w)
      <4>1. worker'[w].pc = "failed" /\ me.pc = "loaded"
        BY <1>0, <1>5, <3>2 DEF FailToStart, TypeInv, TypeOK
      <4>2. Turn(w, {"loaded", "collecting", "streaming", "flushing", "returning"}, {"failed"},
                 job[j].status, 0)
        BY <2>1, <3>1, <4>1 DEF Turn
      <4> QED BY <2>1, <3>1, <4>2 DEF Ends, SameCounts
    <3>3. CASE Return(w)
      <4>1. worker'[w].pc = "finishing" /\ me.pc = "returning"
        BY <1>0, <1>5, <3>3 DEF Return, TypeInv, TypeOK
      <4>2. Turn(w, {"returning"}, {"finishing"}, job[j].status, 0)
        BY <2>1, <3>1, <4>1 DEF Turn
      <4> QED BY <2>1, <3>1, <4>2 DEF Ends, SameCounts
    <3>4. CASE Ack(w)
      <4>1. worker'[w].pc = "idle" /\ me.pc = "finishing"
        BY <1>0, <3>4, IdleOK DEF Ack, TypeInv, TypeOK
      <4>2. Turn(w, {"finishing"}, {"idle"}, job[j].status, 0)
        BY <2>1, <3>1, <4>1 DEF Turn
      <4> QED BY <2>1, <3>1, <4>2 DEF Ends, SameCounts
    <3> QED BY <2>3, <3>2, <3>3, <3>4
  <2>4. Ends(w)
    BY <1>9, <2>2, <2>3
  <2> QED BY <1>0, <1>1, <1>2, <1>3, <1>4, <2>4 DEF Turns
<1>10. CASE RetryTask(w)
  <2>1. worker'[w].pc = "finishing" /\ me.pc = "failed" /\ attempts'[j] = attempts[j] + 0
    BY <1>0, <1>5, <1>10 DEF RetryTask, TypeInv, TypeOK
  <2>2. ASSUME MarkFailed(j), queue' \in {queue, queue \cup RetryOf(me.msg)}
        PROVE  Retries(w)
    <3>1. job'[j].status = "FAILED" /\ job'[j].counts = job[j].counts
      BY <1>0, <2>2 DEF MarkFailed, TypeInv, TypeOK, JobRow
    <3> QED BY <2>1, <2>2, <3>1 DEF Retries, Turn, SameCounts
  <2>3. ASSUME Unsaved(j), queue' = queue PROVE Ends(w)
    <3>1. Turn(w, {"failed"}, {"finishing"}, job[j].status, 0) /\ j \in abandoned'
      BY <2>1, <2>3 DEF Unsaved, Turn
    <3> QED BY <2>3, <3>1 DEF Ends, Unsaved, SameCounts
  <2>4. Retries(w) \/ Ends(w)
    BY <1>10, <2>2, <2>3 DEF RetryTask
  <2> QED BY <1>0, <1>1, <1>2, <1>3, <1>4, <2>4 DEF Turns
<1> QED BY <1>6, <1>7, <1>8, <1>9, <1>10 DEF Attempt

\* Begin, for row j, loads the worker with the row's counters.
LEMMA BeginTakes ==
  ASSUME TypeInv, NEW w \in Workers, NEW m \in queue, NEW j \in Jobs, Begin(w, m, j)
  PROVE  /\ queue' = queue \ {m}
         /\ worker'[w].pc = "loaded" /\ worker'[w].msg = m /\ worker'[w].job = j
         /\ worker'[w].mem = job[j].counts /\ worker'[w].seen = 0 /\ worker'[w].done = 0
         /\ \A v \in Workers \ {w} : worker'[v] = worker[v]
  BY DEF Begin, Consume, IdleWorker, TypeInv, TypeOK

LEMMA TakeTakes ==
  ASSUME TypeInv, RevokeInv, NEW w \in Workers, Take(w)
  PROVE  \/ \E m \in queue, j \in Jobs : Takes(w, m, j)
         \/ \E m \in queue : StartRaises(w, m)
<1> USE DEF webVars, observers
<1>1. ASSUME NEW m \in queue, StartTriggered(w, m) PROVE m.task \in Jobs /\ Takes(w, m, m.task)
  <2> DEFINE j == m.task
  <2>1. j \in Jobs /\ NamedOK(j) /\ job[j] \in JobRow
    BY <1>1 DEF StartTriggered, RevokeInv, TypeInv, TypeOK
  <2>2. /\ job'[j].task = j /\ job'[j].status = job[j].status /\ job'[j].counts = job[j].counts
        /\ job'[j].target = job[j].target
        /\ \A i \in Jobs \ {j} : job'[i] = job[i]
    BY <1>1, <2>1 DEF StartTriggered, NamedOK, TypeInv, TypeOK, JobRow
  <2>3. /\ ~Busy(w) /\ MayRun(m) /\ Begin(w, m, j)
        /\ UNCHANGED Kept /\ UNCHANGED <<attempts, abandoned>>
    BY <1>1 DEF StartTriggered, Kept
  <2> QED BY <2>1, <2>2, <2>3, BeginTakes DEF Takes, MayRun
<1>2. ASSUME NEW m \in queue, StartPeriodic(w, m) PROVE \E j \in Jobs : Takes(w, m, j)
  <2>1. PICK j \in Jobs :
          /\ job[j].status = "ABSENT" /\ Begin(w, m, j)
          /\ job' = [job EXCEPT ![j] = NewRow(TickTarget[m.task], m.task)]
    BY <1>2 DEF StartPeriodic
  <2>2. /\ job'[j].task = m.task /\ job'[j].status = "PENDING" /\ job'[j].counts = Zero
        /\ \A i \in Jobs \ {j} : job'[i] = job[i]
    BY <2>1 DEF NewRow, NoRow, TypeInv, TypeOK
  <2>3. m.task \notin Jobs
    BY <1>2, ConstantsAssumption DEF StartPeriodic
  <2>4. ~Busy(w) /\ MayRun(m) /\ UNCHANGED Kept /\ UNCHANGED <<attempts, abandoned>>
    BY <1>2 DEF StartPeriodic, Kept
  <2> QED BY <2>1, <2>2, <2>3, <2>4, BeginTakes DEF Takes, MayRun
<1> QED BY <1>1, <1>2 DEF Take

LEMMA WebEdits ==
  ASSUME TypeInv, RevokeInv,
         \/ \E r \in Requests : \/ CreateJob(r) \/ EnqueueFails(r) \/ SaveTaskId(r)
                               \/ NoWorkersOnline(r) \/ \E t \in Targets : CheckActive(r, t)
         \/ \E c \in Cancellers : SaveCancelled(c) \/ \E j \in Jobs : RequestCancel(c, j)
  PROVE  Edits
<1> USE DEF brokerVars, observers
<1>1. ASSUME NEW r \in Requests, CreateJob(r) PROVE Edits
  <2>1. PICK j \in Jobs :
          /\ job[j].status = "ABSENT"
          /\ job' = [job EXCEPT ![j] = NewRow(request[r].target, None)]
          /\ request' = [request EXCEPT ![r] =
                [pc |-> "created", target |-> request[r].target, job |-> j]]
    BY <1>1 DEF CreateJob
  <2>2. job'[j].status = "PENDING" /\ job'[j].task = None /\ job'[j].counts = Zero
        /\ \A i \in Jobs \ {j} : job'[i] = job[i]
    BY <2>1 DEF NewRow, NoRow, TypeInv, TypeOK
  <2>3. \A p \in Requests : request'[p] = request[p] \/ request'[p].job = j
    BY <2>1 DEF TypeInv, TypeOK
  <2> QED BY <1>1, <2>1, <2>2, <2>3 DEF CreateJob, Edits, Edit
<1>2. ASSUME NEW j \in Jobs, MarkFailed(j) \/ MarkCancelled(j) PROVE \A i \in Jobs : Edit(i)
  BY <1>2 DEF MarkFailed, MarkCancelled, Edit, TypeInv, TypeOK, JobRow
<1>3. ASSUME NEW r \in Requests, EnqueueFails(r) PROVE Edits
  <2>1. \A p \in Requests : request'[p].pc = "created" => request'[p] = request[p]
    BY <1>3 DEF EnqueueFails, NoRequest, TypeInv, TypeOK
  <2>2. request[r].job \in Jobs
    BY <1>3 DEF EnqueueFails, TypeInv, MemoryOK
  <2>3. \A i \in Jobs : Edit(i)
    BY <1>2, <1>3, <2>2 DEF EnqueueFails, Unsaved, Edit
  <2> QED BY <1>3, <2>1, <2>3 DEF EnqueueFails, Edits
<1>4. ASSUME NEW r \in Requests, SaveTaskId(r) PROVE Edits
  <2>1. \A p \in Requests : request'[p].pc = "created" => request'[p] = request[p]
    BY <1>4 DEF SaveTaskId, NoRequest, TypeInv, TypeOK
  <2>2. request[r].job \in Jobs /\ NamedOK(request[r].job)
    BY <1>4 DEF SaveTaskId, TypeInv, MemoryOK, RevokeInv
  <2>3. \A i \in Jobs : Edit(i)
    BY <1>4, <2>2 DEF SaveTaskId, NamedOK, Edit, TypeInv, TypeOK, JobRow
  <2> QED BY <1>4, <2>1, <2>3 DEF SaveTaskId, Edits
<1>5. ASSUME NEW r \in Requests, NoWorkersOnline(r) \/ \E t \in Targets : CheckActive(r, t)
      PROVE  Edits
  <2>1. \A p \in Requests : request'[p].pc = "created" => request'[p] = request[p]
    BY <1>5 DEF NoWorkersOnline, CheckActive, NoRequest, TypeInv, TypeOK
  <2> QED BY <1>5, <2>1 DEF NoWorkersOnline, CheckActive, Edits, Edit
<1>6. ASSUME NEW c \in Cancellers, SaveCancelled(c) PROVE Edits
  <2>1. cancel[c].job \in Jobs
    BY <1>6 DEF SaveCancelled, TypeInv, MemoryOK
  <2>2. \A i \in Jobs : Edit(i)
    BY <1>2, <1>6, <2>1 DEF SaveCancelled, Unsaved, Edit
  <2> QED BY <1>6, <2>2 DEF SaveCancelled, Edits
<1>7. ASSUME NEW c \in Cancellers, NEW j \in Jobs, RequestCancel(c, j) PROVE Edits
  BY <1>7 DEF RequestCancel, Edits, Edit
<1> QED BY <1>1, <1>3, <1>4, <1>5, <1>6, <1>7

LEMMA NodeDrops ==
  ASSUME TypeInv,
         \/ Fault \/ Revocation \/ UNCHANGED vars
         \/ \E w \in Workers, m \in queue : StartRaises(w, m)
  PROVE  Drops
<1> USE DEF webVars, brokerVars, observers
<1>1. UNCHANGED <<job, ticked, attempts>> /\ redelivered \subseteq redelivered'
  BY DEF Fault, Revocation, vars, DeliverRevoke, DropRevoked, CrashNode, KillWorker,
         RestoreUnacked, TriggerDies, CancelDies, StartRaises, Consume
<1>2. \A w \in Workers : Busy(w)' => worker'[w] = worker[w]
  BY IdleOK DEF Fault, Revocation, vars, DeliverRevoke, DropRevoked, CrashNode, KillWorker,
         RestoreUnacked, TriggerDies, CancelDies, StartRaises, Consume, Busy, TypeInv, TypeOK
<1>3. \A r \in Requests : request'[r].pc = "created" => request'[r] = request[r]
  BY DEF Fault, Revocation, vars, DeliverRevoke, DropRevoked, CrashNode, KillWorker,
         RestoreUnacked, TriggerDies, CancelDies, StartRaises, Consume, NoRequest, TypeInv, TypeOK
<1>4. \A m \in queue' : \/ m \in queue
                         \/ /\ m.task \in redelivered'
                            /\ \E w \in Workers : Busy(w) /\ m = worker[w].msg
  BY DEF Fault, Revocation, vars, DeliverRevoke, DropRevoked, CrashNode, KillWorker,
         RestoreUnacked, TriggerDies, CancelDies, StartRaises, Consume
<1> QED BY <1>1, <1>2, <1>3, <1>4 DEF Drops

\* Every step has one of the shapes, or sends a first message.
LEMMA StepShapes ==
  ASSUME TypeInv, RevokeInv, [Next]_vars
  PROVE  \/ \E w \in Workers : Turns(w)
         \/ \E w \in Workers, m \in queue, j \in Jobs : Takes(w, m, j)
         \/ Edits \/ Drops
         \/ \E r \in Requests : Enqueue(r)
         \/ \E t \in Ticks : Tick(t)
<1>1. ASSUME NEW w \in Workers, Take(w) \/ Attempt(w)
      PROVE  \/ Turns(w) \/ \E m \in queue, j \in Jobs : Takes(w, m, j)
             \/ Drops
  BY <1>1, TakeTakes, AttemptTurns, NodeDrops
<1> QED BY <1>1, WebEdits, NodeDrops DEF Next, TriggerStep

(***************************************************************************)
(* One delivery of a task, unless the broker delivered it again.           *)
(***************************************************************************)
Shared(t) == t \in redelivered

DeliveryInv ==
    /\ \A m, n \in queue : m.task = n.task => m = n \/ Shared(m.task)
    /\ \A v, w \in Workers :
          Writing(v) /\ Writing(w) /\ worker[v].msg.task = worker[w].msg.task
              => v = w \/ Shared(worker[v].msg.task)
    /\ \A m \in queue, w \in Workers :
          Writing(w) /\ m.task = worker[w].msg.task => Shared(m.task)
    /\ \A m \in queue : m.task \in Jobs \cup ticked
    /\ \A w \in Workers : Busy(w) => worker[w].msg.task \in Jobs \cup ticked

LEMMA DeliveryInit == Init => DeliveryInv
  BY DEF Init, DeliveryInv, Busy, Writing, IdleWorker

\* A first message for a task that nothing else delivers.
LEMMA DeliverySend ==
  ASSUME DeliveryInv, NEW m, queue' = queue \cup {m}, m.task \in Jobs \cup ticked',
         ticked \subseteq ticked', UNCHANGED <<worker, redelivered>>,
         \A n \in queue : n.task # m.task,
         \A w \in Workers : Busy(w) => worker[w].msg.task # m.task
  PROVE  DeliveryInv'
  BY DEF DeliveryInv, Busy, Writing, Shared

LEMMA DeliveryTurns ==
  ASSUME TypeInv, DeliveryInv, NEW w \in Workers, Turns(w)
  PROVE  DeliveryInv'
<1> DEFINE t == worker[w].msg.task
<1>0. worker[w].msg \in Message /\ Busy(w) /\ UNCHANGED <<redelivered, ticked>>
  BY DEF Turns, TypeInv, MemoryOK, Kept
<1>1. \A v \in Workers : Busy(v)' => Busy(v) /\ worker'[v].msg = worker[v].msg
  BY DEF Turns, Busy
<1>2. \A v \in Workers : Writing(v)' => Writing(v)
  BY DEF Turns, Starts, Saves, Succeeds, Ends, Retries, Turn, Writing
<1>3. CASE queue' = queue
  BY <1>0, <1>1, <1>2, <1>3 DEF DeliveryInv, Shared, Busy, Writing
<1>4. CASE Retries(w)
  <2>1. \A m \in queue' : m \in queue \/ (m \in RetryOf(worker[w].msg) /\ m.task = t)
    BY <1>0, <1>4 DEF Retries, RetryOf, Message
  <2>2. \A m, n \in RetryOf(worker[w].msg) : m = n
    BY DEF RetryOf
  <2>3. Writing(w) /\ ~Writing(w)'
    BY <1>4 DEF Retries, Turn, Writing
  <2>4. \A m \in queue : m.task = t => Shared(t)
    BY <2>3 DEF DeliveryInv
  <2>5. \A v \in Workers : Writing(v)' => v # w /\ (worker[v].msg.task = t => Shared(t))
    BY <1>2, <2>3 DEF DeliveryInv
  <2>6. t \in Jobs \cup ticked
    BY <1>0 DEF DeliveryInv
  <2> HIDE DEF t
  <2>7. \A m, n \in queue' : m.task = n.task => m = n \/ Shared(m.task)
    BY <2>1, <2>2, <2>4 DEF DeliveryInv
  <2>8. \A u, v \in Workers :
          Writing(u)' /\ Writing(v)' /\ worker'[u].msg.task = worker'[v].msg.task
              => u = v \/ Shared(worker'[u].msg.task)
    BY <1>1, <1>2 DEF DeliveryInv, Writing, Busy
  <2>9. \A m \in queue', v \in Workers :
          Writing(v)' /\ m.task = worker'[v].msg.task => Shared(m.task)
    <3>1. ASSUME NEW m \in queue', NEW v \in Workers, Writing(v)', m.task = worker'[v].msg.task
          PROVE  Shared(m.task)
      <4>1. Writing(v) /\ worker'[v].msg = worker[v].msg
        BY <1>1, <1>2, <3>1 DEF Writing, Busy
      <4>2. CASE m \in queue
        BY <3>1, <4>1, <4>2 DEF DeliveryInv
      <4>3. CASE m.task = t
        BY <2>5, <3>1, <4>1, <4>3
      <4> QED BY <2>1, <4>2, <4>3
    <3> QED BY <3>1
  <2>10. \A m \in queue' : m.task \in Jobs \cup ticked
    BY <2>1, <2>6 DEF DeliveryInv
  <2>11. \A v \in Workers : Busy(v)' => worker'[v].msg.task \in Jobs \cup ticked
    BY <1>1 DEF DeliveryInv
  <2> QED BY <1>0, <2>7, <2>8, <2>9, <2>10, <2>11 DEF DeliveryInv, Shared
<1> QED BY <1>3, <1>4 DEF Turns, Starts, Saves, Succeeds, Ends

LEMMA DeliveryNext == TypeInv /\ RevokeInv /\ DeliveryInv /\ [Next]_vars => DeliveryInv'
<1> SUFFICES ASSUME TypeInv, RevokeInv, DeliveryInv, [Next]_vars PROVE DeliveryInv'
  OBVIOUS
<1>1. ASSUME NEW w \in Workers, NEW m \in queue, NEW j \in Jobs, Takes(w, m, j)
      PROVE  DeliveryInv'
  <2>1. /\ \A v \in Workers \ {w} : worker'[v] = worker[v]
        /\ Writing(w)' /\ Busy(w)' /\ worker'[w].msg = m
        /\ queue' = queue \ {m} /\ UNCHANGED <<redelivered, ticked>>
    BY <1>1 DEF Takes, Writing, Busy, Kept
  <2>2. \A n \in queue' : n.task = m.task => Shared(m.task)
    BY <2>1 DEF DeliveryInv
  <2>3. \A v \in Workers \ {w} : Writing(v) /\ worker[v].msg.task = m.task => Shared(m.task)
    BY DEF DeliveryInv
  <2> QED BY <2>1, <2>2, <2>3 DEF DeliveryInv, Shared, Writing, Busy
<1>2. CASE Edits
  BY <1>2 DEF Edits, DeliveryInv, Shared, Writing, Busy
<1>3. CASE Drops
  <2>1. /\ \A w \in Workers : Busy(w)' => Busy(w) /\ worker'[w] = worker[w]
        /\ \A w \in Workers : Writing(w)' => Writing(w) /\ worker'[w] = worker[w]
        /\ \A m \in queue' : m \in queue \/ m.task \in redelivered'
        /\ redelivered \subseteq redelivered' /\ ticked' = ticked
    BY <1>3 DEF Drops, Busy, Writing
  <2>2. \A m \in queue' : m.task \in Jobs \cup ticked
    BY <1>3 DEF Drops, DeliveryInv
  <2> QED BY <2>1, <2>2 DEF DeliveryInv, Shared
<1>4. ASSUME NEW r \in Requests, Enqueue(r) PROVE DeliveryInv'
  <2>1. CreatedOK(r) /\ request[r].job \in Jobs
    BY <1>4 DEF Enqueue, RevokeInv, TypeInv, MemoryOK
  <2> DEFINE m == [task |-> request[r].job, retries |-> 0]
  <2>2. queue' = queue \cup {m} /\ UNCHANGED <<worker, ticked, redelivered>>
    BY <1>4 DEF Enqueue, observers
  <2>3. m.task = request[r].job
    OBVIOUS
  <2> HIDE DEF m
  <2> QED BY <2>1, <2>2, <2>3, DeliverySend DEF CreatedOK
<1>5. ASSUME NEW t \in Ticks, Tick(t) PROVE DeliveryInv'
  <2>1. t \notin Jobs \cup ticked
    BY <1>5, ConstantsAssumption DEF Tick
  <2>2. /\ \A m \in queue : m.task # t
        /\ \A w \in Workers : Busy(w) => worker[w].msg.task # t
    BY <2>1 DEF DeliveryInv
  <2>3. /\ queue' = queue \cup {[task |-> t, retries |-> 0]}
        /\ ticked' = ticked \cup {t} /\ UNCHANGED <<worker, redelivered>>
    BY <1>5 DEF Tick, observers
  <2> DEFINE m == [task |-> t, retries |-> 0]
  <2>4. m.task = t /\ queue' = queue \cup {m}
    BY <2>3
  <2> HIDE DEF m
  <2> QED BY <2>2, <2>3, <2>4, DeliverySend
<1> QED BY <1>1, <1>2, <1>3, <1>4, <1>5, StepShapes, DeliveryTurns

LEMMA AtMostOne ==
  ASSUME NEW A, NEW B, \A a, b \in A : a = b, \A a, b \in B : a = b, A = {} \/ B = {}
  PROVE  Cardinality(A) + Cardinality(B) <= 1
<1>1. ASSUME NEW S, \A a, b \in S : a = b PROVE S = {} \/ \E x : S = {x}
  BY <1>1, Zenon
<1>2. Cardinality({}) = 0 /\ \A x : Cardinality({x}) = 1
  BY FS_EmptySet, FS_Singleton
<1>3. (A = {} \/ \E x : A = {x}) /\ (B = {} \/ \E x : B = {x})
  BY <1>1
<1>4. Cardinality(A) \in {0, 1} /\ Cardinality(B) \in {0, 1}
  BY <1>2, <1>3
<1>5. Cardinality(A) = 0 \/ Cardinality(B) = 0
  BY <1>2
<1> QED BY <1>4, <1>5

\* However many workers, retries and faults there are, a task the broker did
\* not deliver again is in one place: one message, or one process that may
\* still write, never a retry beside the attempt that published it.
THEOREM DeliveryCorrect == Spec => []OneDelivery
<1>1. TypeInv /\ DeliveryInv => OneDelivery
  <2> SUFFICES ASSUME TypeInv, DeliveryInv, NEW t \in Task \ redelivered
               PROVE  Deliveries(t) <= 1
    BY DEF OneDelivery
  <2> DEFINE A == {m \in queue : m.task = t}
             B == {w \in Workers : Writing(w) /\ worker[w].msg.task = t}
  <2>1. /\ \A a, b \in A : a = b
        /\ \A a, b \in B : a = b
        /\ \A a \in A, b \in B : FALSE
    BY DEF DeliveryInv, Shared
  <2>2. A = {} \/ B = {}
    BY <2>1, Zenon
  <2> HIDE DEF A, B
  <2>3. Cardinality(A) + Cardinality(B) <= 1
    BY <2>1, <2>2, AtMostOne
  <2> QED BY <2>3 DEF Deliveries, A, B
<1> QED BY <1>1, TypeInit, TypeNext, RevokeInit, RevokeNext, DeliveryInit, DeliveryNext, PTL
     DEF Spec

(***************************************************************************)
(* A row is run at most max_retries + 1 times: the retries a message       *)
(* counts bound the attempts made before it.                               *)
(***************************************************************************)
AttemptInv ==
    /\ \A j \in Jobs : job[j].status = "ABSENT" \/ job[j].task = None => attempts[j] = 0
    /\ \A j \in Jobs : Shared(job[j].task) \/ attempts[j] <= MaxRetries + 1
    /\ \A m \in queue :
          m.task \in Jobs => Shared(m.task) \/ attempts[m.task] <= m.retries
    /\ \A w \in Workers : Writing(w) =>
          \/ Shared(worker[w].msg.task)
          \/ attempts[worker[w].job] <= worker[w].msg.retries
          \/ /\ worker[w].pc # "loaded"
             /\ attempts[worker[w].job] = worker[w].msg.retries + 1

LEMMA AttemptInit == Init => AttemptInv
  BY ConstantsAssumption DEF Init, AttemptInv, Writing, IdleWorker

\* Who else may still write the row of a worker that writes, or names it in a
\* message, was delivered again.
LEMMA SameRow ==
  ASSUME TypeInv, RevokeInv, DeliveryInv, NEW w \in Workers, Writing(w)
  PROVE  /\ \A v \in Workers \ {w} :
              Writing(v) /\ worker[v].job = worker[w].job => Shared(worker[v].msg.task)
         /\ \A m \in queue : m.task = worker[w].job => Shared(m.task)
<1>0. Busy(w) /\ HolderOK(w) /\ worker[w].msg.task \in Task
  BY DEF Writing, Busy, RevokeInv, TypeInv, MemoryOK, Message
<1>1. ASSUME NEW v \in Workers \ {w}, Writing(v), worker[v].job = worker[w].job
      PROVE  Shared(worker[v].msg.task)
  <2>1. HolderOK(v)
    BY <1>1 DEF Writing, Busy, RevokeInv
  <2> QED BY <1>0, <1>1, <2>1 DEF HolderOK, DeliveryInv
<1>2. ASSUME NEW m \in queue, m.task = worker[w].job PROVE Shared(m.task)
  <2>1. NamedOK(m.task)
    BY <1>0, <1>2 DEF RevokeInv, TypeInv, MemoryOK
  <2>2. worker[w].msg.task = m.task
    BY <1>0, <1>2, <2>1, ConstantsAssumption DEF HolderOK, NamedOK, Task
  <2> QED BY <2>2 DEF DeliveryInv
<1> QED BY <1>1, <1>2

LEMMA AttemptTurn ==
  ASSUME TypeInv, RevokeInv, DeliveryInv, AttemptInv, NEW w \in Workers, Turns(w)
  PROVE  AttemptInv'
<1> DEFINE me == worker[w]
           j == me.job
           t == me.msg.task
<1>0. /\ Busy(w) /\ HolderOK(w) /\ j \in Jobs /\ t \in Task /\ t # None
      /\ attempts[j] \in Nat /\ me.msg.retries \in 0..MaxRetries
  BY ConstantsAssumption
  DEF Turns, RevokeInv, TypeInv, TypeOK, MemoryOK, Message, Task
<1>1. /\ \A i \in Jobs \ {j} : job'[i] = job[i] /\ attempts'[i] = attempts[i]
      /\ \A v \in Workers \ {w} : worker'[v] = worker[v]
      /\ job'[j].task = t /\ redelivered' = redelivered
      /\ Busy(w)' => worker'[w].msg = me.msg /\ worker'[w].job = j
  BY <1>0 DEF Turns, Kept, HolderOK
<1>2. \A v \in Workers : Writing(v)' =>
        Writing(v) /\ (worker'[v].pc = "loaded" => worker[v].pc = "loaded")
  BY DEF Turns, Starts, Saves, Succeeds, Ends, Retries, Turn, Writing
<1>3. CASE Starts(w)
  <2>1. /\ attempts'[j] = attempts[j] + 1 /\ me.pc = "loaded" /\ worker'[w].pc # "loaded"
        /\ queue' = queue /\ job'[j].status # "ABSENT" /\ Writing(w)
    BY <1>3 DEF Starts, Turn, Writing
  <2>2. Shared(t) \/ attempts[j] <= me.msg.retries
    BY <2>1 DEF AttemptInv
  <2>3. \A i \in Jobs :
          job'[i].status = "ABSENT" \/ job'[i].task = None => attempts'[i] = 0
    BY <1>0, <1>1, <2>1 DEF AttemptInv
  <2>4. \A i \in Jobs : Shared(job'[i].task) \/ attempts'[i] <= MaxRetries + 1
    BY <1>0, <1>1, <2>1, <2>2, ConstantsAssumption DEF AttemptInv
  <2>5. \A m \in queue' : m.task \in Jobs => Shared(m.task) \/ attempts'[m.task] <= m.retries
    BY <1>1, <2>1, SameRow DEF AttemptInv
  <2>6. ASSUME NEW v \in Workers, Writing(v)'
        PROVE  \/ Shared(worker'[v].msg.task)
               \/ attempts'[worker'[v].job] <= worker'[v].msg.retries
               \/ /\ worker'[v].pc # "loaded"
                  /\ attempts'[worker'[v].job] = worker'[v].msg.retries + 1
    <3>1. CASE v = w
      <4>1. worker'[w].msg = me.msg /\ worker'[w].job = j
        BY <1>1, <2>6, <3>1 DEF Writing, Busy
      <4> QED BY <1>0, <2>1, <2>2, <3>1, <4>1
    <3>2. CASE v # w
      <4>1. worker'[v] = worker[v] /\ Writing(v) /\ worker[v].job \in Jobs
        BY <1>1, <2>6, <3>2 DEF Writing, Busy, TypeInv, MemoryOK
      <4>2. CASE worker[v].job = j
        BY <2>1, <3>2, <4>1, <4>2, SameRow
      <4>3. CASE worker[v].job # j
        BY <1>1, <4>1, <4>3 DEF AttemptInv
      <4> QED BY <4>2, <4>3
    <3> QED BY <3>1, <3>2
  <2> QED BY <1>1, <2>3, <2>4, <2>5, <2>6 DEF AttemptInv, Shared
<1>4. CASE Saves(w) \/ Succeeds(w) \/ Ends(w) \/ Retries(w)
  <2>1. /\ attempts'[j] = attempts[j]
        /\ job'[j].status \in {job[j].status, "SUCCESS", "FAILED"}
    BY <1>0, <1>4 DEF Saves, Succeeds, Ends, Retries, Turn
  <2>2. \A i \in Jobs : attempts'[i] = attempts[i] /\ job'[i].task = job[i].task
                        /\ (job'[i].status = "ABSENT" => job[i].status = "ABSENT")
    BY <1>0, <1>1, <2>1 DEF HolderOK
  <2>3. \A v \in Workers : Writing(v)' =>
          /\ Writing(v) /\ worker[v].job \in Jobs
          /\ worker'[v].msg = worker[v].msg /\ worker'[v].job = worker[v].job
          /\ worker'[v].pc = "loaded" => worker[v].pc = "loaded"
    BY <1>1, <1>2 DEF Writing, Busy, TypeInv, MemoryOK
  <2>4. \A m \in queue' : m \in queue \/ (Writing(w) /\ m.task = t /\ m.retries = me.msg.retries + 1)
    <3>1. me.msg \in Message
      BY <1>0 DEF TypeInv, MemoryOK
    <3>2. \A m \in RetryOf(me.msg) : m.task = t /\ m.retries = me.msg.retries + 1
      BY <3>1 DEF RetryOf, Message
    <3>3. CASE Retries(w)
      BY <3>2, <3>3 DEF Retries, Turn, Writing
    <3> QED BY <1>4, <3>3 DEF Saves, Succeeds, Ends
  <2>5. \A m \in queue' : m.task \in Jobs => Shared(m.task) \/ attempts'[m.task] <= m.retries
    <3>1. ASSUME NEW m \in queue', m.task \in Jobs
          PROVE  Shared(m.task) \/ attempts'[m.task] <= m.retries
      <4>1. CASE m \in queue
        BY <2>2, <3>1, <4>1 DEF AttemptInv
      <4>2. CASE Writing(w) /\ m.task = t /\ m.retries = me.msg.retries + 1
        <5>1. j = t
          BY <1>0, <3>1, <4>2 DEF HolderOK
        <5>2. \/ Shared(t) \/ attempts[j] <= me.msg.retries
              \/ attempts[j] = me.msg.retries + 1
          BY <4>2 DEF AttemptInv
        <5> QED BY <1>0, <2>2, <4>2, <5>1, <5>2
      <4> QED BY <2>4, <3>1, <4>1, <4>2
    <3> QED BY <3>1
  <2> HIDE DEF j, t, me
  <2>6. /\ \A i \in Jobs : job'[i].status = "ABSENT" \/ job'[i].task = None => attempts'[i] = 0
        /\ \A i \in Jobs : Shared(job'[i].task) \/ attempts'[i] <= MaxRetries + 1
    BY <2>2 DEF AttemptInv
  <2>7. \A v \in Workers : Writing(v)' =>
               \/ Shared(worker'[v].msg.task)
               \/ attempts'[worker'[v].job] <= worker'[v].msg.retries
               \/ /\ worker'[v].pc # "loaded"
                  /\ attempts'[worker'[v].job] = worker'[v].msg.retries + 1
    BY <2>2, <2>3 DEF AttemptInv
  <2> QED BY <1>1, <2>5, <2>6, <2>7 DEF AttemptInv, Shared
<1> QED BY <1>3, <1>4 DEF Turns

LEMMA AttemptNext ==
  TypeInv /\ RevokeInv /\ DeliveryInv /\ AttemptInv /\ [Next]_vars => AttemptInv'
<1> SUFFICES ASSUME TypeInv, RevokeInv, DeliveryInv, AttemptInv, [Next]_vars PROVE AttemptInv'
  OBVIOUS
<1>0. /\ \A w \in Workers : Busy(w) => worker[w].job \in Jobs
      /\ \A w \in Workers : Writing(w) => Busy(w)
  BY DEF TypeInv, MemoryOK, Writing, Busy
<1>1. ASSUME NEW w \in Workers, NEW m \in queue, NEW j \in Jobs, Takes(w, m, j)
      PROVE  AttemptInv'
  <2>1. /\ \A v \in Workers \ {w} : worker'[v] = worker[v]
        /\ worker'[w].msg = m /\ worker'[w].job = j
        /\ \A n \in queue' : n \in queue
        /\ UNCHANGED <<redelivered, attempts>>
        /\ \A i \in Jobs \ {j} : job'[i] = job[i]
        /\ job'[j].task = m.task /\ job'[j].status # "ABSENT"
    BY <1>1 DEF Takes, Kept, RevokeInv, NamedOK
  <2>2. m.task \in Task /\ m.retries \in Nat /\ m.retries <= MaxRetries /\ m.task # None
    BY ConstantsAssumption DEF TypeInv, TypeOK, Message, Task
  <2>3. Shared(m.task) \/ attempts[j] <= m.retries
    <3>1. CASE m.task = j
      BY <3>1 DEF AttemptInv
    <3>2. CASE job[j].status = "ABSENT"
      BY <2>2, <3>2 DEF AttemptInv
    <3> QED BY <1>1, <3>1, <3>2 DEF Takes
  <2>4. /\ \A i \in Jobs : job'[i].status = "ABSENT" \/ job'[i].task = None => attempts'[i] = 0
        /\ \A i \in Jobs : Shared(job'[i].task) \/ attempts'[i] <= MaxRetries + 1
    BY <2>1, <2>2, <2>3, ConstantsAssumption DEF AttemptInv, TypeInv, TypeOK
  <2>5. \A v \in Workers : Writing(v)' =>
               \/ Shared(worker'[v].msg.task)
               \/ attempts'[worker'[v].job] <= worker'[v].msg.retries
               \/ /\ worker'[v].pc # "loaded"
                  /\ attempts'[worker'[v].job] = worker'[v].msg.retries + 1
    BY <2>1, <2>3 DEF AttemptInv, Writing
  <2> QED BY <2>1, <2>4, <2>5 DEF AttemptInv, Shared
<1>2. CASE Edits
  <2>1. UNCHANGED <<worker, queue, redelivered, attempts>>
    BY <1>2 DEF Edits
  <2>2. ASSUME NEW j \in Jobs
        PROVE  /\ job'[j].status = "ABSENT" \/ job'[j].task = None => attempts[j] = 0
               /\ Shared(job'[j].task) \/ attempts[j] <= MaxRetries + 1
    <3>1. Edit(j)
      BY <1>2 DEF Edits
    <3> QED BY <3>1, ConstantsAssumption DEF Edit, AttemptInv
  <2> QED BY <2>1, <2>2 DEF AttemptInv, Shared, Writing
<1>3. CASE Drops
  <2>1. /\ \A w \in Workers : Writing(w)' => Writing(w) /\ worker'[w] = worker[w]
        /\ \A m \in queue' : m \in queue \/ m.task \in redelivered'
        /\ \A t : Shared(t) => t \in redelivered'
        /\ UNCHANGED <<job, attempts>>
    BY <1>3 DEF Drops, Busy, Writing, Shared
  <2> QED BY <2>1 DEF AttemptInv, Shared
<1>4. ASSUME NEW r \in Requests, Enqueue(r) PROVE AttemptInv'
  <2> DEFINE m == [task |-> request[r].job, retries |-> 0]
  <2>1. request[r].job \in Jobs /\ attempts[request[r].job] = 0
    BY <1>4 DEF Enqueue, RevokeInv, CreatedOK, TypeInv, MemoryOK, AttemptInv
  <2>2. queue' = queue \cup {m} /\ UNCHANGED <<job, worker, redelivered, attempts>>
    BY <1>4 DEF Enqueue, observers
  <2>3. m.task = request[r].job /\ m.retries = 0
    OBVIOUS
  <2> HIDE DEF m
  <2> QED BY <2>1, <2>2, <2>3 DEF AttemptInv, Shared, Writing
<1>5. ASSUME NEW t \in Ticks, Tick(t) PROVE AttemptInv'
  <2>1. t \notin Jobs
    BY ConstantsAssumption
  <2>2. \A m \in queue' : m \in queue \/ m.task = t
    BY <1>5 DEF Tick
  <2>3. UNCHANGED <<job, worker, redelivered, attempts>>
    BY <1>5 DEF Tick, observers
  <2> QED BY <2>1, <2>2, <2>3 DEF AttemptInv, Shared, Writing
<1> QED BY <1>1, <1>2, <1>3, <1>4, <1>5, StepShapes, AttemptTurn

\* A row whose message the broker delivered once is marked RUNNING at most
\* max_retries + 1 times, whatever fails or dies: a failed start uses a retry
\* up, and the row of a tick is never the row of its retry.
THEOREM AttemptsCorrect == Spec => []AttemptsBounded
<1>1. AttemptInv => AttemptsBounded
  BY DEF AttemptInv, AttemptsBounded, Shared
<1> QED BY <1>1, TypeInit, TypeNext, RevokeInit, RevokeNext, DeliveryInit, DeliveryNext,
           AttemptInit, AttemptNext, PTL DEF Spec

(***************************************************************************)
(* A row that succeeded is not run again: whatever may still run it comes  *)
(* before its success.                                                     *)
(***************************************************************************)
Unended(w) == worker[w].pc \in {"loaded", "collecting", "streaming", "flushing"}

SuccessInv ==
    /\ \A r \in Requests :
          request[r].pc = "created" => job[request[r].job].status # "SUCCESS"
    /\ \A m \in queue :
          m.task \in Jobs => Shared(m.task) \/ job[m.task].status # "SUCCESS"
    /\ \A w \in Workers :
          Unended(w) => Shared(worker[w].msg.task) \/ job[worker[w].job].status # "SUCCESS"

LEMMA SuccessInit == Init => SuccessInv
  BY DEF Init, SuccessInv, Unended, IdleWorker, NoRequest

LEMMA SuccessTurn ==
  ASSUME TypeInv, RevokeInv, DeliveryInv, SuccessInv, NEW w \in Workers, Turns(w)
  PROVE  SuccessInv'
<1> DEFINE me == worker[w]
           j == me.job
<1>0. Busy(w) /\ HolderOK(w) /\ j \in Jobs /\ me.msg \in Message
  BY DEF Turns, RevokeInv, TypeInv, MemoryOK
<1>1. /\ \A i \in Jobs \ {j} : job'[i] = job[i]
      /\ \A v \in Workers \ {w} : worker'[v] = worker[v]
      /\ UNCHANGED <<request, redelivered>>
      /\ Busy(w)' => worker'[w].msg = me.msg /\ worker'[w].job = j
  BY DEF Turns, Kept
<1>2. \A m \in queue' : m \in queue \/ (Retries(w) /\ m.task = me.msg.task)
  <2>1. \A m \in RetryOf(me.msg) : m.task = me.msg.task
    BY <1>0 DEF RetryOf, Message
  <2> QED BY <2>1 DEF Turns, Starts, Saves, Succeeds, Ends, Retries
<1>3. CASE Succeeds(w)
  <2>1. Writing(w) /\ worker'[w].pc = "returning" /\ queue' = queue
    BY <1>3 DEF Succeeds, Turn, Writing
  <2>2. ASSUME NEW r \in Requests, request'[r].pc = "created"
        PROVE  job'[request'[r].job].status # "SUCCESS"
    <3>1. CreatedOK(r) /\ request[r].job \in Jobs
      BY <1>1, <2>2 DEF RevokeInv, TypeInv, MemoryOK
    <3>2. request[r].job # j
      BY <1>0, <3>1, ConstantsAssumption DEF CreatedOK, HolderOK, Message, Task
    <3> QED BY <1>1, <2>2, <3>1, <3>2 DEF SuccessInv
  <2>3. ASSUME NEW m \in queue', m.task \in Jobs
        PROVE  Shared(m.task) \/ job'[m.task].status # "SUCCESS"
    BY <1>1, <2>1, <2>3, SameRow DEF SuccessInv
  <2>4. ASSUME NEW v \in Workers, Unended(v)'
        PROVE  Shared(worker'[v].msg.task) \/ job'[worker'[v].job].status # "SUCCESS"
    <3>1. v # w /\ worker'[v] = worker[v] /\ Writing(v) /\ worker[v].job \in Jobs
      BY <1>1, <2>1, <2>4 DEF Unended, Writing, Busy, TypeInv, MemoryOK
    <3> QED BY <1>1, <2>1, <2>4, <3>1, SameRow DEF SuccessInv, Unended
  <2> QED BY <1>1, <2>2, <2>3, <2>4 DEF SuccessInv, Shared
<1>4. CASE Starts(w) \/ Saves(w) \/ Ends(w) \/ Retries(w)
  <2>1. /\ \A v \in Workers : Unended(v)' => Unended(v)
        /\ job'[j].status \in {job[j].status, "RUNNING", "FAILED"}
        /\ Retries(w) => job'[j].status = "FAILED"
    <3>1. \A v \in Workers : Unended(v)' => Unended(v)
      BY <1>1, <1>4 DEF Starts, Saves, Ends, Retries, Turn, Unended
    <3>2. CASE Starts(w) \/ Saves(w)
      BY <3>1, <3>2 DEF Starts, Saves, Retries, Turn
    <3>3. CASE Ends(w)
      BY <3>1, <3>3 DEF Ends, Retries, Turn
    <3>4. CASE Retries(w)
      BY <3>1, <3>4 DEF Retries, Turn
    <3> QED BY <1>4, <3>2, <3>3, <3>4
  <2>2. \A i \in Jobs : job'[i].status = "SUCCESS" => job[i].status = "SUCCESS"
    BY <1>1, <2>1
  <2>3. ASSUME NEW r \in Requests, request'[r].pc = "created"
        PROVE  job'[request'[r].job].status # "SUCCESS"
    BY <1>1, <2>2, <2>3 DEF SuccessInv, TypeInv, MemoryOK
  <2>4. ASSUME NEW m \in queue', m.task \in Jobs
        PROVE  Shared(m.task) \/ job'[m.task].status # "SUCCESS"
    <3>1. CASE m \in queue
      BY <2>2, <2>4, <3>1 DEF SuccessInv
    <3>2. CASE Retries(w) /\ m.task = me.msg.task
      <4>1. m.task = j
        BY <1>0, <2>4, <3>2 DEF HolderOK
      <4> QED BY <2>1, <3>2, <4>1
    <3> QED BY <1>2, <3>1, <3>2
  <2>5. ASSUME NEW v \in Workers, Unended(v)'
        PROVE  Shared(worker'[v].msg.task) \/ job'[worker'[v].job].status # "SUCCESS"
    <3>1. /\ Unended(v) /\ worker[v].job \in Jobs
          /\ worker'[v].msg = worker[v].msg /\ worker'[v].job = worker[v].job
      BY <1>1, <2>1, <2>5 DEF Unended, Busy, TypeInv, MemoryOK
    <3>2. CASE v = w
      BY <2>1, <2>2, <2>5, <3>1, <3>2 DEF SuccessInv
    <3>3. CASE v # w
      BY <1>1, <2>2, <2>5, <3>1, <3>3 DEF SuccessInv
    <3> QED BY <3>2, <3>3
  <2> QED BY <1>1, <2>3, <2>4, <2>5 DEF SuccessInv, Shared
<1> QED BY <1>3, <1>4 DEF Turns

LEMMA SuccessNext ==
  TypeInv /\ RevokeInv /\ DeliveryInv /\ SuccessInv /\ [Next]_vars => SuccessInv'
<1> SUFFICES ASSUME TypeInv, RevokeInv, DeliveryInv, SuccessInv, [Next]_vars PROVE SuccessInv'
  OBVIOUS
<1>1. ASSUME NEW w \in Workers, NEW m \in queue, NEW j \in Jobs, Takes(w, m, j)
      PROVE  SuccessInv'
  <2>1. /\ \A v \in Workers \ {w} : worker'[v] = worker[v]
        /\ worker'[w].msg = m /\ worker'[w].job = j
        /\ \A n \in queue' : n \in queue
        /\ UNCHANGED <<redelivered, request>>
        /\ \A i \in Jobs \ {j} : job'[i] = job[i]
        /\ job'[j].status = "SUCCESS" => m.task = j /\ job[j].status = "SUCCESS"
    BY <1>1 DEF Takes, Kept
  <2>2. \A i \in Jobs : job'[i].status = "SUCCESS" => job[i].status = "SUCCESS"
    BY <2>1
  <2>3. Shared(m.task) \/ job'[j].status # "SUCCESS"
    BY <2>1 DEF SuccessInv
  <2>4. ASSUME NEW v \in Workers, Unended(v)'
        PROVE  Shared(worker'[v].msg.task) \/ job'[worker'[v].job].status # "SUCCESS"
    <3>1. CASE v = w
      BY <2>1, <2>3, <3>1
    <3>2. CASE v # w
      BY <2>1, <2>2, <2>4, <3>2 DEF SuccessInv, Unended, Busy, TypeInv, MemoryOK
    <3> QED BY <3>1, <3>2
  <2>5. \A r \in Requests : request'[r].pc = "created" => job'[request'[r].job].status # "SUCCESS"
    BY <2>1, <2>2 DEF SuccessInv, TypeInv, MemoryOK
  <2> QED BY <2>1, <2>2, <2>4, <2>5 DEF SuccessInv, Shared
<1>2. CASE Edits
  <2>1. UNCHANGED <<worker, queue, redelivered>>
    BY <1>2 DEF Edits
  <2>2. \A j \in Jobs : job'[j].status = "SUCCESS" => job[j].status = "SUCCESS"
    BY <1>2 DEF Edits, Edit
  <2>3. ASSUME NEW r \in Requests, request'[r].pc = "created"
        PROVE  job'[request'[r].job].status # "SUCCESS"
    <3>1. CASE request'[r] = request[r]
      BY <2>2, <2>3, <3>1 DEF SuccessInv, TypeInv, MemoryOK
    <3> QED BY <1>2, <2>3, <3>1 DEF Edits
  <2>4. \A w \in Workers : Unended(w) => worker[w].job \in Jobs
    BY DEF Unended, Busy, TypeInv, MemoryOK
  <2> QED BY <2>1, <2>2, <2>3, <2>4 DEF SuccessInv, Shared, Unended
<1>3. CASE Drops
  <2>1. /\ \A w \in Workers : Unended(w)' => worker'[w] = worker[w]
        /\ \A m \in queue' : m \in queue \/ m.task \in redelivered'
        /\ \A t : Shared(t) => t \in redelivered'
        /\ job' = job
        /\ \A r \in Requests : request'[r].pc = "created" => request'[r] = request[r]
    BY <1>3 DEF Drops, Busy, Unended, Shared
  <2> QED BY <2>1 DEF SuccessInv, Shared, Unended
<1>4. ASSUME NEW r \in Requests, Enqueue(r) PROVE SuccessInv'
  <2> DEFINE m == [task |-> request[r].job, retries |-> 0]
  <2>1. job[request[r].job].status # "SUCCESS"
    BY <1>4 DEF Enqueue, SuccessInv
  <2>2. queue' = queue \cup {m} /\ UNCHANGED <<job, worker, redelivered>>
    BY <1>4 DEF Enqueue, observers
  <2>3. m.task = request[r].job
    OBVIOUS
  <2>4. \A p \in Requests : request'[p].pc = "created" => request'[p] = request[p]
    BY <1>4 DEF Enqueue, TypeInv, TypeOK, RequestState
  <2> HIDE DEF m
  <2> QED BY <2>1, <2>2, <2>3, <2>4 DEF SuccessInv, Shared, Unended
<1>5. ASSUME NEW t \in Ticks, Tick(t) PROVE SuccessInv'
  <2>1. t \notin Jobs
    BY ConstantsAssumption
  <2>2. \A m \in queue' : m \in queue \/ m.task = t
    BY <1>5 DEF Tick
  <2>3. UNCHANGED <<job, worker, redelivered, request>>
    BY <1>5 DEF Tick, observers, webVars
  <2> QED BY <2>1, <2>2, <2>3 DEF SuccessInv, Shared, Unended
<1> QED BY <1>1, <1>2, <1>3, <1>4, <1>5, StepShapes, SuccessTurn

LEMMA SuccessStays ==
  ASSUME TypeInv, RevokeInv, SuccessInv, [Next]_vars, NEW j \in Jobs,
         job[j].status = "SUCCESS", ~Shared(job[j].task)
  PROVE  job'[j].status \in Terminal
<1> USE DEF Terminal
<1>1. ASSUME NEW w \in Workers, Turns(w) PROVE job'[j].status \in Terminal
  <2>1. CASE worker[w].job # j
    BY <1>1, <2>1 DEF Turns
  <2>2. CASE worker[w].job = j
    <3>1. ~Starts(w)
      <4>1. SUFFICES ASSUME Starts(w) PROVE FALSE
        OBVIOUS
      <4>2. Unended(w) /\ HolderOK(w)
        BY <4>1 DEF Starts, Turn, Unended, Busy, RevokeInv
      <4> QED BY <2>2, <4>2 DEF SuccessInv, HolderOK
    <3> QED BY <1>1, <2>2, <3>1 DEF Turns, Saves, Succeeds, Ends, Retries, Turn
  <2> QED BY <2>1, <2>2
<1>2. ASSUME NEW w \in Workers, NEW m \in queue, NEW i \in Jobs, Takes(w, m, i)
      PROVE  job'[j].status \in Terminal
  BY <1>2 DEF Takes
<1>3. CASE Edits
  BY <1>3 DEF Edits, Edit
<1> QED BY <1>1, <1>2, <1>3, StepShapes DEF Drops, Enqueue, Tick

\* A row that succeeded stays in a terminal status unless the broker delivers
\* its message again: no retry, no second process and no request that read the
\* row before can put it back to RUNNING or PENDING.
THEOREM SuccessCorrect == Spec => SuccessNotRerun
<1>1. TypeInv /\ RevokeInv /\ SuccessInv /\ [Next]_vars =>
        [\A j \in Jobs : job[j].status = "SUCCESS" /\ job[j].task \notin redelivered
                            => job'[j].status \in Terminal]_vars
  BY SuccessStays DEF Shared
<1> QED BY <1>1, TypeInit, TypeNext, RevokeInit, RevokeNext, DeliveryInit, DeliveryNext,
           SuccessInit, SuccessNext, PTL DEF Spec, SuccessNotRerun

(***************************************************************************)
(* An active row has somebody behind it. A message or a created request    *)
(* counts only while the row's task is not being revoked: the node will    *)
(* drop the message of a revoked task without a word to the database. And  *)
(* a worker whose run has returned does not count: it saves nothing more.  *)
(***************************************************************************)
Recalled == broadcast \cup revoked

Moved(j) ==
    \/ j \in abandoned
    \/ \E c \in Cancellers : cancel[c].pc = "revoking" /\ cancel[c].job = j
    \/ \E w \in Workers : Writing(w) /\ worker[w].pc # "returning" /\ worker[w].job = j
    \/ /\ j \notin Recalled
       /\ \/ \E m \in queue : m.task = j
          \/ \E r \in Requests : request[r].pc = "created" /\ request[r].job = j

RecalledOK(t) == job[t].task = t /\ job[t].status # "ABSENT"

OwnerInv ==
    /\ \A j \in Jobs : job[j].task \in {None, j} \cup Ticks
    /\ \A t \in Recalled : t \in Jobs => RecalledOK(t)
    /\ \A j \in Jobs : job[j].status \in Active => Moved(j)

LEMMA OwnerInit == Init => OwnerInv
  BY DEF Init, OwnerInv, Recalled, NoRow, Active

LEMMA OwnerTurn ==
  ASSUME TypeInv, RevokeInv, OwnerInv, NEW w \in Workers, Turns(w)
  PROVE  OwnerInv'
<1>a. PICK j \in Jobs : j = worker[w].job
  BY DEF Turns, TypeInv, MemoryOK
<1>0. Busy(w) /\ HolderOK(w)
  BY DEF Turns, RevokeInv
<1>1. /\ \A i \in Jobs \ {j} : job'[i] = job[i]
      /\ job'[j].task = job[j].task /\ job'[j].status # "ABSENT"
      /\ \A v \in Workers \ {w} : worker'[v] = worker[v]
      /\ UNCHANGED <<request, cancel, broadcast, revoked>>
      /\ abandoned \subseteq abandoned' /\ Recalled' = Recalled
      /\ Busy(w)' => worker'[w].job = j
  BY <1>0, <1>a
  DEF Turns, Kept, Recalled, HolderOK, Starts, Saves, Succeeds, Ends, Retries, Turn
<1>2. queue \subseteq queue'
  BY DEF Turns, Starts, Saves, Succeeds, Ends, Retries
<1>3. ASSUME NEW i \in Jobs, Moved(i),
             i = j => ~(Writing(w) /\ worker[w].pc # "returning")
      PROVE  Moved(i)'
  BY <1>a, <1>1, <1>2, <1>3 DEF Moved, Writing
<1>4. ASSUME job'[j].status \in Active PROVE Moved(j)'
  <2>1. CASE Writing(w)' /\ worker'[w].pc # "returning"
    BY <1>1, <2>1 DEF Moved, Writing, Busy
  <2>2. CASE j \in abandoned'
    BY <2>2 DEF Moved
  <2>3. CASE ~(Writing(w)' /\ worker'[w].pc # "returning") /\ j \notin abandoned'
    <3>1. job'[j].status = job[j].status /\ ~(Writing(w) /\ worker[w].pc # "returning")
      <4>1. ~Starts(w) /\ ~Saves(w)
        BY <2>3 DEF Starts, Saves, Turn, Writing
      <4>2. ~Succeeds(w) /\ ~Retries(w)
        BY <1>a, <1>4 DEF Succeeds, Retries, Turn, Active
      <4>3. Ends(w)
        BY <4>1, <4>2 DEF Turns
      <4>4. CASE Turn(w, {"collecting", "streaming", "flushing", "returning"}, {"failed"},
                      "FAILED", 0)
        BY <1>a, <1>4, <4>4 DEF Turn, Active
      <4>5. CASE Turn(w, {"loaded", "collecting", "streaming", "flushing", "returning"},
                      {"failed"}, job[worker[w].job].status, 0)
        BY <2>3, <4>5 DEF Turn, Writing
      <4>6. CASE \/ Turn(w, {"returning"}, {"finishing"}, job[worker[w].job].status, 0)
                 \/ Turn(w, {"finishing"}, {"idle"}, job[worker[w].job].status, 0)
        BY <1>a, <4>6 DEF Turn, Writing
      <4>7. worker[w].job \notin abandoned'
        BY <1>a, <2>3
      <4> QED BY <4>3, <4>4, <4>5, <4>6, <4>7 DEF Ends
    <3> QED BY <1>3, <1>4, <3>1 DEF OwnerInv
  <2> QED BY <2>1, <2>2, <2>3
<1>5. \A i \in Jobs : job'[i].status \in Active => Moved(i)'
  BY <1>1, <1>3, <1>4 DEF OwnerInv
<1>6. \A t \in Recalled' : t \in Jobs => RecalledOK(t)'
  BY <1>1 DEF OwnerInv, RecalledOK
<1> QED BY <1>1, <1>5, <1>6 DEF OwnerInv

LEMMA OwnerTake ==
  ASSUME TypeInv, RevokeInv, OwnerInv,
         NEW w \in Workers, NEW m \in queue, NEW j \in Jobs, Takes(w, m, j)
  PROVE  OwnerInv'
<1>1. /\ \A i \in Jobs \ {j} : job'[i] = job[i]
      /\ job'[j].task = m.task
      /\ \A v \in Workers \ {w} : worker'[v] = worker[v]
      /\ worker'[w].pc = "loaded" /\ worker'[w].job = j /\ ~Busy(w)
      /\ UNCHANGED <<request, cancel, abandoned, broadcast, revoked>>
      /\ queue' = queue \ {m} /\ Recalled' = Recalled
  BY DEF Takes, Kept, Recalled
<1>2. m.task \in Task
  BY DEF TypeInv, TypeOK, Message
<1>3. \A i \in Jobs \ {j} : m.task # i
  BY DEF Takes
<1>4. Moved(j)'
  BY <1>1 DEF Moved, Writing
<1>5. ASSUME NEW i \in Jobs \ {j}, Moved(i) PROVE Moved(i)'
  BY <1>1, <1>3, <1>5 DEF Moved, Writing, Busy
<1>6. \A i \in Jobs : job'[i].status \in Active => Moved(i)'
  BY <1>1, <1>4, <1>5 DEF OwnerInv
<1>7. \A t \in Recalled' : t \in Jobs => RecalledOK(t)'
  BY <1>1 DEF OwnerInv, RecalledOK, Takes
<1>8. job'[j].task \in {None, j} \cup Ticks
  BY <1>1, <1>2, <1>3 DEF Task
<1> QED BY <1>1, <1>6, <1>7, <1>8 DEF OwnerInv

LEMMA OwnerTrigger ==
  ASSUME TypeInv, RevokeInv, OwnerInv, NEW r \in Requests,
         TriggerStep(r) \/ \E t \in Targets : CheckActive(r, t)
  PROVE  OwnerInv'
<1> USE DEF brokerVars, observers
<1>0. /\ UNCHANGED <<cancel, worker, broadcast, revoked>>
      /\ abandoned \subseteq abandoned' /\ Recalled' = Recalled
  BY DEF TriggerStep, CreateJob, Enqueue, EnqueueFails, SaveTaskId, NoWorkersOnline,
         CheckActive, Unsaved, Recalled
<1>1. CASE CreateJob(r)
  <2>1. PICK j \in Jobs :
          /\ job[j].status = "ABSENT"
          /\ job' = [job EXCEPT ![j] = NewRow(request[r].target, None)]
          /\ request' = [request EXCEPT ![r] =
                [pc |-> "created", target |-> request[r].target, job |-> j]]
    BY <1>1 DEF CreateJob
  <2>2. job'[j].task = None /\ \A i \in Jobs \ {j} : job'[i] = job[i]
    BY <2>1 DEF NewRow, NoRow, TypeInv, TypeOK
  <2>3. /\ request'[r].pc = "created" /\ request'[r].job = j
        /\ \A p \in Requests \ {r} : request'[p] = request[p]
    BY <2>1 DEF TypeInv, TypeOK
  <2>4. j \notin Recalled
    BY <2>1 DEF OwnerInv, RecalledOK
  <2>5. queue' = queue /\ request[r].pc # "created"
    BY <1>1 DEF CreateJob
  <2>6. Moved(j)'
    BY <1>0, <2>3, <2>4 DEF Moved
  <2>7. ASSUME NEW i \in Jobs \ {j}, Moved(i) PROVE Moved(i)'
    BY <1>0, <2>3, <2>5, <2>7 DEF Moved, Writing
  <2>8. \A t \in Recalled' : t \in Jobs => RecalledOK(t)'
    BY <1>0, <2>2, <2>4 DEF OwnerInv, RecalledOK
  <2> QED BY <2>2, <2>6, <2>7, <2>8 DEF OwnerInv
<1>2. CASE Enqueue(r)
  <2>0. PICK j \in Jobs : j = request[r].job
    BY <1>2 DEF Enqueue, TypeInv, MemoryOK
  <2> DEFINE m == [task |-> j, retries |-> 0]
  <2>1. job[j].task = None /\ job' = job /\ None \notin Jobs
    BY <1>2, <2>0, ConstantsAssumption DEF Enqueue, RevokeInv, CreatedOK
  <2>2. j \notin Recalled
    BY <2>1 DEF OwnerInv, RecalledOK
  <2>3. queue' = queue \cup {m} /\ m.task = j
    BY <1>2, <2>0 DEF Enqueue
  <2>4. \A p \in Requests \ {r} : request'[p] = request[p]
    BY <1>2 DEF Enqueue, TypeInv, TypeOK
  <2> HIDE DEF m
  <2>5. Moved(j)'
    BY <1>0, <2>2, <2>3 DEF Moved
  <2>6. ASSUME NEW i \in Jobs \ {j}, Moved(i) PROVE Moved(i)'
    BY <1>0, <2>0, <2>3, <2>4, <2>6 DEF Moved, Writing
  <2>7. \A i \in Jobs : job'[i].status \in Active => Moved(i)'
    BY <2>1, <2>5, <2>6 DEF OwnerInv
  <2> QED BY <1>0, <2>1, <2>7 DEF OwnerInv, RecalledOK
<1>3. CASE EnqueueFails(r)
  <2>1. PICK j \in Jobs : j = request[r].job /\ job[j].task = None
    BY <1>3 DEF EnqueueFails, RevokeInv, CreatedOK, TypeInv, MemoryOK
  <2>2. /\ job'[j].status = "FAILED" \/ (job'[j] = job[j] /\ j \in abandoned')
        /\ job'[j].task = job[j].task
        /\ \A i \in Jobs \ {j} : job'[i] = job[i]
    BY <1>3, <2>1 DEF EnqueueFails, MarkFailed, Unsaved, TypeInv, TypeOK, JobRow
  <2>3. queue' = queue /\ \A p \in Requests \ {r} : request'[p] = request[p]
    BY <1>3 DEF EnqueueFails, TypeInv, TypeOK
  <2>4. ASSUME NEW i \in Jobs \ {j}, Moved(i) PROVE Moved(i)'
    BY <1>0, <2>1, <2>3, <2>4 DEF Moved, Writing
  <2>5. j \in abandoned' => Moved(j)'
    BY DEF Moved
  <2>6. \A i \in Jobs : job'[i].status \in Active => Moved(i)'
    BY <2>1, <2>2, <2>4, <2>5 DEF OwnerInv, Active
  <2>7. \A t \in Recalled' : t \in Jobs => RecalledOK(t)'
    BY <1>0, <2>1, <2>2 DEF OwnerInv, RecalledOK
  <2> QED BY <2>1, <2>2, <2>6, <2>7 DEF OwnerInv
<1>4. CASE SaveTaskId(r)
  <2> DEFINE j == request[r].job
  <2>1. j \in Jobs
    BY <1>4 DEF SaveTaskId, TypeInv, MemoryOK
  <2>2. job'[j].status = job[j].status /\ job'[j].task \in {j, job[j].task}
        /\ \A i \in Jobs \ {j} : job'[i] = job[i]
    BY <1>4, <2>1 DEF SaveTaskId, TypeInv, TypeOK, JobRow
  <2>3. /\ queue' = queue /\ request[r].pc # "created"
        /\ \A p \in Requests \ {r} : request'[p] = request[p]
    BY <1>4 DEF SaveTaskId, TypeInv, TypeOK
  <2>4. ASSUME NEW i \in Jobs, Moved(i) PROVE Moved(i)'
    BY <1>0, <2>3, <2>4 DEF Moved, Writing
  <2> HIDE DEF j
  <2> QED BY <1>0, <2>1, <2>2, <2>4 DEF OwnerInv, RecalledOK
<1>5. CASE NoWorkersOnline(r) \/ \E t \in Targets : CheckActive(r, t)
  <2>1. /\ UNCHANGED <<job, queue>> /\ request[r].pc # "created"
        /\ \A p \in Requests \ {r} : request'[p] = request[p]
    BY <1>5 DEF NoWorkersOnline, CheckActive, TypeInv, TypeOK
  <2>2. ASSUME NEW i \in Jobs, Moved(i) PROVE Moved(i)'
    BY <1>0, <2>1, <2>2 DEF Moved, Writing
  <2> QED BY <1>0, <2>1, <2>2 DEF OwnerInv, RecalledOK
<1> QED BY <1>1, <1>2, <1>3, <1>4, <1>5 DEF TriggerStep

LEMMA OwnerCancel ==
  ASSUME TypeInv, OwnerInv, NEW c \in Cancellers,
         SaveCancelled(c) \/ \E j \in Jobs : RequestCancel(c, j)
  PROVE  OwnerInv'
<1> USE DEF brokerVars, observers
<1>1. CASE SaveCancelled(c)
  <2>1. PICK j \in Jobs : j = cancel[c].job
    BY <1>1 DEF SaveCancelled, TypeInv, MemoryOK
  <2>2. /\ job'[j].status = "CANCELLED" \/ (job'[j] = job[j] /\ j \in abandoned')
        /\ job'[j].task = job[j].task
        /\ \A i \in Jobs \ {j} : job'[i] = job[i]
    BY <1>1, <2>1 DEF SaveCancelled, MarkCancelled, Unsaved, TypeInv, TypeOK, JobRow
  <2>3. /\ UNCHANGED <<request, worker, queue, broadcast, revoked>>
        /\ abandoned \subseteq abandoned'
        /\ \A d \in Cancellers \ {c} : cancel'[d] = cancel[d]
    BY <1>1 DEF SaveCancelled, Unsaved, TypeInv, TypeOK
  <2>4. ASSUME NEW i \in Jobs \ {j}, Moved(i) PROVE Moved(i)'
    BY <2>1, <2>3, <2>4 DEF Moved, Writing, Recalled
  <2>5. j \in abandoned' => Moved(j)'
    BY DEF Moved
  <2>6. \A i \in Jobs : job'[i].status \in Active => Moved(i)'
    BY <2>1, <2>2, <2>4, <2>5 DEF OwnerInv, Active
  <2>7. \A t \in Recalled' : t \in Jobs => RecalledOK(t)'
    BY <2>1, <2>2, <2>3 DEF OwnerInv, RecalledOK, Recalled
  <2> QED BY <2>1, <2>2, <2>6, <2>7 DEF OwnerInv
<1>2. ASSUME NEW j \in Jobs, RequestCancel(c, j) PROVE OwnerInv'
  <2>1. /\ UNCHANGED <<job, request, worker, queue, revoked, abandoned>>
        /\ cancel[c].pc = "idle" /\ cancel'[c].pc = "revoking" /\ cancel'[c].job = j
        /\ \A d \in Cancellers \ {c} : cancel'[d] = cancel[d]
    BY <1>2 DEF RequestCancel, TypeInv, TypeOK
  <2>2. \A t \in Recalled' : t \in Recalled \/ t = job[j].task
    BY <1>2 DEF RequestCancel, Recalled
  <2>3. \A i \in Jobs : i = job[j].task => i = j
    BY ConstantsAssumption DEF OwnerInv
  <2>4. \A t \in Recalled' : t \in Jobs => RecalledOK(t)'
    BY <1>2, <2>1, <2>2, <2>3 DEF OwnerInv, RecalledOK, RequestCancel, Active
  <2>5. Moved(j)'
    BY <2>1 DEF Moved
  <2>6. ASSUME NEW i \in Jobs \ {j}, Moved(i) PROVE Moved(i)'
    BY <2>1, <2>2, <2>3, <2>6 DEF Moved, Writing
  <2> QED BY <2>1, <2>4, <2>5, <2>6 DEF OwnerInv
<1> QED BY <1>1, <1>2

\* A fault or a revocation that takes the last owner of a row away abandons it.
LEMMA OwnerDrop ==
  ASSUME TypeInv, RevokeInv, OwnerInv, Fault \/ Revocation
  PROVE  OwnerInv'
<1> USE DEF webVars, brokerVars, observers
<1>0. job' = job /\ Recalled' \subseteq Recalled
  BY DEF Fault, Revocation, DeliverRevoke, DropRevoked, CrashNode, KillWorker, RestoreUnacked,
         TriggerDies, CancelDies, Recalled
<1>1. SUFFICES ASSUME NEW j \in Jobs, Moved(j) PROVE Moved(j)'
  BY <1>0 DEF OwnerInv, RecalledOK
<1>2. ASSUME NEW t \in broadcast, DeliverRevoke(t) PROVE Moved(j)'
  <2>1. /\ UNCHANGED <<cancel, request, queue>> /\ abandoned \subseteq abandoned'
    BY <1>2 DEF DeliverRevoke
  <2>2. ASSUME NEW w \in Workers, Writing(w), worker[w].job = j
        PROVE  worker'[w] = worker[w] \/ j \in abandoned'
    BY <1>2, <2>2 DEF DeliverRevoke
  <2> QED BY <1>0, <1>1, <2>1, <2>2 DEF Moved, Writing
<1>3. ASSUME NEW m \in queue, DropRevoked(m) PROVE Moved(j)'
  BY <1>3, <1>1 DEF DropRevoked, Moved, Recalled, Writing
<1>4. CASE CrashNode
  <2>1. /\ UNCHANGED <<cancel, request>> /\ abandoned \subseteq abandoned'
        /\ queue \subseteq queue' /\ Recalled' = {}
    BY <1>4 DEF CrashNode, Recalled
  <2>2. ASSUME NEW w \in Workers, Writing(w), worker[w].job = j
        PROVE  j \in abandoned' \/ \E m \in queue' : m.task = j
    <3>1. Busy(w) /\ HolderOK(w) /\ worker[w].msg.task \in Task
      BY <2>2 DEF Writing, Busy, RevokeInv, TypeInv, MemoryOK, Message
    <3>2. CASE worker[w].msg.task \in Ticks
      BY <1>4, <2>2, <3>2 DEF CrashNode
    <3>3. CASE worker[w].msg.task \in Jobs
      <4>1. worker[w].msg.task = j /\ worker[w].msg \in queue'
        BY <1>4, <2>2, <3>1, <3>3 DEF CrashNode, HolderOK
      <4> QED BY <4>1
    <3> QED BY <3>1, <3>2, <3>3 DEF Task
  <2> QED BY <1>1, <2>1, <2>2 DEF Moved
<1>5. ASSUME NEW w \in Workers, KillWorker(w) PROVE Moved(j)'
  <2>1. /\ UNCHANGED <<cancel, request, queue>> /\ abandoned \subseteq abandoned'
        /\ \A v \in Workers \ {w} : worker'[v] = worker[v]
        /\ Writing(w) => worker[w].job \in abandoned'
    BY <1>5 DEF KillWorker, TypeInv, TypeOK
  <2> QED BY <1>0, <1>1, <2>1 DEF Moved, Writing
<1>6. ASSUME NEW w \in Workers, RestoreUnacked(w) PROVE Moved(j)'
  BY <1>6, <1>1 DEF RestoreUnacked, Moved, Recalled, Writing
<1>7. ASSUME NEW r \in Requests, TriggerDies(r) PROVE Moved(j)'
  <2>1. /\ UNCHANGED <<cancel, worker, queue>> /\ abandoned \subseteq abandoned'
        /\ \A p \in Requests \ {r} : request'[p] = request[p]
        /\ request[r].pc = "created" => request[r].job \in abandoned'
    BY <1>7 DEF TriggerDies, TypeInv, TypeOK
  <2> QED BY <1>0, <1>1, <2>1 DEF Moved, Writing
<1>8. ASSUME NEW c \in Cancellers, CancelDies(c) PROVE Moved(j)'
  <2>1. /\ UNCHANGED <<request, worker, queue>> /\ abandoned \subseteq abandoned'
        /\ \A d \in Cancellers \ {c} : cancel'[d] = cancel[d]
        /\ cancel[c].job \in abandoned'
    BY <1>8 DEF CancelDies, TypeInv, TypeOK
  <2> QED BY <1>0, <1>1, <2>1 DEF Moved, Writing
<1> QED BY <1>2, <1>3, <1>4, <1>5, <1>6, <1>7, <1>8 DEF Fault, Revocation

\* A task that raises before its try takes its message away from a row that it
\* abandons.
LEMMA OwnerRaises ==
  ASSUME TypeInv, OwnerInv, NEW w \in Workers, NEW m \in queue, StartRaises(w, m)
  PROVE  OwnerInv'
<1>1. /\ UNCHANGED <<job, request, cancel, worker, broadcast, revoked>>
      /\ queue' = queue \ {m} /\ Recalled' = Recalled
      /\ abandoned' = abandoned \cup ({m.task} \cap Jobs)
  BY DEF StartRaises, Consume, webVars, Recalled
<1>2. ASSUME NEW j \in Jobs, Moved(j) PROVE Moved(j)'
  BY <1>1, <1>2 DEF Moved, Writing
<1> QED BY <1>1, <1>2 DEF OwnerInv, RecalledOK

LEMMA OwnerNext == TypeInv /\ RevokeInv /\ OwnerInv /\ [Next]_vars => OwnerInv'
<1> SUFFICES ASSUME TypeInv, RevokeInv, OwnerInv, [Next]_vars PROVE OwnerInv'
  OBVIOUS
<1>1. ASSUME NEW w \in Workers, Take(w) \/ Attempt(w) PROVE OwnerInv'
  BY <1>1, TakeTakes, AttemptTurns, OwnerTake, OwnerTurn, OwnerRaises
<1>2. ASSUME NEW t \in Ticks, Tick(t) PROVE OwnerInv'
  <2>1. /\ UNCHANGED <<job, request, cancel, worker, broadcast, revoked, abandoned>>
        /\ queue \subseteq queue'
    BY <1>2 DEF Tick, webVars, observers
  <2>2. \A j \in Jobs : Moved(j) => Moved(j)'
    BY <2>1 DEF Moved, Writing, Recalled
  <2> QED BY <2>1, <2>2 DEF OwnerInv, RecalledOK, Recalled
<1>3. CASE UNCHANGED vars
  <2>1. UNCHANGED <<job, request, cancel, worker, queue, broadcast, revoked, abandoned>>
    BY <1>3 DEF vars
  <2> QED BY <2>1 DEF OwnerInv, Moved, Recalled, RecalledOK, Writing
<1> QED BY <1>1, <1>2, <1>3, OwnerTrigger, OwnerCancel, OwnerDrop DEF Next

\* A row that looks active, and so blocks a new trigger of its target, is one
\* that a message, a process, a request or a cancel will still move, or one
\* whose process died or whose last handler could not save: a failed run, a
\* failed publish, a failed save of the task's id, a dropped revoked message, a
\* retry and a crash of the node leave no row active with nobody behind it.
THEOREM OwnerCorrect == Spec => []ActiveHasOwner
<1>1. OwnerInv => ActiveHasOwner
  BY DEF OwnerInv, Moved, ActiveHasOwner, HasOwner
<1> QED BY <1>1, TypeInit, TypeNext, RevokeInit, RevokeNext, OwnerInit, OwnerNext, PTL
     DEF Spec

(***************************************************************************)
(* Progress of a row run at most once: only the process that made the one  *)
(* attempt saves counters, and what it holds agrees with the row.          *)
(***************************************************************************)
LoadedOK(w) ==
    /\ worker[w].seen = 0 /\ worker[w].done = 0
    /\ attempts[worker[w].job] = 0 => worker[w].mem = Zero

SavingOK(w) ==
    /\ attempts[worker[w].job] > 0
    /\ attempts[worker[w].job] = 1 => Held(w) /\ job[worker[w].job].status # "SUCCESS"

ProgressOK(j) ==
    /\ attempts[j] = 0 => job[j].counts = Zero /\ job[j].status # "SUCCESS"
    /\ attempts[j] <= 1 =>
          /\ job[j].counts.processed <= job[j].counts.found
          /\ job[j].status = "SUCCESS" => job[j].counts.processed = job[j].counts.found

ProgressInv ==
    /\ \A j \in Jobs : ProgressOK(j)
    /\ \A w \in Workers : worker[w].pc = "loaded" => LoadedOK(w)
    /\ \A w \in Workers : Saving(w) => SavingOK(w)
    /\ \A v, w \in Workers :
          Saving(v) /\ Saving(w) /\ worker[v].job = worker[w].job
              => v = w \/ attempts[worker[v].job] > 1

LEMMA ProgressInit == Init => ProgressInv
  BY DEF Init, ProgressInv, ProgressOK, IdleWorker, NoRow, Zero, Saving

\* What a worker that does not move knows stays true while its row's counters,
\* target and attempts stay, and the row does not succeed.
LEMMA WorkerStays ==
  ASSUME ProgressInv, NEW w \in Workers, worker'[w] = worker[w], NEW j, j = worker[w].job,
         job'[j].counts = job[j].counts, job'[j].target = job[j].target,
         attempts'[j] = attempts[j],
         job'[j].status = "SUCCESS" => job[j].status = "SUCCESS"
  PROVE  /\ worker'[w].pc = "loaded" => LoadedOK(w)'
         /\ Saving(w)' => SavingOK(w)'
<1>1. worker'[w].pc = "loaded" => LoadedOK(w)'
  BY DEF ProgressInv, LoadedOK
<1>2. SourceOf(w)' = SourceOf(w)
  BY DEF SourceOf
<1>3. Saving(w)' => SavingOK(w)'
  BY <1>2 DEF ProgressInv, SavingOK, Saving, Held
<1> QED BY <1>1, <1>3

\* A step in which no worker begins an attempt or saves counters.
LEMMA ProgressStays ==
  ASSUME TypeInv, ProgressInv,
         \A j \in Jobs : /\ attempts'[j] = attempts[j]
                         /\ job'[j].counts = job[j].counts
                         /\ job'[j].status = "SUCCESS" => job[j].status = "SUCCESS",
         \A w \in Workers :
            \/ /\ worker'[w] = worker[w]
               /\ Busy(w) => job'[worker[w].job].target = job[worker[w].job].target
            \/ worker'[w].pc # "loaded" /\ ~Saving(w)'
  PROVE  ProgressInv'
<1>1. \A j \in Jobs : ProgressOK(j)'
  BY DEF ProgressInv, ProgressOK
<1>2. ASSUME NEW w \in Workers, worker'[w].pc = "loaded" \/ Saving(w)'
      PROVE  /\ worker'[w].pc = "loaded" => LoadedOK(w)'
             /\ Saving(w)' => SavingOK(w)'
  <2>1. worker'[w] = worker[w] /\ Busy(w)
    BY <1>2 DEF Saving, Busy
  <2>2. PICK j \in Jobs : j = worker[w].job
    BY <2>1 DEF TypeInv, MemoryOK
  <2> QED BY <2>1, <2>2, WorkerStays
<1>3. \A v, w \in Workers :
          Saving(v)' /\ Saving(w)' /\ worker'[v].job = worker'[w].job
              => v = w \/ attempts'[worker'[v].job] > 1
  BY DEF ProgressInv, Saving, Busy, TypeInv, MemoryOK
<1> QED BY <1>1, <1>2, <1>3 DEF ProgressInv

LEMMA ProgressTurn ==
  ASSUME TypeInv, RevokeInv, ProgressInv, NEW w \in Workers, Turns(w)
  PROVE  ProgressInv'
<1>0. PICK j \in Jobs : j = worker[w].job
  BY DEF Turns, TypeInv, MemoryOK
<1>1. /\ \A i \in Jobs \ {j} : job'[i] = job[i] /\ attempts'[i] = attempts[i]
      /\ \A v \in Workers \ {w} : worker'[v] = worker[v]
      /\ job'[j].target = job[j].target
      /\ Busy(w)' => worker'[w].job = j
      /\ attempts[j] \in Nat /\ job[j] \in JobRow
  BY <1>0 DEF Turns, TypeInv, TypeOK
<1>2. \A i \in Jobs \ {j} : ProgressOK(i)'
  BY <1>1 DEF ProgressInv, ProgressOK
<1>3. ASSUME NEW v \in Workers \ {w}, Busy(v)', worker[v].job # j
      PROVE  /\ worker'[v].pc = "loaded" => LoadedOK(v)'
             /\ Saving(v)' => SavingOK(v)'
  <2>1. PICK i \in Jobs \ {j} : i = worker[v].job
    BY <1>1, <1>3 DEF TypeInv, MemoryOK, Busy
  <2> QED BY <1>1, <2>1, WorkerStays
<1>4. CASE Starts(w)
  <2>1. /\ worker[w].pc = "loaded" /\ attempts'[j] = attempts[j] + 1
        /\ job'[j].status = "RUNNING" /\ job'[j].counts = job[j].counts
        /\ worker'[w].pc \in {"collecting", "streaming"} /\ worker'[w].job = j
        /\ worker'[w].mem = worker[w].mem
        /\ worker'[w].seen = 0 /\ worker'[w].done = 0
    BY <1>0, <1>1, <1>4 DEF Starts, Turn, SameCounts, ProgressInv, LoadedOK, Busy
  <2>2. attempts[j] = 0 => worker[w].mem = Zero /\ job[j].counts = Zero
    BY <1>0, <2>1 DEF ProgressInv, LoadedOK, ProgressOK
  <2>3. ProgressOK(j)'
    BY <1>1, <2>1, <2>2 DEF ProgressOK, Zero
  <2>4. SavingOK(w)'
    BY <1>1, <2>1, <2>2 DEF SavingOK, Held, Zero
  <2>5. ASSUME NEW v \in Workers, Saving(v), worker[v].job = j PROVE attempts[j] > 0
    BY <2>5 DEF ProgressInv, SavingOK
  <2>6. ASSUME NEW v \in Workers \ {w}, Busy(v)', worker[v].job = j
        PROVE  /\ worker'[v].pc = "loaded" => LoadedOK(v)'
               /\ Saving(v)' => SavingOK(v)'
    <3>1. worker'[v] = worker[v]
      BY <1>1
    <3>2. worker'[v].pc = "loaded" => LoadedOK(v)'
      BY <1>1, <2>1, <2>6, <3>1 DEF ProgressInv, LoadedOK
    <3>3. Saving(v)' => SavingOK(v)'
      BY <1>1, <2>1, <2>5, <2>6, <3>1 DEF Saving, SavingOK
    <3> QED BY <3>2, <3>3
  <2>7. \A u, v \in Workers :
          Saving(u)' /\ Saving(v)' /\ worker'[u].job = worker'[v].job
              => u = v \/ attempts'[worker'[u].job] > 1
    <3>1. ASSUME NEW u \in Workers, NEW v \in Workers, u # v, Saving(u)', Saving(v)',
                 worker'[u].job = worker'[v].job
          PROVE  attempts'[worker'[u].job] > 1
      <4>1. CASE u = w \/ v = w
        <5>1. PICK x \in Workers \ {w} : Saving(x) /\ worker[x].job = j
          BY <1>1, <2>1, <3>1, <4>1 DEF Saving
        <5>2. worker'[u].job = j
          BY <2>1, <3>1, <4>1
        <5> QED BY <1>1, <2>1, <2>5, <5>1, <5>2
      <4>2. CASE u # w /\ v # w
        <5>1. worker'[u] = worker[u] /\ worker'[v] = worker[v] /\ Saving(u) /\ Saving(v)
          BY <1>1, <3>1, <4>2 DEF Saving
        <5>2. worker[u].job \in Jobs /\ attempts[worker[u].job] > 1
          BY <3>1, <5>1 DEF ProgressInv, Saving, Busy, TypeInv, MemoryOK
        <5> QED BY <1>1, <2>1, <5>1, <5>2
      <4> QED BY <4>1, <4>2
    <3> QED BY <3>1
  <2>8. \A v \in Workers : /\ worker'[v].pc = "loaded" => LoadedOK(v)'
                           /\ Saving(v)' => SavingOK(v)'
    <3>1. ASSUME NEW v \in Workers, worker'[v].pc = "loaded" \/ Saving(v)'
          PROVE  /\ worker'[v].pc = "loaded" => LoadedOK(v)'
                 /\ Saving(v)' => SavingOK(v)'
      <4>1. Busy(v)'
        BY <3>1 DEF Saving, Busy
      <4>2. v = w => worker'[v].pc # "loaded"
        BY <2>1
      <4> QED BY <1>3, <2>4, <2>6, <4>1, <4>2
    <3> QED BY <3>1
  <2> QED BY <1>2, <2>3, <2>7, <2>8 DEF ProgressInv
<1>5. CASE Saves(w) \/ Succeeds(w)
  <2>1. /\ Saving(w) /\ attempts'[j] = attempts[j] /\ worker'[w].pc # "loaded"
        /\ Saves(w) => job'[j].status = job[j].status /\ Saving(w)'
        /\ Succeeds(w) => ~Saving(w)'
    BY <1>0, <1>1, <1>5 DEF Saves, Succeeds, Turn, Saving
  <2>2. attempts[j] > 0 /\ (attempts[j] = 1 => Held(w) /\ job[j].status # "SUCCESS")
    BY <1>0, <2>1 DEF ProgressInv, SavingOK
  <2>3. \A v \in Workers \ {w} : Saving(v) /\ worker[v].job = j => attempts[j] > 1
    BY <1>0, <2>1 DEF ProgressInv
  <2>4. ProgressOK(j)'
    <3>1. CASE Saves(w)
      <4>1. attempts[j] = 1 => Held(w)' /\ worker'[w].job = j
        BY <1>1, <2>1, <2>2, <3>1 DEF Saves, Saving, Busy
      <4>2. attempts[j] = 1 => /\ job'[j].counts.processed <= job'[j].counts.found
                               /\ job'[j].status # "SUCCESS"
        BY <2>1, <2>2, <3>1, <4>1 DEF Held
      <4> QED BY <1>1, <2>1, <2>2, <4>2 DEF ProgressOK
    <3>2. CASE Succeeds(w)
      <4>1. attempts[j] = 1 => Held(w) /\ worker[w].done = worker[w].seen
        BY <2>2, <3>2 DEF Succeeds
      <4>2. job'[j].counts = job[j].counts
        BY <1>0, <3>2 DEF Succeeds, SameCounts
      <4>3. attempts[j] = 1 => /\ job[j].counts.processed = job[j].counts.found
                               /\ job[j].counts.processed <= job[j].counts.found
        BY <1>0, <4>1 DEF Held
      <4> QED BY <1>1, <2>1, <2>2, <4>2, <4>3 DEF ProgressOK
    <3> QED BY <1>5, <3>1, <3>2
  <2>5. Saving(w)' => SavingOK(w)'
    <3>1. ASSUME Saving(w)' PROVE SavingOK(w)'
      <4>1. Saves(w) /\ worker'[w].job = j
        BY <1>1, <1>5, <2>1, <3>1 DEF Saving, Busy
      <4>2. Held(w) => Held(w)'
        BY <4>1 DEF Saves
      <4> QED BY <2>1, <2>2, <4>1, <4>2 DEF SavingOK
    <3> QED BY <3>1
  <2>6. ASSUME NEW v \in Workers \ {w}, Busy(v)', worker[v].job = j
        PROVE  /\ worker'[v].pc = "loaded" => LoadedOK(v)'
               /\ Saving(v)' => SavingOK(v)'
    <3>1. worker'[v] = worker[v]
      BY <1>1
    <3>2. worker'[v].pc = "loaded" => LoadedOK(v)'
      BY <2>1, <2>6, <3>1 DEF ProgressInv, LoadedOK
    <3>3. Saving(v)' => SavingOK(v)'
      BY <1>1, <2>1, <2>3, <2>6, <3>1 DEF Saving, SavingOK
    <3> QED BY <3>2, <3>3
  <2>7. \A v \in Workers : /\ worker'[v].pc = "loaded" => LoadedOK(v)'
                           /\ Saving(v)' => SavingOK(v)'
    <3>1. ASSUME NEW v \in Workers, worker'[v].pc = "loaded" \/ Saving(v)'
          PROVE  /\ worker'[v].pc = "loaded" => LoadedOK(v)'
                 /\ Saving(v)' => SavingOK(v)'
      <4>1. Busy(v)'
        BY <3>1 DEF Saving, Busy
      <4> QED BY <1>3, <2>1, <2>5, <2>6, <4>1
    <3> QED BY <3>1
  <2>8. ASSUME NEW u \in Workers, NEW v \in Workers, u # v, Saving(u)', Saving(v)',
               worker'[u].job = worker'[v].job
        PROVE  attempts'[worker'[u].job] > 1
    <3>1. \A x \in {u, v} : Saving(x) /\ worker'[x].job = worker[x].job
      BY <1>0, <1>1, <2>1, <2>8 DEF Saving, Busy
    <3>2. worker[u].job \in Jobs /\ attempts[worker[u].job] > 1
      BY <2>8, <3>1 DEF ProgressInv, Saving, Busy, TypeInv, MemoryOK
    <3> QED BY <1>1, <2>1, <3>1, <3>2
  <2> QED BY <1>2, <2>4, <2>7, <2>8 DEF ProgressInv
<1>6. CASE Ends(w) \/ Retries(w)
  <2>1. /\ attempts'[j] = attempts[j] /\ job'[j].counts = job[j].counts
        /\ job'[j].status \in {job[j].status, "FAILED"}
        /\ worker'[w].pc # "loaded" /\ ~Saving(w)'
    BY <1>0, <1>1, <1>6 DEF Ends, Retries, Turn, SameCounts, Saving
  <2>2. \A i \in Jobs : /\ attempts'[i] = attempts[i] /\ job'[i].counts = job[i].counts
                        /\ job'[i].status = "SUCCESS" => job[i].status = "SUCCESS"
    BY <1>1, <2>1
  <2>3. \A v \in Workers :
            \/ /\ worker'[v] = worker[v]
               /\ Busy(v) => job'[worker[v].job].target = job[worker[v].job].target
            \/ worker'[v].pc # "loaded" /\ ~Saving(v)'
    <3>1. \A i \in Jobs : job'[i].target = job[i].target
      BY <1>1
    <3> QED BY <1>1, <2>1, <3>1 DEF TypeInv, MemoryOK
  <2> QED BY <2>2, <2>3, ProgressStays
<1> QED BY <1>4, <1>5, <1>6 DEF Turns

LEMMA ProgressTake ==
  ASSUME TypeInv, RevokeInv, AttemptInv, ProgressInv,
         NEW w \in Workers, NEW m \in queue, NEW j \in Jobs, Takes(w, m, j)
  PROVE  ProgressInv'
<1>1. /\ \A i \in Jobs \ {j} : job'[i] = job[i]
      /\ \A v \in Workers \ {w} : worker'[v] = worker[v]
      /\ worker'[w].pc = "loaded" /\ worker'[w].job = j /\ worker'[w].mem = job[j].counts
      /\ worker'[w].seen = 0 /\ worker'[w].done = 0
      /\ attempts' = attempts
  BY DEF Takes
<1>2. \/ /\ job'[j].status = job[j].status
         /\ job'[j].counts = job[j].counts /\ job'[j].target = job[j].target
      \/ /\ job[j].status = "ABSENT" /\ attempts[j] = 0
         /\ job'[j].status = "PENDING" /\ job'[j].counts = Zero
  BY DEF Takes, AttemptInv
<1>3. \A i \in Jobs : ProgressOK(i)'
  BY <1>1, <1>2 DEF ProgressInv, ProgressOK, Zero
<1>4. LoadedOK(w)' /\ ~Saving(w)'
  BY <1>1 DEF LoadedOK, Saving, ProgressInv, ProgressOK
<1>5. ASSUME NEW v \in Workers \ {w}, Busy(v)
      PROVE  /\ worker'[v].pc = "loaded" => LoadedOK(v)'
             /\ Saving(v)' => SavingOK(v)'
  <2>1. PICK i \in Jobs : i = worker[v].job
    BY <1>5 DEF TypeInv, MemoryOK
  <2>2. job[i].status # "ABSENT"
    BY <1>5, <2>1 DEF RevokeInv, HolderOK
  <2> QED BY <1>1, <1>2, <2>1, <2>2, WorkerStays
<1>6. \A v \in Workers : /\ worker'[v].pc = "loaded" => LoadedOK(v)'
                         /\ Saving(v)' => SavingOK(v)'
  BY <1>1, <1>4, <1>5 DEF Saving, Busy
<1>7. \A u, v \in Workers :
          Saving(u)' /\ Saving(v)' /\ worker'[u].job = worker'[v].job
              => u = v \/ attempts'[worker'[u].job] > 1
  BY <1>1, <1>4 DEF ProgressInv, Saving
<1> QED BY <1>3, <1>6, <1>7 DEF ProgressInv

LEMMA ProgressEdits ==
  ASSUME TypeInv, RevokeInv, AttemptInv, ProgressInv, Edits
  PROVE  ProgressInv'
<1>1. UNCHANGED <<worker, attempts>>
  BY DEF Edits
<1>2. ASSUME NEW j \in Jobs
      PROVE  \/ /\ job'[j].counts = job[j].counts /\ job'[j].target = job[j].target
                /\ job'[j].status = "SUCCESS" => job[j].status = "SUCCESS"
             \/ /\ job[j].status = "ABSENT" /\ attempts[j] = 0
                /\ job'[j].status = "PENDING" /\ job'[j].counts = Zero
  <2>1. Edit(j)
    BY DEF Edits
  <2> QED BY <2>1 DEF Edit, AttemptInv
<1>3. \A i \in Jobs : ProgressOK(i)'
  BY <1>1, <1>2 DEF ProgressInv, ProgressOK, Zero
<1>4. ASSUME NEW v \in Workers, Busy(v)
      PROVE  /\ worker'[v].pc = "loaded" => LoadedOK(v)'
             /\ Saving(v)' => SavingOK(v)'
  <2>1. PICK i \in Jobs : i = worker[v].job
    BY <1>4 DEF TypeInv, MemoryOK
  <2>2. job[i].status # "ABSENT"
    BY <1>4, <2>1 DEF RevokeInv, HolderOK
  <2> QED BY <1>1, <1>2, <2>1, <2>2, WorkerStays
<1>5. \A v \in Workers : /\ worker'[v].pc = "loaded" => LoadedOK(v)'
                         /\ Saving(v)' => SavingOK(v)'
  BY <1>1, <1>4 DEF Saving, Busy
<1>6. \A u, v \in Workers :
          Saving(u)' /\ Saving(v)' /\ worker'[u].job = worker'[v].job
              => u = v \/ attempts'[worker'[u].job] > 1
  BY <1>1 DEF ProgressInv, Saving
<1> QED BY <1>3, <1>5, <1>6 DEF ProgressInv

LEMMA ProgressNext ==
  TypeInv /\ RevokeInv /\ AttemptInv /\ ProgressInv /\ [Next]_vars => ProgressInv'
<1> SUFFICES ASSUME TypeInv, RevokeInv, AttemptInv, ProgressInv, [Next]_vars
             PROVE  ProgressInv'
  OBVIOUS
<1>1. CASE Drops
  <2>1. /\ UNCHANGED <<job, attempts>>
        /\ \A w \in Workers : worker'[w] = worker[w] \/ ~Busy(w)'
    BY <1>1 DEF Drops
  <2> QED BY <2>1, ProgressStays DEF Busy, Saving
<1>2. CASE \/ \E r \in Requests : Enqueue(r)
           \/ \E t \in Ticks : Tick(t)
  <2>1. UNCHANGED <<job, worker, attempts>>
    BY <1>2 DEF Enqueue, Tick, observers
  <2> QED BY <2>1, ProgressStays
<1> QED BY <1>1, <1>2, StepShapes, ProgressTurn, ProgressTake, ProgressEdits

\* Of n cameras, n are 100%.
LEMMA FullRatio ==
  ASSUME NEW n \in Nat, n > 0
  PROVE  Min2(100, Round(100 * n, n)) = 100
<1>1. (100 * n) \div n = 100 /\ (100 * n) % n = 0
  BY Z3
<1> QED BY <1>1 DEF Round, Min2

\* A row run at most once never shows more cameras processed than found, and
\* shows 100% once it succeeded: no second process saves counters over those of
\* the one attempt, and each of the three sources sets total_found before, or
\* together with, the batches it counts.
THEOREM ProgressCorrect == Spec => []SingleRunProgress
<1>1. TypeInv /\ ProgressInv => SingleRunProgress
  <2> SUFFICES ASSUME TypeInv, ProgressInv, NEW j \in Jobs, attempts[j] <= 1
               PROVE  /\ job[j].counts.processed <= job[j].counts.found
                      /\ job[j].status = "SUCCESS" => ProgressPct(job[j]) = 100
    BY DEF SingleRunProgress
  <2>1. ProgressOK(j) /\ job[j].counts.found \in Nat /\ job[j].counts.processed \in Nat
    BY DEF ProgressInv, TypeInv, TypeOK, JobRow, Counters
  <2>2. ASSUME job[j].status = "SUCCESS", job[j].counts.found # 0 PROVE ProgressPct(job[j]) = 100
    <3> DEFINE n == job[j].counts.found
    <3>1. n \in Nat /\ n > 0 /\ job[j].counts.processed = n
      BY <2>1, <2>2 DEF ProgressOK
    <3>2. (IF n > 1 THEN n ELSE 1) = n
      BY <3>1
    <3>3. Ratio(job[j]) = Min2(100, Round(100 * n, n))
      BY <3>1, <3>2 DEF Ratio
    <3> HIDE DEF n
    <3> QED BY <2>2, <3>1, <3>3, FullRatio DEF ProgressPct, n
  <2> QED BY <2>1, <2>2 DEF ProgressOK, ProgressPct
<1> QED BY <1>1, TypeInit, TypeNext, RevokeInit, RevokeNext, DeliveryInit, DeliveryNext,
           AttemptInit, AttemptNext, ProgressInit, ProgressNext, PTL DEF Spec
=============================================================================
