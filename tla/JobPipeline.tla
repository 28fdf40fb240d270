----------------------------- MODULE JobPipeline -----------------------------
(***************************************************************************)
(* The life of one batch job: the gateway that accepts and cancels it, the  *)
(* orchestrators that run the event handlers of orchestrator/handlers.py,   *)
(* the engines that execute its tasks, and the stores they share.           *)
(*                                                                          *)
(* A handler is a coroutine: it may be interleaved with any other process   *)
(* at each await, and it can stop at any of them (the process dies, or a    *)
(* database, Redis or S3 call raises), which leaves its event pending for a *)
(* later replay.  Each action is the code between two such points, ending   *)
(* with at most one commit or one Redis command.                            *)
(*                                                                          *)
(* The database session is opened with expire_on_commit=False               *)
(* (db/session.py), so a row that a handler has loaded keeps its values for *)
(* the rest of that handler: a second SELECT does not refresh it, and an    *)
(* assignment writes the column without looking at what the database holds  *)
(* by then.  memJob and memTask are these loaded values.                    *)
(***************************************************************************)
EXTENDS Integers, Sequences, FiniteSets

CONSTANTS
    Orchestrators,  \* orchestrator processes of the "orchestrators" consumer group
    Pipeline,       \* tasks of the DAG that build_task_dag returns
    PostProc,       \* pii_detect and audio_redact, {} when the job wants neither
    Deps,           \* Deps[t]: the tasks t depends on
    MaxRetries,     \* max_retries of every task
    CancelRoutes,   \* ways a cancel request can arrive: a subset of {"api", "console"}
    MaxFaults,      \* bound on crashes and raised exceptions
    NoTask          \* the task field of an event about the job

Tasks == Pipeline \cup PostProc

ASSUME ConstantsAssumption ==
    /\ Pipeline \cap PostProc = {}
    /\ Deps \in [Tasks -> SUBSET Tasks]
    /\ \E prepare \in Pipeline : {t \in Pipeline : Deps[t] = {}} = {prepare}
    /\ MaxRetries \in Nat
    /\ MaxFaults \in Nat
    /\ CancelRoutes \subseteq {"api", "console"}
    /\ NoTask \notin Tasks

VARIABLES
    \* PostgreSQL
    job,        \* JobModel.status
    task,       \* TaskModel.status of each task; "absent" before the row is inserted
    retries,    \* TaskModel.retries
    webhooks,   \* statuses for which webhook_deliveries rows exist
    \* S3
    output,     \* output[t]: the task's response document has been written
    patched,    \* transcript.json carries the PII results
    \* Redis
    queue,      \* task messages waiting in the engine streams
    active,     \* task messages an engine is executing
    dedupe,     \* retry-enqueue dedupe keys that are set
    cancelFlag, \* the job's cancellation flag, read by the engines
    guard,      \* the job's "decremented" key
    decrs,      \* DECRs of the tenant's concurrent-job counter for this job
    enrich,     \* enrichment status of each post-processing task
    stream,     \* durable events not yet delivered to an orchestrator
    pending,    \* pending[e]: copies of e delivered, abandoned, not yet replayed
    \* orchestrators
    pc, ev,
    memJob, memTask, memRetries,
    todo,       \* tasks the handler has still to queue
    cur,        \* the task it is queueing
    verdict,    \* the job status it will publish
    more,       \* post-processing is to be scheduled after the publication
    \* gateway
    gw,         \* the cancel request being served
    faults      \* faults so far

db    == <<job, task, retries, webhooks>>
s3    == <<output, patched>>
redis == <<queue, active, dedupe, cancelFlag, guard, decrs, enrich>>
bus   == <<stream, pending>>
local == <<memJob, memTask, memRetries, todo, cur, verdict, more>>
vars  == <<db, s3, redis, bus, pc, ev, local, gw, faults>>

-----------------------------------------------------------------------------
(* Statuses, events and messages *)

JobStatus     == {"pending", "running", "completed", "failed", "cancelling", "cancelled"}
TerminalJobs  == {"completed", "failed", "cancelled"}
TaskStatus    == {"pending", "ready", "running", "completed", "failed", "skipped", "cancelled"}
TERMINAL_TASK_STATES == {"completed", "skipped", "failed"}
EnrichmentStatus     == {"none", "pending", "completed", "failed"}

NoKey   == -1                  \* add_task: no dedupe key
Keys    == NoKey .. MaxRetries \* add_task_once: the retry number
Message == [task : Tasks, key : Keys]

TaskEvents    == {"task.started", "task.completed", "task.failed", "task.wait_timeout"}
VerdictEvents == {"job.completed", "job.failed", "job.cancelled"}
JobEvents     == {"job.created", "job.cancel_requested"} \cup VerdictEvents
Event == [type : TaskEvents, task : Tasks, fatal : BOOLEAN]
           \cup [type : JobEvents, task : {NoTask}, fatal : {FALSE}]

JobEvent(type)     == [type |-> type, task |-> NoTask, fatal |-> FALSE]
TaskEvent(type, t) == [type |-> type, task |-> t, fatal |-> FALSE]
FatalFailure(t)    == [type |-> "task.failed", task |-> t, fatal |-> TRUE]
VerdictEvent(s) == JobEvent(CASE s = "completed" -> "job.completed"
                              [] s = "failed"    -> "job.failed"
                              [] s = "cancelled" -> "job.cancelled")
VerdictOf(e)    == CASE e.type = "job.completed" -> "completed"
                     [] e.type = "job.failed"    -> "failed"
                     [] e.type = "job.cancelled" -> "cancelled"

Publish(e) == stream' = Append(stream, e)

\* The value of a column after a handler that loaded mem assigns val and commits:
\* the ORM writes only attributes that differ from what it loaded.
OrmSet(dbval, mem, val) == IF mem = val THEN dbval ELSE val

Required(t) == t \in Pipeline
\* Mutant: the check for an empty dependency list is dropped.
RootsIgnoringDeps(S) == S

Roots(S)    == {t \in S : Deps[t] = {}}

-----------------------------------------------------------------------------
(* Initial state: create_job has committed the row and published job.created *)

NoMem  == [t \in Tasks |-> "absent"]
IdleGw == [pc |-> "idle", mem |-> NoMem, route |-> "api"]

Init ==
    /\ job = "pending"
    /\ task = NoMem
    /\ retries = [t \in Tasks |-> 0]
    /\ webhooks = {}
    /\ output = [t \in Tasks |-> FALSE]
    /\ patched = FALSE
    /\ queue = {} /\ active = {} /\ dedupe = {}
    /\ cancelFlag = FALSE
    /\ guard = FALSE
    /\ decrs = 0
    /\ enrich = [t \in PostProc |-> "none"]
    /\ stream = <<JobEvent("job.created")>>
    /\ pending = [e \in Event |-> 0]
    /\ pc = [o \in Orchestrators |-> "idle"]
    /\ ev = [o \in Orchestrators |-> JobEvent("job.created")]
    /\ memJob = [o \in Orchestrators |-> "pending"]
    /\ memTask = [o \in Orchestrators |-> NoMem]
    /\ memRetries = [o \in Orchestrators |-> 0]
    /\ todo = [o \in Orchestrators |-> {}]
    /\ cur = [o \in Orchestrators |-> NoTask]
    /\ verdict = [o \in Orchestrators |-> "failed"]
    /\ more = [o \in Orchestrators |-> FALSE]
    /\ gw = IdleGw
    /\ faults = 0

-----------------------------------------------------------------------------
(* The consumer loop of distributed_main.py *)

At(o, l)   == pc[o] = l
Goto(o, l) == pc' = [pc EXCEPT ![o] = l]

\* The session and the coroutine's locals are gone.
ForgetLocals(o) ==
    /\ ev' = [ev EXCEPT ![o] = JobEvent("job.created")]
    /\ memJob' = [memJob EXCEPT ![o] = "pending"]
    /\ memTask' = [memTask EXCEPT ![o] = NoMem]
    /\ memRetries' = [memRetries EXCEPT ![o] = 0]
    /\ todo' = [todo EXCEPT ![o] = {}]
    /\ cur' = [cur EXCEPT ![o] = NoTask]
    /\ verdict' = [verdict EXCEPT ![o] = "failed"]
    /\ more' = [more EXCEPT ![o] = FALSE]

\* _dispatch_event_dict: the label at which the event's handler starts.
Entry(e) == IF e.type \in VerdictEvents THEN "job.webhook" ELSE e.type

\* read_new_events: the next undelivered event.
ReadNew(o) ==
    /\ At(o, "idle")
    /\ stream # <<>>
    /\ ev' = [ev EXCEPT ![o] = Head(stream)]
    /\ stream' = Tail(stream)
    /\ Goto(o, Entry(Head(stream)))
    /\ UNCHANGED <<db, s3, redis, pending, local, gw, faults>>

\* _claim_and_replay_stale_events: a pending event that nobody is handling.
ClaimStale(o) ==
    /\ At(o, "idle")
    /\ \E e \in Event :
         /\ pending[e] > 0
         /\ pending' = [pending EXCEPT ![e] = @ - 1]
         /\ ev' = [ev EXCEPT ![o] = e]
         /\ Goto(o, Entry(e))
    /\ UNCHANGED <<db, s3, redis, stream, local, gw, faults>>

\* The same claim when a handler takes longer than the idle limit: the event is still
\* being handled by another orchestrator.  Bounded as a fault.
ClaimInFlight(o) ==
    /\ At(o, "idle")
    /\ faults < MaxFaults
    /\ faults' = faults + 1
    /\ \E q \in Orchestrators :
         /\ ~At(q, "idle")
         /\ ev' = [ev EXCEPT ![o] = ev[q]]
         /\ Goto(o, Entry(ev[q]))
    /\ UNCHANGED <<db, s3, redis, bus, local, gw>>

\* ack_event: the handler returned.
AckEvent(o) ==
    /\ At(o, "ack")
    /\ Goto(o, "idle")
    /\ ForgetLocals(o)
    /\ UNCHANGED <<db, s3, redis, bus, gw, faults>>

\* The process dies or the handler raises: the event stays in the group's
\* pending list, uncommitted changes are lost.
AbandonEvent(o) ==
    /\ ~At(o, "idle")
    /\ faults < MaxFaults
    /\ faults' = faults + 1
    /\ pending' = [pending EXCEPT ![ev[o]] = @ + 1]
    /\ Goto(o, "idle")
    /\ ForgetLocals(o)
    /\ UNCHANGED <<db, s3, redis, stream, gw>>

-----------------------------------------------------------------------------
(* handle_job_created *)

SomeExist(S) == \E t \in S : task[t] # "absent"

\* Early returns: the job is cancelled or running, or its tasks exist.
JobCreated(o) ==
    /\ At(o, "job.created")
    /\ memJob' = [memJob EXCEPT ![o] = job]
    /\ Goto(o, IF job \in {"cancelling", "cancelled", "running"} \/ SomeExist(Tasks)
                 THEN "ack" ELSE "buildDag")
    /\ UNCHANGED <<db, s3, redis, bus, ev, memTask, memRetries, todo, cur, verdict, more, gw, faults>>

\* build_task_dag raised: no model, no capable engine, or a bad selection.
BuildDagFails(o) ==
    /\ At(o, "buildDag")
    /\ job' = OrmSet(job, memJob[o], "failed")
    /\ memJob' = [memJob EXCEPT ![o] = "failed"]
    /\ verdict' = [verdict EXCEPT ![o] = "failed"]
    /\ Goto(o, "release")
    /\ UNCHANGED <<task, retries, webhooks, s3, redis, bus, ev, memTask, memRetries, todo, cur, more, gw, faults>>

\* Tasks, dependencies and the job's status in one commit; uq_tasks_job_id_stage
\* rolls it back when another orchestrator has inserted the tasks.
BuildDag(o) ==
    /\ At(o, "buildDag")
    /\ IF SomeExist(Pipeline)
         THEN /\ Goto(o, "ack")
              /\ UNCHANGED <<job, task, memJob, memTask, todo>>
         ELSE /\ job' = OrmSet(job, memJob[o], "running")
              /\ task' = [t \in Tasks |-> IF t \in Pipeline THEN "pending" ELSE task[t]]
              /\ memJob' = [memJob EXCEPT ![o] = "running"]
              /\ memTask' = [memTask EXCEPT ![o] = task']
              /\ todo' = [todo EXCEPT ![o] = Roots(Pipeline)]
              /\ Goto(o, "markRoot")
    /\ UNCHANGED <<retries, webhooks, s3, redis, bus, ev, memRetries, cur, verdict, more, gw, faults>>

\* The loop over the tasks without dependencies: READY is committed first.
MarkRoot(o) ==
    /\ At(o, "markRoot")
    /\ \/ /\ todo[o] = {}
          /\ Goto(o, "ack")
          /\ UNCHANGED <<task, memTask, todo, cur>>
       \/ \E t \in todo[o] :
            /\ task' = [task EXCEPT ![t] = OrmSet(@, memTask[o][t], "ready")]
            /\ memTask' = [memTask EXCEPT ![o][t] = "ready"]
            /\ todo' = [todo EXCEPT ![o] = @ \ {t}]
            /\ cur' = [cur EXCEPT ![o] = t]
            /\ Goto(o, "queueRoot")
    /\ UNCHANGED <<job, retries, webhooks, s3, redis, bus, ev, memJob, memRetries, verdict, more, gw, faults>>

-----------------------------------------------------------------------------
(* queue_task (scheduler.py), from each of its callers *)

\* add_task.
AddTask(t) == queue' = queue \cup {[task |-> t, key |-> NoKey]}

\* The task reaches its engine's stream, and the caller goes on with its loop;
\* handle_task_completed has refreshed the dependent's row just before.
QueueTask(o) ==
    /\ \/ At(o, "queueRoot") /\ Goto(o, "markRoot") /\ UNCHANGED memTask
       \/ At(o, "queuePii")  /\ Goto(o, "ack")      /\ UNCHANGED memTask
       \/ /\ At(o, "queueDependent")
          /\ memTask' = [memTask EXCEPT ![o][cur[o]] = task[cur[o]]]
          /\ Goto(o, "advance")
    /\ AddTask(cur[o])
    /\ UNCHANGED <<db, s3, active, dedupe, cancelFlag, guard, decrs, enrich, bus, ev, memJob, memRetries, todo, cur, verdict, more, gw, faults>>

\* EngineUnavailableError, EngineCapabilityError or CatalogValidationError in
\* handle_job_created and handle_task_completed: the job fails at once.
QueueTaskFails(o) ==
    /\ pc[o] \in {"queueRoot", "queueDependent"}
    /\ job' = OrmSet(job, memJob[o], "failed")
    /\ memJob' = [memJob EXCEPT ![o] = "failed"]
    /\ verdict' = [verdict EXCEPT ![o] = "failed"]
    /\ Goto(o, "release")
    /\ UNCHANGED <<task, retries, webhooks, s3, redis, bus, ev, memTask, memRetries, todo, cur, more, gw, faults>>

\* Mutant: a retry is acknowledged without being queued.
QueueRetryForgotten(o) ==
    /\ At(o, "queueRetry")
    /\ Goto(o, "ack")
    /\ UNCHANGED <<db, s3, redis, bus, ev, local, gw, faults>>

\* add_task_once: the dedupe key and the message are set by one script.
QueueRetry(o) ==
    /\ At(o, "queueRetry")
    /\ LET m == [task |-> ev[o].task, key |-> memRetries[o]] IN
         IF m \in dedupe
           THEN UNCHANGED <<dedupe, queue>>
           ELSE /\ dedupe' = dedupe \cup {m}
                /\ queue' = queue \cup {m}
    /\ Goto(o, "ack")
    /\ UNCHANGED <<db, s3, active, cancelFlag, guard, decrs, enrich, bus, ev, local, gw, faults>>

\* The same errors on a retry: the task fails, and the job with it.
QueueRetryFails(o) ==
    /\ At(o, "queueRetry")
    /\ task' = [task EXCEPT ![ev[o].task] = OrmSet(@, memTask[o][ev[o].task], "failed")]
    /\ Goto(o, "ensureJobFailed")
    /\ UNCHANGED <<job, retries, webhooks, s3, redis, bus, ev, local, gw, faults>>

-----------------------------------------------------------------------------
(* handle_task_started: one atomic UPDATE ... WHERE status = READY *)

TaskStarted(o) ==
    /\ At(o, "task.started")
    /\ task' = [task EXCEPT ![ev[o].task] = IF @ = "ready" THEN "running" ELSE @]
    /\ Goto(o, "ack")
    /\ UNCHANGED <<job, retries, webhooks, s3, redis, bus, ev, local, gw, faults>>

-----------------------------------------------------------------------------
(* handle_task_completed *)

AlreadyDone == {"completed", "skipped"}

TaskCompleted(o) ==
    /\ At(o, "task.completed")
    /\ LET t == ev[o].task IN
         /\ memTask' = [memTask EXCEPT ![o][t] = task[t]]
         /\ Goto(o, IF task[t] \in AlreadyDone THEN "enrichment" ELSE "markCompleted")
    /\ UNCHANGED <<db, s3, redis, bus, ev, memJob, memRetries, todo, cur, verdict, more, gw, faults>>

\* From every other status, FAILED and CANCELLED included.
MarkCompleted(o) ==
    /\ At(o, "markCompleted")
    /\ LET t == ev[o].task IN
         /\ task' = [task EXCEPT ![t] = "completed"]
         /\ memTask' = [memTask EXCEPT ![o][t] = "completed"]
    /\ Goto(o, "enrichment")
    /\ UNCHANGED <<job, retries, webhooks, s3, redis, bus, ev, memJob, memRetries, todo, cur, verdict, more, gw, faults>>

\* mark_enrichment_status, check_post_processing_completion (no entry counts as
\* done) and, when all are done, update_transcript_with_pii, whose exceptions are
\* swallowed.  After the prepare stage the job is loaded, for its audio_duration.
EnrichmentsDone(en) ==
    LET tracked == {t \in PostProc : en[t] # "none"} IN
    \A t \in tracked : en[t] \in {"completed", "failed"}

IsPrepare(t) == t \in Roots(Pipeline)

\* Mutant: a skipped pii_detect counts, and its findings are not looked for.
EnrichmentUnchecked(o) ==
    /\ At(o, "enrichment")
    /\ LET t == ev[o].task IN
         IF t \in PostProc
           THEN /\ enrich' = [enrich EXCEPT ![t] = "completed"]
                /\ patched' = (patched \/ EnrichmentsDone(enrich'))
           ELSE UNCHANGED <<enrich, patched>>
    /\ Goto(o, "loadTasks")
    /\ UNCHANGED <<db, output, queue, active, dedupe, cancelFlag, guard, decrs, bus, ev, local, gw, faults>>

Enrichment(o) ==
    /\ At(o, "enrichment")
    /\ LET t == ev[o].task IN
         IF t \in PostProc /\ memTask[o][t] = "completed"
           THEN /\ enrich' = [enrich EXCEPT ![t] = "completed"]
                /\ \/ UNCHANGED patched
                   \/ /\ EnrichmentsDone(enrich')
                      /\ \E d \in Roots(PostProc) : task[d] = "completed"
                      /\ patched' = TRUE
           ELSE UNCHANGED <<enrich, patched>>
    /\ memJob' = [memJob EXCEPT ![o] = IF IsPrepare(ev[o].task) THEN job ELSE @]
    /\ Goto(o, "loadTasks")
    /\ UNCHANGED <<db, output, queue, active, dedupe, cancelFlag, guard, decrs, bus, ev, memTask, memRetries, todo, cur, verdict, more, gw, faults>>

\* SELECT of all the job's tasks: the one the handler holds is not refreshed.
LoadTasks(o) ==
    /\ At(o, "loadTasks")
    /\ memTask' = [memTask EXCEPT ![o] = [task EXCEPT ![ev[o].task] = memTask[o][ev[o].task]]]
    /\ Goto(o, "loadJob")
    /\ UNCHANGED <<db, s3, redis, bus, ev, memJob, memRetries, todo, cur, verdict, more, gw, faults>>

\* completed_ids: SKIPPED tasks are not in it.
CompletedIds(mem)   == {t \in Tasks : mem[t] = "completed"}
ReadyDependents(mem) == {d \in Tasks : mem[d] = "pending" /\ Deps[d] \subseteq CompletedIds(mem)}

\* After the prepare stage this is the row that was loaded before the tasks.
LoadJob(o) ==
    /\ At(o, "loadJob")
    /\ memJob' = [memJob EXCEPT ![o] = IF IsPrepare(ev[o].task) THEN @ ELSE job]
    /\ IF memJob'[o] = "cancelling"
         THEN Goto(o, "cancelPending") /\ UNCHANGED todo
         ELSE Goto(o, "advance") /\ todo' = [todo EXCEPT ![o] = ReadyDependents(memTask[o])]
    /\ UNCHANGED <<db, s3, redis, bus, ev, memTask, memRetries, cur, verdict, more, gw, faults>>

\* Mutant: the UPDATE has no WHERE status = PENDING.
AdvanceUnconditional(o) ==
    /\ At(o, "advance")
    /\ \/ /\ todo[o] = {}
          /\ Goto(o, "checkCompletion")
          /\ UNCHANGED <<task, todo, cur>>
       \/ \E d \in todo[o] :
            /\ todo' = [todo EXCEPT ![o] = @ \ {d}]
            /\ task' = [task EXCEPT ![d] = "ready"]
            /\ cur' = [cur EXCEPT ![o] = d]
            /\ Goto(o, "queueDependent")
    /\ UNCHANGED <<job, retries, webhooks, s3, redis, bus, ev, memJob, memTask, memRetries, verdict, more, gw, faults>>

\* UPDATE ... WHERE status = PENDING decides which orchestrator queues d.
Advance(o) ==
    /\ At(o, "advance")
    /\ \/ /\ todo[o] = {}
          /\ Goto(o, "checkCompletion")
          /\ UNCHANGED <<task, todo, cur>>
       \/ \E d \in todo[o] :
            /\ todo' = [todo EXCEPT ![o] = @ \ {d}]
            /\ IF task[d] = "pending"
                 THEN /\ task' = [task EXCEPT ![d] = "ready"]
                      /\ cur' = [cur EXCEPT ![o] = d]
                      /\ Goto(o, "queueDependent")
                 ELSE UNCHANGED <<task, cur, pc>>
    /\ UNCHANGED <<job, retries, webhooks, s3, redis, bus, ev, memJob, memTask, memRetries, verdict, more, gw, faults>>

\* The job is being cancelled: no dependent is queued.
CancelPending(o) ==
    /\ At(o, "cancelPending")
    /\ task' = [t \in Tasks |-> IF memTask[o][t] = "pending" THEN "cancelled" ELSE task[t]]
    /\ Goto(o, "checkCancelled")
    /\ UNCHANGED <<job, retries, webhooks, s3, redis, bus, ev, local, gw, faults>>

-----------------------------------------------------------------------------
(* _check_job_completion, on the rows the handler has loaded *)

\* Mutant: a task that is being executed counts as done.
AllStarted(mem) == \A t \in Pipeline : mem[t] \notin {"pending", "ready"}

AllDone(mem)   == \A t \in Pipeline : mem[t] \in TERMINAL_TASK_STATES
AnyFailed(mem) == \E t \in Pipeline : mem[t] = "failed" /\ Required(t)

\* Nothing to conclude: a task is unfinished, or the job is already terminal.
CheckCompletionReturns(o) ==
    /\ At(o, "checkCompletion")
    /\ ~AllDone(memTask[o]) \/ memJob[o] \in TerminalJobs
    /\ Goto(o, "ack")
    /\ UNCHANGED <<db, s3, redis, bus, ev, local, gw, faults>>

\* Mutant: the publication follows any_failed instead of the final job status.
CheckCompletionIgnoringAssembly(o) ==
    /\ At(o, "checkCompletion")
    /\ AllDone(memTask[o]) /\ memJob[o] \notin TerminalJobs
    /\ \E s \in (IF AnyFailed(memTask[o]) THEN {"failed"} ELSE {"completed", "failed"}) :
         /\ job' = OrmSet(job, memJob[o], s)
         /\ memJob' = [memJob EXCEPT ![o] = s]
    /\ verdict' = [verdict EXCEPT ![o] = IF AnyFailed(memTask[o]) THEN "failed" ELSE "completed"]
    /\ more' = [more EXCEPT ![o] = ~AnyFailed(memTask[o]) /\ PostProc # {}]
    /\ Goto(o, "release")
    /\ UNCHANGED <<task, retries, webhooks, s3, redis, bus, ev, memTask, memRetries, todo, cur, gw, faults>>

\* The verdict: FAILED if a required task failed or the transcript could not be
\* assembled, COMPLETED otherwise; post-processing follows unless a task failed.
CheckCompletion(o) ==
    /\ At(o, "checkCompletion")
    /\ AllDone(memTask[o]) /\ memJob[o] \notin TerminalJobs
    /\ \E s \in (IF AnyFailed(memTask[o]) THEN {"failed"} ELSE {"completed", "failed"}) :
         /\ job' = OrmSet(job, memJob[o], s)
         /\ memJob' = [memJob EXCEPT ![o] = s]
         /\ verdict' = [verdict EXCEPT ![o] = s]
    /\ more' = [more EXCEPT ![o] = ~AnyFailed(memTask[o]) /\ PostProc # {}]
    /\ Goto(o, "release")
    /\ UNCHANGED <<task, retries, webhooks, s3, redis, bus, ev, memTask, memRetries, todo, cur, gw, faults>>

-----------------------------------------------------------------------------
(* What follows a terminal verdict: _decrement_concurrent_jobs, then publication *)

\* Mutant: the result of SET NX is not looked at.
ReleaseUnguarded(o) ==
    /\ At(o, "release")
    /\ guard' = TRUE
    /\ Goto(o, "decrement")
    /\ UNCHANGED <<db, s3, queue, active, dedupe, cancelFlag, decrs, enrich, bus, ev, local, gw, faults>>

\* SET NX on the job's guard key: only the one that sets it goes on to DECR.
Release(o) ==
    /\ At(o, "release")
    /\ guard' = TRUE
    /\ Goto(o, IF guard THEN "publish" ELSE "decrement")
    /\ UNCHANGED <<db, s3, queue, active, dedupe, cancelFlag, decrs, enrich, bus, ev, local, gw, faults>>

Decrement(o) ==
    /\ At(o, "decrement")
    /\ decrs' = decrs + 1
    /\ Goto(o, "publish")
    /\ UNCHANGED <<db, s3, queue, active, dedupe, cancelFlag, guard, enrich, bus, ev, local, gw, faults>>

\* publish_job_completed, publish_job_failed or publish_job_cancelled.
PublishVerdict(o) ==
    /\ At(o, "publish")
    /\ Publish(VerdictEvent(verdict[o]))
    /\ Goto(o, IF more[o] THEN "insertPostProc" ELSE "ack")
    /\ UNCHANGED <<db, s3, redis, pending, ev, local, gw, faults>>

\* _handle_job_webhook: one delivery per endpoint and event type, duplicates ignored.
JobWebhook(o) ==
    /\ At(o, "job.webhook")
    /\ webhooks' = webhooks \cup {VerdictOf(ev[o])}
    /\ Goto(o, "ack")
    /\ UNCHANGED <<job, task, retries, s3, redis, bus, ev, local, gw, faults>>

-----------------------------------------------------------------------------
(* schedule_post_processing: every exception is swallowed by the caller *)

InsertPostProc(o) ==
    /\ At(o, "insertPostProc")
    /\ IF SomeExist(PostProc)
         THEN Goto(o, "ack") /\ UNCHANGED task
         ELSE /\ task' = [t \in Tasks |-> IF t \in PostProc THEN "pending" ELSE task[t]]
              /\ Goto(o, "trackEnrichment")
    /\ UNCHANGED <<job, retries, webhooks, s3, redis, bus, ev, local, gw, faults>>

TrackEnrichment(o) ==
    /\ At(o, "trackEnrichment")
    /\ enrich' = [t \in PostProc |-> "pending"]
    /\ Goto(o, "markPiiReady")
    /\ UNCHANGED <<db, s3, queue, active, dedupe, cancelFlag, guard, decrs, bus, ev, local, gw, faults>>

MarkPiiReady(o) ==
    /\ At(o, "markPiiReady")
    /\ \E t \in Roots(PostProc) :
         /\ task' = [task EXCEPT ![t] = "ready"]
         /\ cur' = [cur EXCEPT ![o] = t]
    /\ Goto(o, "queuePii")
    /\ UNCHANGED <<job, retries, webhooks, s3, redis, bus, ev, memJob, memTask, memRetries, todo, verdict, more, gw, faults>>

\* queue_task raised: the enrichment is marked failed, the row stays READY.
QueuePiiFails(o) ==
    /\ At(o, "queuePii")
    /\ enrich' = [enrich EXCEPT ![cur[o]] = "failed"]
    /\ Goto(o, "ack")
    /\ UNCHANGED <<db, s3, queue, active, dedupe, cancelFlag, guard, decrs, bus, ev, local, gw, faults>>

-----------------------------------------------------------------------------
(* handle_task_failed *)

\* Mutant: a failure is settled whatever the task's status.
TaskFailedAlwaysSettles(o) ==
    /\ At(o, "task.failed")
    /\ LET t == ev[o].task IN
         /\ memTask' = [memTask EXCEPT ![o][t] = task[t]]
         /\ memRetries' = [memRetries EXCEPT ![o] = retries[t]]
    /\ Goto(o, "settleFailure")
    /\ UNCHANGED <<db, s3, redis, bus, ev, memJob, todo, cur, verdict, more, gw, faults>>

\* The status at the time of the read selects the branch.
TaskFailed(o) ==
    /\ At(o, "task.failed")
    /\ LET t == ev[o].task IN
         /\ memTask' = [memTask EXCEPT ![o][t] = task[t]]
         /\ memRetries' = [memRetries EXCEPT ![o] = retries[t]]
         /\ Goto(o, CASE task[t] = "running" -> "settleFailure"
                      [] task[t] = "ready"   -> "queueRetry"
                      [] task[t] = "skipped" -> "enrichment"
                      [] task[t] = "failed"  -> "ensureJobFailed"
                      [] OTHER               -> "ack")
    /\ UNCHANGED <<db, s3, redis, bus, ev, memJob, todo, cur, verdict, more, gw, faults>>

CanRetry(o) == ~ev[o].fatal /\ memRetries[o] < MaxRetries

SettleFailure(o) ==
    /\ At(o, "settleFailure")
    /\ LET t == ev[o].task
           s == IF CanRetry(o) THEN "ready" ELSE IF Required(t) THEN "failed" ELSE "skipped"
       IN /\ task' = [task EXCEPT ![t] = s]
          /\ memTask' = [memTask EXCEPT ![o][t] = s]
          /\ IF CanRetry(o)
               THEN /\ retries' = [retries EXCEPT ![t] = memRetries[o] + 1]
                    /\ memRetries' = [memRetries EXCEPT ![o] = @ + 1]
               ELSE UNCHANGED <<retries, memRetries>>
          /\ Goto(o, CASE s = "ready"   -> "queueRetry"
                       [] s = "failed"  -> "ensureJobFailed"
                       [] s = "skipped" -> "enrichmentFailed")
    /\ UNCHANGED <<job, webhooks, s3, redis, bus, ev, memJob, todo, cur, verdict, more, gw, faults>>

\* An optional task was skipped: its enrichment failed, then handle_task_completed.
EnrichmentFailed(o) ==
    /\ At(o, "enrichmentFailed")
    /\ enrich' = [enrich EXCEPT ![ev[o].task] = "failed"]
    /\ Goto(o, "enrichment")
    /\ UNCHANGED <<db, s3, queue, active, dedupe, cancelFlag, guard, decrs, bus, ev, local, gw, faults>>

\* _ensure_job_failed_side_effects.
EnsureJobFailed(o) ==
    /\ At(o, "ensureJobFailed")
    /\ memJob' = [memJob EXCEPT ![o] = job]
    /\ verdict' = [verdict EXCEPT ![o] = "failed"]
    /\ Goto(o, IF job \in {"failed", "cancelled"} THEN "release" ELSE "failJob")
    /\ UNCHANGED <<db, s3, redis, bus, ev, memTask, memRetries, todo, cur, more, gw, faults>>

\* Mutant: the side effects of the failure are left out.
FailJobSilently(o) ==
    /\ At(o, "failJob")
    /\ job' = "failed"
    /\ Goto(o, "ack")
    /\ UNCHANGED <<task, retries, webhooks, s3, redis, bus, ev, local, gw, faults>>

FailJob(o) ==
    /\ At(o, "failJob")
    /\ job' = "failed"
    /\ Goto(o, "release")
    /\ UNCHANGED <<task, retries, webhooks, s3, redis, bus, ev, local, gw, faults>>

-----------------------------------------------------------------------------
(* handle_task_wait_timeout *)

TaskWaitTimeout(o) ==
    /\ At(o, "task.wait_timeout")
    /\ LET t == ev[o].task IN
         /\ memTask' = [memTask EXCEPT ![o][t] = task[t]]
         /\ Goto(o, CASE task[t] \in {"ready", "pending"} -> "settleTimeout"
                      [] task[t] = "skipped" -> "enrichment"
                      [] task[t] = "failed"  -> "ensureJobFailed"
                      [] OTHER               -> "ack")
    /\ UNCHANGED <<db, s3, redis, bus, ev, memJob, memRetries, todo, cur, verdict, more, gw, faults>>

SettleTimeout(o) ==
    /\ At(o, "settleTimeout")
    /\ LET t == ev[o].task
           s == IF Required(t) THEN "failed" ELSE "skipped"
       IN /\ task' = [task EXCEPT ![t] = s]
          /\ memTask' = [memTask EXCEPT ![o][t] = s]
          /\ Goto(o, IF Required(t) THEN "ensureJobFailed" ELSE "enrichment")
    /\ UNCHANGED <<job, retries, webhooks, s3, redis, bus, ev, memJob, memRetries, todo, cur, verdict, more, gw, faults>>

-----------------------------------------------------------------------------
(* handle_job_cancel_requested and _check_job_cancellation_complete *)

CancelRequested(o) ==
    /\ At(o, "job.cancel_requested")
    /\ cancelFlag' = TRUE
    /\ memTask' = [memTask EXCEPT ![o] = task]
    /\ Goto(o, "cancelQueued")
    /\ UNCHANGED <<db, s3, queue, active, dedupe, guard, decrs, enrich, bus, ev, memJob, memRetries, todo, cur, verdict, more, gw, faults>>

CancelQueued(o) ==
    /\ At(o, "cancelQueued")
    /\ task' = [t \in Tasks |-> IF memTask[o][t] \in {"pending", "ready"} THEN "cancelled" ELSE task[t]]
    /\ Goto(o, "loadCancelledJob")
    /\ UNCHANGED <<job, retries, webhooks, s3, redis, bus, ev, local, gw, faults>>

LoadCancelledJob(o) ==
    /\ At(o, "loadCancelledJob")
    /\ memJob' = [memJob EXCEPT ![o] = job]
    /\ Goto(o, "checkCancelled")
    /\ UNCHANGED <<db, s3, redis, bus, ev, memTask, memRetries, todo, cur, verdict, more, gw, faults>>

SomeRunning(mem) == \E t \in Tasks : mem[t] = "running"

\* The tasks' statuses are those loaded by the caller.
CheckCancelled(o) ==
    /\ At(o, "checkCancelled")
    /\ IF memJob[o] # "cancelling" \/ SomeRunning(memTask[o])
         THEN Goto(o, "ack") /\ UNCHANGED <<job, verdict>>
         ELSE /\ job' = "cancelled"
              /\ verdict' = [verdict EXCEPT ![o] = "cancelled"]
              /\ Goto(o, "release")
    /\ UNCHANGED <<task, retries, webhooks, s3, redis, bus, ev, memJob, memTask, memRetries, todo, cur, more, gw, faults>>

-----------------------------------------------------------------------------
(* JobsService.cancel_job and the two routes that call it *)

CANCELLABLE_STATES == {"pending", "running"}
GwGoto(l) == gw' = [gw EXCEPT !.pc = l]

CancelRead ==
    /\ gw.pc = "idle"
    /\ job \in CANCELLABLE_STATES
    /\ \E r \in CancelRoutes : gw' = [pc |-> "commit", mem |-> task, route |-> r]
    /\ UNCHANGED <<db, s3, redis, bus, pc, ev, local, faults>>

\* Queued tasks are cancelled; the job is CANCELLING while a task runs, else CANCELLED.
CancelCommit ==
    /\ gw.pc = "commit"
    /\ task' = [t \in Tasks |-> IF gw.mem[t] \in {"pending", "ready"} THEN "cancelled" ELSE task[t]]
    /\ IF SomeRunning(gw.mem)
         THEN job' = "cancelling" /\ gw' = [pc |-> "publish", mem |-> NoMem, route |-> gw.route]
         ELSE job' = "cancelled"  /\ gw' = [pc |-> "publishFinal", mem |-> NoMem, route |-> gw.route]
    /\ UNCHANGED <<retries, webhooks, s3, redis, bus, pc, ev, local, faults>>

\* Mutant: no route releases the slot.
CancelPublishOnly ==
    /\ gw.pc \in {"publish", "publishFinal"}
    /\ Publish(JobEvent("job.cancel_requested"))
    /\ GwGoto("done")
    /\ UNCHANGED <<db, s3, redis, pending, pc, ev, local, faults>>

\* publish_job_cancel_requested; only the API route then releases the slot of a
\* job that is already CANCELLED.
CancelPublish ==
    /\ gw.pc \in {"publish", "publishFinal"}
    /\ Publish(JobEvent("job.cancel_requested"))
    /\ GwGoto(IF gw.pc = "publishFinal" /\ gw.route = "api" THEN "release" ELSE "done")
    /\ UNCHANGED <<db, s3, redis, pending, pc, ev, local, faults>>

\* Mutant: the result of SET NX is not looked at.
CancelReleaseUnguarded ==
    /\ gw.pc = "release"
    /\ guard' = TRUE
    /\ GwGoto("decrement")
    /\ UNCHANGED <<db, s3, queue, active, dedupe, cancelFlag, decrs, enrich, bus, pc, ev, local, faults>>

\* decrement_concurrent_jobs_once.
CancelRelease ==
    /\ gw.pc = "release"
    /\ guard' = TRUE
    /\ GwGoto(IF guard THEN "done" ELSE "decrement")
    /\ UNCHANGED <<db, s3, queue, active, dedupe, cancelFlag, decrs, enrich, bus, pc, ev, local, faults>>

CancelDecrement ==
    /\ gw.pc = "decrement"
    /\ decrs' = decrs + 1
    /\ GwGoto("done")
    /\ UNCHANGED <<db, s3, queue, active, dedupe, cancelFlag, guard, enrich, bus, pc, ev, local, faults>>

\* The gateway process dies while it serves the request.
GatewayCrash ==
    /\ gw.pc \notin {"idle", "done"}
    /\ faults < MaxFaults
    /\ faults' = faults + 1
    /\ gw' = [gw EXCEPT !.pc = "done", !.mem = NoMem]
    /\ UNCHANGED <<db, s3, redis, bus, pc, ev, local>>

-----------------------------------------------------------------------------
(* Engines (engine_sdk/runner.py) and the scanner's wait timeout, as far as   *)
(* the job sees them: which events they publish and which messages they ack. *)

\* The job's flag is set: acked without any event.
EngineSkips(m) ==
    /\ m \in queue
    /\ cancelFlag
    /\ queue' = queue \ {m}
    /\ UNCHANGED <<db, s3, active, dedupe, cancelFlag, guard, decrs, enrich, bus, pc, ev, local, gw, faults>>

EngineStarts(m) ==
    /\ m \in queue
    /\ ~cancelFlag
    /\ queue' = queue \ {m}
    /\ active' = active \cup {m}
    /\ Publish(TaskEvent("task.started", m.task))
    /\ UNCHANGED <<db, s3, dedupe, cancelFlag, guard, decrs, enrich, pending, pc, ev, local, gw, faults>>

\* The request could not be loaded: task.failed without task.started.
EngineRejects(m) ==
    /\ m \in queue
    /\ ~cancelFlag
    /\ faults < MaxFaults
    /\ faults' = faults + 1
    /\ queue' = queue \ {m}
    /\ Publish(TaskEvent("task.failed", m.task))
    /\ UNCHANGED <<db, s3, active, dedupe, cancelFlag, guard, decrs, enrich, pending, pc, ev, local, gw>>

EngineCompletes(m) ==
    /\ m \in active
    /\ output' = [output EXCEPT ![m.task] = TRUE]
    /\ Publish(TaskEvent("task.completed", m.task))
    /\ active' = active \ {m}
    /\ UNCHANGED <<db, patched, queue, dedupe, cancelFlag, guard, decrs, enrich, pending, pc, ev, local, gw, faults>>

EngineFails(m) ==
    /\ m \in active
    /\ \E e \in {TaskEvent("task.failed", m.task), FatalFailure(m.task)} : Publish(e)
    /\ active' = active \ {m}
    /\ UNCHANGED <<db, s3, queue, dedupe, cancelFlag, guard, decrs, enrich, pending, pc, ev, local, gw, faults>>

\* Mutant: the completion is published before the output is saved.
EngineDiesUnsaved(m) ==
    /\ m \in active
    /\ faults < MaxFaults
    /\ faults' = faults + 1
    /\ active' = active \ {m}
    /\ queue' = queue \cup {m}
    /\ \/ UNCHANGED stream
       \/ Publish(TaskEvent("task.completed", m.task))
    /\ UNCHANGED <<db, s3, dedupe, cancelFlag, guard, decrs, enrich, pending, pc, ev, local, gw>>

\* The engine dies while it holds the message, possibly after it has saved its
\* output or published its completion, and another one claims the message; or it
\* defers the task (TaskDeferredError), which leaves the message unacknowledged.
EngineDies(m) ==
    /\ m \in active
    /\ faults < MaxFaults
    /\ faults' = faults + 1
    /\ active' = active \ {m}
    /\ queue' = queue \cup {m}
    /\ \/ UNCHANGED <<output, stream>>
       \/ output' = [output EXCEPT ![m.task] = TRUE] /\ UNCHANGED stream
       \/ /\ output' = [output EXCEPT ![m.task] = TRUE]
          /\ Publish(TaskEvent("task.completed", m.task))
    /\ UNCHANGED <<db, patched, dedupe, cancelFlag, guard, decrs, enrich, pending, pc, ev, local, gw>>

\* _scan_waiting_engine_timeouts: no engine took the message before its deadline.
WaitTimeout(m) ==
    /\ m \in queue
    /\ task[m.task] \in {"ready", "pending"}
    /\ queue' = queue \ {m}
    /\ Publish(TaskEvent("task.wait_timeout", m.task))
    /\ UNCHANGED <<db, s3, active, dedupe, cancelFlag, guard, decrs, enrich, pending, pc, ev, local, gw, faults>>

-----------------------------------------------------------------------------
(* Specification *)

HandlerStep(o) ==
    \/ JobCreated(o) \/ BuildDagFails(o) \/ BuildDag(o) \/ MarkRoot(o)
    \/ QueueTask(o) \/ QueueTaskFails(o) \/ QueueRetry(o) \/ QueueRetryFails(o)
    \/ TaskStarted(o)
    \/ TaskCompleted(o) \/ MarkCompleted(o) \/ Enrichment(o) \/ LoadTasks(o)
    \/ LoadJob(o) \/ Advance(o) \/ CancelPending(o)
    \/ CheckCompletionReturns(o) \/ CheckCompletion(o)
    \/ Release(o) \/ Decrement(o) \/ PublishVerdict(o) \/ JobWebhook(o)
    \/ InsertPostProc(o) \/ TrackEnrichment(o) \/ MarkPiiReady(o) \/ QueuePiiFails(o)
    \/ TaskFailed(o) \/ SettleFailure(o) \/ EnrichmentFailed(o)
    \/ EnsureJobFailed(o) \/ FailJob(o)
    \/ TaskWaitTimeout(o) \/ SettleTimeout(o)
    \/ CancelRequested(o) \/ CancelQueued(o) \/ LoadCancelledJob(o) \/ CheckCancelled(o)

OrchestratorStep(o) == ReadNew(o) \/ ClaimStale(o) \/ AckEvent(o) \/ HandlerStep(o)

CancelStep == CancelCommit \/ CancelPublish \/ CancelRelease \/ CancelDecrement

EngineStep(m) == EngineSkips(m) \/ EngineStarts(m) \/ EngineCompletes(m) \/ EngineFails(m)

Fault ==
    \/ \E o \in Orchestrators : AbandonEvent(o) \/ ClaimInFlight(o)
    \/ \E m \in Message : EngineRejects(m) \/ EngineDies(m)
    \/ GatewayCrash

Next ==
    \/ \E o \in Orchestrators : OrchestratorStep(o)
    \/ \E m \in Message : EngineStep(m) \/ WaitTimeout(m)
    \/ CancelRead
    \/ CancelStep
    \/ Fault

\* Processes that are up keep running; faults, cancel requests and wait
\* timeouts need not happen.
Fairness ==
    /\ \A o \in Orchestrators : WF_vars(OrchestratorStep(o))
    /\ \A m \in Message : WF_vars(EngineStep(m))
    /\ WF_vars(CancelStep)

Spec == Init /\ [][Next]_vars
FairSpec == Spec /\ Fairness

-----------------------------------------------------------------------------
(* Properties *)

Labels ==
    {"idle", "ack", "job.created", "job.cancel_requested", "job.webhook",
     "buildDag", "markRoot", "queueRoot", "queueDependent", "queueRetry", "queuePii",
     "markCompleted", "enrichment", "loadTasks", "loadJob", "advance", "cancelPending",
     "checkCompletion", "release", "decrement", "publish", "insertPostProc",
     "trackEnrichment", "markPiiReady", "settleFailure", "enrichmentFailed",
     "ensureJobFailed", "failJob", "settleTimeout", "cancelQueued",
     "loadCancelledJob", "checkCancelled"} \cup TaskEvents
GwLabels == {"idle", "commit", "publish", "publishFinal", "release", "decrement", "done"}
Row      == TaskStatus \cup {"absent"}

\* Every store and every handler's memory holds values of its type.
TypeOK ==
    /\ job \in JobStatus
    /\ task \in [Tasks -> Row]
    /\ retries \in [Tasks -> 0..MaxRetries]
    /\ webhooks \subseteq TerminalJobs
    /\ output \in [Tasks -> BOOLEAN]
    /\ patched \in BOOLEAN
    /\ queue \subseteq Message
    /\ active \subseteq Message
    /\ dedupe \subseteq Message
    /\ cancelFlag \in BOOLEAN
    /\ guard \in BOOLEAN
    /\ decrs \in Nat
    /\ enrich \in [PostProc -> EnrichmentStatus]
    /\ stream \in Seq(Event)
    /\ pending \in [Event -> Nat]
    /\ pc \in [Orchestrators -> Labels]
    /\ ev \in [Orchestrators -> Event]
    /\ memJob \in [Orchestrators -> JobStatus]
    /\ memTask \in [Orchestrators -> [Tasks -> Row]]
    /\ memRetries \in [Orchestrators -> 0..MaxRetries]
    /\ todo \in [Orchestrators -> SUBSET Tasks]
    /\ cur \in [Orchestrators -> Tasks \cup {NoTask}]
    /\ verdict \in [Orchestrators -> TerminalJobs]
    /\ more \in [Orchestrators -> BOOLEAN]
    /\ gw \in [pc : GwLabels, mem : [Tasks -> Row], route : {"api", "console"}]
    /\ faults \in 0..MaxFaults

\* A task whose row says COMPLETED has its response in S3, whatever replays,
\* duplicate executions and late events led handle_task_completed there.
CompletedHasOutput == \A t \in Tasks : task[t] = "completed" => output[t]

\* No engine is handed a task before each of its dependencies has written its
\* response: _gather_previous_responses never misses an input.
HasInputs(t) == \A d \in Deps[t] : output[d]
InputsExist == \A m \in queue \cup active : HasInputs(m.task)

\* _check_job_completion, on rows that may be stale by then, makes a job COMPLETED
\* only when every pipeline stage has produced its response.
CompletedJobIsWhole == job = "completed" => \A t \in Pipeline : output[t]

\* Whatever the number of handlers that conclude the job, and the gateway with
\* them, the tenant's counter is decremented for it at most once.
AboutToDecrement == {o \in Orchestrators : At(o, "decrement")}
SlotReleasedAtMostOnce ==
    /\ decrs <= 1
    /\ decrs = 1 => AboutToDecrement = {} /\ gw.pc # "decrement"
    /\ \A o, q \in AboutToDecrement : o = q
    /\ AboutToDecrement # {} => gw.pc # "decrement"

\* A pipeline task is put on its engine's stream, outside of retries, by at most
\* one handler: the conditional UPDATE arbitrates between orchestrators.
Dispatching(o, t) == pc[o] \in {"queueRoot", "queueDependent"} /\ cur[o] = t
DispatchedOnce ==
    \A t \in Pipeline : \A o \in Orchestrators :
        Dispatching(o, t) =>
            /\ [task |-> t, key |-> NoKey] \notin queue \cup active
            /\ \A q \in Orchestrators : Dispatching(q, t) => q = o

\* With one orchestrator no replayed event, second execution or late failure takes back
\* a completion; only a cancel request that was accepted before it can.
CompletionStable == [][(job = "completed" /\ gw.pc # "commit") => (job' = "completed")]_vars

\* The transcript is patched only from a pii_detect response that exists.
PatchedHasFindings == patched => \E t \in Roots(PostProc) : output[t]

\* A customer's endpoints hear one verdict about a job that nobody cancels, and it is
\* the job's status.
OneVerdict == gw.pc = "idle" => webhooks \subseteq {job}

\* Every accepted job reaches a terminal status, unless it is cancelled.
JobTerminates == <>[](job \in TerminalJobs) \/ <>(gw.pc # "idle")

\* The verdict of every job that ended by itself is handed to webhook delivery.
VerdictDelivered ==
    \A s \in TerminalJobs : (job = s /\ gw.pc = "idle") ~> (s \in webhooks \/ gw.pc # "idle")

\* The tenant's concurrency slot is given back when the job has ended, by itself or
\* through a cancel request at any moment.
SlotReleased == job \in TerminalJobs ~> decrs = 1

-----------------------------------------------------------------------------
(* Why they hold: the invariants from which the proofs argue *)

\* The label a handler has reached agrees with the event it handles: only events
\* about a task lead to the code that reads task_id, and cur is set before queue_task.
TaskLabels == TaskEvents \cup {"markCompleted", "enrichment", "loadTasks", "loadJob", "settleFailure",
                               "enrichmentFailed", "settleTimeout", "queueRetry"}
ControlInv ==
    \A o \in Orchestrators :
        /\ pc[o] \in TaskLabels => ev[o].type \in TaskEvents
        /\ pc[o] \in {"task.completed", "markCompleted"} => ev[o].type = "task.completed"
        /\ pc[o] = "job.webhook" => ev[o].type \in VerdictEvents
        /\ pc[o] \in {"queueRoot", "queueDependent", "queuePii"} => cur[o] \in Tasks

\* A task.completed event anywhere on its way, and a row or a loaded copy of it that
\* says COMPLETED, stand for a response in S3.
OutputInv ==
    /\ CompletedHasOutput
    /\ \A i \in DOMAIN stream : stream[i].type = "task.completed" => output[stream[i].task]
    /\ \A e \in Event : pending[e] > 0 /\ e.type = "task.completed" => output[e.task]
    /\ \A o \in Orchestrators :
         /\ ev[o].type = "task.completed" => output[ev[o].task]
         /\ \A t \in Tasks : memTask[o][t] = "completed" => output[t]

\* Whatever a handler is about to queue, and whatever was made READY, has its inputs.
InputsInv ==
    /\ InputsExist
    /\ \A t \in Tasks : task[t] \in {"ready", "running"} => HasInputs(t)
    /\ \A o \in Orchestrators :
         /\ \A t \in todo[o] : HasInputs(t)
         /\ cur[o] \in Tasks => HasInputs(cur[o])
         /\ pc[o] \in {"settleFailure", "queueRetry"} => HasInputs(ev[o].task)

\* No handler skips a required task: a pipeline row that counts as done is COMPLETED
\* or FAILED, in the database and in every loaded copy.
WholeInv ==
    /\ CompletedJobIsWhole
    /\ \A t \in Pipeline :
         /\ task[t] # "skipped"
         /\ \A o \in Orchestrators : memTask[o][t] # "skipped"

\* Until the guard key is set nobody has decremented or is about to.
SlotInv ==
    /\ SlotReleasedAtMostOnce
    /\ ~guard => decrs = 0 /\ AboutToDecrement = {} /\ gw.pc # "decrement"

\* Before the first task has been queued no task is executed and no event is about one.
NothingStarted ==
    /\ queue = {} /\ active = {}
    /\ \A i \in DOMAIN stream : stream[i].type \notin TaskEvents
    /\ \A e \in Event : pending[e] > 0 => e.type \notin TaskEvents
    /\ \A o \in Orchestrators : ev[o].type \notin TaskEvents

Unmarked(t)   == task[t] \in {"absent", "pending"}
AtRoots(o)    == At(o, "markRoot") /\ todo[o] # {}
AfterTask     == {"advance", "queueDependent", "checkCompletion", "insertPostProc", "trackEnrichment",
                  "markPiiReady", "queuePii"}

\* Only the handler that has inserted the rows queues the root, and only events about
\* tasks lead to the code that queues the others.
QueuesInv ==
    \A o \in Orchestrators :
        /\ pc[o] = "queueRoot" => cur[o] \in Roots(Pipeline) /\ todo[o] = {}
        /\ pc[o] = "queuePii" => cur[o] \in PostProc
        /\ pc[o] \in AfterTask \/ more[o] => ev[o].type \in TaskEvents
        /\ more[o] => pc[o] # "idle"

\* A row is marked READY before the task is queued, and the root before every other task.
DispatchInv ==
    /\ DispatchedOnce
    /\ \A t \in Pipeline : Unmarked(t) => /\ [task |-> t, key |-> NoKey] \notin queue \cup active
                                          /\ \A o \in Orchestrators : ~Dispatching(o, t)
    /\ \A t \in Roots(Pipeline) : Unmarked(t) => NothingStarted
    /\ \A o \in Orchestrators : AtRoots(o) =>
         /\ NothingStarted /\ todo[o] = Roots(Pipeline)
         /\ \A t \in Roots(Pipeline) : task[t] # "absent" /\ memTask[o][t] = "pending"
         /\ \A q \in Orchestrators : pc[q] # "queueRoot" /\ (AtRoots(q) => q = o)

\* One orchestrator, and a job that wants no post-processing.
OneHandler == PostProc = {} /\ \A o, q \in Orchestrators : o = q

\* Where a handler is about to plan a job, to go on with one of its tasks or to fail it.
Unsettled == {"buildDag", "markRoot", "queueRoot", "queueDependent", "settleFailure", "queueRetry",
              "settleTimeout", "ensureJobFailed", "failJob"}

\* A handler has loaded the job and is going to decide by what it has loaded.
GoesByCopy(o) ==
    \/ pc[o] \in {"advance", "queueDependent", "checkCompletion"}
    \/ pc[o] \in {"loadTasks", "loadJob"} /\ IsPrepare(ev[o].task)

\* A completed job has no row left that an event could turn, and its only handler knows that
\* it is completed or is not concerned.
Settled(t) == task[t] \in {"completed", "cancelled"}
CopyKept(o) ==
    /\ \A t \in Tasks : memTask[o][t] = "completed" => Settled(t)
    /\ pc[o] = "queueRetry" => memTask[o][ev[o].task] = "ready"
Unconcerned(o) ==
    /\ pc[o] \notin Unsettled
    /\ GoesByCopy(o) => memJob[o] = "completed"
    /\ pc[o] \in {"cancelPending", "checkCancelled"} => memJob[o] # "cancelling"
SettledInv ==
    OneHandler =>
        /\ \A o \in Orchestrators : CopyKept(o)
        /\ job = "completed" => /\ \A t \in Pipeline : Settled(t)
                                /\ \A o \in Orchestrators : Unconcerned(o)

\* The stores and the handlers agree: the inductive invariant of the pipeline.
PipelineInv ==
    /\ TypeOK /\ ControlInv /\ OutputInv /\ InputsInv /\ WholeInv /\ SlotInv
    /\ PatchedHasFindings /\ QueuesInv /\ DispatchInv /\ SettledInv

CancelLabels == {"job.cancel_requested", "cancelQueued", "loadCancelledJob", "checkCancelled", "cancelPending"}

\* Until somebody cancels it, a job whose events are not replayed is planned once, before
\* anything else happens to it ...
PlannedOnce ==
    /\ \A e \in Event : pending[e] = 0
    /\ job = "pending" => /\ NothingStarted
                          /\ \A t \in Tasks : task[t] = "absent"
                          /\ \A o \in Orchestrators : pc[o] \in {"idle", "job.created", "buildDag"}
    /\ \A i \in DOMAIN stream : stream[i].type = "job.created" =>
         job = "pending" /\ Len(stream) = 1 /\ \A o \in Orchestrators : pc[o] = "idle"
    /\ \A o \in Orchestrators : pc[o] \in {"job.created", "buildDag"} => job = "pending" /\ stream = <<>>

\* ... and whoever speaks of its verdict, or decides it, speaks of the job's status.
Agrees(o) ==
    /\ pc[o] \notin CancelLabels
    /\ pc[o] = "job.webhook" => VerdictOf(ev[o]) = job
    /\ pc[o] \in {"release", "decrement", "publish"} => verdict[o] = job
    /\ pc[o] = "failJob" => verdict[o] = "failed"
    /\ GoesByCopy(o) \/ pc[o] \in {"buildDag", "markRoot", "queueRoot"} => memJob[o] = job
VerdictsAgree ==
    /\ job \in {"pending", "running", "completed", "failed"}
    /\ \A i \in DOMAIN stream :
         /\ stream[i].type # "job.cancel_requested"
         /\ stream[i].type \in VerdictEvents => VerdictOf(stream[i]) = job
    /\ \A o \in Orchestrators : Agrees(o)

\* What a customer is told follows from where verdicts come from.
VerdictInv == OneVerdict /\ (gw.pc = "idle" => PlannedOnce /\ VerdictsAgree)

=============================================================================
