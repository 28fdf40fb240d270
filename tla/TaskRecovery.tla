---------------------------- MODULE TaskRecovery ----------------------------
(***************************************************************************)
(* What becomes of a task when its engine, its message or its event is      *)
(* lost: the task stream with its pending list, the engines that read it    *)
(* (streams_sync.py, runner.py), the scanner for stale tasks (scanner.py)   *)
(* and the reconciliation sweeper (reconciler.py), which run beside the     *)
(* event handlers of every orchestrator.                                    *)
(*                                                                          *)
(* One job with one required task.  A process takes one step from one       *)
(* decision to the next; the places inside a step where it may die are      *)
(* disjuncts that count as faults.  The scanner and the sweeper decide in   *)
(* one step, on the pending list and the row, and commit in another.        *)
(***************************************************************************)
EXTENDS Integers, FiniteSets

CONSTANTS
    Engines,      \* instances that serve the task's stream
    Scanners,     \* orchestrators that run the stale task scanner
    Sweepers,     \* orchestrators that run the reconciliation sweeper
    MaxRetries,   \* max_retries of the task
    MaxMessages,  \* bound on the messages appended to the stream
    MaxFaults,    \* bound on deaths, lost heartbeats, timeouts and slow passes
    Nobody

ASSUME RecoveryAssumption ==
    /\ IsFiniteSet(Engines) /\ Scanners \cap Sweepers = {}
    /\ MaxRetries \in Nat /\ MaxMessages \in Nat \ {0} /\ MaxFaults \in Nat
    /\ Nobody \notin Engines \cup Scanners \cup Sweepers

VARIABLES
    task,     \* the row: status, retries, started_at is old, completed_at is set
    job,      \* the job's status
    saved,    \* response.json is in S3
    tail,     \* messages appended to the stream
    cursor,   \* last-delivered-id of the consumer group
    gone,     \* messages that were deleted
    pel,      \* the pending list: which engine has the message
    idle,     \* pending messages delivered longer ago than the thresholds
    meta,     \* the task's hash in Redis
    keys,     \* retries whose deduplication key is set
    events,   \* how many events of each type are not yet acknowledged
    up,       \* engines that run
    beat,     \* engines whose heartbeat is fresh
    at,       \* the message that each engine executes
    lock,     \* the leader locks of the scanners and of the sweepers
    pc,       \* what each scanner and sweeper has decided to do
    failures, \* ghost: failures that an engine has reported
    faults

row     == <<task, job, saved>>
stream  == <<tail, cursor, gone, pel, idle>>
engines == <<up, beat, at>>
sweeps  == <<lock, pc>>
vars    == <<row, stream, meta, keys, events, engines, sweeps, failures, faults>>

Messages == 1 .. MaxMessages
Leaders  == Scanners \cup Sweepers
Open     == {m \in Messages : pel[m] # Nobody}
Terminal == {"COMPLETED", "FAILED"}
Types    == {"started", "completed", "failed", "wait_timeout"}

Inject == faults < MaxFaults /\ faults' = faults + 1
Calm   == UNCHANGED faults

\* An event on the durable stream; a further task.started changes nothing.
Publish(y) == events' = [events EXCEPT ![y] = IF y = "started" THEN 1 ELSE @ + 1]

\* queue_task has written the hash over; what an earlier round left in it stays.
Written == [meta EXCEPT !.fresh = TRUE, !.wait = IF beat = {} THEN "yes" ELSE @]

\* XADD.
Append == tail < MaxMessages /\ tail' = tail + 1 /\ UNCHANGED <<cursor, gone, pel, idle>>

\* XACK, by whoever calls it.
Acked(m) ==
    /\ pel' = [pel EXCEPT ![m] = Nobody]
    /\ idle' = idle \ {m}
    /\ UNCHANGED <<tail, cursor, gone>>

\* handle_job_created has committed its root task as READY and queued it, or has died
\* before the message was appended, or before its id was noted; the replay of job.created
\* then finds the job running and queues nothing.
Init ==
    /\ task = [st |-> "READY", tries |-> 0, old |-> FALSE, ended |-> FALSE]
    /\ job = "RUNNING" /\ saved = FALSE
    /\ up \in SUBSET Engines /\ beat = up
    /\ \E added, noted \in {0, 1} :
         /\ noted <= added /\ tail = added
         /\ faults = IF noted = 1 THEN 0 ELSE 1
         /\ meta = [msg |-> noted, fresh |-> TRUE, wait |-> IF beat = {} THEN "yes" ELSE "no", blocked |-> FALSE]
    /\ faults <= MaxFaults
    /\ cursor = 0 /\ gone = {} /\ idle = {} /\ pel = [m \in Messages |-> Nobody]
    /\ keys = {} /\ events = [y \in Types |-> 0]
    /\ at = [e \in Engines |-> 0]
    /\ lock = [k \in {"scan", "sweep"} |-> Nobody]
    /\ pc = [p \in Leaders |-> "idle"]
    /\ failures = 0

-----------------------------------------------------------------------------
(* The orchestrator's event handlers *)

Handling(y) ==
    /\ events[y] > 0
    /\ UNCHANGED <<saved, engines, sweeps, failures>>

\* The handler is through and its event is acknowledged, unless the orchestrator dies
\* just before and the event is delivered again.
Done(y) ==
    \/ events' = [events EXCEPT ![y] = @ - 1] /\ Calm
    \/ Inject /\ UNCHANGED events

HandleStarted ==
    /\ Handling("started") /\ Done("started")
    /\ task' = IF task.st = "READY" THEN [task EXCEPT !.st = "RUNNING", !.old = FALSE] ELSE task
    /\ UNCHANGED <<job, stream, meta, keys>>

\* Mutant: the verdict does not look at the job.
VerdictsAnew(st) == IF st = "FAILED" THEN {"FAILED"} ELSE {"COMPLETED", "FAILED"}

\* _check_job_completion: the verdict on a running job whose task has ended; the
\* transcript may fail to assemble.
Verdicts(st) ==
    IF job # "RUNNING" THEN {job} ELSE IF st = "FAILED" THEN {"FAILED"} ELSE {"COMPLETED", "FAILED"}

\* handle_task_completed: whatever the task was, it is COMPLETED.
HandleCompleted ==
    /\ Handling("completed") /\ Done("completed")
    /\ task' = [task EXCEPT !.st = "COMPLETED", !.ended = TRUE]
    /\ job' \in Verdicts("COMPLETED")
    /\ UNCHANGED <<stream, meta, keys>>

\* queue_task with the deduplication key of a retry: the message is appended unless the
\* key is set, and its id is noted.
QueueRetry(k) ==
    IF k \in keys
    THEN meta' = Written /\ UNCHANGED <<stream, keys>>
    ELSE Append /\ keys' = keys \cup {k} /\ meta' = [Written EXCEPT !.msg = tail']

\* The orchestrator dies in it: before the hash, before the message, or before the note.
QueueRetryDies(k) ==
    \/ meta' \in {meta, Written} /\ UNCHANGED <<stream, keys>>
    \/ k \notin keys /\ Append /\ keys' = keys \cup {k} /\ meta' = Written

\* No engine of the task is registered and the task is not to wait for one.
FailFast ==
    /\ beat = {} /\ job' = "FAILED"
    /\ UNCHANGED <<stream, meta, keys>>

Enqueue(k, t) ==
    \/ QueueRetry(k) /\ Done("failed") /\ task' = t /\ UNCHANGED job
    \/ QueueRetryDies(k) /\ Inject /\ task' = t /\ UNCHANGED <<job, events>>
    \/ FailFast /\ Done("failed") /\ task' = [t EXCEPT !.st = "FAILED"]

\* handle_task_failed: a retry, ...
Retry ==
    /\ Handling("failed") /\ task.st = "RUNNING" /\ task.tries < MaxRetries
    /\ Enqueue(task.tries + 1, [task EXCEPT !.st = "READY", !.tries = @ + 1])

\* ... a retry that is taken to be one that a crash has interrupted, ...
RetryAgain ==
    /\ Handling("failed") /\ task.st = "READY"
    /\ Enqueue(task.tries, task)

\* ... the end of the job, at once if the error is one that a retry cannot cure, ...
GiveUp ==
    /\ Handling("failed") /\ Done("failed")
    /\ task.st \in {"RUNNING", "FAILED"}
    /\ task' = [task EXCEPT !.st = "FAILED"] /\ job' = "FAILED"
    /\ UNCHANGED <<stream, meta, keys>>

\* ... or a failure that comes too late.
IgnoreFailure ==
    /\ Handling("failed") /\ Done("failed")
    /\ task.st = "COMPLETED"
    /\ UNCHANGED <<task, job, stream, meta, keys>>

HandleWaitTimeout ==
    /\ Handling("wait_timeout") /\ Done("wait_timeout")
    /\ IF task.st \in {"READY", "FAILED"}
       THEN /\ job' = "FAILED"
            /\ task' = [task EXCEPT !.st = "FAILED", !.ended = @ \/ task.st = "READY"]
       ELSE UNCHANGED <<task, job>>
    /\ UNCHANGED <<stream, meta, keys>>

Handler ==
    \/ HandleStarted \/ HandleCompleted \/ HandleWaitTimeout
    \/ Retry \/ RetryAgain \/ GiveUp \/ IgnoreFailure

-----------------------------------------------------------------------------
(* The engines *)

Dies(e) == Inject /\ up' = up \ {e} /\ at' = [at EXCEPT ![e] = 0]

\* The engine publishes, and goes on with message m even if Redis refused every attempt.
Send(e, y, m) ==
    /\ at' = [at EXCEPT ![e] = m] /\ UNCHANGED up
    /\ \/ Publish(y) /\ Calm
       \/ Inject /\ UNCHANGED events

\* A message is taken.  If the hash says that the wait for an engine was given up, it is
\* acknowledged unexecuted.  Otherwise the wait is over, and the engine announces the
\* task, cannot load its request, or dies before it does either.
Take(e, m) ==
    /\ UNCHANGED <<row, keys, beat, sweeps>>
    /\ IF meta.blocked
       THEN /\ pel' = [pel EXCEPT ![m] = Nobody]
            /\ UNCHANGED <<meta, events, up, at, failures, faults>>
       ELSE /\ meta' = [meta EXCEPT !.wait = "no"]
            /\ \/ /\ pel' = [pel EXCEPT ![m] = e]
                  /\ Send(e, "started", m) /\ UNCHANGED failures
               \/ /\ pel' = [pel EXCEPT ![m] = Nobody]
                  /\ Send(e, "failed", 0) /\ failures' = failures + 1
               \/ /\ pel' = [pel EXCEPT ![m] = e]
                  /\ Dies(e) /\ UNCHANGED <<events, failures>>

Free(e) == e \in up /\ at[e] = 0

\* claim_stale_from_dead_engines.
ClaimStale(e) ==
    /\ Free(e)
    /\ \E m \in (Open \cap idle) \ gone : pel[m] \notin beat /\ Take(e, m) /\ idle' = idle \ {m}
    /\ UNCHANGED <<tail, cursor, gone>>

\* read_own_pending: a message that was deferred.
ReadOwn(e) ==
    /\ Free(e)
    /\ \E m \in Open \ gone : pel[m] = e /\ Take(e, m) /\ idle' = idle \ {m}
    /\ UNCHANGED <<tail, cursor, gone>>

\* XREADGROUP >: the first message after the cursor that was not deleted.
ReadTask(e) ==
    /\ Free(e) /\ \A m \in Open \ gone : pel[m] # e
    /\ \E m \in (cursor + 1 .. tail) \ gone :
         /\ \A n \in cursor + 1 .. m - 1 : n \in gone
         /\ cursor' = m /\ Take(e, m)
    /\ UNCHANGED <<tail, gone, idle>>

Executing(e) ==
    /\ at[e] # 0
    /\ UNCHANGED <<task, job, meta, keys, beat, sweeps>>

\* The output is stored, then announced, then the message acknowledged.
Finish(e) ==
    /\ Executing(e) /\ saved' = TRUE /\ UNCHANGED failures
    /\ \/ Send(e, "completed", 0) /\ Acked(at[e])
       \/ Dies(e) /\ (UNCHANGED events \/ Publish("completed")) /\ UNCHANGED stream

Fail(e) ==
    /\ Executing(e) /\ failures' = failures + 1 /\ UNCHANGED saved
    /\ \/ Send(e, "failed", 0) /\ Acked(at[e])
       \/ Dies(e) /\ Publish("failed") /\ UNCHANGED stream

\* Admission control rejects the task: the message stays pending.
Defer(e) ==
    /\ Executing(e) /\ Inject
    /\ at' = [at EXCEPT ![e] = 0]
    /\ UNCHANGED <<saved, stream, events, up, failures>>

EngineDies(e) ==
    /\ Executing(e) /\ Dies(e)
    /\ UNCHANGED <<saved, stream, events, failures>>

Execute(e) == ClaimStale(e) \/ ReadOwn(e) \/ ReadTask(e) \/ Finish(e)

\* A new instance registers.
Register(e) ==
    /\ e \notin up /\ e \notin beat /\ \A m \in Messages : pel[m] # e
    /\ up' = up \cup {e} /\ beat' = beat \cup {e}
    /\ UNCHANGED <<row, stream, meta, keys, events, at, sweeps, failures, faults>>

\* The heartbeat of a dead engine expires; that of a live one when it cannot reach Redis.
BeatExpires(e) ==
    /\ e \in beat /\ beat' = beat \ {e}
    /\ IF e \in up THEN Inject ELSE Calm
    /\ UNCHANGED <<row, stream, meta, keys, events, up, at, sweeps, failures>>

BeatReturns(e) ==
    /\ e \in up \ beat /\ beat' = beat \cup {e}
    /\ UNCHANGED <<row, stream, meta, keys, events, up, at, sweeps, failures, faults>>

-----------------------------------------------------------------------------
(* Scanner and sweeper: a decision is taken under the leader lock *)

Shown == Open \ gone

\* The lock is there, or free, and what was decided is remembered.
Decide(p, k, what) ==
    /\ pc[p] = "idle" /\ lock[k] = Nobody
    /\ lock' = [lock EXCEPT ![k] = p] /\ pc' = [pc EXCEPT ![p] = what]
    /\ UNCHANGED <<row, stream, meta, keys, engines, failures>>

\* The rest of the pass; the lock is deleted by its holder only.
Carry(p, k, what) ==
    /\ pc[p] = what /\ pc' = [pc EXCEPT ![p] = "idle"]
    /\ lock' = [lock EXCEPT ![k] = IF @ = p THEN Nobody ELSE @]
    /\ Calm /\ UNCHANGED <<saved, keys, engines, failures>>

\* The orchestrator dies in the rest of the pass; its lock stays.
Breaks(p, what) ==
    /\ pc[p] = what /\ pc' = [pc EXCEPT ![p] = "idle"]
    /\ Inject /\ UNCHANGED <<saved, lock, keys, engines, failures>>

\* A pass whose whole work is one step.
Alone(p, k) ==
    /\ pc[p] = "idle" /\ lock[k] = Nobody
    /\ UNCHANGED <<saved, keys, engines, sweeps, failures>>

\* Mutant: whether the engine is alive is not asked.
DeadUnasked(m) == m \in idle

\* The engine that has the message stopped heartbeating.
Dead(m) == m \in idle /\ pel[m] \notin beat

\* _scan_stream: the engine is dead, or the task has timed out, and the row is RUNNING.
FindDoomed(s) ==
    /\ task.st = "RUNNING"
    /\ \E m \in Shown : \/ Dead(m) /\ Calm
                        \/ m \in idle /\ Inject
    /\ Decide(s, "scan", "fail") /\ UNCHANGED events

\* _fail_task commits and publishes.
FailTask(s) ==
    /\ task' = [task EXCEPT !.st = "FAILED", !.ended = TRUE]
    /\ \/ Carry(s, "scan", "fail") /\ Publish("failed")
       \/ Breaks(s, "fail") /\ UNCHANGED events
    /\ UNCHANGED <<job, stream, meta>>

\* _scan_waiting_engine_timeouts: the deadline has passed and nobody has the message; ...
FindOverdue(s) ==
    /\ meta.wait = "due" /\ task.st = "READY" /\ meta.msg \notin Open
    /\ Decide(s, "scan", "block") /\ Calm /\ UNCHANGED events

\* ... or the task has moved on and its markers are removed.
ClearMarker(s) ==
    /\ Alone(s, "scan")
    /\ meta.wait = "due" /\ (task.st # "READY" \/ meta.msg \in Open)
    /\ meta' = [meta EXCEPT !.wait = "no"]
    /\ UNCHANGED <<task, job, stream, events, faults>>

\* The hash is blocked, the timeout published, the message deleted, the markers removed.
TimeOutWait(s) ==
    /\ \/ /\ Carry(s, "scan", "block") /\ Publish("wait_timeout")
          /\ gone' = gone \cup ({meta.msg} \ {0})
          /\ meta' = [meta EXCEPT !.blocked = TRUE, !.wait = "no"]
       \/ /\ Breaks(s, "block") /\ (UNCHANGED events \/ Publish("wait_timeout"))
          /\ gone' = gone /\ meta' = [meta EXCEPT !.blocked = TRUE]
    /\ UNCHANGED <<task, job, tail, cursor, pel, idle>>

Scan(s) == FindDoomed(s) \/ FailTask(s) \/ FindOverdue(s) \/ ClearMarker(s) \/ TimeOutWait(s)

-----------------------------------------------------------------------------
(* The reconciler's checks *)

\* _check_output_exists_in_s3; when S3 does not answer, the task is left for the next pass.
Output == IF saved THEN "completed" ELSE "failed"

\* _reconcile_orphaned_db_tasks: RUNNING for long, and not pending.  The event is
\* published before the row is committed.
FindOrphan(r) ==
    /\ task.st = "RUNNING" /\ task.old /\ Shown = {}
    /\ Publish(Output)
    /\ Decide(r, "sweep", Output) /\ Calm

CommitOrphan(r) ==
    /\ \E o \in {"completed", "failed"} :
         /\ task' = [task EXCEPT !.st = IF o = "completed" THEN "COMPLETED" ELSE "FAILED", !.ended = TRUE]
         /\ Carry(r, "sweep", o)
    /\ UNCHANGED <<job, stream, meta, events>>

OrphanDies(r) ==
    /\ \E o \in {"completed", "failed"} : Breaks(r, o)
    /\ UNCHANGED <<task, job, stream, meta, events>>

\* The task is pending and has ended.
Cleanable == task.st \in Terminal /\ Shown # {}

\* _reconcile_orphaned_pel_entries: one entry of the task is acknowledged.
CleanPel(r) ==
    /\ Alone(r, "sweep") /\ Cleanable
    /\ \E m \in Shown : (\A n \in Shown : m <= n) /\ Acked(m)
    /\ UNCHANGED <<task, job, meta, events, faults>>

\* _reconcile_stale_ready_tasks: the engine of the last entry is dead and the task has not
\* started.  The message is added again first and acknowledged then.
Readd(r) ==
    /\ Alone(r, "sweep") /\ task.st = "READY"
    /\ \E m \in Shown :
         /\ \A n \in Shown : n <= m
         /\ Dead(m) /\ tail < MaxMessages /\ tail' = tail + 1
         /\ \/ Calm /\ pel' = [pel EXCEPT ![m] = Nobody] /\ idle' = idle \ {m}
            \/ Inject /\ UNCHANGED <<pel, idle>>
    /\ UNCHANGED <<cursor, gone, task, job, meta, events>>

\* Mutant: a message that was consumed is not looked for.
ConsumedNever == FALSE

\* The message was read, nobody has it, and the task is still READY.
Consumed ==
    /\ task.st = "READY" /\ meta.msg # 0 /\ ~meta.fresh
    /\ meta.msg \notin Open /\ meta.msg <= cursor

\* _reconcile_ready_tasks_with_consumed_messages.
Requeue(r) ==
    /\ Alone(r, "sweep") /\ Consumed /\ Append
    /\ \/ Calm /\ meta' = [meta EXCEPT !.msg = tail']
       \/ Inject /\ UNCHANGED meta
    /\ UNCHANGED <<task, job, events>>

\* _reconcile_stuck_running_jobs: the task has ended, with completed_at.
FinishJob(r) ==
    /\ Alone(r, "sweep")
    /\ job = "RUNNING" /\ task.st \in Terminal /\ task.ended
    /\ job' \in Verdicts(task.st)
    /\ UNCHANGED <<task, stream, meta, events, faults>>

Sweep(r) ==
    \/ FindOrphan(r) \/ CommitOrphan(r) \/ CleanPel(r)
    \/ Readd(r) \/ Requeue(r) \/ FinishJob(r)

\* The lock's TTL runs out; it is not extended during a long pass.
LockExpires(k) ==
    /\ lock[k] # Nobody
    /\ lock' = [lock EXCEPT ![k] = Nobody]
    /\ IF pc[lock[k]] = "idle" THEN Calm ELSE Inject
    /\ UNCHANGED <<row, stream, meta, keys, events, engines, pc, failures>>

\* Ten minutes and more: longer than a pass takes, and than every threshold.
LongTime ==
    /\ \A p \in Leaders : pc[p] = "idle"
    /\ idle' = Open
    /\ meta' = [meta EXCEPT !.fresh = FALSE, !.wait = IF @ = "yes" THEN "due" ELSE @]
    /\ task' = [task EXCEPT !.old = @ \/ task.st = "RUNNING"]
    /\ UNCHANGED <<job, saved, tail, cursor, gone, pel, keys, events, engines, sweeps, failures, faults>>

-----------------------------------------------------------------------------
(* Specification *)

Next ==
    \/ Handler \/ LongTime
    \/ \E e \in Engines :
         \/ Execute(e) \/ Fail(e) \/ Defer(e) \/ EngineDies(e)
         \/ Register(e) \/ BeatExpires(e) \/ BeatReturns(e)
    \/ \E s \in Scanners : Scan(s)
    \/ \E r \in Sweepers : Sweep(r) \/ OrphanDies(r)
    \/ \E k \in {"scan", "sweep"} : LockExpires(k)

\* Orchestrators, engines and sweeps that run go on, engines are replaced, and time passes.
Fairness ==
    /\ WF_vars(Handler) /\ SF_vars(LongTime)
    /\ \A e \in Engines : WF_vars(Execute(e)) /\ WF_vars(Register(e)) /\ WF_vars(BeatReturns(e))
    /\ \A e \in Engines : WF_vars(e \notin up /\ BeatExpires(e))
    /\ \A s \in Scanners : WF_vars(Scan(s))
    /\ \A r \in Sweepers : WF_vars(Sweep(r))
    /\ \A k \in {"scan", "sweep"} : WF_vars(LockExpires(k))

Spec     == Init /\ [][Next]_vars
FairSpec == Spec /\ Fairness

-----------------------------------------------------------------------------
(* Properties *)

RowOK ==
    /\ task \in [st : {"READY", "RUNNING"} \cup Terminal, tries : 0 .. MaxRetries, old : BOOLEAN, ended : BOOLEAN]
    /\ job \in {"RUNNING"} \cup Terminal /\ saved \in BOOLEAN

StreamOK ==
    /\ tail \in 0 .. MaxMessages /\ cursor \in 0 .. tail
    /\ pel \in [Messages -> Engines \cup {Nobody}]
    /\ Open \subseteq 1 .. cursor /\ idle \subseteq Open /\ gone \subseteq 1 .. tail

MetaOK ==
    /\ meta \in [msg : 0 .. tail, fresh : BOOLEAN, wait : {"no", "yes", "due"}, blocked : BOOLEAN]
    /\ keys \subseteq 0 .. MaxRetries

EnginesOK == up \subseteq Engines /\ beat \subseteq Engines /\ at \in [Engines -> 0 .. cursor]

SweepsOK ==
    /\ lock \in [{"scan", "sweep"} -> Leaders \cup {Nobody}]
    /\ pc \in [Leaders -> {"idle", "fail", "block", "completed", "failed"}]

\* Rows, stream, engines and sweeps are in their ranges.
TypeOK ==
    /\ RowOK /\ StreamOK /\ MetaOK /\ EnginesOK /\ SweepsOK
    /\ events \in [Types -> Nat] /\ failures \in Nat /\ faults \in 0 .. MaxFaults

\* A task that a handler or the reconciler has recorded as COMPLETED has its output.
CompletedHasOutput == task.st = "COMPLETED" => saved

Cause == failures > 0 \/ faults > 0 \/ meta.blocked

\* A task fails or is retried for a reason: an engine has reported a failure, no engine
\* came in time, no engine was left to retry with, or a fault happened.  The scanner and
\* the sweeper, which act on snapshots, invent nothing.
NoFailureInvented == task.st = "FAILED" \/ task.tries > 0 => Cause

\* Messages of the task are never all lost while it waits to be executed: it has one that
\* is unread or pending, or a handler or the reconciler will queue it again.
Live == job = "RUNNING" /\ task.st = "READY" =>
    \/ (cursor + 1 .. tail) \ gone # {} \/ Shown # {}
    \/ \E y \in Types : events[y] > 0
    \/ meta.msg # 0 /\ meta.msg <= cursor
    \/ faults > 0

\* A completion that is announced or decided has its output.
OutputKept == events["completed"] > 0 \/ (\E p \in Leaders : pc[p] = "completed") => saved

\* Failures that are announced or decided have a cause, timeouts block the task, and
\* without a cause a task that was started has its message pending or its output saved.
FailureCaused ==
    /\ events["failed"] > 0 => Cause
    /\ events["wait_timeout"] > 0 \/ gone # {} => meta.blocked
    /\ \A p \in Leaders : pc[p] \in {"fail", "failed"} => Cause
    /\ task.st = "RUNNING" \/ events["started"] > 0 => Cause \/ saved \/ Open # {}

\* Without a fault, engines that run are known to run, and those that have messages run.
EnginesKnown == faults = 0 => up = beat /\ \A m \in Open : pel[m] \in beat

\* Without a fault, the last message is the one noted, retries are keyed once, and the
\* deletion of an unread message is announced.
MessageKept ==
    /\ \A k \in keys : k <= task.tries
    /\ faults = 0 => meta.msg = tail /\ tail > 0
    /\ faults = 0 /\ task.st = "READY" /\ tail \in gone /\ tail > cursor => events["wait_timeout"] > 0

\* A job that was reported as failed never completes, whatever arrives late.
FailedStays == [][job = "FAILED" => job' = "FAILED"]_vars

\* A job whose engine, message or event was lost ends all the same, unless its message was
\* never noted, the wait was given up while an engine was taking the message, or the bound
\* on messages is reached.
JobEnds == <>[](job # "RUNNING" \/ meta.msg = 0 \/ meta.blocked \/ tail = MaxMessages)

\* The scanner and the sweeper repair and do no harm: no completion without an output, no
\* failure without a cause, no waiting task without a message or somebody to send one.
RecoveryInv ==
    /\ TypeOK /\ CompletedHasOutput /\ NoFailureInvented /\ Live
    /\ OutputKept /\ FailureCaused /\ EnginesKnown /\ MessageKept

=============================================================================
