-------------------------- MODULE JobPipelineProofs --------------------------
(***************************************************************************)
(* The types of JobPipeline, the release of the tenant's slot, and the       *)
(* inductive invariant: what the rows, the events and the handlers' loaded   *)
(* copies say about the responses in S3 and about who dispatches a task.     *)
(* For every set of orchestrators, every DAG with one root, every number of  *)
(* retries and any number of faults.  Then what holds with one orchestrator  *)
(* and no post-processing only: completions stay, and one verdict is heard.  *)
(***************************************************************************)
EXTENDS JobPipeline, TLAPS

-----------------------------------------------------------------------------
(* Facts about the constants of the specification *)

\* _dispatch_event_dict starts a handler at a label of its own kind of event.
LEMMA EventFacts ==
    ASSUME NEW e \in Event
    PROVE  /\ Entry(e) \in Labels
           /\ Entry(e) \in TaskLabels => e.type \in TaskEvents
           /\ Entry(e) \in {"task.completed", "markCompleted"} => e.type = "task.completed"
           /\ Entry(e) = "job.webhook" => e.type \in VerdictEvents
           /\ Entry(e) \notin {"queueRoot", "queueDependent", "queuePii", "decrement",
                               "settleFailure", "queueRetry", "markRoot", "idle"} \cup AfterTask
           /\ e.type \in TaskEvents => e.task \in Tasks
BY ConstantsAssumption
   DEF Event, Entry, Labels, TaskEvents, JobEvents, VerdictEvents, TaskLabels, AfterTask

\* The publish_* functions build events.
LEMMA EventConstructors ==
    /\ JobEvent("job.created") \in Event
    /\ JobEvent("job.cancel_requested") \in Event
    /\ \A t \in Tasks : /\ TaskEvent("task.started", t) \in Event
                        /\ TaskEvent("task.completed", t) \in Event
                        /\ TaskEvent("task.failed", t) \in Event
                        /\ TaskEvent("task.wait_timeout", t) \in Event
                        /\ FatalFailure(t) \in Event
    /\ \A s \in TerminalJobs : VerdictEvent(s) \in Event
BY DEF Event, JobEvent, TaskEvent, FatalFailure, VerdictEvent, TaskEvents, JobEvents,
       VerdictEvents, TerminalJobs

\* The values the actions write belong to the types of the variables.
LEMMA Members ==
    /\ {"idle", "ack", "buildDag", "markRoot", "queueRoot", "queueDependent", "queueRetry",
        "queuePii", "markCompleted", "enrichment", "loadTasks", "loadJob", "advance",
        "cancelPending", "checkCompletion", "release", "decrement", "publish",
        "insertPostProc", "trackEnrichment", "markPiiReady", "settleFailure",
        "enrichmentFailed", "ensureJobFailed", "failJob", "settleTimeout", "cancelQueued",
        "loadCancelledJob", "checkCancelled"} \subseteq Labels
    /\ {"pending", "running", "completed", "failed", "cancelling", "cancelled"} \subseteq JobStatus
    /\ {"completed", "failed", "cancelled"} \subseteq TerminalJobs
    /\ {"absent", "pending", "ready", "running", "completed", "failed", "skipped", "cancelled"}
         \subseteq Row
    /\ {"none", "pending", "completed", "failed"} \subseteq EnrichmentStatus
    /\ GwLabels = {"idle", "commit", "publish", "publishFinal", "release", "decrement", "done"}
    /\ NoMem \in [Tasks -> Row]
    /\ Pipeline \subseteq Tasks /\ PostProc \subseteq Tasks
    /\ 0 \in 0 .. MaxRetries /\ 0 .. MaxRetries \subseteq Keys /\ NoKey \in Keys
    /\ \A m \in Message : m.task \in Tasks
BY ConstantsAssumption
   DEF Labels, JobStatus, TerminalJobs, Row, TaskStatus, EnrichmentStatus, GwLabels, NoMem,
       Tasks, Keys, NoKey, Message

-----------------------------------------------------------------------------
(* Types and control *)

\* A handler at a label of a task event holds the task of that event.
LEMMA TaskOfEvent ==
    ASSUME TypeOK, ControlInv, NEW o \in Orchestrators, pc[o] \in TaskLabels
    PROVE  ev[o].task \in Tasks
BY EventFacts DEF TypeOK, ControlInv

\* Init establishes the types.
LEMMA TypeInit == Init => TypeOK /\ ControlInv
<1> SUFFICES ASSUME Init PROVE TypeOK /\ ControlInv
  OBVIOUS
<1>1. TypeOK
  <2>1. stream \in Seq(Event)
    BY EventConstructors DEF Init
  <2>2. gw \in [pc : GwLabels, mem : [Tasks -> Row], route : {"api", "console"}]
    BY Members DEF Init, IdleGw
  <2>3. /\ job \in JobStatus /\ task \in [Tasks -> Row] /\ webhooks \subseteq TerminalJobs
        /\ enrich \in [PostProc -> EnrichmentStatus] /\ pc \in [Orchestrators -> Labels]
        /\ memJob \in [Orchestrators -> JobStatus] /\ memTask \in [Orchestrators -> [Tasks -> Row]]
        /\ verdict \in [Orchestrators -> TerminalJobs]
    BY Members DEF Init
  <2>4. /\ retries \in [Tasks -> 0 .. MaxRetries] /\ memRetries \in [Orchestrators -> 0 .. MaxRetries]
        /\ faults \in 0 .. MaxFaults /\ ev \in [Orchestrators -> Event]
    BY EventConstructors, ConstantsAssumption DEF Init
  <2> QED BY <2>1, <2>2, <2>3, <2>4 DEF Init, TypeOK
<1>2. ControlInv
  BY DEF Init, ControlInv, TaskLabels, TaskEvents
<1> QED BY <1>1, <1>2

\* The steps of an orchestrator preserve the types.
LEMMA TypeOrchestrator ==
    ASSUME TypeOK, ControlInv, NEW o \in Orchestrators, OrchestratorStep(o) \/ AbandonEvent(o) \/ ClaimInFlight(o)
    PROVE  TypeOK'
<1>1. CASE ReadNew(o)
  BY <1>1, Members, EventFacts DEF TypeOK, ReadNew, Goto, db, s3, redis, local
<1>2. CASE ClaimStale(o)
  BY <1>2, Members, EventFacts DEF TypeOK, ClaimStale, Goto, db, s3, redis, local
<1>2a. CASE ClaimInFlight(o)
  BY <1>2a, Members, EventFacts, ConstantsAssumption
     DEF TypeOK, ClaimInFlight, Goto, db, s3, redis, bus, local
<1>3. CASE AckEvent(o)
  BY <1>3, Members, EventConstructors DEF TypeOK, AckEvent, Goto, db, s3, redis, bus, ForgetLocals
<1>4. CASE JobCreated(o)
  BY <1>4, Members DEF TypeOK, JobCreated, Goto, db, s3, redis, bus
<1>5. CASE BuildDagFails(o)
  BY <1>5, Members DEF TypeOK, BuildDagFails, Goto, s3, redis, bus, OrmSet
<1>6. CASE BuildDag(o)
  <2>1. CASE SomeExist(Pipeline)
    <3>1. pc' = [pc EXCEPT ![o] = "ack"] /\ UNCHANGED <<job, task, memJob, memTask, todo>>
      BY <1>6, <2>1 DEF BuildDag, Goto
    <3> QED BY <1>6, <3>1, Members DEF TypeOK, BuildDag, s3, redis, bus
  <2>2. CASE ~SomeExist(Pipeline)
    <3>1. /\ job' \in {job, "running"}
          /\ task' = [t \in Tasks |-> IF t \in Pipeline THEN "pending" ELSE task[t]]
          /\ memJob' = [memJob EXCEPT ![o] = "running"]
          /\ memTask' = [memTask EXCEPT ![o] = task']
          /\ todo' = [todo EXCEPT ![o] = Roots(Pipeline)]
          /\ pc' = [pc EXCEPT ![o] = "markRoot"]
      BY <1>6, <2>2 DEF BuildDag, Goto, OrmSet
    <3>2. "pending" \in Row /\ "running" \in JobStatus /\ "markRoot" \in Labels
      BY Members
    <3>3. Roots(Pipeline) \subseteq Tasks
      BY DEF Roots, Tasks
    <3>4. task' \in [Tasks -> Row]
      BY <3>1, <3>2 DEF TypeOK
    <3> QED BY <1>6, <3>1, <3>2, <3>3, <3>4 DEF TypeOK, BuildDag, s3, redis, bus
  <2> QED BY <2>1, <2>2
<1>7. CASE MarkRoot(o)
  <2>1. CASE todo[o] = {} /\ Goto(o, "ack") /\ UNCHANGED <<task, memTask, todo, cur>>
    BY <1>7, <2>1, Members DEF TypeOK, MarkRoot, Goto, s3, redis, bus
  <2>2. ASSUME NEW t \in todo[o],
               /\ task' = [task EXCEPT ![t] = OrmSet(@, memTask[o][t], "ready")]
               /\ memTask' = [memTask EXCEPT ![o][t] = "ready"]
               /\ todo' = [todo EXCEPT ![o] = @ \ {t}]
               /\ cur' = [cur EXCEPT ![o] = t]
               /\ Goto(o, "queueRoot")
        PROVE  TypeOK'
    BY <1>7, <2>2, Members DEF TypeOK, MarkRoot, Goto, s3, redis, bus, OrmSet
  <2> QED BY <1>7, <2>1, <2>2 DEF MarkRoot
<1>8. CASE QueueTask(o)
  <2>1. cur[o] \in Tasks
    BY <1>8 DEF QueueTask, ControlInv, At
  <2>2. queue' \subseteq Message
    BY <1>8, <2>1, Members DEF TypeOK, QueueTask, AddTask, Message
  <2>3. pc' \in [Orchestrators -> Labels]
    BY ZenonT(30), <1>8, Members DEF TypeOK, QueueTask, Goto
  <2>4. memTask' \in [Orchestrators -> [Tasks -> Row]]
    <3>1. task[cur[o]] \in Row
      BY <2>1 DEF TypeOK
    <3>2. [memTask EXCEPT ![o][cur[o]] = task[cur[o]]] \in [Orchestrators -> [Tasks -> Row]]
      BY <2>1, <3>1 DEF TypeOK
    <3> QED BY <1>8, <3>2 DEF QueueTask, TypeOK
  <2> QED BY <1>8, <2>2, <2>3, <2>4 DEF TypeOK, QueueTask, db, s3, bus
<1>9. CASE QueueTaskFails(o)
  BY <1>9, Members DEF TypeOK, QueueTaskFails, Goto, s3, redis, bus, OrmSet
<1>10. CASE QueueRetry(o)
  BY <1>10, Members, EventFacts
     DEF TypeOK, ControlInv, TaskLabels, At, QueueRetry, Goto, db, s3, bus, local, Message
<1>11. CASE QueueRetryFails(o)
  <2>1. ev[o].task \in Tasks
    BY <1>11, TaskOfEvent DEF QueueRetryFails, At, TaskLabels, TaskEvents
  <2>2. task' \in [Tasks -> Row]
    BY <1>11, <2>1, Members DEF TypeOK, QueueRetryFails, OrmSet
  <2>3. pc' \in [Orchestrators -> Labels]
    BY <1>11, <2>1, Members DEF TypeOK, QueueRetryFails, Goto, OrmSet
  <2> QED BY <1>11, <2>2, <2>3 DEF TypeOK, QueueRetryFails, s3, redis, bus, local
<1>12. CASE TaskStarted(o)
  <2>1. ev[o].task \in Tasks
    BY <1>12, TaskOfEvent DEF TaskStarted, At, TaskLabels, TaskEvents
  <2>2. task' \in [Tasks -> Row]
    BY <1>12, <2>1, Members DEF TypeOK, TaskStarted
  <2>3. pc' \in [Orchestrators -> Labels]
    BY <1>12, <2>1, Members DEF TypeOK, TaskStarted, Goto
  <2> QED BY <1>12, <2>2, <2>3 DEF TypeOK, TaskStarted, s3, redis, bus, local
<1>13. CASE TaskCompleted(o)
  <2>1. ev[o].task \in Tasks
    BY <1>13, TaskOfEvent DEF TaskCompleted, At, TaskLabels, TaskEvents
  <2>2. pc' \in [Orchestrators -> Labels]
    BY <1>13, <2>1, Members DEF TypeOK, TaskCompleted, Goto, AlreadyDone
  <2>3. memTask' \in [Orchestrators -> [Tasks -> Row]]
    BY <1>13, <2>1, Members DEF TypeOK, TaskCompleted
  <2> QED BY <1>13, <2>2, <2>3 DEF TypeOK, TaskCompleted, db, s3, redis, bus
<1>14. CASE MarkCompleted(o)
  <2>1. ev[o].task \in Tasks
    BY <1>14, TaskOfEvent DEF MarkCompleted, At, TaskLabels, TaskEvents
  <2>2. task' \in [Tasks -> Row]
    BY <1>14, <2>1, Members DEF TypeOK, MarkCompleted
  <2>3. pc' \in [Orchestrators -> Labels]
    BY <1>14, <2>1, Members DEF TypeOK, MarkCompleted, Goto
  <2>4. memTask' \in [Orchestrators -> [Tasks -> Row]]
    BY <1>14, <2>1, Members DEF TypeOK, MarkCompleted
  <2> QED BY <1>14, <2>2, <2>3, <2>4 DEF TypeOK, MarkCompleted, s3, redis, bus
<1>15. CASE Enrichment(o)
  <2>1. ev[o].task \in Tasks
    BY <1>15, TaskOfEvent DEF Enrichment, At, TaskLabels, TaskEvents
  <2>2. patched' \in BOOLEAN
    BY <1>15, <2>1, Members DEF TypeOK, Enrichment
  <2>3. enrich' \in [PostProc -> EnrichmentStatus]
    BY <1>15, <2>1, Members DEF TypeOK, Enrichment
  <2>4. pc' \in [Orchestrators -> Labels]
    BY <1>15, <2>1, Members DEF TypeOK, Enrichment, Goto
  <2>5. memJob' \in [Orchestrators -> JobStatus]
    BY <1>15, <2>1, Members DEF TypeOK, Enrichment
  <2> QED BY <1>15, <2>2, <2>3, <2>4, <2>5 DEF TypeOK, Enrichment, db, bus
<1>16. CASE LoadTasks(o)
  <2>1. ev[o].task \in Tasks
    BY <1>16, TaskOfEvent DEF LoadTasks, At, TaskLabels, TaskEvents
  <2>2. pc' \in [Orchestrators -> Labels]
    BY <1>16, <2>1, Members DEF TypeOK, LoadTasks, Goto
  <2>3. memTask' \in [Orchestrators -> [Tasks -> Row]]
    BY <1>16, <2>1, Members DEF TypeOK, LoadTasks
  <2> QED BY <1>16, <2>2, <2>3 DEF TypeOK, LoadTasks, db, s3, redis, bus
<1>17. CASE LoadJob(o)
  <2>1. memJob' \in [Orchestrators -> JobStatus]
    BY <1>17 DEF TypeOK, LoadJob
  <2>2. ReadyDependents(memTask[o]) \subseteq Tasks
    BY DEF ReadyDependents
  <2>3. todo' \in [Orchestrators -> SUBSET Tasks]
    BY <1>17, <2>2 DEF TypeOK, LoadJob
  <2>4. pc' \in [Orchestrators -> Labels]
    BY <1>17, Members DEF TypeOK, LoadJob, Goto
  <2> QED BY <1>17, <2>1, <2>3, <2>4 DEF TypeOK, LoadJob, db, s3, redis, bus
<1>18. CASE Advance(o)
  <2>1. CASE todo[o] = {} /\ Goto(o, "checkCompletion") /\ UNCHANGED <<task, todo, cur>>
    BY <1>18, <2>1, Members DEF TypeOK, Advance, Goto, s3, redis, bus
  <2>2. ASSUME NEW d \in todo[o], task[d] = "pending",
               todo' = [todo EXCEPT ![o] = @ \ {d}],
               task' = [task EXCEPT ![d] = "ready"],
               cur' = [cur EXCEPT ![o] = d],
               Goto(o, "queueDependent")
        PROVE  TypeOK'
    BY <1>18, <2>2, Members DEF TypeOK, Advance, Goto, s3, redis, bus
  <2>3. ASSUME NEW d \in todo[o],
               todo' = [todo EXCEPT ![o] = @ \ {d}],
               UNCHANGED <<task, cur, pc>>
        PROVE  TypeOK'
    BY <1>18, <2>3, Members DEF TypeOK, Advance, s3, redis, bus
  <2> QED BY <1>18, <2>1, <2>2, <2>3 DEF Advance
<1>19. CASE CancelPending(o)
  BY <1>19, Members DEF TypeOK, CancelPending, Goto, s3, redis, bus, local
<1>20. CASE CheckCompletionReturns(o)
  BY <1>20, Members DEF TypeOK, CheckCompletionReturns, Goto, db, s3, redis, bus, local
<1>21. CASE CheckCompletion(o)
  BY <1>21, Members DEF TypeOK, CheckCompletion, Goto, s3, redis, bus, OrmSet
<1>22. CASE Release(o)
  BY <1>22, Members DEF TypeOK, Release, Goto, db, s3, bus, local
<1>23. CASE Decrement(o)
  BY <1>23, Members DEF TypeOK, Decrement, Goto, db, s3, bus, local
<1>24. CASE PublishVerdict(o)
  BY <1>24, Members, EventConstructors
     DEF TypeOK, PublishVerdict, Goto, db, s3, redis, local, Publish
<1>25. CASE JobWebhook(o)
  BY <1>25, Members
     DEF TypeOK, ControlInv, TaskLabels, At, JobWebhook, Goto, s3, redis, bus, local, VerdictOf,
         VerdictEvents
<1>26. CASE InsertPostProc(o)
  <2>1. task' \in [Tasks -> Row]
    BY <1>26, Members DEF TypeOK, InsertPostProc
  <2>2. pc' \in [Orchestrators -> Labels]
    BY ZenonT(30), <1>26, Members DEF TypeOK, InsertPostProc, Goto
  <2> QED BY <1>26, <2>1, <2>2 DEF TypeOK, InsertPostProc, s3, redis, bus, local
<1>27. CASE TrackEnrichment(o)
  BY <1>27, Members DEF TypeOK, TrackEnrichment, Goto, db, s3, bus, local
<1>28. CASE MarkPiiReady(o)
  BY <1>28, Members DEF TypeOK, MarkPiiReady, Goto, s3, redis, bus, Roots
<1>29. CASE QueuePiiFails(o)
  <2>1. enrich' \in [PostProc -> EnrichmentStatus]
    BY <1>29, Members DEF TypeOK, QueuePiiFails
  <2>2. pc' \in [Orchestrators -> Labels]
    BY <1>29, Members DEF TypeOK, QueuePiiFails, Goto
  <2> QED BY <1>29, <2>1, <2>2 DEF TypeOK, QueuePiiFails, db, s3, bus, local
<1>30. CASE TaskFailed(o)
  <2>1. ev[o].task \in Tasks
    BY <1>30, TaskOfEvent DEF TaskFailed, At, TaskLabels, TaskEvents
  <2>2. pc' \in [Orchestrators -> Labels]
    BY <1>30, <2>1, Members DEF TypeOK, TaskFailed, Goto
  <2>3. memTask' \in [Orchestrators -> [Tasks -> Row]]
    BY <1>30, <2>1, Members DEF TypeOK, TaskFailed
  <2>4. memRetries' \in [Orchestrators -> 0..MaxRetries]
    BY <1>30, <2>1, Members DEF TypeOK, TaskFailed
  <2> QED BY <1>30, <2>2, <2>3, <2>4 DEF TypeOK, TaskFailed, db, s3, redis, bus
<1>31. CASE SettleFailure(o)
  <2>1. ev[o].task \in Tasks /\ memRetries[o] \in 0 .. MaxRetries
    BY <1>31, TaskOfEvent DEF SettleFailure, At, TaskLabels, TypeOK
  <2>2. PICK s \in {"ready", "failed", "skipped"} :
           /\ task' = [task EXCEPT ![ev[o].task] = s]
           /\ memTask' = [memTask EXCEPT ![o][ev[o].task] = s]
           /\ pc' \in {[pc EXCEPT ![o] = "queueRetry"], [pc EXCEPT ![o] = "ensureJobFailed"],
                       [pc EXCEPT ![o] = "enrichmentFailed"]}
    BY <1>31 DEF SettleFailure, Goto
  <2>3. s \in Row /\ {"queueRetry", "ensureJobFailed", "enrichmentFailed"} \subseteq Labels
    BY <2>2, Members
  <2>4. task' \in [Tasks -> Row]
    BY <2>2, <2>3 DEF TypeOK
  <2>5. memTask' \in [Orchestrators -> [Tasks -> Row]]
    BY <2>1, <2>2, <2>3 DEF TypeOK
  <2>7. pc' \in [Orchestrators -> Labels]
    BY ZenonT(30), <2>2, <2>3 DEF TypeOK
  <2>6. retries' \in [Tasks -> 0 .. MaxRetries] /\ memRetries' \in [Orchestrators -> 0 .. MaxRetries]
    <3>1. CASE CanRetry(o)
      <4>1. memRetries[o] + 1 \in 0 .. MaxRetries
        BY <2>1, <3>1, ConstantsAssumption DEF CanRetry
      <4>2. /\ retries' = [retries EXCEPT ![ev[o].task] = memRetries[o] + 1]
            /\ memRetries' = [memRetries EXCEPT ![o] = memRetries[o] + 1]
        BY <1>31, <3>1 DEF SettleFailure
      <4> QED BY <4>1, <4>2 DEF TypeOK
    <3>2. CASE ~CanRetry(o)
      BY <1>31, <3>2 DEF SettleFailure, TypeOK
    <3> QED BY <3>1, <3>2
  <2> QED BY <1>31, <2>4, <2>5, <2>6, <2>7 DEF TypeOK, SettleFailure, s3, redis, bus
<1>32. CASE EnrichmentFailed(o)
  <2>1. ev[o].task \in Tasks
    BY <1>32, TaskOfEvent DEF EnrichmentFailed, At, TaskLabels, TaskEvents
  <2>2. enrich' \in [PostProc -> EnrichmentStatus]
    BY <1>32, <2>1, Members DEF TypeOK, EnrichmentFailed
  <2>3. pc' \in [Orchestrators -> Labels]
    BY <1>32, <2>1, Members DEF TypeOK, EnrichmentFailed, Goto
  <2> QED BY <1>32, <2>2, <2>3 DEF TypeOK, EnrichmentFailed, db, s3, bus, local
<1>33. CASE EnsureJobFailed(o)
  BY <1>33, Members DEF TypeOK, EnsureJobFailed, Goto, db, s3, redis, bus
<1>34. CASE FailJob(o)
  BY <1>34, Members DEF TypeOK, FailJob, Goto, s3, redis, bus, local
<1>35. CASE TaskWaitTimeout(o)
  <2>1. ev[o].task \in Tasks
    BY <1>35, TaskOfEvent DEF TaskWaitTimeout, At, TaskLabels, TaskEvents
  <2>2. pc' \in [Orchestrators -> Labels]
    BY <1>35, <2>1, Members DEF TypeOK, TaskWaitTimeout, Goto
  <2>3. memTask' \in [Orchestrators -> [Tasks -> Row]]
    BY <1>35, <2>1, Members DEF TypeOK, TaskWaitTimeout
  <2> QED BY <1>35, <2>2, <2>3 DEF TypeOK, TaskWaitTimeout, db, s3, redis, bus
<1>36. CASE SettleTimeout(o)
  <2>1. ev[o].task \in Tasks
    BY <1>36, TaskOfEvent DEF SettleTimeout, At, TaskLabels, TaskEvents
  <2>2. task' \in [Tasks -> Row]
    BY <1>36, <2>1, Members DEF TypeOK, SettleTimeout
  <2>3. pc' \in [Orchestrators -> Labels]
    BY <1>36, <2>1, Members DEF TypeOK, SettleTimeout, Goto
  <2>4. memTask' \in [Orchestrators -> [Tasks -> Row]]
    BY <1>36, <2>1, Members DEF TypeOK, SettleTimeout
  <2> QED BY <1>36, <2>2, <2>3, <2>4 DEF TypeOK, SettleTimeout, s3, redis, bus
<1>37. CASE CancelRequested(o)
  BY <1>37, Members DEF TypeOK, CancelRequested, Goto, db, s3, bus
<1>38. CASE CancelQueued(o)
  BY <1>38, Members DEF TypeOK, CancelQueued, Goto, s3, redis, bus, local
<1>39. CASE LoadCancelledJob(o)
  BY <1>39, Members DEF TypeOK, LoadCancelledJob, Goto, db, s3, redis, bus
<1>40. CASE CheckCancelled(o)
  <2>1. job' \in JobStatus
    BY <1>40, Members DEF TypeOK, CheckCancelled
  <2>2. pc' \in [Orchestrators -> Labels]
    BY ZenonT(30), <1>40, Members DEF TypeOK, CheckCancelled, Goto
  <2>3. verdict' \in [Orchestrators -> TerminalJobs]
    BY <1>40, Members DEF TypeOK, CheckCancelled
  <2> QED BY <1>40, <2>1, <2>2, <2>3 DEF TypeOK, CheckCancelled, s3, redis, bus
<1>41. CASE AbandonEvent(o)
  <2>1. faults' \in 0..MaxFaults
    BY <1>41, ConstantsAssumption DEF TypeOK, AbandonEvent
  <2>2. pending' \in [Event -> Nat]
    BY <1>41 DEF TypeOK, AbandonEvent
  <2>3. /\ pc' \in [Orchestrators -> Labels] /\ memJob' \in [Orchestrators -> JobStatus]
        /\ memTask' \in [Orchestrators -> [Tasks -> Row]] /\ ev' \in [Orchestrators -> Event]
        /\ memRetries' \in [Orchestrators -> 0..MaxRetries] /\ verdict' \in [Orchestrators -> TerminalJobs]
    BY <1>41, Members, EventConstructors DEF TypeOK, AbandonEvent, Goto, ForgetLocals
  <2> QED BY <1>41, <2>1, <2>2, <2>3 DEF TypeOK, AbandonEvent, db, s3, redis, ForgetLocals
<1> QED BY <1>1, <1>2, <1>2a, <1>3, <1>4, <1>5, <1>6, <1>7, <1>8, <1>9, <1>10, <1>11, <1>12, <1>13, <1>14,
    <1>15, <1>16, <1>17, <1>18, <1>19, <1>20, <1>21, <1>22, <1>23, <1>24, <1>25, <1>26, <1>27, <1>28, <1>29, <1>30, <1>31, <1>32, <1>33, <1>34, <1>35, <1>36, <1>37, <1>38, <1>39, <1>40, <1>41
       DEF OrchestratorStep, HandlerStep

\* So do those of the engines and of the scanner.
LEMMA TypeEngine ==
    ASSUME TypeOK, ControlInv, NEW m \in Message,
           EngineStep(m) \/ WaitTimeout(m) \/ EngineRejects(m) \/ EngineDies(m)
    PROVE  TypeOK'
<1>1. CASE EngineSkips(m)
  BY <1>1, Members DEF TypeOK, EngineSkips, db, s3, bus, local
<1>2. CASE EngineStarts(m)
  <2>1. queue' \subseteq Message
    BY <1>2, Members DEF TypeOK, EngineStarts
  <2>2. active' \subseteq Message
    BY <1>2, Members DEF TypeOK, EngineStarts
  <2>3. stream' \in Seq(Event)
    BY <1>2, Members, EventConstructors DEF TypeOK, EngineStarts, Publish
  <2> QED BY <1>2, <2>1, <2>2, <2>3 DEF TypeOK, EngineStarts, db, s3, local
<1>3. CASE EngineRejects(m)
  <2>1. queue' \subseteq Message
    BY <1>3, Members DEF TypeOK, EngineRejects
  <2>2. stream' \in Seq(Event)
    BY <1>3, Members, EventConstructors DEF TypeOK, EngineRejects, Publish
  <2>3. faults' \in 0..MaxFaults
    BY <1>3, Members, ConstantsAssumption DEF TypeOK, EngineRejects
  <2> QED BY <1>3, <2>1, <2>2, <2>3 DEF TypeOK, EngineRejects, db, s3, local
<1>4. CASE EngineCompletes(m)
  <2>1. output' \in [Tasks -> BOOLEAN]
    BY <1>4, Members DEF TypeOK, EngineCompletes
  <2>2. active' \subseteq Message
    BY <1>4, Members DEF TypeOK, EngineCompletes
  <2>3. stream' \in Seq(Event)
    BY <1>4, Members, EventConstructors DEF TypeOK, EngineCompletes, Publish
  <2> QED BY <1>4, <2>1, <2>2, <2>3 DEF TypeOK, EngineCompletes, db, local
<1>5. CASE EngineFails(m)
  <2>1. active' \subseteq Message
    BY <1>5, Members DEF TypeOK, EngineFails
  <2>2. stream' \in Seq(Event)
    BY <1>5, Members, EventConstructors DEF TypeOK, EngineFails, Publish
  <2> QED BY <1>5, <2>1, <2>2 DEF TypeOK, EngineFails, db, s3, local
<1>6. CASE EngineDies(m)
  <2>1. m.task \in Tasks
    BY Members
  <2>2. output' \in [Tasks -> BOOLEAN]
    BY <1>6, <2>1 DEF TypeOK, EngineDies
  <2>3. stream' \in {stream, Append(stream, TaskEvent("task.completed", m.task))}
    BY <1>6 DEF EngineDies, Publish
  <2>4. stream' \in Seq(Event)
    <3>1. TaskEvent("task.completed", m.task) \in Event
      BY <2>1, EventConstructors
    <3>2. CASE stream' = stream
      BY <3>2 DEF TypeOK
    <3>3. CASE stream' = Append(stream, TaskEvent("task.completed", m.task))
      BY <3>1, <3>3 DEF TypeOK
    <3> QED BY <2>3, <3>2, <3>3
  <2>5. queue' \subseteq Message /\ active' \subseteq Message
    BY <1>6 DEF TypeOK, EngineDies
  <2>6. faults' \in 0 .. MaxFaults
    BY <1>6, ConstantsAssumption DEF TypeOK, EngineDies
  <2>7. UNCHANGED <<db, patched, dedupe, cancelFlag, guard, decrs, enrich, pending, pc, ev, local, gw>>
    BY <1>6 DEF EngineDies
  <2> QED BY <2>2, <2>4, <2>5, <2>6, <2>7 DEF TypeOK, db, local
<1>7. CASE WaitTimeout(m)
  <2>1. queue' \subseteq Message
    BY <1>7, Members DEF TypeOK, WaitTimeout
  <2>2. stream' \in Seq(Event)
    BY <1>7, Members, EventConstructors DEF TypeOK, WaitTimeout, Publish
  <2> QED BY <1>7, <2>1, <2>2 DEF TypeOK, WaitTimeout, db, s3, local
<1> QED BY <1>1, <1>2, <1>3, <1>4, <1>5, <1>6, <1>7 DEF EngineStep

\* And those of the gateway.
LEMMA TypeGateway ==
    ASSUME TypeOK, ControlInv, CancelRead \/ CancelStep \/ GatewayCrash
    PROVE  TypeOK'
<1>1. CASE CancelRead
  BY <1>1, Members, ConstantsAssumption DEF TypeOK, CancelRead, db, s3, redis, bus, local
<1>2. CASE CancelCommit
  BY <1>2, Members DEF TypeOK, CancelCommit, s3, redis, bus, local
<1>3. CASE CancelPublish
  <2>1. stream' \in Seq(Event)
    BY <1>3, Members, EventConstructors DEF TypeOK, CancelPublish, Publish, GwGoto
  <2>2. gw' \in [pc : GwLabels, mem : [Tasks -> Row], route : {"api", "console"}]
    BY <1>3, Members DEF TypeOK, CancelPublish, GwGoto
  <2> QED BY <1>3, <2>1, <2>2 DEF TypeOK, CancelPublish, db, s3, redis, local
<1>4. CASE CancelRelease
  BY <1>4, Members DEF TypeOK, CancelRelease, db, s3, bus, local, GwGoto
<1>5. CASE CancelDecrement
  <2>1. decrs' \in Nat
    BY <1>5, Members DEF TypeOK, CancelDecrement, GwGoto
  <2>2. gw' \in [pc : GwLabels, mem : [Tasks -> Row], route : {"api", "console"}]
    BY <1>5, Members DEF TypeOK, CancelDecrement, GwGoto
  <2> QED BY <1>5, <2>1, <2>2 DEF TypeOK, CancelDecrement, db, s3, bus, local
<1>6. CASE GatewayCrash
  <2>1. gw' \in [pc : GwLabels, mem : [Tasks -> Row], route : {"api", "console"}]
    BY <1>6, Members DEF TypeOK, GatewayCrash
  <2>2. faults' \in 0..MaxFaults
    BY <1>6, Members, ConstantsAssumption DEF TypeOK, GatewayCrash
  <2> QED BY <1>6, <2>1, <2>2 DEF TypeOK, GatewayCrash, db, s3, redis, bus, local
<1> QED BY <1>1, <1>2, <1>3, <1>4, <1>5, <1>6 DEF CancelStep

\* Every step keeps the handlers' labels in agreement with their events.
LEMMA ControlStep ==
    ASSUME TypeOK, ControlInv, [Next]_vars
    PROVE  ControlInv'
<1>1. ASSUME NEW o \in Orchestrators, ReadNew(o) PROVE ControlInv'
  BY <1>1, EventFacts DEF ControlInv, TaskLabels, TaskEvents, ReadNew, At, Goto, TypeOK, local
<1>2. ASSUME NEW o \in Orchestrators, ClaimStale(o) PROVE ControlInv'
  BY <1>2, EventFacts DEF ControlInv, TaskLabels, TaskEvents, ClaimStale, At, Goto, TypeOK, local
<1>2a. ASSUME NEW o \in Orchestrators, ClaimInFlight(o) PROVE ControlInv'
  BY <1>2a, EventFacts DEF ControlInv, TaskLabels, TaskEvents, ClaimInFlight, At, Goto, TypeOK, local
<1>3. ASSUME NEW o \in Orchestrators, AckEvent(o) PROVE ControlInv'
  BY <1>3 DEF ControlInv, TaskLabels, TaskEvents, AckEvent, At, Goto, TypeOK, ForgetLocals
<1>4. ASSUME NEW o \in Orchestrators, JobCreated(o) PROVE ControlInv'
  BY <1>4 DEF ControlInv, TaskLabels, TaskEvents, JobCreated, At, Goto, TypeOK
<1>5. ASSUME NEW o \in Orchestrators, BuildDagFails(o) PROVE ControlInv'
  BY <1>5 DEF ControlInv, TaskLabels, TaskEvents, BuildDagFails, At, Goto, TypeOK
<1>6. ASSUME NEW o \in Orchestrators, BuildDag(o) PROVE ControlInv'
  BY <1>6 DEF ControlInv, TaskLabels, TaskEvents, BuildDag, At, Goto, TypeOK
<1>7. ASSUME NEW o \in Orchestrators, MarkRoot(o) PROVE ControlInv'
  BY <1>7 DEF ControlInv, TaskLabels, TaskEvents, MarkRoot, At, Goto, TypeOK
<1>8. ASSUME NEW o \in Orchestrators, QueueTask(o) PROVE ControlInv'
  BY <1>8 DEF ControlInv, TaskLabels, TaskEvents, QueueTask, At, Goto, TypeOK
<1>9. ASSUME NEW o \in Orchestrators, QueueTaskFails(o) PROVE ControlInv'
  BY <1>9 DEF ControlInv, TaskLabels, TaskEvents, QueueTaskFails, At, Goto, TypeOK
<1>10. ASSUME NEW o \in Orchestrators, QueueRetry(o) PROVE ControlInv'
  BY <1>10 DEF ControlInv, TaskLabels, TaskEvents, QueueRetry, At, Goto, TypeOK, local
<1>11. ASSUME NEW o \in Orchestrators, QueueRetryFails(o) PROVE ControlInv'
  BY <1>11 DEF ControlInv, TaskLabels, TaskEvents, QueueRetryFails, At, Goto, TypeOK, local
<1>12. ASSUME NEW o \in Orchestrators, TaskStarted(o) PROVE ControlInv'
  BY <1>12 DEF ControlInv, TaskLabels, TaskEvents, TaskStarted, At, Goto, TypeOK, local
<1>13. ASSUME NEW o \in Orchestrators, TaskCompleted(o) PROVE ControlInv'
  BY <1>13 DEF ControlInv, TaskLabels, TaskEvents, TaskCompleted, At, Goto, TypeOK
<1>14. ASSUME NEW o \in Orchestrators, MarkCompleted(o) PROVE ControlInv'
  BY <1>14 DEF ControlInv, TaskLabels, TaskEvents, MarkCompleted, At, Goto, TypeOK
<1>15. ASSUME NEW o \in Orchestrators, Enrichment(o) PROVE ControlInv'
  BY <1>15 DEF ControlInv, TaskLabels, TaskEvents, Enrichment, At, Goto, TypeOK
<1>16. ASSUME NEW o \in Orchestrators, LoadTasks(o) PROVE ControlInv'
  BY <1>16 DEF ControlInv, TaskLabels, TaskEvents, LoadTasks, At, Goto, TypeOK
<1>17. ASSUME NEW o \in Orchestrators, LoadJob(o) PROVE ControlInv'
  BY <1>17 DEF ControlInv, TaskLabels, TaskEvents, LoadJob, At, Goto, TypeOK
<1>18. ASSUME NEW o \in Orchestrators, Advance(o) PROVE ControlInv'
  BY <1>18 DEF ControlInv, TaskLabels, TaskEvents, Advance, At, Goto, TypeOK
<1>19. ASSUME NEW o \in Orchestrators, CancelPending(o) PROVE ControlInv'
  BY <1>19 DEF ControlInv, TaskLabels, TaskEvents, CancelPending, At, Goto, TypeOK, local
<1>20. ASSUME NEW o \in Orchestrators, CheckCompletionReturns(o) PROVE ControlInv'
  BY <1>20 DEF ControlInv, TaskLabels, TaskEvents, CheckCompletionReturns, At, Goto, TypeOK, local
<1>21. ASSUME NEW o \in Orchestrators, CheckCompletion(o) PROVE ControlInv'
  BY <1>21 DEF ControlInv, TaskLabels, TaskEvents, CheckCompletion, At, Goto, TypeOK
<1>22. ASSUME NEW o \in Orchestrators, Release(o) PROVE ControlInv'
  BY <1>22 DEF ControlInv, TaskLabels, TaskEvents, Release, At, Goto, TypeOK, local
<1>23. ASSUME NEW o \in Orchestrators, Decrement(o) PROVE ControlInv'
  BY <1>23 DEF ControlInv, TaskLabels, TaskEvents, Decrement, At, Goto, TypeOK, local
<1>24. ASSUME NEW o \in Orchestrators, PublishVerdict(o) PROVE ControlInv'
  BY <1>24 DEF ControlInv, TaskLabels, TaskEvents, PublishVerdict, At, Goto, TypeOK, local
<1>25. ASSUME NEW o \in Orchestrators, JobWebhook(o) PROVE ControlInv'
  BY <1>25 DEF ControlInv, TaskLabels, TaskEvents, JobWebhook, At, Goto, TypeOK, local
<1>26. ASSUME NEW o \in Orchestrators, InsertPostProc(o) PROVE ControlInv'
  BY <1>26 DEF ControlInv, TaskLabels, TaskEvents, InsertPostProc, At, Goto, TypeOK, local
<1>27. ASSUME NEW o \in Orchestrators, TrackEnrichment(o) PROVE ControlInv'
  BY <1>27 DEF ControlInv, TaskLabels, TaskEvents, TrackEnrichment, At, Goto, TypeOK, local
<1>28. ASSUME NEW o \in Orchestrators, MarkPiiReady(o) PROVE ControlInv'
  BY <1>28 DEF ControlInv, TaskLabels, TaskEvents, MarkPiiReady, At, Goto, TypeOK, Roots, Tasks
<1>29. ASSUME NEW o \in Orchestrators, QueuePiiFails(o) PROVE ControlInv'
  BY <1>29 DEF ControlInv, TaskLabels, TaskEvents, QueuePiiFails, At, Goto, TypeOK, local
<1>30. ASSUME NEW o \in Orchestrators, TaskFailed(o) PROVE ControlInv'
  BY <1>30 DEF ControlInv, TaskLabels, TaskEvents, TaskFailed, At, Goto, TypeOK
<1>31. ASSUME NEW o \in Orchestrators, SettleFailure(o) PROVE ControlInv'
  BY <1>31 DEF ControlInv, TaskLabels, TaskEvents, SettleFailure, At, Goto, TypeOK
<1>32. ASSUME NEW o \in Orchestrators, EnrichmentFailed(o) PROVE ControlInv'
  BY <1>32 DEF ControlInv, TaskLabels, TaskEvents, EnrichmentFailed, At, Goto, TypeOK, local
<1>33. ASSUME NEW o \in Orchestrators, EnsureJobFailed(o) PROVE ControlInv'
  BY <1>33 DEF ControlInv, TaskLabels, TaskEvents, EnsureJobFailed, At, Goto, TypeOK
<1>34. ASSUME NEW o \in Orchestrators, FailJob(o) PROVE ControlInv'
  BY <1>34 DEF ControlInv, TaskLabels, TaskEvents, FailJob, At, Goto, TypeOK, local
<1>35. ASSUME NEW o \in Orchestrators, TaskWaitTimeout(o) PROVE ControlInv'
  BY <1>35 DEF ControlInv, TaskLabels, TaskEvents, TaskWaitTimeout, At, Goto, TypeOK
<1>36. ASSUME NEW o \in Orchestrators, SettleTimeout(o) PROVE ControlInv'
  BY <1>36 DEF ControlInv, TaskLabels, TaskEvents, SettleTimeout, At, Goto, TypeOK
<1>37. ASSUME NEW o \in Orchestrators, CancelRequested(o) PROVE ControlInv'
  BY <1>37 DEF ControlInv, TaskLabels, TaskEvents, CancelRequested, At, Goto, TypeOK
<1>38. ASSUME NEW o \in Orchestrators, CancelQueued(o) PROVE ControlInv'
  BY <1>38 DEF ControlInv, TaskLabels, TaskEvents, CancelQueued, At, Goto, TypeOK, local
<1>39. ASSUME NEW o \in Orchestrators, LoadCancelledJob(o) PROVE ControlInv'
  BY <1>39 DEF ControlInv, TaskLabels, TaskEvents, LoadCancelledJob, At, Goto, TypeOK
<1>40. ASSUME NEW o \in Orchestrators, CheckCancelled(o) PROVE ControlInv'
  BY <1>40 DEF ControlInv, TaskLabels, TaskEvents, CheckCancelled, At, Goto, TypeOK
<1>41. ASSUME NEW o \in Orchestrators, AbandonEvent(o) PROVE ControlInv'
  BY <1>41 DEF ControlInv, TaskLabels, TaskEvents, AbandonEvent, At, Goto, TypeOK, ForgetLocals
<1>42. ASSUME NEW m \in Message, EngineStep(m) \/ WaitTimeout(m) \/ EngineRejects(m) \/ EngineDies(m)
     PROVE  UNCHANGED <<pc, ev, cur>>
  BY <1>42 DEF EngineStep, EngineSkips, EngineStarts, EngineRejects, EngineCompletes, EngineFails,
      EngineDies, WaitTimeout, local
<1>43. CASE CancelRead \/ CancelStep \/ GatewayCrash \/ UNCHANGED vars
  BY <1>43 DEF ControlInv, CancelStep, CancelRead, CancelCommit, CancelPublish, CancelRelease,
      CancelDecrement, GatewayCrash, vars, local
<1>44. CASE UNCHANGED <<pc, ev, cur>>
  BY <1>44 DEF ControlInv
<1> QED BY <1>1, <1>2, <1>2a, <1>3, <1>4, <1>5, <1>6, <1>7, <1>8, <1>9, <1>10, <1>11, <1>12, <1>13, <1>14,
    <1>15, <1>16, <1>17, <1>18, <1>19, <1>20, <1>21, <1>22, <1>23, <1>24, <1>25, <1>26, <1>27, <1>28, <1>29, <1>30, <1>31, <1>32, <1>33, <1>34, <1>35, <1>36, <1>37, <1>38, <1>39, <1>40, <1>41, <1>42, <1>43, <1>44
       DEF Next, Fault, OrchestratorStep, HandlerStep

\* One step preserves the types.
LEMMA TypeStep ==
    ASSUME TypeOK, ControlInv, [Next]_vars
    PROVE  TypeOK'
<1>1. CASE UNCHANGED vars
  BY <1>1 DEF TypeOK, vars, db, s3, redis, bus, local
<1>2. CASE Next
  BY <1>2, TypeOrchestrator, TypeEngine, TypeGateway DEF Next, Fault
<1> QED BY <1>1, <1>2

\* In every behaviour the stores, the streams and the handlers' memories hold values of
\* their types: the retry counters stay within max_retries, every message and event
\* names a task of the job, and a handler's label fits the event it handles.
THEOREM TypeCorrect == Spec => []TypeOK
<1>1. Spec => [](TypeOK /\ ControlInv)
  BY TypeInit, TypeStep, ControlStep, PTL DEF Spec
<1> QED BY <1>1, PTL

-----------------------------------------------------------------------------
(* The tenant's slot *)

\* Nobody is about to decrement in the initial state.
LEMMA SlotInit == Init => SlotInv
BY DEF Init, SlotInv, SlotReleasedAtMostOnce, AboutToDecrement, At, IdleGw

\* Only Release reaches the DECR of _decrement_concurrent_jobs.
LEMMA OnlyReleaseDecrements ==
    ASSUME TypeOK, NEW o \in Orchestrators, OrchestratorStep(o) \/ AbandonEvent(o) \/ ClaimInFlight(o)
    PROVE  \/ Release(o) \/ Decrement(o)
           \/ /\ UNCHANGED <<guard, decrs, gw>>
              /\ \A q \in Orchestrators : pc'[q] = "decrement" => pc[q] = "decrement"
<1>1. CASE ReadNew(o)
  BY <1>1, EventFacts DEF ReadNew, At, Goto, TypeOK, redis
<1>2. CASE ClaimStale(o)
  BY <1>2, EventFacts DEF ClaimStale, At, Goto, TypeOK, redis
<1>2a. CASE ClaimInFlight(o)
  BY <1>2a, EventFacts DEF ClaimInFlight, At, Goto, TypeOK, redis
<1>3. CASE AckEvent(o)
  BY <1>3 DEF AckEvent, At, Goto, TypeOK, redis
<1>4. CASE JobCreated(o)
  BY <1>4 DEF JobCreated, At, Goto, TypeOK, redis
<1>5. CASE BuildDagFails(o)
  BY <1>5 DEF BuildDagFails, At, Goto, TypeOK, redis
<1>6. CASE BuildDag(o)
  BY <1>6 DEF BuildDag, At, Goto, TypeOK, redis
<1>7. CASE MarkRoot(o)
  BY <1>7 DEF MarkRoot, At, Goto, TypeOK, redis
<1>8. CASE QueueTask(o)
  BY <1>8 DEF QueueTask, At, Goto, TypeOK
<1>9. CASE QueueTaskFails(o)
  BY <1>9 DEF QueueTaskFails, At, Goto, TypeOK, redis
<1>10. CASE QueueRetry(o)
  BY <1>10 DEF QueueRetry, At, Goto, TypeOK
<1>11. CASE QueueRetryFails(o)
  BY <1>11 DEF QueueRetryFails, At, Goto, TypeOK, redis
<1>12. CASE TaskStarted(o)
  BY <1>12 DEF TaskStarted, At, Goto, TypeOK, redis
<1>13. CASE TaskCompleted(o)
  BY <1>13 DEF TaskCompleted, At, Goto, TypeOK, redis
<1>14. CASE MarkCompleted(o)
  BY <1>14 DEF MarkCompleted, At, Goto, TypeOK, redis
<1>15. CASE Enrichment(o)
  BY <1>15 DEF Enrichment, At, Goto, TypeOK
<1>16. CASE LoadTasks(o)
  BY <1>16 DEF LoadTasks, At, Goto, TypeOK, redis
<1>17. CASE LoadJob(o)
  BY <1>17 DEF LoadJob, At, Goto, TypeOK, redis
<1>18. CASE Advance(o)
  BY <1>18 DEF Advance, At, Goto, TypeOK, redis
<1>19. CASE CancelPending(o)
  BY <1>19 DEF CancelPending, At, Goto, TypeOK, redis
<1>20. CASE CheckCompletionReturns(o)
  BY <1>20 DEF CheckCompletionReturns, At, Goto, TypeOK, redis
<1>21. CASE CheckCompletion(o)
  BY <1>21 DEF CheckCompletion, At, Goto, TypeOK, redis
<1>22. CASE PublishVerdict(o)
  BY <1>22 DEF PublishVerdict, At, Goto, TypeOK, redis
<1>23. CASE JobWebhook(o)
  BY <1>23 DEF JobWebhook, At, Goto, TypeOK, redis
<1>24. CASE InsertPostProc(o)
  BY <1>24 DEF InsertPostProc, At, Goto, TypeOK, redis
<1>25. CASE TrackEnrichment(o)
  BY <1>25 DEF TrackEnrichment, At, Goto, TypeOK
<1>26. CASE MarkPiiReady(o)
  BY <1>26 DEF MarkPiiReady, At, Goto, TypeOK, redis
<1>27. CASE QueuePiiFails(o)
  BY <1>27 DEF QueuePiiFails, At, Goto, TypeOK
<1>28. CASE TaskFailed(o)
  BY <1>28 DEF TaskFailed, At, Goto, TypeOK, redis
<1>29. CASE SettleFailure(o)
  BY <1>29 DEF SettleFailure, At, Goto, TypeOK, redis
<1>30. CASE EnrichmentFailed(o)
  BY <1>30 DEF EnrichmentFailed, At, Goto, TypeOK
<1>31. CASE EnsureJobFailed(o)
  BY <1>31 DEF EnsureJobFailed, At, Goto, TypeOK, redis
<1>32. CASE FailJob(o)
  BY <1>32 DEF FailJob, At, Goto, TypeOK, redis
<1>33. CASE TaskWaitTimeout(o)
  BY <1>33 DEF TaskWaitTimeout, At, Goto, TypeOK, redis
<1>34. CASE SettleTimeout(o)
  BY <1>34 DEF SettleTimeout, At, Goto, TypeOK, redis
<1>35. CASE CancelRequested(o)
  BY <1>35 DEF CancelRequested, At, Goto, TypeOK
<1>36. CASE CancelQueued(o)
  BY <1>36 DEF CancelQueued, At, Goto, TypeOK, redis
<1>37. CASE LoadCancelledJob(o)
  BY <1>37 DEF LoadCancelledJob, At, Goto, TypeOK, redis
<1>38. CASE CheckCancelled(o)
  BY <1>38 DEF CheckCancelled, At, Goto, TypeOK, redis
<1>39. CASE AbandonEvent(o)
  BY <1>39 DEF AbandonEvent, At, Goto, TypeOK, redis
<1> QED BY <1>1, <1>2, <1>2a, <1>3, <1>4, <1>5, <1>6, <1>7, <1>8, <1>9, <1>10, <1>11, <1>12, <1>13, <1>14,
    <1>15, <1>16, <1>17, <1>18, <1>19, <1>20, <1>21, <1>22, <1>23, <1>24, <1>25, <1>26, <1>27, <1>28, <1>29, <1>30, <1>31, <1>32, <1>33, <1>34, <1>35, <1>36, <1>37, <1>38, <1>39
       DEF OrchestratorStep, HandlerStep

\* The guard key admits one DECR, whoever sets it first.
LEMMA SlotStep ==
    ASSUME TypeOK, SlotInv, [Next]_vars
    PROVE  SlotInv'
<1> USE DEF SlotInv, SlotReleasedAtMostOnce, AboutToDecrement, At
<1>1. ASSUME NEW o \in Orchestrators, Release(o) PROVE SlotInv'
  BY <1>1 DEF Release, Goto, TypeOK
<1>2. ASSUME NEW o \in Orchestrators, Decrement(o) PROVE SlotInv'
  BY <1>2 DEF Decrement, Goto, TypeOK
<1>3. ASSUME UNCHANGED <<guard, decrs, gw>>,
             \A q \in Orchestrators : pc'[q] = "decrement" => pc[q] = "decrement"
      PROVE  SlotInv'
  BY <1>3
<1>4. ASSUME NEW m \in Message, EngineStep(m) \/ WaitTimeout(m) \/ EngineRejects(m) \/ EngineDies(m)
      PROVE  UNCHANGED <<guard, decrs, gw, pc>>
  BY <1>4 DEF EngineStep, EngineSkips, EngineStarts, EngineCompletes, EngineFails, WaitTimeout,
              EngineRejects, EngineDies
<1>5. CASE CancelRelease
  BY <1>5 DEF CancelRelease, GwGoto, TypeOK
<1>6. CASE CancelDecrement
  BY <1>6 DEF CancelDecrement, GwGoto, TypeOK
<1>7. CASE CancelRead
  BY <1>7 DEF CancelRead, redis
<1>8. CASE CancelCommit
  BY <1>8 DEF CancelCommit, redis
<1>9. CASE CancelPublish
  BY <1>9 DEF CancelPublish, GwGoto, TypeOK, redis
<1>10. CASE GatewayCrash
  BY <1>10 DEF GatewayCrash, TypeOK, redis
<1>11. CASE UNCHANGED vars
  BY <1>11 DEF vars, redis
<1> QED BY <1>1, <1>2, <1>3, <1>4, <1>5, <1>6, <1>7, <1>8, <1>9, <1>10, <1>11, OnlyReleaseDecrements
        DEF Next, Fault, CancelStep

\* Whatever handlers, replays, orchestrators and cancel requests conclude a job, its
\* tenant's counter is decremented at most once for it.
THEOREM SlotOnce == Spec => []SlotReleasedAtMostOnce
<1>1. Spec => [](TypeOK /\ ControlInv /\ SlotInv)
  BY TypeInit, TypeStep, ControlStep, SlotInit, SlotStep, PTL DEF Spec
<1>2. SlotInv => SlotReleasedAtMostOnce
  BY DEF SlotInv
<1> QED BY <1>1, <1>2, PTL

-----------------------------------------------------------------------------
(* Responses and inputs *)

\* Nothing is completed in the initial state.
LEMMA OutputInit == Init => OutputInv
BY DEF Init, OutputInv, CompletedHasOutput, NoMem, JobEvent

\* The engine saves its response before it publishes, and nothing removes a response.
LEMMA OutputStep ==
    ASSUME TypeOK, ControlInv, OutputInv, [Next]_vars
    PROVE  OutputInv'
<1>1. ASSUME NEW o \in Orchestrators, ReadNew(o) PROVE OutputInv'
  BY <1>1, EventFacts
     DEF OutputInv, CompletedHasOutput, ReadNew, TypeOK, db, s3, redis, local, At, Goto
<1>2. ASSUME NEW o \in Orchestrators, ClaimStale(o) PROVE OutputInv'
  BY <1>2, EventFacts
     DEF OutputInv, CompletedHasOutput, ClaimStale, TypeOK, db, s3, redis, local, At, Goto
<1>2a. ASSUME NEW o \in Orchestrators, ClaimInFlight(o) PROVE OutputInv'
  BY <1>2a, EventFacts
     DEF OutputInv, CompletedHasOutput, ClaimInFlight, TypeOK, db, s3, bus, local, At, Goto
<1>3. ASSUME NEW o \in Orchestrators, AckEvent(o) PROVE OutputInv'
  BY <1>3
     DEF OutputInv, CompletedHasOutput, AckEvent, TypeOK, db, s3, redis, bus, At, Goto,
         ForgetLocals, JobEvent, NoMem
<1>4. ASSUME NEW o \in Orchestrators, BuildDag(o) PROVE OutputInv'
  <2>1. CASE SomeExist(Pipeline)
    <3>1. pc' = [pc EXCEPT ![o] = "ack"] /\ UNCHANGED <<job, task, memJob, memTask, todo>>
      BY <1>4, <2>1 DEF BuildDag, Goto
    <3> QED BY <1>4, <3>1 DEF OutputInv, CompletedHasOutput, BuildDag, TypeOK, s3, redis, bus
  <2>2. CASE ~SomeExist(Pipeline)
    <3>1. /\ job' \in {job, "running"}
          /\ task' = [t \in Tasks |-> IF t \in Pipeline THEN "pending" ELSE task[t]]
          /\ memJob' = [memJob EXCEPT ![o] = "running"]
          /\ memTask' = [memTask EXCEPT ![o] = task']
          /\ todo' = [todo EXCEPT ![o] = Roots(Pipeline)]
          /\ pc' = [pc EXCEPT ![o] = "markRoot"]
      BY <1>4, <2>2 DEF BuildDag, Goto, OrmSet
    <3> QED BY <1>4, <3>1 DEF OutputInv, CompletedHasOutput, BuildDag, TypeOK, s3, redis, bus
  <2> QED BY <2>1, <2>2
<1>5. ASSUME NEW o \in Orchestrators, MarkRoot(o) PROVE OutputInv'
  <2>1. CASE todo[o] = {} /\ Goto(o, "ack") /\ UNCHANGED <<task, memTask, todo, cur>>
    BY <1>5, <2>1 DEF OutputInv, CompletedHasOutput, MarkRoot, Goto, TypeOK, s3, redis, bus
  <2>2. ASSUME NEW t \in todo[o],
               /\ task' = [task EXCEPT ![t] = OrmSet(@, memTask[o][t], "ready")]
               /\ memTask' = [memTask EXCEPT ![o][t] = "ready"]
               /\ todo' = [todo EXCEPT ![o] = @ \ {t}]
               /\ cur' = [cur EXCEPT ![o] = t]
               /\ Goto(o, "queueRoot")
        PROVE  OutputInv'
    <3>0. task' \in {task, [task EXCEPT ![t] = "ready"]}
      BY <2>2 DEF TypeOK, OrmSet
    <3>1. \A x \in Tasks : task'[x] = task[x] \/ (x = t /\ task'[x] = "ready")
      BY <3>0 DEF TypeOK
    <3>2. \A q \in Orchestrators : \A x \in Tasks : memTask'[q][x] \in {memTask[q][x], "ready"}
      BY <2>2 DEF TypeOK
    <3>3. \A q \in Orchestrators : /\ todo'[q] \subseteq todo[q]
                                   /\ cur'[q] \in {cur[q], t}
                                   /\ pc'[q] = pc[q] \/ pc'[q] = "queueRoot"
      BY <2>2 DEF TypeOK, Goto
    <3>4. UNCHANGED <<job, output, queue, active, stream, pending, ev, memJob, gw>>
      BY <1>5 DEF MarkRoot, s3, redis, bus
    <3> QED BY <3>1, <3>2, <3>3, <3>4, Members DEF OutputInv, CompletedHasOutput, TypeOK
  <2> QED BY <1>5, <2>1, <2>2 DEF MarkRoot
<1>6. ASSUME NEW o \in Orchestrators, QueueTask(o) PROVE OutputInv'
  <2>1. cur[o] \in Tasks
    BY <1>6 DEF QueueTask, ControlInv, At
  <2>2. CASE pc[o] \in {"queueRoot", "queuePii"}
    <3>1. pc' \in {[pc EXCEPT ![o] = "markRoot"], [pc EXCEPT ![o] = "ack"]} /\ UNCHANGED memTask
      BY <1>6, <2>2 DEF QueueTask, At, Goto
    <3>2. \A q \in Orchestrators : pc'[q] = pc[q] \/ pc'[q] \in {"markRoot", "ack"}
      BY <3>1 DEF TypeOK
    <3>3. queue' = queue \cup {[task |-> cur[o], key |-> NoKey]}
      BY <1>6 DEF QueueTask, AddTask
    <3>4. UNCHANGED <<db, s3, active, bus, ev, memJob, todo, cur, gw>>
      BY <1>6 DEF QueueTask
    <3> QED BY <2>1, <3>1, <3>2, <3>3, <3>4 DEF OutputInv, CompletedHasOutput, TypeOK, db, s3, bus
  <2>3. CASE pc[o] = "queueDependent"
    <3>1. memTask' = [memTask EXCEPT ![o][cur[o]] = task[cur[o]]] /\ pc' = [pc EXCEPT ![o] = "advance"]
      BY <1>6, <2>3 DEF QueueTask, At, Goto
    <3> QED BY <1>6, <2>1, <3>1 DEF OutputInv, CompletedHasOutput, QueueTask, TypeOK, db, s3, bus
  <2> QED BY <1>6, <2>2, <2>3 DEF QueueTask, At
<1>7. ASSUME NEW o \in Orchestrators, QueueRetryFails(o) PROVE OutputInv'
  BY <1>7
     DEF OutputInv, CompletedHasOutput, QueueRetryFails, TypeOK, s3, redis, bus, local, At, Goto,
         OrmSet
<1>8. ASSUME NEW o \in Orchestrators, TaskStarted(o) PROVE OutputInv'
  BY <1>8 DEF OutputInv, CompletedHasOutput, TaskStarted, TypeOK, s3, redis, bus, local, At, Goto
<1>9. ASSUME NEW o \in Orchestrators, TaskCompleted(o) PROVE OutputInv'
  BY <1>9 DEF OutputInv, CompletedHasOutput, TaskCompleted, TypeOK, db, s3, redis, bus, At, Goto
<1>10. ASSUME NEW o \in Orchestrators, MarkCompleted(o) PROVE OutputInv'
  BY <1>10
     DEF OutputInv, CompletedHasOutput, MarkCompleted, TypeOK, s3, redis, bus, At, Goto, ControlInv
<1>11. ASSUME NEW o \in Orchestrators, LoadTasks(o) PROVE OutputInv'
  BY <1>11 DEF OutputInv, CompletedHasOutput, LoadTasks, TypeOK, db, s3, redis, bus, At, Goto
<1>12. ASSUME NEW o \in Orchestrators, Advance(o) PROVE OutputInv'
  BY <1>12 DEF OutputInv, CompletedHasOutput, Advance, TypeOK, s3, redis, bus, At, Goto
<1>13. ASSUME NEW o \in Orchestrators, CancelPending(o) PROVE OutputInv'
  BY <1>13 DEF OutputInv, CompletedHasOutput, CancelPending, TypeOK, s3, redis, bus, local, At, Goto
<1>14. ASSUME NEW o \in Orchestrators, PublishVerdict(o) PROVE OutputInv'
  BY <1>14
     DEF OutputInv, CompletedHasOutput, PublishVerdict, TypeOK, db, s3, redis, local, At, Goto,
         Publish, VerdictEvent, JobEvent, TerminalJobs
<1>15. ASSUME NEW o \in Orchestrators, InsertPostProc(o) PROVE OutputInv'
  BY <1>15
     DEF OutputInv, CompletedHasOutput, InsertPostProc, TypeOK, s3, redis, bus, local, At, Goto
<1>16. ASSUME NEW o \in Orchestrators, MarkPiiReady(o) PROVE OutputInv'
  BY <1>16 DEF OutputInv, CompletedHasOutput, MarkPiiReady, TypeOK, s3, redis, bus, At, Goto
<1>17. ASSUME NEW o \in Orchestrators, TaskFailed(o) PROVE OutputInv'
  BY <1>17 DEF OutputInv, CompletedHasOutput, TaskFailed, TypeOK, db, s3, redis, bus, At, Goto
<1>18. ASSUME NEW o \in Orchestrators, SettleFailure(o) PROVE OutputInv'
  BY <1>18 DEF OutputInv, CompletedHasOutput, SettleFailure, TypeOK, s3, redis, bus, At, Goto
<1>19. ASSUME NEW o \in Orchestrators, TaskWaitTimeout(o) PROVE OutputInv'
  BY <1>19 DEF OutputInv, CompletedHasOutput, TaskWaitTimeout, TypeOK, db, s3, redis, bus, At, Goto
<1>20. ASSUME NEW o \in Orchestrators, SettleTimeout(o) PROVE OutputInv'
  BY <1>20 DEF OutputInv, CompletedHasOutput, SettleTimeout, TypeOK, s3, redis, bus, At, Goto
<1>21. ASSUME NEW o \in Orchestrators, CancelRequested(o) PROVE OutputInv'
  BY <1>21 DEF OutputInv, CompletedHasOutput, CancelRequested, TypeOK, db, s3, bus, At, Goto
<1>22. ASSUME NEW o \in Orchestrators, CancelQueued(o) PROVE OutputInv'
  BY <1>22 DEF OutputInv, CompletedHasOutput, CancelQueued, TypeOK, s3, redis, bus, local, At, Goto
<1>23. ASSUME NEW o \in Orchestrators, AbandonEvent(o) PROVE OutputInv'
  BY <1>23
     DEF OutputInv, CompletedHasOutput, AbandonEvent, TypeOK, db, s3, redis, At, Goto,
         ForgetLocals, JobEvent, NoMem
<1>24. ASSUME NEW m \in Message, EngineStarts(m) PROVE OutputInv'
  BY <1>24, Members
     DEF OutputInv, CompletedHasOutput, EngineStarts, TypeOK, db, s3, local, Publish, TaskEvent
<1>25. ASSUME NEW m \in Message, EngineRejects(m) PROVE OutputInv'
  BY <1>25, Members
     DEF OutputInv, CompletedHasOutput, EngineRejects, TypeOK, db, s3, local, Publish, TaskEvent
<1>26. ASSUME NEW m \in Message, EngineCompletes(m) PROVE OutputInv'
  BY <1>26, Members
     DEF OutputInv, CompletedHasOutput, EngineCompletes, TypeOK, db, local, Publish, TaskEvent
<1>27. ASSUME NEW m \in Message, EngineFails(m) PROVE OutputInv'
  BY <1>27, Members
     DEF OutputInv, CompletedHasOutput, EngineFails, TypeOK, db, s3, local, Publish, TaskEvent,
         FatalFailure
<1>28. ASSUME NEW m \in Message, EngineDies(m) PROVE OutputInv'
  <2>1. m.task \in Tasks
    BY Members
  <2>2. /\ output' \in {output, [output EXCEPT ![m.task] = TRUE]}
        /\ stream' \in {stream, Append(stream, TaskEvent("task.completed", m.task))}
        /\ stream' # stream => output' = [output EXCEPT ![m.task] = TRUE]
        /\ queue' \cup active' \subseteq queue \cup active
        /\ UNCHANGED <<db, patched, pending, pc, ev, local, gw>>
    BY <1>28 DEF EngineDies, Publish
  <2>3. \A t \in Tasks : output[t] => output'[t]
    BY <2>1, <2>2 DEF TypeOK
  <2>6. \A e \in Event : e.type = "task.completed" /\ output[e.task] => output'[e.task]
    BY <2>3, EventFacts DEF TaskEvents
  <2>4. CASE stream' = stream
    BY <2>2, <2>3, <2>4, <2>6, Members DEF OutputInv, CompletedHasOutput, TypeOK, db, local
  <2>5. CASE /\ stream' = Append(stream, TaskEvent("task.completed", m.task))
             /\ output' = [output EXCEPT ![m.task] = TRUE]
    BY <2>1, <2>2, <2>5, Members DEF OutputInv, CompletedHasOutput, TypeOK, TaskEvent, db, local
  <2> QED BY <2>2, <2>4, <2>5
<1>29. ASSUME NEW m \in Message, WaitTimeout(m) PROVE OutputInv'
  BY <1>29, Members
     DEF OutputInv, CompletedHasOutput, WaitTimeout, TypeOK, db, s3, local, Publish, TaskEvent
<1>30. CASE CancelCommit
  BY <1>30 DEF OutputInv, CompletedHasOutput, CancelCommit, TypeOK, s3, redis, bus, local
<1>31. CASE CancelPublish
  BY <1>31
     DEF OutputInv, CompletedHasOutput, CancelPublish, TypeOK, db, s3, redis, local, GwGoto,
         Publish, JobEvent
<1>32. ASSUME NEW o \in Orchestrators,
             \/ JobCreated(o) \/ BuildDagFails(o) \/ QueueTaskFails(o) \/ QueueRetry(o) \/ Enrichment(o)
             \/ LoadJob(o) \/ CheckCompletionReturns(o) \/ CheckCompletion(o) \/ Release(o) \/ Decrement(o)
             \/ JobWebhook(o) \/ TrackEnrichment(o) \/ QueuePiiFails(o) \/ EnrichmentFailed(o) \/ EnsureJobFailed(o)
             \/ FailJob(o) \/ LoadCancelledJob(o) \/ CheckCancelled(o)
      PROVE  UNCHANGED <<task, output, stream, pending, ev, memTask>>
  BY <1>32
     DEF JobCreated, BuildDagFails, QueueTaskFails, QueueRetry, Enrichment, LoadJob,
         CheckCompletionReturns, CheckCompletion, Release, Decrement, JobWebhook, TrackEnrichment,
         QueuePiiFails, EnrichmentFailed, EnsureJobFailed, FailJob, LoadCancelledJob,
         CheckCancelled, db, s3, redis, bus, local
<1>33. ASSUME NEW m \in Message, EngineSkips(m)
      PROVE  UNCHANGED <<task, output, stream, pending, ev, memTask>>
  BY <1>33 DEF EngineSkips, db, s3, bus, local
<1>34. CASE CancelRead \/ CancelRelease \/ CancelDecrement \/ GatewayCrash \/ UNCHANGED vars
  <2> UNCHANGED <<task, output, stream, pending, ev, memTask>>
    BY <1>34 DEF CancelRead, CancelRelease, CancelDecrement, GatewayCrash, db, s3, redis, bus,
        local, vars
  <2> QED BY DEF OutputInv, CompletedHasOutput
<1>35. CASE UNCHANGED <<task, output, stream, pending, ev, memTask>>
  BY <1>35 DEF OutputInv, CompletedHasOutput
<1> QED
  BY <1>1, <1>2, <1>2a, <1>3, <1>4, <1>5, <1>6, <1>7, <1>8, <1>9, <1>10, <1>11, <1>12, <1>13, <1>14,
      <1>15, <1>16, <1>17, <1>18, <1>19, <1>20, <1>21, <1>22, <1>23, <1>24, <1>25, <1>26, <1>27, <1>28, <1>29, <1>30, <1>31, <1>32, <1>33, <1>34, <1>35
     DEF Next, Fault, OrchestratorStep, HandlerStep, EngineStep, CancelStep

\* Nothing is queued in the initial state.
LEMMA InputsInit == Init => InputsInv
BY ConstantsAssumption DEF Init, InputsInv, InputsExist, HasInputs, NoMem

\* A dependent is made READY only from completed dependencies, and responses are never removed.
LEMMA InputsStep ==
    ASSUME TypeOK, ControlInv, OutputInv, InputsInv, [Next]_vars
    PROVE  InputsInv'
<1>1. ASSUME NEW o \in Orchestrators, ReadNew(o) PROVE InputsInv'
  BY <1>1, EventFacts
     DEF InputsInv, InputsExist, HasInputs, ReadNew, TypeOK, db, s3, redis, local, At, Goto
<1>2. ASSUME NEW o \in Orchestrators, ClaimStale(o) PROVE InputsInv'
  BY <1>2, EventFacts
     DEF InputsInv, InputsExist, HasInputs, ClaimStale, TypeOK, db, s3, redis, local, At, Goto
<1>2a. ASSUME NEW o \in Orchestrators, ClaimInFlight(o) PROVE InputsInv'
  BY <1>2a, EventFacts
     DEF InputsInv, InputsExist, HasInputs, ClaimInFlight, TypeOK, db, s3, redis, local, At, Goto
<1>3. ASSUME NEW o \in Orchestrators, AckEvent(o) PROVE InputsInv'
  BY <1>3, ConstantsAssumption
     DEF InputsInv, InputsExist, HasInputs, AckEvent, TypeOK, db, s3, redis, bus, At, Goto,
         ForgetLocals, JobEvent, NoMem
<1>4. ASSUME NEW o \in Orchestrators, JobCreated(o) PROVE InputsInv'
  BY <1>4 DEF InputsInv, InputsExist, HasInputs, JobCreated, TypeOK, db, s3, redis, bus, At, Goto
<1>5. ASSUME NEW o \in Orchestrators, BuildDagFails(o) PROVE InputsInv'
  BY <1>5
     DEF InputsInv, InputsExist, HasInputs, BuildDagFails, TypeOK, s3, redis, bus, At, Goto, OrmSet
<1>6. ASSUME NEW o \in Orchestrators, BuildDag(o) PROVE InputsInv'
  <2>1. CASE SomeExist(Pipeline)
    <3>1. pc' = [pc EXCEPT ![o] = "ack"] /\ UNCHANGED <<job, task, memJob, memTask, todo>>
      BY <1>6, <2>1 DEF BuildDag, Goto
    <3> QED BY <1>6, <3>1 DEF InputsInv, InputsExist, HasInputs, BuildDag, TypeOK, s3, redis, bus
  <2>2. CASE ~SomeExist(Pipeline)
    <3>1. /\ job' \in {job, "running"}
          /\ task' = [t \in Tasks |-> IF t \in Pipeline THEN "pending" ELSE task[t]]
          /\ memJob' = [memJob EXCEPT ![o] = "running"]
          /\ memTask' = [memTask EXCEPT ![o] = task']
          /\ todo' = [todo EXCEPT ![o] = Roots(Pipeline)]
          /\ pc' = [pc EXCEPT ![o] = "markRoot"]
      BY <1>6, <2>2 DEF BuildDag, Goto, OrmSet
    <3> QED BY <1>6, <3>1
       DEF InputsInv, InputsExist, HasInputs, BuildDag, TypeOK, s3, redis, bus, Roots
  <2> QED BY <2>1, <2>2
<1>7. ASSUME NEW o \in Orchestrators, MarkRoot(o) PROVE InputsInv'
  <2>1. CASE todo[o] = {} /\ Goto(o, "ack") /\ UNCHANGED <<task, memTask, todo, cur>>
    BY <1>7, <2>1 DEF InputsInv, InputsExist, HasInputs, MarkRoot, Goto, TypeOK, s3, redis, bus
  <2>2. ASSUME NEW t \in todo[o],
               /\ task' = [task EXCEPT ![t] = OrmSet(@, memTask[o][t], "ready")]
               /\ memTask' = [memTask EXCEPT ![o][t] = "ready"]
               /\ todo' = [todo EXCEPT ![o] = @ \ {t}]
               /\ cur' = [cur EXCEPT ![o] = t]
               /\ Goto(o, "queueRoot")
        PROVE  InputsInv'
    <3>0. task' \in {task, [task EXCEPT ![t] = "ready"]}
      BY <2>2 DEF TypeOK, OrmSet
    <3>1. \A x \in Tasks : task'[x] = task[x] \/ (x = t /\ task'[x] = "ready")
      BY <3>0 DEF TypeOK
    <3>3. \A q \in Orchestrators : /\ todo'[q] \subseteq todo[q]
                                   /\ cur'[q] \in {cur[q], t}
                                   /\ pc'[q] = pc[q] \/ pc'[q] = "queueRoot"
      BY <2>2 DEF TypeOK, Goto
    <3>4. UNCHANGED <<job, output, queue, active, stream, pending, ev, memJob, gw>>
      BY <1>7 DEF MarkRoot, s3, redis, bus
    <3>5. \A x : HasInputs(x)' <=> HasInputs(x)
      BY <3>4 DEF HasInputs
    <3>6. HasInputs(t)
      BY <2>2 DEF InputsInv
    <3> QED BY <3>1, <3>3, <3>4, <3>5, <3>6 DEF InputsInv, InputsExist, TypeOK
  <2> QED BY <1>7, <2>1, <2>2 DEF MarkRoot
<1>8. ASSUME NEW o \in Orchestrators, QueueTask(o) PROVE InputsInv'
  <2>1. cur[o] \in Tasks
    BY <1>8 DEF QueueTask, ControlInv, At
  <2>2. CASE pc[o] \in {"queueRoot", "queuePii"}
    <3>1. pc' \in {[pc EXCEPT ![o] = "markRoot"], [pc EXCEPT ![o] = "ack"]} /\ UNCHANGED memTask
      BY <1>8, <2>2 DEF QueueTask, At, Goto
    <3>2. \A q \in Orchestrators : pc'[q] = pc[q] \/ pc'[q] \in {"markRoot", "ack"}
      BY <3>1 DEF TypeOK
    <3>3. queue' = queue \cup {[task |-> cur[o], key |-> NoKey]}
      BY <1>8 DEF QueueTask, AddTask
    <3>4. UNCHANGED <<db, s3, active, bus, ev, memJob, todo, cur, gw>>
      BY <1>8 DEF QueueTask
    <3>5. \A x : HasInputs(x)' <=> HasInputs(x)
      BY <3>4 DEF HasInputs, s3
    <3>6. \A x \in queue' : x \in queue \/ x.task = cur[o]
      BY <3>3
    <3> QED BY <2>1, <3>2, <3>4, <3>5, <3>6 DEF InputsInv, InputsExist, TypeOK, db
  <2>3. CASE pc[o] = "queueDependent"
    <3>1. memTask' = [memTask EXCEPT ![o][cur[o]] = task[cur[o]]] /\ pc' = [pc EXCEPT ![o] = "advance"]
      BY <1>8, <2>3 DEF QueueTask, At, Goto
    <3> QED BY <1>8, <2>1, <3>1
       DEF InputsInv, InputsExist, HasInputs, QueueTask, TypeOK, db, s3, bus, AddTask
  <2> QED BY <1>8, <2>2, <2>3 DEF QueueTask, At
<1>9. ASSUME NEW o \in Orchestrators, QueueTaskFails(o) PROVE InputsInv'
  BY <1>9
     DEF InputsInv, InputsExist, HasInputs, QueueTaskFails, TypeOK, s3, redis, bus, Goto, OrmSet
<1>10. ASSUME NEW o \in Orchestrators, QueueRetry(o) PROVE InputsInv'
  BY <1>10, TaskOfEvent
     DEF InputsInv, InputsExist, HasInputs, QueueRetry, TypeOK, db, s3, bus, local, At, Goto,
         TaskLabels
<1>11. ASSUME NEW o \in Orchestrators, QueueRetryFails(o) PROVE InputsInv'
  BY <1>11
     DEF InputsInv, InputsExist, HasInputs, QueueRetryFails, TypeOK, s3, redis, bus, local, At,
         Goto, OrmSet
<1>12. ASSUME NEW o \in Orchestrators, TaskStarted(o) PROVE InputsInv'
  BY <1>12, TaskOfEvent
     DEF InputsInv, InputsExist, HasInputs, TaskStarted, TypeOK, s3, redis, bus, local, At, Goto,
         TaskLabels, TaskEvents
<1>13. ASSUME NEW o \in Orchestrators, TaskCompleted(o) PROVE InputsInv'
  BY <1>13
     DEF InputsInv, InputsExist, HasInputs, TaskCompleted, TypeOK, db, s3, redis, bus, At, Goto
<1>14. ASSUME NEW o \in Orchestrators, MarkCompleted(o) PROVE InputsInv'
  BY <1>14 DEF InputsInv, InputsExist, HasInputs, MarkCompleted, TypeOK, s3, redis, bus, At, Goto
<1>15. ASSUME NEW o \in Orchestrators, Enrichment(o) PROVE InputsInv'
  BY <1>15 DEF InputsInv, InputsExist, HasInputs, Enrichment, TypeOK, db, bus, At, Goto
<1>16. ASSUME NEW o \in Orchestrators, LoadTasks(o) PROVE InputsInv'
  BY <1>16 DEF InputsInv, InputsExist, HasInputs, LoadTasks, TypeOK, db, s3, redis, bus, At, Goto
<1>17. ASSUME NEW o \in Orchestrators, LoadJob(o) PROVE InputsInv'
  <2>1. \A t \in ReadyDependents(memTask[o]) : HasInputs(t)
    BY ConstantsAssumption DEF ReadyDependents, CompletedIds, HasInputs, OutputInv
  <2>2. /\ pc' \in {[pc EXCEPT ![o] = "cancelPending"], [pc EXCEPT ![o] = "advance"]}
        /\ todo' \in {todo, [todo EXCEPT ![o] = ReadyDependents(memTask[o])]}
    BY <1>17 DEF LoadJob, Goto
  <2>3. \A q \in Orchestrators : /\ \A t \in todo'[q] : HasInputs(t)
                                 /\ pc'[q] = pc[q] \/ pc'[q] \in {"cancelPending", "advance"}
    BY <2>1, <2>2 DEF TypeOK, InputsInv
  <2> QED BY <1>17, <2>3 DEF InputsInv, InputsExist, HasInputs, LoadJob, TypeOK, db, s3, redis
<1>18. ASSUME NEW o \in Orchestrators, Advance(o) PROVE InputsInv'
  <2>1. CASE todo[o] = {} /\ Goto(o, "checkCompletion") /\ UNCHANGED <<task, todo, cur>>
    BY <1>18, <2>1 DEF InputsInv, InputsExist, HasInputs, Advance, Goto, TypeOK, s3, redis
  <2>2. ASSUME NEW d \in todo[o], task[d] = "pending",
               todo' = [todo EXCEPT ![o] = @ \ {d}],
               task' = [task EXCEPT ![d] = "ready"],
               cur' = [cur EXCEPT ![o] = d],
               Goto(o, "queueDependent")
        PROVE  InputsInv'
    BY <1>18, <2>2 DEF InputsInv, InputsExist, HasInputs, Advance, Goto, TypeOK, s3, redis
  <2>3. ASSUME NEW d \in todo[o],
               todo' = [todo EXCEPT ![o] = @ \ {d}],
               UNCHANGED <<task, cur, pc>>
        PROVE  InputsInv'
    BY <1>18, <2>3 DEF InputsInv, InputsExist, HasInputs, Advance, TypeOK, s3, redis
  <2> QED BY <1>18, <2>1, <2>2, <2>3 DEF Advance
<1>19. ASSUME NEW o \in Orchestrators, CancelPending(o) PROVE InputsInv'
  BY <1>19
     DEF InputsInv, InputsExist, HasInputs, CancelPending, TypeOK, s3, redis, bus, local, At, Goto
<1>20. ASSUME NEW o \in Orchestrators, CheckCompletionReturns(o) PROVE InputsInv'
  BY <1>20
     DEF InputsInv, InputsExist, HasInputs, CheckCompletionReturns, TypeOK, db, s3, redis, bus,
         local, At, Goto
<1>21. ASSUME NEW o \in Orchestrators, CheckCompletion(o) PROVE InputsInv'
  BY <1>21
     DEF InputsInv, InputsExist, HasInputs, CheckCompletion, TypeOK, s3, redis, bus, At, Goto,
         OrmSet
<1>22. ASSUME NEW o \in Orchestrators, Release(o) PROVE InputsInv'
  BY <1>22 DEF InputsInv, InputsExist, HasInputs, Release, TypeOK, db, s3, bus, local, At, Goto
<1>23. ASSUME NEW o \in Orchestrators, Decrement(o) PROVE InputsInv'
  BY <1>23 DEF InputsInv, InputsExist, HasInputs, Decrement, TypeOK, db, s3, bus, local, At, Goto
<1>24. ASSUME NEW o \in Orchestrators, PublishVerdict(o) PROVE InputsInv'
  BY <1>24
     DEF InputsInv, InputsExist, HasInputs, PublishVerdict, TypeOK, db, s3, redis, local, At, Goto,
         Publish, VerdictEvent, JobEvent, TerminalJobs
<1>25. ASSUME NEW o \in Orchestrators, JobWebhook(o) PROVE InputsInv'
  BY <1>25
     DEF InputsInv, InputsExist, HasInputs, JobWebhook, TypeOK, s3, redis, bus, local, At, Goto
<1>26. ASSUME NEW o \in Orchestrators, InsertPostProc(o) PROVE InputsInv'
  <2>1. /\ task' \in {task, [t \in Tasks |-> IF t \in PostProc THEN "pending" ELSE task[t]]}
        /\ pc' \in {[pc EXCEPT ![o] = "ack"], [pc EXCEPT ![o] = "trackEnrichment"]}
    BY <1>26 DEF InsertPostProc, Goto
  <2>2. /\ \A t \in Tasks : task'[t] \in {task[t], "pending"}
        /\ \A q \in Orchestrators : pc'[q] = pc[q] \/ pc'[q] \in {"ack", "trackEnrichment"}
    BY <2>1 DEF TypeOK
  <2> QED BY <1>26, <2>2
     DEF InputsInv, InputsExist, HasInputs, InsertPostProc, TypeOK, s3, redis, local
<1>27. ASSUME NEW o \in Orchestrators, TrackEnrichment(o) PROVE InputsInv'
  BY <1>27
     DEF InputsInv, InputsExist, HasInputs, TrackEnrichment, TypeOK, db, s3, bus, local, At, Goto
<1>28. ASSUME NEW o \in Orchestrators, MarkPiiReady(o) PROVE InputsInv'
  BY <1>28
     DEF InputsInv, InputsExist, HasInputs, MarkPiiReady, TypeOK, s3, redis, bus, At, Goto, Roots
<1>29. ASSUME NEW o \in Orchestrators, QueuePiiFails(o) PROVE InputsInv'
  BY <1>29
     DEF InputsInv, InputsExist, HasInputs, QueuePiiFails, TypeOK, db, s3, bus, local, At, Goto
<1>30. ASSUME NEW o \in Orchestrators, TaskFailed(o) PROVE InputsInv'
  BY <1>30, TaskOfEvent
     DEF InputsInv, InputsExist, HasInputs, TaskFailed, TypeOK, db, s3, redis, bus, At, Goto,
         TaskLabels, TaskEvents
<1>31. ASSUME NEW o \in Orchestrators, SettleFailure(o) PROVE InputsInv'
  BY <1>31, TaskOfEvent
     DEF InputsInv, InputsExist, HasInputs, SettleFailure, TypeOK, s3, redis, bus, At, Goto,
         TaskLabels, TaskEvents
<1>32. ASSUME NEW o \in Orchestrators, EnrichmentFailed(o) PROVE InputsInv'
  BY <1>32
     DEF InputsInv, InputsExist, HasInputs, EnrichmentFailed, TypeOK, db, s3, bus, local, At, Goto
<1>33. ASSUME NEW o \in Orchestrators, EnsureJobFailed(o) PROVE InputsInv'
  BY <1>33
     DEF InputsInv, InputsExist, HasInputs, EnsureJobFailed, TypeOK, db, s3, redis, bus, At, Goto
<1>34. ASSUME NEW o \in Orchestrators, FailJob(o) PROVE InputsInv'
  BY <1>34 DEF InputsInv, InputsExist, HasInputs, FailJob, TypeOK, s3, redis, bus, local, At, Goto
<1>35. ASSUME NEW o \in Orchestrators, TaskWaitTimeout(o) PROVE InputsInv'
  BY <1>35
     DEF InputsInv, InputsExist, HasInputs, TaskWaitTimeout, TypeOK, db, s3, redis, bus, At, Goto
<1>36. ASSUME NEW o \in Orchestrators, SettleTimeout(o) PROVE InputsInv'
  BY <1>36 DEF InputsInv, InputsExist, HasInputs, SettleTimeout, TypeOK, s3, redis, bus, At, Goto
<1>37. ASSUME NEW o \in Orchestrators, CancelRequested(o) PROVE InputsInv'
  BY <1>37 DEF InputsInv, InputsExist, HasInputs, CancelRequested, TypeOK, db, s3, bus, At, Goto
<1>38. ASSUME NEW o \in Orchestrators, CancelQueued(o) PROVE InputsInv'
  BY <1>38
     DEF InputsInv, InputsExist, HasInputs, CancelQueued, TypeOK, s3, redis, bus, local, At, Goto
<1>39. ASSUME NEW o \in Orchestrators, LoadCancelledJob(o) PROVE InputsInv'
  BY <1>39
     DEF InputsInv, InputsExist, HasInputs, LoadCancelledJob, TypeOK, db, s3, redis, bus, At, Goto
<1>40. ASSUME NEW o \in Orchestrators, CheckCancelled(o) PROVE InputsInv'
  <2>1. pc' \in {[pc EXCEPT ![o] = "ack"], [pc EXCEPT ![o] = "release"]}
    BY <1>40 DEF CheckCancelled, Goto
  <2>2. \A q \in Orchestrators : pc'[q] = pc[q] \/ pc'[q] \in {"ack", "release"}
    BY <2>1 DEF TypeOK
  <2> QED BY <1>40, <2>2 DEF InputsInv, InputsExist, HasInputs, CheckCancelled, TypeOK, s3, redis
<1>41. ASSUME NEW o \in Orchestrators, AbandonEvent(o) PROVE InputsInv'
  BY <1>41, ConstantsAssumption
     DEF InputsInv, InputsExist, HasInputs, AbandonEvent, TypeOK, db, s3, redis, At, Goto,
         ForgetLocals, JobEvent, NoMem
<1>42. ASSUME NEW m \in Message, EngineSkips(m) PROVE InputsInv'
  BY <1>42, Members DEF InputsInv, InputsExist, HasInputs, EngineSkips, TypeOK, db, s3, bus, local
<1>43. ASSUME NEW m \in Message, EngineStarts(m) PROVE InputsInv'
  BY <1>43, Members
     DEF InputsInv, InputsExist, HasInputs, EngineStarts, TypeOK, db, s3, local, Publish, TaskEvent
<1>44. ASSUME NEW m \in Message, EngineRejects(m) PROVE InputsInv'
  BY <1>44, Members
     DEF InputsInv, InputsExist, HasInputs, EngineRejects, TypeOK, db, s3, local, Publish, TaskEvent
<1>45. ASSUME NEW m \in Message, EngineCompletes(m) PROVE InputsInv'
  BY <1>45, Members
     DEF InputsInv, InputsExist, HasInputs, EngineCompletes, TypeOK, db, local, Publish, TaskEvent
<1>46. ASSUME NEW m \in Message, EngineFails(m) PROVE InputsInv'
  BY <1>46, Members
     DEF InputsInv, InputsExist, HasInputs, EngineFails, TypeOK, db, s3, local, Publish, TaskEvent,
         FatalFailure
<1>47. ASSUME NEW m \in Message, EngineDies(m) PROVE InputsInv'
  <2>1. m.task \in Tasks
    BY Members
  <2>2. output' \in {output, [output EXCEPT ![m.task] = TRUE]}
    BY <1>47 DEF EngineDies
  <2>3. \A t \in Tasks : HasInputs(t) => HasInputs(t)'
    BY <2>1, <2>2, ConstantsAssumption DEF TypeOK, HasInputs
  <2>4. /\ queue' \cup active' \subseteq queue \cup active
        /\ UNCHANGED <<db, pc, ev, local>>
    BY <1>47 DEF EngineDies
  <2>5. \A x \in queue \cup active : x.task \in Tasks
    BY Members DEF TypeOK
  <2>6. \A o \in Orchestrators : /\ todo[o] \subseteq Tasks
                                 /\ pc[o] \in {"settleFailure", "queueRetry"} => ev[o].task \in Tasks
    BY TaskOfEvent DEF TypeOK, TaskLabels
  <2> QED BY <2>3, <2>4, <2>5, <2>6 DEF InputsInv, InputsExist, db, local
<1>48. ASSUME NEW m \in Message, WaitTimeout(m) PROVE InputsInv'
  BY <1>48, Members
     DEF InputsInv, InputsExist, HasInputs, WaitTimeout, TypeOK, db, s3, local, Publish, TaskEvent
<1>49. CASE CancelCommit
  BY <1>49 DEF InputsInv, InputsExist, HasInputs, CancelCommit, TypeOK, s3, redis, bus, local
<1>50. CASE CancelRead \/ CancelPublish \/ CancelRelease \/ CancelDecrement \/ GatewayCrash \/ UNCHANGED vars
  <2> UNCHANGED <<task, output, queue, active, pc, ev, todo, cur>>
    BY <1>50 DEF CancelRead, CancelPublish, CancelRelease, CancelDecrement, GatewayCrash, db, s3,
        redis, bus, local, vars
  <2> QED BY DEF InputsInv, InputsExist, HasInputs
<1>51. CASE UNCHANGED <<task, output, queue, active, pc, ev, todo, cur>>
  BY <1>51 DEF InputsInv, InputsExist, HasInputs
<1> QED
  BY <1>1, <1>2, <1>2a, <1>3, <1>4, <1>5, <1>6, <1>7, <1>8, <1>9, <1>10, <1>11, <1>12, <1>13, <1>14,
      <1>15, <1>16, <1>17, <1>18, <1>19, <1>20, <1>21, <1>22, <1>23, <1>24, <1>25, <1>26, <1>27, <1>28, <1>29, <1>30, <1>31, <1>32, <1>33, <1>34, <1>35, <1>36, <1>37, <1>38, <1>39, <1>40, <1>41, <1>42, <1>43, <1>44, <1>45, <1>46, <1>47, <1>48, <1>49, <1>50, <1>51
     DEF Next, Fault, OrchestratorStep, HandlerStep, EngineStep, CancelStep

-----------------------------------------------------------------------------
(* Completed jobs *)

\* Nothing is cancelled or skipped in the initial state.
LEMMA WholeInit == Init => WholeInv
BY Members DEF Init, WholeInv, CompletedJobIsWhole, NoMem

\* The loaded rows that _check_job_completion finds done, and not failed, are completed.
LEMMA WholeStep ==
    ASSUME TypeOK, ControlInv, OutputInv, WholeInv, [Next]_vars
    PROVE  WholeInv'
<1>1. ASSUME UNCHANGED <<job, task, output, memTask>> PROVE WholeInv'
  BY <1>1 DEF WholeInv, CompletedJobIsWhole
<1>2. ASSUME NEW o \in Orchestrators,
             \/ ReadNew(o) \/ ClaimStale(o) \/ ClaimInFlight(o) \/ JobCreated(o) \/ QueueRetry(o) \/ Enrichment(o)
             \/ LoadJob(o) \/ CheckCompletionReturns(o) \/ Release(o) \/ Decrement(o)
             \/ PublishVerdict(o) \/ JobWebhook(o) \/ TrackEnrichment(o) \/ QueuePiiFails(o)
             \/ EnrichmentFailed(o) \/ EnsureJobFailed(o) \/ LoadCancelledJob(o)
      PROVE  WholeInv'
  <2>1. UNCHANGED <<job, task, output, memTask>>
    BY <1>2 DEF ReadNew, ClaimStale, ClaimInFlight, JobCreated, QueueRetry, Enrichment, LoadJob,
                CheckCompletionReturns, Release, Decrement, PublishVerdict, JobWebhook,
                TrackEnrichment, QueuePiiFails, EnrichmentFailed, EnsureJobFailed,
                LoadCancelledJob, db, s3, local
  <2> QED BY <1>1, <2>1
<1>3. ASSUME NEW m \in Message,
             EngineSkips(m) \/ EngineStarts(m) \/ EngineRejects(m) \/ EngineFails(m) \/ WaitTimeout(m)
      PROVE  WholeInv'
  <2>1. UNCHANGED <<job, task, output, memTask>>
    BY <1>3 DEF EngineSkips, EngineStarts, EngineRejects, EngineFails, WaitTimeout, db, s3, local
  <2> QED BY <1>1, <2>1
<1>4. ASSUME CancelRead \/ CancelPublish \/ CancelRelease \/ CancelDecrement \/ GatewayCrash
      PROVE  WholeInv'
  <2>1. UNCHANGED <<job, task, output, memTask>>
    BY <1>4 DEF CancelRead, CancelPublish, CancelRelease, CancelDecrement, GatewayCrash, db, s3, local
  <2> QED BY <1>1, <2>1
<1>5. ASSUME NEW o \in Orchestrators, AckEvent(o) PROVE WholeInv'
  BY <1>5, Members DEF WholeInv, CompletedJobIsWhole, TypeOK, AckEvent, ForgetLocals, NoMem, db, s3
<1>6. ASSUME NEW o \in Orchestrators, AbandonEvent(o) PROVE WholeInv'
  BY <1>6, Members DEF WholeInv, CompletedJobIsWhole, TypeOK, AbandonEvent, ForgetLocals, NoMem, db, s3
<1>7. ASSUME NEW o \in Orchestrators, BuildDagFails(o) PROVE WholeInv'
  BY <1>7, Members DEF WholeInv, CompletedJobIsWhole, TypeOK, BuildDagFails, OrmSet, s3
<1>8. ASSUME NEW o \in Orchestrators, QueueTaskFails(o) PROVE WholeInv'
  BY <1>8, Members DEF WholeInv, CompletedJobIsWhole, TypeOK, QueueTaskFails, OrmSet, s3
<1>9. ASSUME NEW o \in Orchestrators, BuildDag(o) PROVE WholeInv'
  <2>1. CASE UNCHANGED <<job, task, memTask>>
    BY <1>9, <1>1, <2>1 DEF BuildDag, s3
  <2>2. CASE /\ job' = OrmSet(job, memJob[o], "running")
             /\ task' = [t \in Tasks |-> IF t \in Pipeline THEN "pending" ELSE task[t]]
             /\ memTask' = [memTask EXCEPT ![o] = task']
    <3>1. UNCHANGED output
      BY <1>9 DEF BuildDag, s3
    <3> QED BY <2>2, <3>1, Members DEF WholeInv, CompletedJobIsWhole, TypeOK, OrmSet
  <2> QED BY <1>9, <2>1, <2>2 DEF BuildDag
<1>10. ASSUME NEW o \in Orchestrators, MarkRoot(o) PROVE WholeInv'
  <2>1. CASE UNCHANGED <<task, memTask>>
    BY <1>10, <1>1, <2>1 DEF MarkRoot, s3
  <2>2. ASSUME NEW t \in todo[o],
               task' = [task EXCEPT ![t] = OrmSet(@, memTask[o][t], "ready")],
               memTask' = [memTask EXCEPT ![o][t] = "ready"]
        PROVE  WholeInv'
    <3>1. UNCHANGED <<job, output>>
      BY <1>10 DEF MarkRoot, s3
    <3>2. \A x \in Tasks : task'[x] \in {task[x], "ready"}
      BY <2>2 DEF TypeOK, OrmSet
    <3>3. \A q \in Orchestrators : \A x \in Tasks : memTask'[q][x] \in {memTask[q][x], "ready"}
      BY <2>2 DEF TypeOK
    <3> QED BY <3>1, <3>2, <3>3, Members DEF WholeInv, CompletedJobIsWhole
  <2> QED BY <1>10, <2>1, <2>2 DEF MarkRoot
<1>11. ASSUME NEW o \in Orchestrators, QueueTask(o) PROVE WholeInv'
  <2>1. CASE UNCHANGED memTask
    BY <1>11, <1>1, <2>1 DEF QueueTask, db, s3
  <2>2. CASE memTask' = [memTask EXCEPT ![o][cur[o]] = task[cur[o]]]
    <3>1. UNCHANGED <<job, task, output>>
      BY <1>11 DEF QueueTask, db, s3
    <3> QED BY <2>2, <3>1, Members DEF WholeInv, CompletedJobIsWhole, TypeOK
  <2> QED BY <1>11, <2>1, <2>2 DEF QueueTask
<1>12. ASSUME NEW o \in Orchestrators, QueueRetryFails(o) PROVE WholeInv'
  BY <1>12, Members DEF WholeInv, CompletedJobIsWhole, TypeOK, QueueRetryFails, OrmSet, s3, local
<1>13. ASSUME NEW o \in Orchestrators, TaskStarted(o) PROVE WholeInv'
  BY <1>13, Members DEF WholeInv, CompletedJobIsWhole, TypeOK, TaskStarted, s3, local
<1>14. ASSUME NEW o \in Orchestrators, TaskCompleted(o) PROVE WholeInv'
  BY <1>14, Members DEF WholeInv, CompletedJobIsWhole, TypeOK, TaskCompleted, db, s3
<1>15. ASSUME NEW o \in Orchestrators, MarkCompleted(o) PROVE WholeInv'
  BY <1>15, Members DEF WholeInv, CompletedJobIsWhole, TypeOK, MarkCompleted, s3
<1>16. ASSUME NEW o \in Orchestrators, LoadTasks(o) PROVE WholeInv'
  BY <1>16, Members DEF WholeInv, CompletedJobIsWhole, TypeOK, LoadTasks, db, s3
<1>17. ASSUME NEW o \in Orchestrators, Advance(o) PROVE WholeInv'
  BY <1>17, Members DEF WholeInv, CompletedJobIsWhole, TypeOK, Advance, s3
<1>18. ASSUME NEW o \in Orchestrators, CancelPending(o) PROVE WholeInv'
  BY <1>18, Members DEF WholeInv, CompletedJobIsWhole, TypeOK, CancelPending, s3, local
<1>19. ASSUME NEW o \in Orchestrators, CheckCompletion(o) PROVE WholeInv'
  <2>1. UNCHANGED <<task, output, memTask>>
    BY <1>19 DEF CheckCompletion, s3
  <2>2. AllDone(memTask[o])
    BY <1>19 DEF CheckCompletion
  <2>3. job' = job \/ job' = "failed" \/ (job' = "completed" /\ ~AnyFailed(memTask[o]))
    BY <1>19 DEF CheckCompletion, OrmSet
  <2>4. ~AnyFailed(memTask[o]) => \A t \in Pipeline : memTask[o][t] = "completed"
    BY <2>2, Members DEF AllDone, AnyFailed, Required, TERMINAL_TASK_STATES, WholeInv
  <2>5. ~AnyFailed(memTask[o]) => \A t \in Pipeline : output[t]
    BY <2>4, Members DEF OutputInv
  <2> QED BY <2>1, <2>3, <2>5 DEF WholeInv, CompletedJobIsWhole
<1>20. ASSUME NEW o \in Orchestrators, InsertPostProc(o) PROVE WholeInv'
  BY <1>20, Members, ConstantsAssumption DEF WholeInv, CompletedJobIsWhole, TypeOK, InsertPostProc, s3, local
<1>21. ASSUME NEW o \in Orchestrators, MarkPiiReady(o) PROVE WholeInv'
  BY <1>21, Members DEF WholeInv, CompletedJobIsWhole, TypeOK, MarkPiiReady, s3
<1>22. ASSUME NEW o \in Orchestrators, TaskFailed(o) PROVE WholeInv'
  BY <1>22, Members DEF WholeInv, CompletedJobIsWhole, TypeOK, TaskFailed, db, s3
<1>23. ASSUME NEW o \in Orchestrators, SettleFailure(o) PROVE WholeInv'
  BY <1>23, Members DEF WholeInv, CompletedJobIsWhole, TypeOK, SettleFailure, Required, s3
<1>24. ASSUME NEW o \in Orchestrators, FailJob(o) PROVE WholeInv'
  BY <1>24, Members DEF WholeInv, CompletedJobIsWhole, TypeOK, FailJob, s3, local
<1>25. ASSUME NEW o \in Orchestrators, TaskWaitTimeout(o) PROVE WholeInv'
  BY <1>25, Members DEF WholeInv, CompletedJobIsWhole, TypeOK, TaskWaitTimeout, db, s3
<1>26. ASSUME NEW o \in Orchestrators, SettleTimeout(o) PROVE WholeInv'
  BY <1>26, Members DEF WholeInv, CompletedJobIsWhole, TypeOK, SettleTimeout, Required, s3
<1>27. ASSUME NEW o \in Orchestrators, CancelRequested(o) PROVE WholeInv'
  BY <1>27, Members DEF WholeInv, CompletedJobIsWhole, TypeOK, CancelRequested, db, s3
<1>28. ASSUME NEW o \in Orchestrators, CancelQueued(o) PROVE WholeInv'
  BY <1>28, Members DEF WholeInv, CompletedJobIsWhole, TypeOK, CancelQueued, s3, local
<1>29. ASSUME NEW o \in Orchestrators, CheckCancelled(o) PROVE WholeInv'
  BY <1>29, Members DEF WholeInv, CompletedJobIsWhole, TypeOK, CheckCancelled, s3
<1>30. ASSUME NEW m \in Message, EngineCompletes(m) PROVE WholeInv'
  BY <1>30, Members DEF WholeInv, CompletedJobIsWhole, TypeOK, EngineCompletes, db, local
<1>31. ASSUME NEW m \in Message, EngineDies(m) PROVE WholeInv'
  <2>1. /\ output' = output \/ output' = [output EXCEPT ![m.task] = TRUE]
        /\ UNCHANGED <<job, task, memTask>>
    BY <1>31 DEF EngineDies, db, local
  <2> QED BY <2>1, Members DEF WholeInv, CompletedJobIsWhole, TypeOK
<1>32. ASSUME CancelCommit PROVE WholeInv'
  BY <1>32, Members DEF WholeInv, CompletedJobIsWhole, TypeOK, CancelCommit, s3, local
<1>33. CASE UNCHANGED vars
  BY <1>1, <1>33 DEF vars, db, s3, local
<1> QED
  BY <1>2, <1>3, <1>4, <1>5, <1>6, <1>7, <1>8, <1>9, <1>10, <1>11, <1>12, <1>13, <1>14, <1>15,
     <1>16, <1>17, <1>18, <1>19, <1>20, <1>21, <1>22, <1>23, <1>24, <1>25, <1>26, <1>27, <1>28,
     <1>29, <1>30, <1>31, <1>32, <1>33
     DEF Next, Fault, OrchestratorStep, HandlerStep, EngineStep, CancelStep

-----------------------------------------------------------------------------
(* Who queues a task *)

Elsewhere(o) ==
    \A q \in Orchestrators \ {o} :
        /\ pc'[q] = pc[q] /\ ev'[q] = ev[q] /\ cur'[q] = cur[q]
        /\ todo'[q] = todo[q] /\ memTask'[q] = memTask[q] /\ more'[q] = more[q]

\* A coroutine's locals are its own.
LEMMA OthersKeepLocals ==
    ASSUME TypeOK, NEW o \in Orchestrators, OrchestratorStep(o) \/ AbandonEvent(o) \/ ClaimInFlight(o)
    PROVE  Elsewhere(o)
<1> USE DEF Elsewhere
<1>1. CASE ReadNew(o)
  BY <1>1 DEF ReadNew, Goto, TypeOK, local
<1>2. CASE ClaimStale(o)
  BY <1>2 DEF ClaimStale, Goto, TypeOK, local
<1>3. CASE ClaimInFlight(o)
  BY <1>3 DEF ClaimInFlight, Goto, TypeOK, local
<1>4. CASE AckEvent(o)
  BY <1>4 DEF AckEvent, Goto, TypeOK, ForgetLocals
<1>5. CASE JobCreated(o)
  BY <1>5 DEF JobCreated, Goto, TypeOK
<1>6. CASE BuildDagFails(o)
  BY <1>6 DEF BuildDagFails, Goto, TypeOK
<1>7. CASE BuildDag(o)
  BY <1>7 DEF BuildDag, Goto, TypeOK
<1>8. CASE MarkRoot(o)
  BY <1>8 DEF MarkRoot, Goto, TypeOK
<1>9. CASE QueueTask(o)
  BY <1>9 DEF QueueTask, Goto, TypeOK
<1>10. CASE QueueTaskFails(o)
  BY <1>10 DEF QueueTaskFails, Goto, TypeOK
<1>11. CASE QueueRetry(o)
  BY <1>11 DEF QueueRetry, Goto, TypeOK, local
<1>12. CASE QueueRetryFails(o)
  BY <1>12 DEF QueueRetryFails, Goto, TypeOK, local
<1>13. CASE TaskStarted(o)
  BY <1>13 DEF TaskStarted, Goto, TypeOK, local
<1>14. CASE TaskCompleted(o)
  BY <1>14 DEF TaskCompleted, Goto, TypeOK
<1>15. CASE MarkCompleted(o)
  BY <1>15 DEF MarkCompleted, Goto, TypeOK
<1>16. CASE Enrichment(o)
  BY <1>16 DEF Enrichment, Goto, TypeOK
<1>17. CASE LoadTasks(o)
  BY <1>17 DEF LoadTasks, Goto, TypeOK
<1>18. CASE LoadJob(o)
  BY <1>18 DEF LoadJob, Goto, TypeOK
<1>19. CASE Advance(o)
  BY <1>19 DEF Advance, Goto, TypeOK
<1>20. CASE CancelPending(o)
  BY <1>20 DEF CancelPending, Goto, TypeOK, local
<1>21. CASE CheckCompletionReturns(o)
  BY <1>21 DEF CheckCompletionReturns, Goto, TypeOK, local
<1>22. CASE CheckCompletion(o)
  BY <1>22 DEF CheckCompletion, Goto, TypeOK
<1>23. CASE Release(o)
  BY <1>23 DEF Release, Goto, TypeOK, local
<1>24. CASE Decrement(o)
  BY <1>24 DEF Decrement, Goto, TypeOK, local
<1>25. CASE PublishVerdict(o)
  BY <1>25 DEF PublishVerdict, Goto, TypeOK, local
<1>26. CASE JobWebhook(o)
  BY <1>26 DEF JobWebhook, Goto, TypeOK, local
<1>27. CASE InsertPostProc(o)
  BY <1>27 DEF InsertPostProc, Goto, TypeOK, local
<1>28. CASE TrackEnrichment(o)
  BY <1>28 DEF TrackEnrichment, Goto, TypeOK, local
<1>29. CASE MarkPiiReady(o)
  BY <1>29 DEF MarkPiiReady, Goto, TypeOK
<1>30. CASE QueuePiiFails(o)
  BY <1>30 DEF QueuePiiFails, Goto, TypeOK, local
<1>31. CASE TaskFailed(o)
  BY <1>31 DEF TaskFailed, Goto, TypeOK
<1>32. CASE SettleFailure(o)
  BY <1>32 DEF SettleFailure, Goto, TypeOK
<1>33. CASE EnrichmentFailed(o)
  BY <1>33 DEF EnrichmentFailed, Goto, TypeOK, local
<1>34. CASE EnsureJobFailed(o)
  BY <1>34 DEF EnsureJobFailed, Goto, TypeOK
<1>35. CASE FailJob(o)
  BY <1>35 DEF FailJob, Goto, TypeOK, local
<1>36. CASE TaskWaitTimeout(o)
  BY <1>36 DEF TaskWaitTimeout, Goto, TypeOK
<1>37. CASE SettleTimeout(o)
  BY <1>37 DEF SettleTimeout, Goto, TypeOK
<1>38. CASE CancelRequested(o)
  BY <1>38 DEF CancelRequested, Goto, TypeOK
<1>39. CASE CancelQueued(o)
  BY <1>39 DEF CancelQueued, Goto, TypeOK, local
<1>40. CASE LoadCancelledJob(o)
  BY <1>40 DEF LoadCancelledJob, Goto, TypeOK
<1>41. CASE CheckCancelled(o)
  BY <1>41 DEF CheckCancelled, Goto, TypeOK
<1>42. CASE AbandonEvent(o)
  BY <1>42 DEF AbandonEvent, Goto, TypeOK, ForgetLocals
<1> QED BY <1>1, <1>2, <1>3, <1>4, <1>5, <1>6, <1>7, <1>8, <1>9, <1>10, <1>11, <1>12, <1>13,
    <1>14, <1>15, <1>16, <1>17, <1>18, <1>19, <1>20, <1>21, <1>22, <1>23, <1>24, <1>25, <1>26,
    <1>27, <1>28, <1>29, <1>30, <1>31, <1>32, <1>33, <1>34, <1>35, <1>36, <1>37, <1>38, <1>39,
    <1>40, <1>41, <1>42
       DEF OrchestratorStep, HandlerStep

\* Only the loops over the roots and over the dependents, and a retry, reach queue_task.
LEMMA OnlyLoopsQueue ==
    ASSUME TypeOK, NEW o \in Orchestrators, OrchestratorStep(o) \/ AbandonEvent(o) \/ ClaimInFlight(o)
    PROVE  \/ BuildDag(o) \/ MarkRoot(o) \/ QueueTask(o) \/ QueueRetry(o) \/ Advance(o)
           \/ /\ UNCHANGED <<queue, active>>
              /\ pc'[o] \notin {"queueRoot", "queueDependent", "markRoot"}
<1>1. CASE ReadNew(o)
  BY <1>1, EventFacts DEF ReadNew, Goto, TypeOK, redis, At
<1>2. CASE ClaimStale(o)
  BY <1>2, EventFacts DEF ClaimStale, Goto, TypeOK, redis, At
<1>3. CASE ClaimInFlight(o)
  BY <1>3, EventFacts DEF ClaimInFlight, Goto, TypeOK, redis, At
<1>4. CASE AckEvent(o)
  BY <1>4 DEF AckEvent, Goto, TypeOK, redis
<1>5. CASE JobCreated(o)
  BY <1>5 DEF JobCreated, Goto, TypeOK, redis
<1>6. CASE BuildDagFails(o)
  BY <1>6 DEF BuildDagFails, Goto, TypeOK, redis
<1>7. CASE QueueTaskFails(o)
  BY <1>7 DEF QueueTaskFails, Goto, TypeOK, redis
<1>8. CASE QueueRetryFails(o)
  BY <1>8 DEF QueueRetryFails, Goto, TypeOK, redis
<1>9. CASE TaskStarted(o)
  BY <1>9 DEF TaskStarted, Goto, TypeOK, redis
<1>10. CASE TaskCompleted(o)
  BY <1>10 DEF TaskCompleted, Goto, TypeOK, redis
<1>11. CASE MarkCompleted(o)
  BY <1>11 DEF MarkCompleted, Goto, TypeOK, redis
<1>12. CASE Enrichment(o)
  BY <1>12 DEF Enrichment, Goto, TypeOK
<1>13. CASE LoadTasks(o)
  BY <1>13 DEF LoadTasks, Goto, TypeOK, redis
<1>14. CASE LoadJob(o)
  BY <1>14 DEF LoadJob, Goto, TypeOK, redis
<1>15. CASE CancelPending(o)
  BY <1>15 DEF CancelPending, Goto, TypeOK, redis
<1>16. CASE CheckCompletionReturns(o)
  BY <1>16 DEF CheckCompletionReturns, Goto, TypeOK, redis
<1>17. CASE CheckCompletion(o)
  BY <1>17 DEF CheckCompletion, Goto, TypeOK, redis
<1>18. CASE Release(o)
  BY <1>18 DEF Release, Goto, TypeOK
<1>19. CASE Decrement(o)
  BY <1>19 DEF Decrement, Goto, TypeOK
<1>20. CASE PublishVerdict(o)
  BY <1>20 DEF PublishVerdict, Goto, TypeOK, redis
<1>21. CASE JobWebhook(o)
  BY <1>21 DEF JobWebhook, Goto, TypeOK, redis
<1>22. CASE InsertPostProc(o)
  BY <1>22 DEF InsertPostProc, Goto, TypeOK, redis
<1>23. CASE TrackEnrichment(o)
  BY <1>23 DEF TrackEnrichment, Goto, TypeOK
<1>24. CASE MarkPiiReady(o)
  BY <1>24 DEF MarkPiiReady, Goto, TypeOK, redis
<1>25. CASE QueuePiiFails(o)
  BY <1>25 DEF QueuePiiFails, Goto, TypeOK
<1>26. CASE TaskFailed(o)
  BY <1>26 DEF TaskFailed, Goto, TypeOK, redis
<1>27. CASE SettleFailure(o)
  BY <1>27 DEF SettleFailure, Goto, TypeOK, redis
<1>28. CASE EnrichmentFailed(o)
  BY <1>28 DEF EnrichmentFailed, Goto, TypeOK
<1>29. CASE EnsureJobFailed(o)
  BY <1>29 DEF EnsureJobFailed, Goto, TypeOK, redis
<1>30. CASE FailJob(o)
  BY <1>30 DEF FailJob, Goto, TypeOK, redis
<1>31. CASE TaskWaitTimeout(o)
  BY <1>31 DEF TaskWaitTimeout, Goto, TypeOK, redis
<1>32. CASE SettleTimeout(o)
  BY <1>32 DEF SettleTimeout, Goto, TypeOK, redis
<1>33. CASE CancelRequested(o)
  BY <1>33 DEF CancelRequested, Goto, TypeOK
<1>34. CASE CancelQueued(o)
  BY <1>34 DEF CancelQueued, Goto, TypeOK, redis
<1>35. CASE LoadCancelledJob(o)
  BY <1>35 DEF LoadCancelledJob, Goto, TypeOK, redis
<1>36. CASE CheckCancelled(o)
  BY <1>36 DEF CheckCancelled, Goto, TypeOK, redis
<1>37. CASE AbandonEvent(o)
  BY <1>37 DEF AbandonEvent, Goto, TypeOK, redis
<1> QED BY <1>1, <1>2, <1>3, <1>4, <1>5, <1>6, <1>7, <1>8, <1>9, <1>10, <1>11, <1>12, <1>13,
    <1>14, <1>15, <1>16, <1>17, <1>18, <1>19, <1>20, <1>21, <1>22, <1>23, <1>24, <1>25, <1>26,
    <1>27, <1>28, <1>29, <1>30, <1>31, <1>32, <1>33, <1>34, <1>35, <1>36, <1>37
       DEF OrchestratorStep, HandlerStep

\* No statement takes a task back to PENDING, or its row away.
LEMMA MarkedStays ==
    ASSUME TypeOK, ControlInv, NEW o \in Orchestrators, OrchestratorStep(o) \/ AbandonEvent(o) \/ ClaimInFlight(o)
    PROVE  /\ \A t \in Pipeline : Unmarked(t)' => Unmarked(t)
           /\ \A t \in Pipeline : task'[t] = "absent" => task[t] = "absent"
<1> USE DEF Unmarked
<1>1. CASE ReadNew(o)
  BY <1>1 DEF ReadNew, db
<1>2. CASE ClaimStale(o)
  BY <1>2 DEF ClaimStale, db
<1>3. CASE ClaimInFlight(o)
  BY <1>3 DEF ClaimInFlight, db
<1>4. CASE AckEvent(o)
  BY <1>4 DEF AckEvent, db
<1>5. CASE JobCreated(o)
  BY <1>5 DEF JobCreated, db
<1>6. CASE BuildDagFails(o)
  BY <1>6 DEF BuildDagFails
<1>7. CASE BuildDag(o)
  <2>1. CASE UNCHANGED task
    BY <2>1
  <2>2. CASE /\ ~SomeExist(Pipeline)
             /\ task' = [t \in Tasks |-> IF t \in Pipeline THEN "pending" ELSE task[t]]
    BY <2>2, Members DEF SomeExist, TypeOK
  <2> QED BY <1>7, <2>1, <2>2 DEF BuildDag
<1>8. CASE MarkRoot(o)
  BY <1>8, Members DEF MarkRoot, TypeOK, OrmSet
<1>9. CASE QueueTask(o)
  BY <1>9 DEF QueueTask, db
<1>10. CASE QueueTaskFails(o)
  BY <1>10 DEF QueueTaskFails
<1>11. CASE QueueRetry(o)
  BY <1>11 DEF QueueRetry, db
<1>12. CASE QueueRetryFails(o)
  BY <1>12, Members DEF QueueRetryFails, TypeOK, OrmSet
<1>13. CASE TaskStarted(o)
  BY <1>13, Members DEF TaskStarted, TypeOK
<1>14. CASE TaskCompleted(o)
  BY <1>14 DEF TaskCompleted, db
<1>15. CASE MarkCompleted(o)
  BY <1>15, Members DEF MarkCompleted, TypeOK
<1>16. CASE Enrichment(o)
  BY <1>16 DEF Enrichment, db
<1>17. CASE LoadTasks(o)
  BY <1>17 DEF LoadTasks, db
<1>18. CASE LoadJob(o)
  BY <1>18 DEF LoadJob, db
<1>19. CASE Advance(o)
  BY <1>19, Members DEF Advance, TypeOK
<1>20. CASE CancelPending(o)
  BY <1>20, Members DEF CancelPending, TypeOK
<1>21. CASE CheckCompletionReturns(o)
  BY <1>21 DEF CheckCompletionReturns, db
<1>22. CASE CheckCompletion(o)
  BY <1>22 DEF CheckCompletion
<1>23. CASE Release(o)
  BY <1>23 DEF Release, db
<1>24. CASE Decrement(o)
  BY <1>24 DEF Decrement, db
<1>25. CASE PublishVerdict(o)
  BY <1>25 DEF PublishVerdict, db
<1>26. CASE JobWebhook(o)
  BY <1>26 DEF JobWebhook
<1>27. CASE InsertPostProc(o)
  BY <1>27, Members, ConstantsAssumption DEF InsertPostProc, TypeOK
<1>28. CASE TrackEnrichment(o)
  BY <1>28 DEF TrackEnrichment, db
<1>29. CASE MarkPiiReady(o)
  BY <1>29, Members DEF MarkPiiReady, TypeOK
<1>30. CASE QueuePiiFails(o)
  BY <1>30 DEF QueuePiiFails, db
<1>31. CASE TaskFailed(o)
  BY <1>31 DEF TaskFailed, db
<1>32. CASE SettleFailure(o)
  BY <1>32, Members DEF SettleFailure, TypeOK
<1>33. CASE EnrichmentFailed(o)
  BY <1>33 DEF EnrichmentFailed, db
<1>34. CASE EnsureJobFailed(o)
  BY <1>34 DEF EnsureJobFailed, db
<1>35. CASE FailJob(o)
  BY <1>35 DEF FailJob
<1>36. CASE TaskWaitTimeout(o)
  BY <1>36 DEF TaskWaitTimeout, db
<1>37. CASE SettleTimeout(o)
  BY <1>37, Members DEF SettleTimeout, TypeOK
<1>38. CASE CancelRequested(o)
  BY <1>38 DEF CancelRequested, db
<1>39. CASE CancelQueued(o)
  BY <1>39, Members DEF CancelQueued, TypeOK
<1>40. CASE LoadCancelledJob(o)
  BY <1>40 DEF LoadCancelledJob, db
<1>41. CASE CheckCancelled(o)
  BY <1>41 DEF CheckCancelled
<1>42. CASE AbandonEvent(o)
  BY <1>42 DEF AbandonEvent, db
<1> QED BY <1>1, <1>2, <1>3, <1>4, <1>5, <1>6, <1>7, <1>8, <1>9, <1>10, <1>11, <1>12, <1>13,
    <1>14, <1>15, <1>16, <1>17, <1>18, <1>19, <1>20, <1>21, <1>22, <1>23, <1>24, <1>25, <1>26,
    <1>27, <1>28, <1>29, <1>30, <1>31, <1>32, <1>33, <1>34, <1>35, <1>36, <1>37, <1>38, <1>39,
    <1>40, <1>41, <1>42
       DEF OrchestratorStep, HandlerStep

\* Nobody handles anything in the initial state.
LEMMA QueuesInit == Init => QueuesInv
BY DEF Init, QueuesInv, AfterTask

\* The code that queues is reached from the rows' insertion or from a task's event.
LEMMA QueuesStep ==
    ASSUME TypeOK, ControlInv, QueuesInv, DispatchInv, [Next]_vars
    PROVE  QueuesInv'
<1> USE DEF QueuesInv, AfterTask
<1>1. ASSUME NEW o \in Orchestrators, ReadNew(o) PROVE QueuesInv'
  BY <1>1, EventFacts DEF ReadNew, At, Goto, TypeOK, local
<1>2. ASSUME NEW o \in Orchestrators, ClaimStale(o) PROVE QueuesInv'
  BY <1>2, EventFacts DEF ClaimStale, At, Goto, TypeOK, local
<1>3. ASSUME NEW o \in Orchestrators, ClaimInFlight(o) PROVE QueuesInv'
  BY <1>3, EventFacts DEF ClaimInFlight, At, Goto, TypeOK, local
<1>4. ASSUME NEW o \in Orchestrators, AckEvent(o) PROVE QueuesInv'
  BY <1>4 DEF AckEvent, At, Goto, TypeOK, ForgetLocals, JobEvent, TaskEvents
<1>5. ASSUME NEW o \in Orchestrators, JobCreated(o) PROVE QueuesInv'
  BY <1>5 DEF JobCreated, At, Goto, TypeOK
<1>6. ASSUME NEW o \in Orchestrators, BuildDagFails(o) PROVE QueuesInv'
  BY <1>6 DEF BuildDagFails, At, Goto, TypeOK
<1>7. ASSUME NEW o \in Orchestrators, BuildDag(o) PROVE QueuesInv'
  BY <1>7 DEF BuildDag, At, Goto, TypeOK
<1>8. ASSUME NEW o \in Orchestrators, MarkRoot(o) PROVE QueuesInv'
  <2>1. CASE todo[o] = {} /\ Goto(o, "ack") /\ UNCHANGED <<todo, cur>>
    BY <1>8, <2>1 DEF MarkRoot, Goto, TypeOK
  <2>2. ASSUME NEW t \in todo[o], todo' = [todo EXCEPT ![o] = @ \ {t}],
               cur' = [cur EXCEPT ![o] = t], Goto(o, "queueRoot")
        PROVE  QueuesInv'
    <3>1. todo[o] = Roots(Pipeline)
      BY <1>8, <2>2 DEF DispatchInv, AtRoots, MarkRoot
    <3>2. todo[o] = {t}
      BY <2>2, <3>1, ConstantsAssumption DEF Roots
    <3> QED BY <1>8, <2>2, <3>1, <3>2 DEF MarkRoot, Goto, TypeOK
  <2> QED BY <1>8, <2>1, <2>2 DEF MarkRoot
<1>9. ASSUME NEW o \in Orchestrators, QueueTask(o) PROVE QueuesInv'
  BY <1>9 DEF QueueTask, At, Goto, TypeOK
<1>10. ASSUME NEW o \in Orchestrators, QueueTaskFails(o) PROVE QueuesInv'
  BY <1>10 DEF QueueTaskFails, At, Goto, TypeOK
<1>11. ASSUME NEW o \in Orchestrators, QueueRetry(o) PROVE QueuesInv'
  BY <1>11 DEF QueueRetry, At, Goto, TypeOK, local
<1>12. ASSUME NEW o \in Orchestrators, QueueRetryFails(o) PROVE QueuesInv'
  BY <1>12 DEF QueueRetryFails, At, Goto, TypeOK, local
<1>13. ASSUME NEW o \in Orchestrators, TaskStarted(o) PROVE QueuesInv'
  BY <1>13 DEF TaskStarted, At, Goto, TypeOK, local
<1>14. ASSUME NEW o \in Orchestrators, TaskCompleted(o) PROVE QueuesInv'
  BY <1>14 DEF TaskCompleted, At, Goto, TypeOK
<1>15. ASSUME NEW o \in Orchestrators, MarkCompleted(o) PROVE QueuesInv'
  BY <1>15 DEF MarkCompleted, At, Goto, TypeOK
<1>16. ASSUME NEW o \in Orchestrators, Enrichment(o) PROVE QueuesInv'
  BY <1>16 DEF Enrichment, At, Goto, TypeOK
<1>17. ASSUME NEW o \in Orchestrators, LoadTasks(o) PROVE QueuesInv'
  BY <1>17 DEF LoadTasks, At, Goto, TypeOK
<1>18. ASSUME NEW o \in Orchestrators, LoadJob(o) PROVE QueuesInv'
  BY <1>18 DEF LoadJob, At, Goto, TypeOK, ControlInv, TaskLabels
<1>19. ASSUME NEW o \in Orchestrators, Advance(o) PROVE QueuesInv'
  <2>1. CASE todo[o] = {} /\ Goto(o, "checkCompletion") /\ UNCHANGED <<todo, cur>>
    BY <1>19, <2>1 DEF Advance, At, Goto, TypeOK
  <2>2. ASSUME NEW d \in todo[o], todo' = [todo EXCEPT ![o] = @ \ {d}],
               cur' = [cur EXCEPT ![o] = d], Goto(o, "queueDependent")
        PROVE  QueuesInv'
    BY <1>19, <2>2 DEF Advance, At, Goto, TypeOK
  <2>3. ASSUME NEW d \in todo[o], todo' = [todo EXCEPT ![o] = @ \ {d}], UNCHANGED <<cur, pc>>
        PROVE  QueuesInv'
    BY <1>19, <2>3 DEF Advance, At, TypeOK
  <2> QED BY <1>19, <2>1, <2>2, <2>3 DEF Advance
<1>20. ASSUME NEW o \in Orchestrators, CancelPending(o) PROVE QueuesInv'
  BY <1>20 DEF CancelPending, At, Goto, TypeOK, local
<1>21. ASSUME NEW o \in Orchestrators, CheckCompletionReturns(o) PROVE QueuesInv'
  BY <1>21 DEF CheckCompletionReturns, At, Goto, TypeOK, local
<1>22. ASSUME NEW o \in Orchestrators, CheckCompletion(o) PROVE QueuesInv'
  BY <1>22 DEF CheckCompletion, At, Goto, TypeOK
<1>23. ASSUME NEW o \in Orchestrators, Release(o) PROVE QueuesInv'
  BY <1>23 DEF Release, At, Goto, TypeOK, local
<1>24. ASSUME NEW o \in Orchestrators, Decrement(o) PROVE QueuesInv'
  BY <1>24 DEF Decrement, At, Goto, TypeOK, local
<1>25. ASSUME NEW o \in Orchestrators, PublishVerdict(o) PROVE QueuesInv'
  BY <1>25 DEF PublishVerdict, At, Goto, TypeOK, local
<1>26. ASSUME NEW o \in Orchestrators, JobWebhook(o) PROVE QueuesInv'
  BY <1>26 DEF JobWebhook, At, Goto, TypeOK, local
<1>27. ASSUME NEW o \in Orchestrators, InsertPostProc(o) PROVE QueuesInv'
  BY <1>27 DEF InsertPostProc, At, Goto, TypeOK, local
<1>28. ASSUME NEW o \in Orchestrators, TrackEnrichment(o) PROVE QueuesInv'
  BY <1>28 DEF TrackEnrichment, At, Goto, TypeOK, local
<1>29. ASSUME NEW o \in Orchestrators, MarkPiiReady(o) PROVE QueuesInv'
  BY <1>29 DEF MarkPiiReady, At, Goto, TypeOK, Roots
<1>30. ASSUME NEW o \in Orchestrators, QueuePiiFails(o) PROVE QueuesInv'
  BY <1>30 DEF QueuePiiFails, At, Goto, TypeOK, local
<1>31. ASSUME NEW o \in Orchestrators, TaskFailed(o) PROVE QueuesInv'
  BY <1>31 DEF TaskFailed, At, Goto, TypeOK
<1>32. ASSUME NEW o \in Orchestrators, SettleFailure(o) PROVE QueuesInv'
  BY <1>32 DEF SettleFailure, At, Goto, TypeOK
<1>33. ASSUME NEW o \in Orchestrators, EnrichmentFailed(o) PROVE QueuesInv'
  BY <1>33 DEF EnrichmentFailed, At, Goto, TypeOK, local
<1>34. ASSUME NEW o \in Orchestrators, EnsureJobFailed(o) PROVE QueuesInv'
  BY <1>34 DEF EnsureJobFailed, At, Goto, TypeOK
<1>35. ASSUME NEW o \in Orchestrators, FailJob(o) PROVE QueuesInv'
  BY <1>35 DEF FailJob, At, Goto, TypeOK, local
<1>36. ASSUME NEW o \in Orchestrators, TaskWaitTimeout(o) PROVE QueuesInv'
  BY <1>36 DEF TaskWaitTimeout, At, Goto, TypeOK
<1>37. ASSUME NEW o \in Orchestrators, SettleTimeout(o) PROVE QueuesInv'
  BY <1>37 DEF SettleTimeout, At, Goto, TypeOK
<1>38. ASSUME NEW o \in Orchestrators, CancelRequested(o) PROVE QueuesInv'
  BY <1>38 DEF CancelRequested, At, Goto, TypeOK
<1>39. ASSUME NEW o \in Orchestrators, CancelQueued(o) PROVE QueuesInv'
  BY <1>39 DEF CancelQueued, At, Goto, TypeOK, local
<1>40. ASSUME NEW o \in Orchestrators, LoadCancelledJob(o) PROVE QueuesInv'
  BY <1>40 DEF LoadCancelledJob, At, Goto, TypeOK
<1>41. ASSUME NEW o \in Orchestrators, CheckCancelled(o) PROVE QueuesInv'
  BY <1>41 DEF CheckCancelled, At, Goto, TypeOK
<1>42. ASSUME NEW o \in Orchestrators, AbandonEvent(o) PROVE QueuesInv'
  BY <1>42 DEF AbandonEvent, At, Goto, TypeOK, ForgetLocals, JobEvent, TaskEvents
<1>43. ASSUME NEW m \in Message, EngineStep(m) \/ WaitTimeout(m) \/ EngineRejects(m) \/ EngineDies(m)
     PROVE  UNCHANGED <<pc, ev, cur, todo, more>>
  BY <1>43 DEF EngineStep, EngineSkips, EngineStarts, EngineRejects, EngineCompletes, EngineFails,
      EngineDies, WaitTimeout, local
<1>44. CASE CancelRead \/ CancelStep \/ GatewayCrash \/ UNCHANGED vars
  BY <1>44 DEF CancelStep, CancelRead, CancelCommit, CancelPublish, CancelRelease, CancelDecrement,
      GatewayCrash, vars, local
<1>45. CASE UNCHANGED <<pc, ev, cur, todo, more>>
  BY <1>45
<1> QED BY <1>1, <1>2, <1>3, <1>4, <1>5, <1>6, <1>7, <1>8, <1>9, <1>10, <1>11, <1>12, <1>13,
    <1>14, <1>15, <1>16, <1>17, <1>18, <1>19, <1>20, <1>21, <1>22, <1>23, <1>24, <1>25, <1>26,
    <1>27, <1>28, <1>29, <1>30, <1>31, <1>32, <1>33, <1>34, <1>35, <1>36, <1>37, <1>38, <1>39,
    <1>40, <1>41, <1>42, <1>43, <1>44, <1>45
       DEF Next, Fault, OrchestratorStep, HandlerStep

\* The row of a stage that has been made READY, or cancelled, is never PENDING again.
LEMMA MarkedStep ==
    ASSUME TypeOK, ControlInv, [Next]_vars
    PROVE  /\ \A t \in Pipeline : Unmarked(t)' => Unmarked(t)
           /\ \A t \in Pipeline : task'[t] = "absent" => task[t] = "absent"
<1>1. ASSUME NEW m \in Message, EngineStep(m) \/ WaitTimeout(m) \/ EngineRejects(m) \/ EngineDies(m)
      PROVE  UNCHANGED task
  BY <1>1 DEF EngineStep, EngineSkips, EngineStarts, EngineRejects, EngineCompletes, EngineFails,
      EngineDies, WaitTimeout, db
<1>2. CASE UNCHANGED task
  BY <1>2 DEF Unmarked
<1>3. CASE CancelCommit
  BY <1>3, Members DEF CancelCommit, TypeOK, Unmarked
<1>4. ASSUME CancelRead \/ CancelPublish \/ CancelRelease \/ CancelDecrement \/ GatewayCrash \/ UNCHANGED vars
      PROVE  UNCHANGED task
  BY <1>4 DEF CancelRead, CancelPublish, CancelRelease, CancelDecrement, GatewayCrash, vars, db
<1> QED BY <1>1, <1>2, <1>3, <1>4, MarkedStays DEF Next, Fault, CancelStep

\* Until the root is queued there is nothing for an engine to do and no event of a task.
LEMMA QuietStays ==
    ASSUME TypeOK, ControlInv, QueuesInv, NothingStarted, \A q \in Orchestrators : pc[q] # "queueRoot",
           [Next]_vars
    PROVE  NothingStarted'
<1>1. \A q \in Orchestrators : pc[q] \notin TaskLabels \cup AfterTask
  BY DEF NothingStarted, ControlInv, QueuesInv
<1>2. CASE UNCHANGED <<queue, active, stream, pending, ev>>
  BY <1>2 DEF NothingStarted
<1>3. ASSUME NEW o \in Orchestrators, ReadNew(o) PROVE NothingStarted'
  <2>1. stream[1].type \notin TaskEvents /\ \A i \in DOMAIN stream' : stream'[i].type \notin TaskEvents
    BY <1>3 DEF ReadNew, NothingStarted, TypeOK
  <2> QED BY <1>3, <2>1 DEF ReadNew, NothingStarted, TypeOK, redis
<1>4. ASSUME NEW o \in Orchestrators, ClaimStale(o) PROVE NothingStarted'
  BY <1>4 DEF ClaimStale, NothingStarted, TypeOK, redis
<1>5. ASSUME NEW o \in Orchestrators, ClaimInFlight(o) PROVE NothingStarted'
  BY <1>5 DEF ClaimInFlight, NothingStarted, TypeOK, redis, bus
<1>6. ASSUME NEW o \in Orchestrators,
             \/ JobCreated(o) \/ BuildDagFails(o) \/ BuildDag(o) \/ MarkRoot(o)
             \/ QueueTaskFails(o) \/ QueueRetryFails(o) \/ TaskStarted(o)
             \/ TaskCompleted(o) \/ MarkCompleted(o) \/ Enrichment(o) \/ LoadTasks(o)
             \/ LoadJob(o) \/ Advance(o) \/ CancelPending(o) \/ CheckCompletionReturns(o)
             \/ CheckCompletion(o) \/ Release(o) \/ Decrement(o) \/ JobWebhook(o)
             \/ InsertPostProc(o) \/ TrackEnrichment(o) \/ MarkPiiReady(o)
             \/ QueuePiiFails(o) \/ TaskFailed(o) \/ SettleFailure(o) \/ EnrichmentFailed(o)
             \/ EnsureJobFailed(o) \/ FailJob(o) \/ TaskWaitTimeout(o) \/ SettleTimeout(o)
             \/ CancelRequested(o) \/ CancelQueued(o) \/ LoadCancelledJob(o)
             \/ CheckCancelled(o)
      PROVE  UNCHANGED <<queue, active, stream, pending, ev>>
  BY <1>6 DEF JobCreated, BuildDagFails, BuildDag, MarkRoot, QueueTaskFails, QueueRetryFails,
        TaskStarted, TaskCompleted, MarkCompleted, Enrichment, LoadTasks, LoadJob, Advance,
        CancelPending, CheckCompletionReturns, CheckCompletion, Release, Decrement, JobWebhook,
        InsertPostProc, TrackEnrichment, MarkPiiReady, QueuePiiFails, TaskFailed,
        SettleFailure, EnrichmentFailed, EnsureJobFailed, FailJob, TaskWaitTimeout,
        SettleTimeout, CancelRequested, CancelQueued, LoadCancelledJob, CheckCancelled, db, s3,
        redis, bus, local
<1>7. ASSUME NEW o \in Orchestrators, AckEvent(o) PROVE NothingStarted'
  BY <1>7 DEF AckEvent, ForgetLocals, JobEvent, TaskEvents, NothingStarted, TypeOK, redis, bus
<1>8. ASSUME NEW o \in Orchestrators, AbandonEvent(o) PROVE NothingStarted'
  BY <1>8 DEF AbandonEvent, ForgetLocals, JobEvent, TaskEvents, NothingStarted, TypeOK, redis
<1>9. ASSUME NEW o \in Orchestrators, PublishVerdict(o) PROVE NothingStarted'
  <2>1. VerdictEvent(verdict[o]).type \notin TaskEvents
    BY DEF TypeOK, VerdictEvent, JobEvent, TerminalJobs, TaskEvents
  <2> QED BY <1>9, <2>1 DEF PublishVerdict, Publish, NothingStarted, TypeOK, redis
<1>10. ASSUME NEW o \in Orchestrators, QueueTask(o) \/ QueueRetry(o) PROVE FALSE
  BY <1>1, <1>10 DEF QueueTask, QueueRetry, At, TaskLabels, AfterTask
<1>11. ASSUME NEW m \in Message, EngineStep(m) \/ WaitTimeout(m) \/ EngineRejects(m) \/ EngineDies(m)
      PROVE  FALSE
  BY <1>11 DEF EngineStep, EngineSkips, EngineStarts, EngineRejects, EngineCompletes, EngineFails,
      EngineDies, WaitTimeout, NothingStarted
<1>12. CASE CancelPublish
  BY <1>12 DEF CancelPublish, Publish, JobEvent, TaskEvents, NothingStarted, TypeOK, redis
<1>13. ASSUME CancelRead \/ CancelCommit \/ CancelRelease \/ CancelDecrement \/ GatewayCrash \/ UNCHANGED vars
      PROVE  UNCHANGED <<queue, active, stream, pending, ev>>
  BY <1>13 DEF CancelRead, CancelCommit, CancelRelease, CancelDecrement, GatewayCrash, vars, redis, bus
<1> QED BY <1>2, <1>3, <1>4, <1>5, <1>6, <1>7, <1>8, <1>9, <1>10, <1>11, <1>12, <1>13
        DEF Next, Fault, OrchestratorStep, HandlerStep, CancelStep

Sent(t) == [task |-> t, key |-> NoKey] \in queue \cup active

\* The ways a step can change who has queued or is about to queue a stage: nobody else
\* does, o queues the one it holds, or o takes one that nobody has.
NobodyElse ==
    /\ \A t \in Pipeline : Sent(t)' => Sent(t)
    /\ \A q \in Orchestrators, t \in Pipeline : Dispatching(q, t)' => Dispatching(q, t)
Queues(o) ==
    /\ \A t \in Pipeline : Sent(t)' => Sent(t) \/ Dispatching(o, t)
    /\ \A q \in Orchestrators, t \in Pipeline : Dispatching(q, t)' => q # o /\ Dispatching(q, t)
Takes(o, d) ==
    /\ d \in Pipeline => /\ ~Sent(d) /\ task'[d] = "ready"
                         /\ \A q \in Orchestrators : ~Dispatching(q, d)
    /\ \A t \in Pipeline : Sent(t)' => Sent(t)
    /\ \A q \in Orchestrators, t \in Pipeline :
         Dispatching(q, t)' => (q = o /\ t = d) \/ (q # o /\ Dispatching(q, t))

\* handle_job_created and handle_task_completed commit READY before they queue.
LEMMA DispatchKinds ==
    ASSUME TypeOK, ControlInv, QueuesInv, DispatchInv, [Next]_vars
    PROVE  \/ NobodyElse
           \/ \E o \in Orchestrators : Queues(o) \/ \E d \in Tasks : Takes(o, d)
<1>1. ASSUME UNCHANGED <<pc, cur>>, \A t \in Pipeline : Sent(t)' => Sent(t) PROVE NobodyElse
  BY <1>1 DEF NobodyElse, Dispatching
<1>2. ASSUME NEW o \in Orchestrators, Elsewhere(o), UNCHANGED <<queue, active>>,
             pc'[o] \notin {"queueRoot", "queueDependent"}
      PROVE  NobodyElse
  BY <1>2 DEF NobodyElse, Dispatching, Elsewhere, Sent
<1>3. ASSUME NEW o \in Orchestrators, BuildDag(o) PROVE NobodyElse
  <2>1. UNCHANGED <<queue, active>> /\ pc'[o] \notin {"queueRoot", "queueDependent"}
    BY <1>3 DEF BuildDag, Goto, TypeOK, redis
  <2> QED BY <1>2, <1>3, <2>1, OthersKeepLocals DEF OrchestratorStep, HandlerStep
<1>4. ASSUME NEW o \in Orchestrators, MarkRoot(o)
      PROVE  NobodyElse \/ \E d \in Tasks : Takes(o, d)
  <2>1. Elsewhere(o) /\ UNCHANGED <<queue, active>>
    BY <1>4, OthersKeepLocals DEF OrchestratorStep, HandlerStep, MarkRoot, redis
  <2>2. CASE todo[o] = {} /\ Goto(o, "ack")
    BY <1>2, <2>1, <2>2 DEF Goto, TypeOK
  <2>3. ASSUME NEW t \in todo[o],
               task' = [task EXCEPT ![t] = OrmSet(@, memTask[o][t], "ready")],
               cur' = [cur EXCEPT ![o] = t], Goto(o, "queueRoot")
        PROVE  Takes(o, t) /\ t \in Tasks
    <3>1. AtRoots(o) /\ t \in Tasks
      BY <1>4, <2>3 DEF AtRoots, MarkRoot, TypeOK
    <3>2. NothingStarted /\ memTask[o][t] = "pending" /\ \A q \in Orchestrators : pc[q] # "queueRoot"
      BY <2>3, <3>1 DEF DispatchInv
    <3>3. \A q \in Orchestrators : ~Dispatching(q, t)
      BY <3>2 DEF Dispatching, NothingStarted, QueuesInv, AfterTask
    <3>4. ~Sent(t) /\ task'[t] = "ready"
      BY <2>3, <3>1, <3>2 DEF Sent, NothingStarted, OrmSet, TypeOK
    <3>5. pc'[o] = "queueRoot" /\ cur'[o] = t
      BY <2>3 DEF Goto, TypeOK
    <3> QED BY <2>1, <3>1, <3>3, <3>4, <3>5 DEF Takes, Dispatching, Elsewhere, Sent
  <2> QED BY <1>4, <2>2, <2>3 DEF MarkRoot
<1>5. ASSUME NEW o \in Orchestrators, QueueTask(o) PROVE Queues(o)
  <2>1. Elsewhere(o) /\ UNCHANGED active
    BY <1>5, OthersKeepLocals DEF OrchestratorStep, HandlerStep, QueueTask
  <2>2. queue' = queue \cup {[task |-> cur[o], key |-> NoKey]}
    BY <1>5 DEF QueueTask, AddTask
  <2>3. pc'[o] \notin {"queueRoot", "queueDependent"}
    BY <1>5 DEF QueueTask, Goto, TypeOK
  <2>4. \A t \in Pipeline : cur[o] = t => Dispatching(o, t)
    BY <1>5, ConstantsAssumption DEF QueueTask, At, QueuesInv, Dispatching
  <2> QED BY <2>1, <2>2, <2>3, <2>4 DEF Queues, Sent, Dispatching, Elsewhere
<1>6. ASSUME NEW o \in Orchestrators, QueueRetry(o) PROVE NobodyElse
  <2>1. Elsewhere(o) /\ UNCHANGED active
    BY <1>6, OthersKeepLocals DEF OrchestratorStep, HandlerStep, QueueRetry
  <2>2. pc'[o] = "ack"
    BY <1>6 DEF QueueRetry, Goto, TypeOK
  <2>3. queue' \subseteq queue \cup {[task |-> ev[o].task, key |-> memRetries[o]]}
    BY <1>6 DEF QueueRetry
  <2>4. memRetries[o] # NoKey
    BY ConstantsAssumption DEF TypeOK, NoKey
  <2>5. \A t \in Pipeline : Sent(t)' => Sent(t)
    BY <2>1, <2>3, <2>4 DEF Sent
  <2> QED BY <2>1, <2>2, <2>5 DEF NobodyElse, Dispatching, Elsewhere
<1>7. ASSUME NEW o \in Orchestrators, Advance(o)
      PROVE  NobodyElse \/ \E d \in Tasks : Takes(o, d)
  <2>1. Elsewhere(o) /\ UNCHANGED <<queue, active>>
    BY <1>7, OthersKeepLocals DEF OrchestratorStep, HandlerStep, Advance, redis
  <2>2. CASE todo[o] = {} /\ Goto(o, "checkCompletion")
    BY <1>2, <2>1, <2>2 DEF Goto, TypeOK
  <2>3. CASE UNCHANGED <<cur, pc>>
    BY <1>1, <2>1, <2>3 DEF Sent
  <2>4. ASSUME NEW d \in todo[o], task[d] = "pending", task' = [task EXCEPT ![d] = "ready"],
               cur' = [cur EXCEPT ![o] = d], Goto(o, "queueDependent")
        PROVE  Takes(o, d) /\ d \in Tasks
    <3>1. d \in Tasks /\ task'[d] = "ready" /\ pc'[o] = "queueDependent" /\ cur'[o] = d
      BY <2>4 DEF Goto, TypeOK
    <3>2. d \in Pipeline => ~Sent(d) /\ \A q \in Orchestrators : ~Dispatching(q, d)
      BY <2>4 DEF DispatchInv, Unmarked, Sent
    <3> QED BY <2>1, <3>1, <3>2 DEF Takes, Dispatching, Elsewhere, Sent
  <2> QED BY <1>7, <2>2, <2>3, <2>4 DEF Advance
<1>8. ASSUME NEW o \in Orchestrators, OrchestratorStep(o) \/ AbandonEvent(o) \/ ClaimInFlight(o)
      PROVE  NobodyElse \/ Queues(o) \/ \E d \in Tasks : Takes(o, d)
  BY <1>2, <1>3, <1>4, <1>5, <1>6, <1>7, <1>8, OnlyLoopsQueue, OthersKeepLocals
<1>9. ASSUME NEW m \in Message, EngineStep(m) \/ WaitTimeout(m) \/ EngineRejects(m) \/ EngineDies(m)
      PROVE  NobodyElse
  <2>1. UNCHANGED <<pc, cur>> /\ queue' \cup active' \subseteq queue \cup active
    BY <1>9 DEF EngineStep, EngineSkips, EngineStarts, EngineRejects, EngineCompletes, EngineFails,
        EngineDies, WaitTimeout, local
  <2> QED BY <1>1, <2>1 DEF Sent
<1>10. ASSUME CancelRead \/ CancelStep \/ GatewayCrash \/ UNCHANGED vars PROVE NobodyElse
  <2>1. UNCHANGED <<pc, cur, queue, active>>
    BY <1>10 DEF CancelStep, CancelRead, CancelCommit, CancelPublish, CancelRelease, CancelDecrement,
        GatewayCrash, vars, redis, local
  <2> QED BY <1>1, <2>1 DEF Sent
<1> QED BY <1>8, <1>9, <1>10 DEF Next, Fault


RootsKept(q) == AtRoots(q) /\ todo'[q] = todo[q] /\ memTask'[q] = memTask[q]
Builds(o) ==
    /\ ~SomeExist(Pipeline) /\ Elsewhere(o)
    /\ todo'[o] = Roots(Pipeline)
    /\ \A t \in Pipeline : task'[t] = "pending" /\ memTask'[o][t] = "pending"
    /\ UNCHANGED <<queue, active, stream, pending, ev>>
    /\ pc'[o] # "queueRoot"

\* The loop over the roots is entered by the commit that inserts the rows, and left with
\* its only root.
LEMMA RootKinds ==
    ASSUME TypeOK, ControlInv, QueuesInv, DispatchInv, [Next]_vars
    PROVE  \A q \in Orchestrators : /\ AtRoots(q)' => RootsKept(q) \/ Builds(q)
                                    /\ pc'[q] = "queueRoot" => pc[q] = "queueRoot" \/ AtRoots(q)
<1> DEFINE Fact(q) == /\ AtRoots(q)' => RootsKept(q) \/ Builds(q)
                      /\ pc'[q] = "queueRoot" => pc[q] = "queueRoot" \/ AtRoots(q)
<1>1. ASSUME NEW q \in Orchestrators, pc'[q] = pc[q], todo'[q] = todo[q], memTask'[q] = memTask[q]
      PROVE  Fact(q)
  BY <1>1 DEF AtRoots, At, RootsKept
<1>2. ASSUME NEW o \in Orchestrators, pc'[o] \notin {"queueRoot", "markRoot"} PROVE Fact(o)
  BY <1>2 DEF AtRoots, At
<1>3. ASSUME NEW o \in Orchestrators, BuildDag(o) PROVE Fact(o)
  <2>1. Elsewhere(o) /\ UNCHANGED <<queue, active, stream, pending, ev>>
    BY <1>3, OthersKeepLocals DEF OrchestratorStep, HandlerStep, BuildDag, redis, bus
  <2>2. CASE Goto(o, "ack")
    BY <1>2, <2>2 DEF Goto, TypeOK
  <2>3. CASE /\ ~SomeExist(Pipeline)
             /\ task' = [t \in Tasks |-> IF t \in Pipeline THEN "pending" ELSE task[t]]
             /\ memTask' = [memTask EXCEPT ![o] = task']
             /\ todo' = [todo EXCEPT ![o] = Roots(Pipeline)]
             /\ Goto(o, "markRoot")
    <3>1. todo'[o] = Roots(Pipeline) /\ pc'[o] = "markRoot" /\ memTask'[o] = task'
      BY <2>3 DEF Goto, TypeOK
    <3>2. \A t \in Pipeline : task'[t] = "pending"
      BY <2>3, Members
    <3>3. Builds(o)
      BY <2>1, <2>3, <3>1, <3>2 DEF Builds
    <3> QED BY <3>1, <3>3
  <2> QED BY <1>3, <2>2, <2>3 DEF BuildDag
<1>4. ASSUME NEW o \in Orchestrators, MarkRoot(o) PROVE Fact(o)
  <2>1. CASE Goto(o, "ack")
    BY <1>2, <2>1 DEF Goto, TypeOK
  <2>2. CASE todo[o] # {} /\ Goto(o, "queueRoot")
    BY <1>4, <2>2 DEF MarkRoot, Goto, TypeOK, AtRoots, At
  <2> QED BY <1>4, <2>1, <2>2 DEF MarkRoot
<1>5. ASSUME NEW o \in Orchestrators, QueueTask(o) PROVE Fact(o)
  <2>1. CASE At(o, "queueRoot")
    <3>1. todo'[o] = {} /\ pc'[o] = "markRoot"
      BY <1>5, <2>1 DEF QueueTask, At, Goto, TypeOK, QueuesInv
    <3> QED BY <3>1 DEF AtRoots, At
  <2>2. CASE pc[o] # "queueRoot"
    BY <1>2, <1>5, <2>2 DEF QueueTask, At, Goto, TypeOK
  <2> QED BY <2>1, <2>2 DEF At
<1>6. ASSUME NEW o \in Orchestrators, QueueRetry(o) PROVE Fact(o)
  BY <1>2, <1>6 DEF QueueRetry, Goto, TypeOK
<1>7. ASSUME NEW o \in Orchestrators, Advance(o) PROVE Fact(o)
  BY <1>2, <1>7 DEF Advance, At, Goto, TypeOK
<1>8. ASSUME NEW o \in Orchestrators, OrchestratorStep(o) \/ AbandonEvent(o) \/ ClaimInFlight(o)
      PROVE  \A q \in Orchestrators : Fact(q)
  <2>1. Fact(o)
    BY <1>2, <1>3, <1>4, <1>5, <1>6, <1>7, <1>8, OnlyLoopsQueue
  <2>2. \A q \in Orchestrators \ {o} : Fact(q)
    BY <1>1, <1>8, OthersKeepLocals DEF Elsewhere
  <2> QED BY <2>1, <2>2
<1>9. ASSUME NEW m \in Message, EngineStep(m) \/ WaitTimeout(m) \/ EngineRejects(m) \/ EngineDies(m)
      PROVE  UNCHANGED <<pc, todo, memTask>>
  BY <1>9 DEF EngineStep, EngineSkips, EngineStarts, EngineRejects, EngineCompletes, EngineFails,
      EngineDies, WaitTimeout, local
<1>10. ASSUME CancelRead \/ CancelStep \/ GatewayCrash \/ UNCHANGED vars
      PROVE  UNCHANGED <<pc, todo, memTask>>
  BY <1>10 DEF CancelStep, CancelRead, CancelCommit, CancelPublish, CancelRelease, CancelDecrement,
      GatewayCrash, vars, local
<1>11. CASE UNCHANGED <<pc, todo, memTask>>
  BY <1>1, <1>11
<1> QED BY <1>8, <1>9, <1>10, <1>11 DEF Next, Fault

\* Nothing is queued in the initial state.
LEMMA DispatchInit == Init => DispatchInv
BY DEF Init, DispatchInv, DispatchedOnce, Dispatching, NothingStarted, AtRoots, At, JobEvent, TaskEvents

\* Each stage is taken once, by the handler that makes its row READY.
LEMMA DispatchStep ==
    ASSUME TypeOK, ControlInv, QueuesInv, DispatchInv, [Next]_vars
    PROVE  DispatchInv'
<1> DEFINE Free(t) == ~Sent(t) /\ \A o \in Orchestrators : ~Dispatching(o, t)
           Once(t) == \A o \in Orchestrators : Dispatching(o, t) =>
                        ~Sent(t) /\ \A q \in Orchestrators : Dispatching(q, t) => q = o
           Begun(o) == /\ NothingStarted /\ todo[o] = Roots(Pipeline)
                       /\ \A t \in Roots(Pipeline) : task[t] # "absent" /\ memTask[o][t] = "pending"
                       /\ \A q \in Orchestrators : pc[q] # "queueRoot" /\ (AtRoots(q) => q = o)
<1>1. /\ \A t \in Pipeline : Once(t) /\ (Unmarked(t) => Free(t))
      /\ \A t \in Roots(Pipeline) : Unmarked(t) => NothingStarted
      /\ \A o \in Orchestrators : AtRoots(o) => Begun(o)
  BY DEF DispatchInv, DispatchedOnce, Sent
<1>2. \A t \in Pipeline : Unmarked(t)' => Unmarked(t)
  BY MarkedStep
<1>3. ASSUME NEW t \in Pipeline PROVE (Once(t) /\ (Unmarked(t) => Free(t)))'
  <2>1. CASE NobodyElse
    BY <1>1, <1>2, <1>3, <2>1 DEF NobodyElse
  <2>2. ASSUME NEW o \in Orchestrators, Queues(o) PROVE (Once(t) /\ (Unmarked(t) => Free(t)))'
    BY <1>1, <1>2, <1>3, <2>2 DEF Queues
  <2>3. ASSUME NEW o \in Orchestrators, NEW d \in Tasks, Takes(o, d)
        PROVE  (Once(t) /\ (Unmarked(t) => Free(t)))'
    <3>1. CASE d = t
      <4>1. ~Unmarked(t)'
        BY <1>3, <2>3, <3>1 DEF Takes, Unmarked
      <4>2. ~Sent(t)' /\ \A q \in Orchestrators : Dispatching(q, t)' => q = o
        BY <1>3, <2>3, <3>1 DEF Takes
      <4> QED BY <4>1, <4>2
    <3>2. CASE d # t
      <4>1. /\ Sent(t)' => Sent(t)
            /\ \A q \in Orchestrators : Dispatching(q, t)' => Dispatching(q, t)
        BY <1>3, <2>3, <3>2 DEF Takes
      <4> QED BY <1>1, <1>2, <1>3, <4>1
    <3> QED BY <3>1, <3>2
  <2> QED BY <2>1, <2>2, <2>3, DispatchKinds
<1>4. ASSUME NEW t \in Roots(Pipeline), Unmarked(t)' PROVE NothingStarted'
  <2>1. t \in Pipeline /\ Unmarked(t) /\ NothingStarted
    BY <1>1, <1>2, <1>4 DEF Roots
  <2>2. \A q \in Orchestrators : pc[q] = "queueRoot" => cur[q] = t
    BY ConstantsAssumption DEF QueuesInv, Roots
  <2>3. \A q \in Orchestrators : pc[q] # "queueRoot"
    BY <1>1, <2>1, <2>2 DEF Dispatching
  <2> QED BY <2>1, <2>3, QuietStays
<1>5. ASSUME NEW o \in Orchestrators, AtRoots(o)' PROVE Begun(o)'
  <2>1. CASE RootsKept(o)
    <3>1. Begun(o) /\ todo'[o] = todo[o] /\ memTask'[o] = memTask[o]
      BY <1>1, <2>1 DEF RootsKept
    <3>2. NothingStarted'
      BY <3>1, QuietStays
    <3>3. \A t \in Roots(Pipeline) : task'[t] # "absent"
      BY <3>1, MarkedStep DEF Roots
    <3>4. \A q \in Orchestrators : pc'[q] # "queueRoot"
      BY <1>5, <3>1, RootKinds DEF AtRoots, At
    <3>5. \A q \in Orchestrators : AtRoots(q)' => q = o
      <4> SUFFICES ASSUME NEW q \in Orchestrators, AtRoots(q)', q # o PROVE FALSE
        OBVIOUS
      <4>1. ~RootsKept(q)
        BY <3>1 DEF RootsKept
      <4>2. Builds(q)
        BY <4>1, RootKinds
      <4>3. PICK r \in Roots(Pipeline) : TRUE
        BY ConstantsAssumption DEF Roots
      <4> QED BY <3>1, <4>2, <4>3 DEF Builds, SomeExist, Roots
    <3> QED BY <3>1, <3>2, <3>3, <3>4, <3>5
  <2>2. CASE Builds(o)
    <3>1. PICK r \in Roots(Pipeline) : r \in Pipeline /\ Unmarked(r) /\ task[r] = "absent"
      BY <2>2, ConstantsAssumption DEF Builds, SomeExist, Roots, Unmarked
    <3>2. NothingStarted /\ \A q \in Orchestrators : ~AtRoots(q)
      BY <1>1, <3>1
    <3>3. \A q \in Orchestrators : pc[q] # "queueRoot"
      <4>1. \A q \in Orchestrators : pc[q] = "queueRoot" => cur[q] = r
        BY <3>1, ConstantsAssumption DEF QueuesInv, Roots
      <4> QED BY <1>1, <3>1, <4>1 DEF Dispatching
    <3>4. NothingStarted' /\ todo'[o] = Roots(Pipeline)
      BY <2>2, <3>2 DEF Builds, NothingStarted
    <3>5. \A t \in Roots(Pipeline) : task'[t] # "absent" /\ memTask'[o][t] = "pending"
      BY <2>2 DEF Builds, Roots
    <3>6. \A q \in Orchestrators : pc'[q] # "queueRoot" /\ (AtRoots(q)' => q = o)
      BY <2>2, <3>2, <3>3 DEF Builds, Elsewhere, AtRoots, At
    <3> QED BY <3>4, <3>5, <3>6
  <2> QED BY <1>5, <2>1, <2>2, RootKinds
<1>6. DispatchedOnce'
  BY <1>3 DEF DispatchedOnce, Sent
<1> QED BY <1>3, <1>4, <1>5, <1>6 DEF DispatchInv, Sent


-----------------------------------------------------------------------------
(* PII findings *)

\* No transcript is patched in the initial state.
LEMMA PatchedInit == Init => PatchedHasFindings
BY DEF Init, PatchedHasFindings

\* update_transcript_with_pii runs when a pii_detect row says COMPLETED, which is a response.
LEMMA PatchedStep ==
    ASSUME TypeOK, OutputInv, PatchedHasFindings, [Next]_vars
    PROVE  PatchedHasFindings'
<1>1. \A t \in Roots(PostProc) : t \in Tasks
  BY DEF Roots, Tasks
<1>2. ASSUME UNCHANGED patched, \A t \in Tasks : output[t] => output'[t] PROVE PatchedHasFindings'
  BY <1>1, <1>2 DEF PatchedHasFindings
<1>3. ASSUME NEW o \in Orchestrators, Enrichment(o) PROVE PatchedHasFindings'
  <2>1. UNCHANGED output
    BY <1>3 DEF Enrichment
  <2>2. CASE UNCHANGED patched
    BY <1>2, <2>1, <2>2
  <2>3. CASE \E d \in Roots(PostProc) : task[d] = "completed"
    BY <1>1, <2>1, <2>3 DEF OutputInv, CompletedHasOutput, PatchedHasFindings
  <2> QED BY <1>3, <2>2, <2>3 DEF Enrichment
<1>4. ASSUME NEW m \in Message, EngineCompletes(m) \/ EngineDies(m) PROVE PatchedHasFindings'
  <2>1. UNCHANGED patched /\ output' \in {output, [output EXCEPT ![m.task] = TRUE]}
    BY <1>4 DEF EngineCompletes, EngineDies
  <2>2. \A t \in Tasks : output[t] => output'[t]
    BY <2>1, Members DEF TypeOK
  <2> QED BY <1>2, <2>1, <2>2
<1>5. ASSUME NEW o \in Orchestrators,
             \/ ReadNew(o) \/ ClaimStale(o) \/ ClaimInFlight(o) \/ AckEvent(o)
             \/ JobCreated(o) \/ BuildDagFails(o) \/ BuildDag(o) \/ MarkRoot(o)
             \/ QueueTask(o) \/ QueueTaskFails(o) \/ QueueRetry(o) \/ QueueRetryFails(o)
             \/ TaskStarted(o) \/ TaskCompleted(o) \/ MarkCompleted(o) \/ LoadTasks(o)
             \/ LoadJob(o) \/ Advance(o) \/ CancelPending(o) \/ CheckCompletionReturns(o)
             \/ CheckCompletion(o) \/ Release(o) \/ Decrement(o) \/ PublishVerdict(o)
             \/ JobWebhook(o) \/ InsertPostProc(o) \/ TrackEnrichment(o) \/ MarkPiiReady(o)
             \/ QueuePiiFails(o) \/ TaskFailed(o) \/ SettleFailure(o) \/ EnrichmentFailed(o)
             \/ EnsureJobFailed(o) \/ FailJob(o) \/ TaskWaitTimeout(o) \/ SettleTimeout(o)
             \/ CancelRequested(o) \/ CancelQueued(o) \/ LoadCancelledJob(o)
             \/ CheckCancelled(o) \/ AbandonEvent(o)
      PROVE  UNCHANGED s3
  BY <1>5 DEF ReadNew, ClaimStale, ClaimInFlight, AckEvent, JobCreated, BuildDagFails, BuildDag,
      MarkRoot, QueueTask, QueueTaskFails, QueueRetry, QueueRetryFails, TaskStarted,
      TaskCompleted, MarkCompleted, LoadTasks, LoadJob, Advance, CancelPending,
      CheckCompletionReturns, CheckCompletion, Release, Decrement, PublishVerdict, JobWebhook,
      InsertPostProc, TrackEnrichment, MarkPiiReady, QueuePiiFails, TaskFailed, SettleFailure,
      EnrichmentFailed, EnsureJobFailed, FailJob, TaskWaitTimeout, SettleTimeout,
      CancelRequested, CancelQueued, LoadCancelledJob, CheckCancelled, AbandonEvent
<1>6. ASSUME NEW m \in Message,
             \/ EngineSkips(m) \/ EngineStarts(m) \/ EngineRejects(m) \/ EngineFails(m)
             \/ WaitTimeout(m)
      PROVE  UNCHANGED s3
  BY <1>6 DEF EngineSkips, EngineStarts, EngineRejects, EngineFails, WaitTimeout
<1>7. ASSUME CancelRead \/ CancelStep \/ GatewayCrash \/ UNCHANGED vars PROVE UNCHANGED s3
  BY <1>7 DEF CancelStep, CancelRead, CancelCommit, CancelPublish, CancelRelease,
      CancelDecrement, GatewayCrash, vars
<1>8. CASE UNCHANGED s3
  BY <1>2, <1>8 DEF s3
<1> QED BY <1>3, <1>4, <1>5, <1>6, <1>7, <1>8
        DEF Next, Fault, OrchestratorStep, HandlerStep, EngineStep

-----------------------------------------------------------------------------
(* What a completed job has settled *)

\* Where _dispatch_event_dict starts a handler.
LEMMA EntryLabels ==
    ASSUME NEW e \in Event
    PROVE  Entry(e) \in {"job.created", "job.cancel_requested", "job.webhook"} \cup TaskEvents
BY DEF Event, Entry, TaskEvents, JobEvents, VerdictEvents

\* Nothing is loaded in the initial state.
LEMMA SettledInit == Init => SettledInv
BY Members DEF Init, SettledInv, CopyKept, NoMem

\* Whatever the handler does.
LEMMA SettledHandler ==
    ASSUME TypeOK, ControlInv, WholeInv, SettledInv, OneHandler, NEW o \in Orchestrators,
           OrchestratorStep(o) \/ AbandonEvent(o) \/ ClaimInFlight(o)
    PROVE  SettledInv'
<1>1. /\ Orchestrators = {o} /\ Tasks = Pipeline /\ PostProc = {} /\ \A t \in Tasks : t \in Pipeline
      /\ ev[o] \in Event /\ task \in [Tasks -> Row] /\ memTask \in [Orchestrators -> [Tasks -> Row]]
      /\ CopyKept(o) /\ (job = "completed" => Unconcerned(o) /\ \A t \in Tasks : Settled(t))
      /\ pc[o] \in TaskLabels => ev[o].task \in Tasks
  BY TaskOfEvent DEF OneHandler, Tasks, SettledInv, TypeOK, ControlInv
<1>a. SUFFICES /\ CopyKept(o)'
               /\ job' = "completed" => Unconcerned(o)' /\ \A t \in Tasks : Settled(t)'
  BY <1>1 DEF SettledInv
<1> USE <1>1 DEF CopyKept, Unconcerned, Settled, GoesByCopy, Unsettled, TypeOK, At, Goto, TaskLabels
<1>2. CASE ReadNew(o)
  <2>1. Head(stream) \in Event /\ ev'[o] = Head(stream) /\ pc'[o] = Entry(ev'[o])
    BY <1>2 DEF ReadNew
  <2>2. pc'[o] \in {"job.created", "job.cancel_requested", "job.webhook"} \cup TaskEvents
    BY <2>1, EntryLabels
  <2>3. UNCHANGED <<job, task, memJob, memTask>>
    BY <1>2 DEF ReadNew, local, db
  <2> QED BY <2>2, <2>3 DEF TaskEvents
<1>3. CASE ClaimStale(o)
  <2>1. ev'[o] \in Event /\ pc'[o] = Entry(ev'[o])
    BY <1>3 DEF ClaimStale
  <2>2. pc'[o] \in {"job.created", "job.cancel_requested", "job.webhook"} \cup TaskEvents
    BY <2>1, EntryLabels
  <2>3. UNCHANGED <<job, task, memJob, memTask>>
    BY <1>3 DEF ClaimStale, local, db
  <2> QED BY <2>2, <2>3 DEF TaskEvents
<1>4. CASE ClaimInFlight(o)
  BY <1>4 DEF ClaimInFlight, local, db
<1>5. CASE JobCreated(o)
  <2>1. job = "completed" => SomeExist(Tasks)
    BY ConstantsAssumption DEF SomeExist
  <2> QED BY <1>5, <2>1 DEF JobCreated, db
<1>6. CASE BuildDagFails(o)
  BY <1>6 DEF BuildDagFails, OrmSet, db
<1>7. CASE BuildDag(o)
  BY <1>7 DEF BuildDag, OrmSet, SomeExist, db
<1>8. CASE MarkRoot(o)
  <2>1. job' = job /\ job # "completed"
    BY <1>8 DEF MarkRoot
  <2>2. CASE UNCHANGED <<task, memTask>> /\ pc'[o] = "ack"
    BY <2>1, <2>2
  <2>3. ASSUME NEW t \in todo[o], task' = [task EXCEPT ![t] = OrmSet(@, memTask[o][t], "ready")],
               memTask' = [memTask EXCEPT ![o][t] = "ready"], pc'[o] = "queueRoot"
        PROVE  CopyKept(o)'
    <3>1. \A x \in Tasks : x # t => task'[x] = task[x] /\ memTask'[o][x] = memTask[o][x]
      BY <2>3
    <3>2. memTask'[o][t] = "ready"
      BY <2>3
    <3> QED BY <2>3, <3>1, <3>2
  <2> QED BY <1>8, <2>1, <2>2, <2>3 DEF MarkRoot
<1>9. CASE QueueTask(o)
  BY <1>9 DEF QueueTask, db
<1>10. CASE QueueTaskFails(o)
  BY <1>10 DEF QueueTaskFails, OrmSet, db
<1>11. CASE QueueRetry(o)
  BY <1>11 DEF QueueRetry, local, db
<1>12. CASE QueueRetryFails(o)
  BY <1>12 DEF QueueRetryFails, OrmSet, local, db
<1>13. CASE TaskStarted(o)
  BY <1>13 DEF TaskStarted, local, db
<1>14. CASE TaskCompleted(o)
  BY <1>14 DEF TaskCompleted, AlreadyDone, db
<1>15. CASE MarkCompleted(o)
  BY <1>15 DEF MarkCompleted, db
<1>16. CASE Enrichment(o)
  BY <1>16 DEF Enrichment, db
<1>17. CASE LoadTasks(o)
  BY <1>17 DEF LoadTasks, db
<1>18. CASE LoadJob(o)
  BY <1>18 DEF LoadJob, ReadyDependents, db
<1>19. CASE Advance(o)
  <2>1. UNCHANGED <<job, ev, memJob, memTask>>
    BY <1>19 DEF Advance
  <2>2. CASE UNCHANGED task /\ pc'[o] \in {"advance", "checkCompletion"}
    BY <1>19, <2>1, <2>2 DEF Advance
  <2>3. ASSUME NEW d \in Tasks, task[d] = "pending", task' = [task EXCEPT ![d] = "ready"],
               pc'[o] = "queueDependent"
        PROVE  CopyKept(o)' /\ job # "completed"
    BY <2>1, <2>3
  <2> QED BY <1>19, <2>1, <2>2, <2>3 DEF Advance
<1>20. CASE CancelPending(o)
  BY <1>20 DEF CancelPending, local, db
<1>21. CASE CheckCompletionReturns(o)
  BY <1>21 DEF CheckCompletionReturns, local, db
<1>22. CASE CheckCompletion(o)
  <2>1. UNCHANGED <<task, ev, memTask>> /\ pc'[o] = "release" /\ pc[o] = "checkCompletion"
    BY <1>22 DEF CheckCompletion
  <2>2. job # "completed"
    BY <1>22, <2>1 DEF CheckCompletion, TerminalJobs
  <2>3. job' = "completed" => \A t \in Tasks : memTask[o][t] = "completed"
    BY <1>22, <2>2 DEF CheckCompletion, OrmSet, AllDone, AnyFailed, Required, TERMINAL_TASK_STATES, WholeInv
  <2> QED BY <2>1, <2>3
<1>23. CASE Release(o)
  BY <1>23 DEF Release, local, db
<1>24. CASE Decrement(o)
  BY <1>24 DEF Decrement, local, db
<1>25. CASE PublishVerdict(o)
  BY <1>25 DEF PublishVerdict, local, db
<1>26. CASE JobWebhook(o)
  BY <1>26 DEF JobWebhook, local, db
<1>27. CASE InsertPostProc(o)
  BY <1>27 DEF InsertPostProc, local, db
<1>28. CASE TrackEnrichment(o)
  BY <1>28 DEF TrackEnrichment, local, db
<1>29. CASE MarkPiiReady(o)
  BY <1>29 DEF MarkPiiReady, Roots
<1>30. CASE QueuePiiFails(o)
  BY <1>30 DEF QueuePiiFails, local, db
<1>31. CASE TaskFailed(o)
  <2>1. UNCHANGED <<job, task, ev, memJob>> /\ ev[o].task \in Tasks /\ pc[o] = "task.failed"
        /\ memTask' = [memTask EXCEPT ![o][ev[o].task] = task[ev[o].task]]
    BY <1>31, TaskOfEvent DEF TaskFailed, db, TaskEvents
  <2>2. /\ pc'[o] = "settleFailure" => task[ev[o].task] = "running"
        /\ pc'[o] = "queueRetry" => task[ev[o].task] = "ready"
        /\ pc'[o] = "ensureJobFailed" => task[ev[o].task] = "failed"
        /\ pc'[o] \in {"settleFailure", "queueRetry", "enrichment", "ensureJobFailed", "ack"}
    BY <1>31, <2>1 DEF TaskFailed, Row, TaskStatus
  <2>3. CopyKept(o)'
    BY <2>1, <2>2
  <2> QED BY <2>1, <2>2, <2>3
<1>32. CASE SettleFailure(o)
  BY <1>32 DEF SettleFailure, db
<1>33. CASE EnrichmentFailed(o)
  BY <1>33 DEF EnrichmentFailed, local, db
<1>34. CASE EnsureJobFailed(o)
  BY <1>34 DEF EnsureJobFailed, db
<1>35. CASE FailJob(o)
  BY <1>35 DEF FailJob, local, db
<1>36. CASE TaskWaitTimeout(o)
  <2>1. UNCHANGED <<job, task, ev, memJob>> /\ ev[o].task \in Tasks /\ pc[o] = "task.wait_timeout"
        /\ memTask' = [memTask EXCEPT ![o][ev[o].task] = task[ev[o].task]]
    BY <1>36, TaskOfEvent DEF TaskWaitTimeout, db, TaskEvents
  <2>2. /\ pc'[o] = "settleTimeout" => task[ev[o].task] \in {"ready", "pending"}
        /\ pc'[o] = "ensureJobFailed" => task[ev[o].task] = "failed"
        /\ pc'[o] \in {"settleTimeout", "enrichment", "ensureJobFailed", "ack"}
    BY <1>36, <2>1 DEF TaskWaitTimeout, Row, TaskStatus
  <2>3. CopyKept(o)'
    BY <2>1, <2>2
  <2> QED BY <2>1, <2>2, <2>3
<1>37. CASE SettleTimeout(o)
  BY <1>37 DEF SettleTimeout, db
<1>38. CASE CancelRequested(o)
  BY <1>38 DEF CancelRequested, db
<1>39. CASE CancelQueued(o)
  BY <1>39 DEF CancelQueued, local, db
<1>40. CASE LoadCancelledJob(o)
  BY <1>40 DEF LoadCancelledJob, db
<1>41. CASE CheckCancelled(o)
  BY <1>41 DEF CheckCancelled, db
<1>42. CASE AckEvent(o)
  BY <1>42 DEF AckEvent, ForgetLocals, NoMem, db
<1>43. CASE AbandonEvent(o)
  BY <1>43 DEF AbandonEvent, ForgetLocals, NoMem, db
<1> QED BY <1>2, <1>3, <1>4, <1>5, <1>6, <1>7, <1>8, <1>9, <1>10, <1>11, <1>12, <1>13, <1>14, <1>15, <1>16, <1>17, <1>18, <1>19, <1>20, <1>21, <1>22, <1>23, <1>24, <1>25, <1>26, <1>27, <1>28, <1>29, <1>30, <1>31, <1>32, <1>33, <1>34, <1>35, <1>36, <1>37, <1>38, <1>39, <1>40, <1>41, <1>42, <1>43 DEF OrchestratorStep, HandlerStep


\* Engines and the gateway: a row that the gateway cancels was not completed in the copy it
\* goes by, and counts as settled.
LEMMA SettledStep ==
    ASSUME TypeOK, ControlInv, WholeInv, SettledInv, [Next]_vars
    PROVE  SettledInv'
<1> SUFFICES ASSUME OneHandler PROVE SettledInv'
  BY DEF SettledInv
<1> USE DEF SettledInv, CopyKept, Unconcerned, Settled, GoesByCopy
<1>1. CASE UNCHANGED <<job, task, pc, ev, memJob, memTask>>
  BY <1>1
<1>2. ASSUME NEW o \in Orchestrators, OrchestratorStep(o) \/ AbandonEvent(o) \/ ClaimInFlight(o)
      PROVE  SettledInv'
  BY <1>2, SettledHandler
<1>3. ASSUME NEW m \in Message, EngineStep(m) \/ WaitTimeout(m) \/ EngineRejects(m) \/ EngineDies(m)
      PROVE  UNCHANGED <<job, task, pc, ev, memJob, memTask>>
  BY <1>3 DEF EngineStep, EngineSkips, EngineStarts, EngineCompletes, EngineFails, WaitTimeout,
              EngineRejects, EngineDies, db, local
<1>4. ASSUME CancelRead \/ CancelPublish \/ CancelRelease \/ CancelDecrement \/ GatewayCrash
      PROVE  UNCHANGED <<job, task, pc, ev, memJob, memTask>>
  BY <1>4 DEF CancelRead, CancelPublish, CancelRelease, CancelDecrement, GatewayCrash, db, local
<1>5. CASE CancelCommit
  <2>1. /\ UNCHANGED <<pc, ev, memJob, memTask>> /\ job' # "completed"
        /\ \A t \in Tasks : task'[t] \in {task[t], "cancelled"}
    BY <1>5 DEF CancelCommit, local
  <2> QED BY <2>1
<1>6. CASE UNCHANGED vars
  BY <1>6, <1>1 DEF vars, db, local
<1> QED BY <1>1, <1>2, <1>3, <1>4, <1>5, <1>6 DEF Next, Fault, CancelStep

-----------------------------------------------------------------------------
(* Who speaks of the verdict *)

\* The event that announces a verdict, and the verdict it announces.
LEMMA VerdictAnnounced ==
    ASSUME NEW s \in TerminalJobs
    PROVE  /\ VerdictEvent(s).type \in VerdictEvents /\ VerdictOf(VerdictEvent(s)) = s
           /\ VerdictEvent(s) \in Event
BY EventConstructors DEF VerdictEvent, VerdictOf, JobEvent, TerminalJobs, VerdictEvents

\* The steps of a handler that neither change the job's status nor speak of it.
QuietStep(o) ==
    \/ JobCreated(o) \/ MarkRoot(o) \/ QueueTask(o) \/ QueueRetry(o) \/ QueueRetryFails(o)
    \/ TaskStarted(o) \/ TaskCompleted(o) \/ MarkCompleted(o) \/ Enrichment(o) \/ LoadTasks(o)
    \/ LoadJob(o) \/ Advance(o) \/ CancelPending(o) \/ CheckCompletionReturns(o) \/ Release(o)
    \/ Decrement(o) \/ InsertPostProc(o) \/ TrackEnrichment(o) \/ MarkPiiReady(o)
    \/ QueuePiiFails(o) \/ TaskFailed(o) \/ SettleFailure(o) \/ EnrichmentFailed(o)
    \/ EnsureJobFailed(o) \/ TaskWaitTimeout(o) \/ SettleTimeout(o) \/ CancelRequested(o)
    \/ CancelQueued(o) \/ LoadCancelledJob(o) \/ CheckCancelled(o)

\* They leave the handler in agreement with the job, and only JobCreated goes on to plan it.
LEMMA QuietKeeps ==
    ASSUME TypeOK, ControlInv, NEW o \in Orchestrators, Agrees(o), QuietStep(o),
           job \in {"pending", "running", "completed", "failed"}
    PROVE  /\ Agrees(o)' /\ UNCHANGED <<job, webhooks, stream, pending>>
           /\ ~JobCreated(o) => /\ pc'[o] \notin {"job.created", "buildDag"}
                                /\ pc[o] \notin {"idle", "job.created", "buildDag"}
<1> USE DEF Agrees, GoesByCopy, CancelLabels, TypeOK, At, Goto, bus
<1>2. CASE JobCreated(o)
  BY <1>2 DEF JobCreated, db, bus
<1>3. CASE MarkRoot(o)
  BY <1>3 DEF MarkRoot, db, bus
<1>4. CASE QueueTask(o)
  BY <1>4 DEF QueueTask, db, bus
<1>5. CASE QueueRetry(o)
  BY <1>5 DEF QueueRetry, local, db, bus
<1>6. CASE QueueRetryFails(o)
  BY <1>6 DEF QueueRetryFails, local, db, bus
<1>7. CASE TaskStarted(o)
  BY <1>7 DEF TaskStarted, local, db, bus
<1>8. CASE TaskCompleted(o)
  BY <1>8 DEF TaskCompleted, AlreadyDone, db, bus
<1>9. CASE MarkCompleted(o)
  BY <1>9 DEF MarkCompleted, db, bus
<1>10. CASE Enrichment(o)
  BY <1>10 DEF Enrichment, db, bus
<1>11. CASE LoadTasks(o)
  BY <1>11 DEF LoadTasks, db, bus
<1>12. CASE LoadJob(o)
  BY <1>12 DEF LoadJob, db, bus
<1>13. CASE Advance(o)
  BY <1>13 DEF Advance, db, bus
<1>14. CASE CancelPending(o)
  BY <1>14 DEF CancelPending, local, db, bus
<1>15. CASE CheckCompletionReturns(o)
  BY <1>15 DEF CheckCompletionReturns, local, db, bus
<1>16. CASE Release(o)
  BY <1>16 DEF Release, local, db, bus
<1>17. CASE Decrement(o)
  BY <1>17 DEF Decrement, local, db, bus
<1>18. CASE InsertPostProc(o)
  BY <1>18 DEF InsertPostProc, local, db, bus
<1>19. CASE TrackEnrichment(o)
  BY <1>19 DEF TrackEnrichment, local, db, bus
<1>20. CASE MarkPiiReady(o)
  BY <1>20 DEF MarkPiiReady, db, bus
<1>21. CASE QueuePiiFails(o)
  BY <1>21 DEF QueuePiiFails, local, db, bus
<1>22. CASE TaskFailed(o)
  BY <1>22 DEF TaskFailed, db, bus
<1>23. CASE SettleFailure(o)
  BY <1>23 DEF SettleFailure, db, bus
<1>24. CASE EnrichmentFailed(o)
  BY <1>24 DEF EnrichmentFailed, local, db, bus
<1>25. CASE EnsureJobFailed(o)
  BY <1>25 DEF EnsureJobFailed, db, bus
<1>26. CASE TaskWaitTimeout(o)
  BY <1>26 DEF TaskWaitTimeout, db, bus
<1>27. CASE SettleTimeout(o)
  BY <1>27 DEF SettleTimeout, db, bus
<1>28. CASE CancelRequested(o)
  BY <1>28 DEF CancelRequested, db, bus
<1>29. CASE CancelQueued(o)
  BY <1>29 DEF CancelQueued, local, db, bus
<1>30. CASE LoadCancelledJob(o)
  BY <1>30 DEF LoadCancelledJob, db, bus
<1>31. CASE CheckCancelled(o)
  BY <1>31 DEF CheckCancelled, db, bus
<1> QED BY <1>2, <1>3, <1>4, <1>5, <1>6, <1>7, <1>8, <1>9, <1>10, <1>11, <1>12, <1>13, <1>14, <1>15, <1>16, <1>17, <1>18, <1>19, <1>20, <1>21, <1>22, <1>23, <1>24, <1>25, <1>26, <1>27, <1>28, <1>29, <1>30, <1>31 DEF QuietStep

\* Until somebody asks for a cancellation, everything that a handler does ...
LEMMA VerdictHandler ==
    ASSUME TypeOK, ControlInv, SettledInv, OneHandler, MaxFaults = 0, gw.pc = "idle", VerdictInv,
           NEW o \in Orchestrators, OrchestratorStep(o)
    PROVE  OneVerdict' /\ PlannedOnce' /\ VerdictsAgree'
<1>1. /\ Orchestrators = {o} /\ Agrees(o) /\ webhooks \subseteq {job} \cap TerminalJobs
      /\ job \in {"pending", "running", "completed", "failed"}
      /\ job = "completed" => pc[o] \notin Unsettled /\ (GoesByCopy(o) => memJob[o] = "completed")
      /\ stream \in Seq(Event) /\ memJob \in [Orchestrators -> JobStatus] /\ ev \in [Orchestrators -> Event]
      /\ verdict \in [Orchestrators -> TerminalJobs] /\ pc \in [Orchestrators -> Labels]
      /\ PlannedOnce /\ VerdictsAgree /\ OneVerdict
  BY DEF OneHandler, VerdictInv, VerdictsAgree, OneVerdict, SettledInv, Unconcerned, TypeOK
<1>2. \* What is on the stream.
      /\ DOMAIN stream = 1 .. Len(stream)
      /\ \A i \in 1 .. Len(stream) :
           /\ stream[i] \in Event /\ stream[i].type # "job.cancel_requested"
           /\ stream[i].type \in VerdictEvents => VerdictOf(stream[i]) = job
           /\ stream[i].type = "job.created" => job = "pending" /\ Len(stream) = 1 /\ pc[o] = "idle"
  BY <1>1 DEF VerdictsAgree, PlannedOnce
<1>3. ASSUME NEW e \in Event, e.type \in VerdictEvents PROVE VerdictOf(e) \in TerminalJobs
  BY <1>3 DEF VerdictOf, VerdictEvents, TerminalJobs
<1>4. job \notin TerminalJobs => /\ webhooks = {} /\ pc[o] # "job.webhook"
                                /\ \A i \in 1 .. Len(stream) : stream[i].type \notin VerdictEvents
  BY <1>1, <1>2, <1>3 DEF Agrees, ControlInv
<1>5. ASSUME job' \in {"running", "completed", "failed"}, pc[o] \notin {"idle", "job.created"},
             pc'[o] \notin {"job.created", "buildDag"}, UNCHANGED pending,
             \/ UNCHANGED stream
             \/ stream' = Append(stream, VerdictEvent(verdict[o])) /\ pc[o] = "publish"
      PROVE  PlannedOnce'
  <2>1. \A i \in 1 .. Len(stream) : stream[i].type # "job.created"
    BY <1>2, <1>5
  <2>2. \A i \in DOMAIN stream' : stream'[i].type # "job.created"
    <3>1. CASE UNCHANGED stream
      BY <1>2, <2>1, <3>1
    <3>2. CASE stream' = Append(stream, VerdictEvent(verdict[o]))
      <4>1. VerdictEvent(verdict[o]) \in Event /\ VerdictEvent(verdict[o]).type \in VerdictEvents
        BY <1>1, VerdictAnnounced
      <4>2. DOMAIN stream' = 1 .. Len(stream) + 1 /\ stream'[Len(stream) + 1] = VerdictEvent(verdict[o])
            /\ \A i \in 1 .. Len(stream) : stream'[i] = stream[i]
        BY <1>1, <3>2, <4>1
      <4> QED BY <2>1, <4>1, <4>2 DEF VerdictEvents
    <3> QED BY <1>5, <3>1, <3>2
  <2>3. \A e \in Event : pending'[e] = 0
    BY <1>1, <1>5 DEF PlannedOnce
  <2> QED BY <1>1, <1>5, <2>2, <2>3 DEF PlannedOnce
<1>6. ASSUME job' = job \/ job \notin TerminalJobs, job' \in {"pending", "running", "completed", "failed"},
             UNCHANGED <<stream, webhooks>>, Agrees(o)'
      PROVE  OneVerdict' /\ VerdictsAgree'
  <2>1. webhooks' \subseteq {job'}
    BY <1>1, <1>4, <1>6
  <2>2. \A i \in DOMAIN stream' : /\ stream'[i].type # "job.cancel_requested"
                                  /\ stream'[i].type \in VerdictEvents => VerdictOf(stream'[i]) = job'
    BY <1>2, <1>4, <1>6
  <2> QED BY <1>1, <1>6, <2>1, <2>2 DEF OneVerdict, VerdictsAgree
<1>7. job = "pending" => /\ NothingStarted /\ \A t \in Tasks : task[t] = "absent"
                         /\ pc[o] \in {"idle", "job.created", "buildDag"}
  BY <1>1 DEF PlannedOnce
<1>8. CASE QuietStep(o)
  <2>1. /\ Agrees(o)' /\ UNCHANGED <<job, webhooks, stream, pending>>
        /\ ~JobCreated(o) => /\ pc'[o] \notin {"job.created", "buildDag"}
                             /\ pc[o] \notin {"idle", "job.created", "buildDag"}
    BY <1>1, <1>8, QuietKeeps
  <2>2. OneVerdict' /\ VerdictsAgree'
    BY <1>1, <1>6, <2>1
  <2>3. CASE ~JobCreated(o)
    BY <1>1, <1>5, <1>7, <2>1, <2>2, <2>3
  <2>4. CASE JobCreated(o)
    <3>1. /\ pc[o] = "job.created" /\ job = "pending" /\ stream = <<>>
          /\ pc' = [pc EXCEPT ![o] = "buildDag"] /\ UNCHANGED <<task, queue, active, ev>>
      BY <1>1, <1>7, <2>4 DEF JobCreated, PlannedOnce, SomeExist, At, Goto, db, redis
    <3> QED BY <1>1, <1>7, <2>1, <2>2, <3>1 DEF PlannedOnce, NothingStarted
  <2> QED BY <2>2, <2>3, <2>4
<1>9. CASE ReadNew(o)
  <2>1. /\ stream # <<>> /\ pc[o] = "idle" /\ Len(stream) \in Nat \ {0} /\ stream' = Tail(stream)
        /\ Len(stream') = Len(stream) - 1 /\ DOMAIN stream' = 1 .. Len(stream')
        /\ \A i \in 1 .. Len(stream') : i + 1 \in 1 .. Len(stream) /\ stream'[i] = stream[i + 1]
        /\ Head(stream) = stream[1] /\ 1 \in 1 .. Len(stream)
    BY <1>1, <1>9 DEF ReadNew, At
  <2>2. /\ ev' = [ev EXCEPT ![o] = Head(stream)] /\ pc' = [pc EXCEPT ![o] = Entry(Head(stream))]
        /\ UNCHANGED <<job, task, webhooks, queue, active, pending, memJob, verdict>>
    BY <1>9 DEF ReadNew, Goto, db, redis, local
  <2>3. /\ ev'[o] \in Event /\ ev'[o].type # "job.cancel_requested" /\ pc'[o] = Entry(ev'[o])
        /\ ev'[o].type \in VerdictEvents => VerdictOf(ev'[o]) = job
        /\ ev'[o].type = "job.created" => job = "pending" /\ Len(stream) = 1
    BY <1>1, <1>2, <2>1, <2>2
  <2>4. /\ pc'[o] \in {"job.created", "job.webhook"} \cup TaskEvents
        /\ pc'[o] = "job.created" => ev'[o].type = "job.created"
        /\ pc'[o] = "job.webhook" => ev'[o].type \in VerdictEvents
    BY <2>3 DEF Entry, Event, JobEvents, TaskEvents, VerdictEvents
  <2>5. Agrees(o)'
    BY <2>2, <2>3, <2>4 DEF Agrees, GoesByCopy, CancelLabels, TaskEvents
  <2>6. /\ \A i \in DOMAIN stream' : /\ stream'[i].type # "job.cancel_requested"
                                     /\ stream'[i].type \in VerdictEvents => VerdictOf(stream'[i]) = job'
                                     /\ stream'[i].type # "job.created"
    BY <1>2, <2>1, <2>2
  <2>7. pc'[o] \in {"job.created", "buildDag"} => job' = "pending" /\ stream' = <<>>
    BY <1>1, <2>1, <2>2, <2>3, <2>4 DEF TaskEvents
  <2>8. ASSUME job' = "pending"
        PROVE  /\ NothingStarted' /\ \A t \in Tasks : task'[t] = "absent"
               /\ pc'[o] \in {"idle", "job.created", "buildDag"}
    <3>1. NothingStarted /\ job = "pending"
      BY <1>7, <2>2, <2>8
    <3>2. stream[1].type \notin TaskEvents /\ \A i \in DOMAIN stream' : stream'[i].type \notin TaskEvents
      BY <1>2, <2>1, <3>1 DEF NothingStarted
    <3>3. ev'[o].type \notin TaskEvents \cup VerdictEvents
      BY <1>1, <1>3, <2>1, <2>2, <2>3, <3>1, <3>2 DEF TerminalJobs
    <3>4. pc'[o] = "job.created"
      BY <2>3, <3>3 DEF Entry, Event, JobEvents
    <3> QED BY <1>1, <1>7, <2>2, <3>1, <3>2, <3>3, <3>4 DEF NothingStarted
  <2>9. PlannedOnce'
    BY <1>1, <2>2, <2>6, <2>7, <2>8 DEF PlannedOnce
  <2> QED BY <1>1, <2>2, <2>5, <2>6, <2>9 DEF OneVerdict, VerdictsAgree
<1>10. CASE ClaimStale(o)
  BY <1>1, <1>10 DEF ClaimStale, PlannedOnce
<1>11. CASE AckEvent(o)
  <2>1. /\ pc[o] = "ack" /\ pc'[o] = "idle" /\ UNCHANGED <<job, stream, webhooks, pending>>
    BY <1>1, <1>11 DEF AckEvent, At, Goto, db, bus
  <2>2. Agrees(o)'
    BY <2>1 DEF Agrees, GoesByCopy, CancelLabels
  <2>3. job' # "pending"
    BY <1>7, <2>1
  <2> QED BY <1>1, <1>5, <1>6, <2>1, <2>2, <2>3
<1>12. CASE BuildDagFails(o)
  <2>1. /\ pc[o] = "buildDag" /\ job = "pending" /\ memJob[o] = "pending" /\ pc'[o] = "release"
        /\ job' = "failed" /\ verdict'[o] = "failed" /\ UNCHANGED <<stream, webhooks, pending>>
    BY <1>1, <1>12 DEF BuildDagFails, Agrees, PlannedOnce, OrmSet, At, Goto, bus
  <2>2. Agrees(o)'
    BY <2>1 DEF Agrees, GoesByCopy, CancelLabels
  <2> QED BY <1>5, <1>6, <2>1, <2>2 DEF TerminalJobs
<1>13. CASE BuildDag(o)
  <2>1. /\ pc[o] = "buildDag" /\ job = "pending" /\ memJob[o] = "pending" /\ ~SomeExist(Pipeline)
    BY <1>1, <1>7, <1>13 DEF BuildDag, Agrees, PlannedOnce, At, SomeExist, Tasks
  <2>2. /\ pc'[o] = "markRoot" /\ job' = "running" /\ memJob'[o] = "running"
        /\ UNCHANGED <<stream, webhooks, pending>>
    BY <1>1, <1>13, <2>1 DEF BuildDag, OrmSet, Goto, bus
  <2>3. Agrees(o)'
    BY <2>2 DEF Agrees, GoesByCopy, CancelLabels
  <2> QED BY <1>5, <1>6, <2>1, <2>2, <2>3 DEF TerminalJobs
<1>14. CASE QueueTaskFails(o)
  <2>1. /\ pc[o] \in {"queueRoot", "queueDependent"} /\ memJob[o] = job /\ job # "completed"
        /\ pc'[o] = "release" /\ verdict'[o] = "failed" /\ UNCHANGED <<stream, webhooks, pending>>
    BY <1>1, <1>14 DEF QueueTaskFails, Agrees, GoesByCopy, Unsettled, Goto, bus
  <2>2. job' = "failed" /\ (job' = job \/ job \notin TerminalJobs)
    BY <1>1, <1>14, <2>1 DEF QueueTaskFails, OrmSet, TerminalJobs
  <2>3. Agrees(o)'
    BY <2>1, <2>2 DEF Agrees, GoesByCopy, CancelLabels
  <2> QED BY <1>5, <1>6, <2>1, <2>2, <2>3
<1>15. CASE CheckCompletion(o)
  <2>1. /\ pc[o] = "checkCompletion" /\ memJob[o] = job /\ job \notin TerminalJobs
        /\ pc'[o] = "release" /\ UNCHANGED <<stream, webhooks, pending>>
    BY <1>1, <1>15 DEF CheckCompletion, Agrees, GoesByCopy, At, Goto, bus
  <2>2. job' \in {"completed", "failed"} /\ verdict'[o] = job'
    BY <1>1, <1>15, <2>1 DEF CheckCompletion, OrmSet
  <2>3. Agrees(o)'
    BY <2>1, <2>2 DEF Agrees, GoesByCopy, CancelLabels
  <2> QED BY <1>5, <1>6, <2>1, <2>2, <2>3
<1>16. CASE FailJob(o)
  <2>1. /\ pc[o] = "failJob" /\ verdict[o] = "failed" /\ job # "completed" /\ pc'[o] = "release"
        /\ job' = "failed" /\ verdict' = verdict /\ UNCHANGED <<stream, webhooks, pending>>
    BY <1>1, <1>16 DEF FailJob, Agrees, Unsettled, At, Goto, bus, local
  <2>2. Agrees(o)'
    BY <2>1 DEF Agrees, GoesByCopy, CancelLabels
  <2> QED BY <1>1, <1>5, <1>6, <2>1, <2>2 DEF TerminalJobs
<1>17. CASE PublishVerdict(o)
  <2>1. /\ pc[o] = "publish" /\ pc'[o] \in {"insertPostProc", "ack"} /\ verdict[o] = job
        /\ stream' = Append(stream, VerdictEvent(verdict[o])) /\ UNCHANGED <<job, webhooks, pending>>
    BY <1>1, <1>17 DEF PublishVerdict, Agrees, Publish, At, Goto, db
  <2>2. Agrees(o)'
    BY <2>1 DEF Agrees, GoesByCopy, CancelLabels
  <2>3. /\ VerdictEvent(verdict[o]) \in Event /\ VerdictEvent(verdict[o]).type \in VerdictEvents
        /\ VerdictOf(VerdictEvent(verdict[o])) = job
    BY <1>1, <2>1, VerdictAnnounced
  <2>4. /\ DOMAIN stream' = 1 .. Len(stream) + 1 /\ stream'[Len(stream) + 1] = VerdictEvent(verdict[o])
        /\ \A i \in 1 .. Len(stream) : stream'[i] = stream[i]
    BY <1>1, <2>1, <2>3
  <2>5. \A i \in DOMAIN stream' : /\ stream'[i].type # "job.cancel_requested"
                                  /\ stream'[i].type \in VerdictEvents => VerdictOf(stream'[i]) = job'
    BY <1>2, <2>1, <2>3, <2>4 DEF VerdictEvents
  <2>6. PlannedOnce'
    BY <1>1, <1>5, <1>7, <2>1
  <2> QED BY <1>1, <2>1, <2>2, <2>5, <2>6 DEF OneVerdict, VerdictsAgree
<1>18. CASE JobWebhook(o)
  <2>1. /\ pc[o] = "job.webhook" /\ pc'[o] = "ack" /\ webhooks' = webhooks \cup {job}
        /\ UNCHANGED <<job, stream, pending>>
    BY <1>1, <1>18 DEF JobWebhook, Agrees, At, Goto, bus
  <2>2. Agrees(o)'
    BY <2>1 DEF Agrees, GoesByCopy, CancelLabels
  <2>3. PlannedOnce'
    BY <1>1, <1>5, <1>7, <2>1
  <2> QED BY <1>1, <1>2, <2>1, <2>2, <2>3 DEF OneVerdict, VerdictsAgree
<1> QED BY <1>8, <1>9, <1>10, <1>11, <1>12, <1>13, <1>14, <1>15, <1>16, <1>17, <1>18
        DEF OrchestratorStep, HandlerStep, QuietStep

\* ... and that engines and the gateway do, keeps to one verdict.
LEMMA VerdictStep ==
    ASSUME TypeOK, ControlInv, SettledInv, OneHandler, MaxFaults = 0, VerdictInv, [Next]_vars
    PROVE  VerdictInv'
<1> SUFFICES ASSUME gw'.pc = "idle" PROVE OneVerdict' /\ PlannedOnce' /\ VerdictsAgree'
  BY DEF VerdictInv, OneVerdict
<1>1. faults = 0
  BY DEF TypeOK
<1>2. ASSUME NEW o \in Orchestrators, OrchestratorStep(o) PROVE UNCHANGED gw
  BY <1>2 DEF OrchestratorStep, HandlerStep, ReadNew, ClaimStale, AckEvent, JobCreated, BuildDagFails,
       BuildDag, MarkRoot, QueueTask, QueueTaskFails, QueueRetry, QueueRetryFails, TaskStarted,
       TaskCompleted, MarkCompleted, Enrichment, LoadTasks, LoadJob, Advance, CancelPending,
       CheckCompletionReturns, CheckCompletion, Release, Decrement, PublishVerdict, JobWebhook,
       InsertPostProc, TrackEnrichment, MarkPiiReady, QueuePiiFails, TaskFailed, SettleFailure,
       EnrichmentFailed, EnsureJobFailed, FailJob, TaskWaitTimeout, SettleTimeout, CancelRequested,
       CancelQueued, LoadCancelledJob, CheckCancelled
<1>3. ASSUME NEW o \in Orchestrators, OrchestratorStep(o) PROVE OneVerdict' /\ PlannedOnce' /\ VerdictsAgree'
  BY <1>2, <1>3, VerdictHandler
<1>4. ASSUME NEW m \in Message, EngineStep(m) \/ WaitTimeout(m) PROVE OneVerdict' /\ PlannedOnce' /\ VerdictsAgree'
  <2>a. m \in queue \cup active /\ UNCHANGED gw
    BY <1>4 DEF EngineStep, EngineSkips, EngineStarts, EngineCompletes, EngineFails, WaitTimeout
  <2>b. UNCHANGED <<job, task, webhooks, pending, pc, ev, memJob, verdict>>
    BY ONLY <1>4 DEF EngineStep, EngineSkips, EngineStarts, EngineCompletes, EngineFails, WaitTimeout,
                     Publish, db, local, bus
  <2>1. /\ gw.pc = "idle" /\ m \in queue \cup active
        /\ UNCHANGED <<job, task, webhooks, pending, pc, ev, memJob, verdict>>
    BY <2>a, <2>b
  <2>2. /\ UNCHANGED stream \/ \E e \in Event : stream' = Append(stream, e) /\ e.type \in TaskEvents
    BY <1>4, EventConstructors, Members
       DEF EngineStep, EngineSkips, EngineStarts, EngineCompletes, EngineFails, WaitTimeout, Publish,
           TaskEvent, FatalFailure, TaskEvents, bus
  <2>3. OneVerdict /\ PlannedOnce /\ VerdictsAgree /\ job # "pending" /\ stream \in Seq(Event)
    BY <2>1 DEF VerdictInv, PlannedOnce, NothingStarted, TypeOK
  <2>4. \A i \in DOMAIN stream' : \/ i \in DOMAIN stream /\ stream'[i] = stream[i]
                                  \/ stream'[i].type \in TaskEvents
    BY <2>2, <2>3
  <2>5. \A o \in Orchestrators : pc[o] \notin {"job.created", "buildDag"}
    BY <2>3 DEF PlannedOnce
  <2>6. OneVerdict' /\ VerdictsAgree'
    BY <2>1, <2>3, <2>4 DEF OneVerdict, VerdictsAgree, Agrees, GoesByCopy, TaskEvents, VerdictEvents
  <2>7. \A i \in DOMAIN stream' : stream'[i].type # "job.created"
    BY <2>3, <2>4 DEF PlannedOnce, TaskEvents
  <2>8. PlannedOnce'
    BY <2>1, <2>3, <2>5, <2>7 DEF PlannedOnce
  <2> QED BY <2>6, <2>8
<1>5. CASE CancelRead \/ CancelStep
  BY <1>5 DEF CancelRead, CancelStep, CancelCommit, CancelPublish, CancelRelease, CancelDecrement,
              GwGoto, TypeOK
<1>6. CASE Fault
  BY <1>1, <1>6 DEF Fault, AbandonEvent, ClaimInFlight, EngineRejects, EngineDies, GatewayCrash
<1>7. CASE UNCHANGED vars
  BY <1>7 DEF vars, db, redis, bus, local, VerdictInv, OneVerdict, VerdictsAgree, Agrees, GoesByCopy,
              PlannedOnce, NothingStarted
<1> QED BY <1>3, <1>4, <1>5, <1>6, <1>7 DEF Next

\* The only event is job.created, and nobody handles it yet.
LEMMA VerdictInit == Init => VerdictInv
<1> SUFFICES ASSUME Init PROVE VerdictInv
  OBVIOUS
<1>1. /\ job = "pending" /\ webhooks = {} /\ stream = <<JobEvent("job.created")>> /\ queue = {} /\ active = {}
      /\ \A e \in Event : pending[e] = 0
      /\ \A t \in Tasks : task[t] = "absent"
      /\ \A o \in Orchestrators : pc[o] = "idle" /\ ev[o].type = "job.created"
  BY DEF Init, NoMem, JobEvent
<1>2. DOMAIN stream = {1} /\ Len(stream) = 1 /\ stream[1].type = "job.created"
  BY <1>1 DEF JobEvent
<1> QED BY <1>1, <1>2 DEF VerdictInv, OneVerdict, PlannedOnce, NothingStarted, VerdictsAgree, Agrees,
                        GoesByCopy, CancelLabels, TaskEvents, VerdictEvents

-----------------------------------------------------------------------------
(* The theorems *)

\* The conjunction of the invariants is inductive.
THEOREM PipelineInvariant == Spec => []PipelineInv
<1>1. Init => PipelineInv
  BY TypeInit, SlotInit, OutputInit, InputsInit, WholeInit, PatchedInit, QueuesInit, DispatchInit,
     SettledInit
     DEF PipelineInv
<1>2. PipelineInv /\ [Next]_vars => PipelineInv'
  BY TypeStep, ControlStep, SlotStep, OutputStep, InputsStep, WholeStep, PatchedStep, QueuesStep,
     DispatchStep, SettledStep DEF PipelineInv
<1> QED BY <1>1, <1>2, PTL DEF Spec

\* Replays, duplicate executions, late events and stale rows never make
\* handle_task_completed record a completion whose response is not in S3.
THEOREM CompletionsAreReal == Spec => []CompletedHasOutput
<1>1. PipelineInv => CompletedHasOutput
  BY DEF PipelineInv, OutputInv
<1> QED BY <1>1, PipelineInvariant, PTL

\* _gather_previous_responses finds the response of every dependency of a task that is
\* queued, first time or retry.
THEOREM InputsAreThere == Spec => []InputsExist
<1>1. PipelineInv => InputsExist
  BY DEF PipelineInv, InputsInv
<1> QED BY <1>1, PipelineInvariant, PTL

\* A job is COMPLETED only with the response of every stage, although
\* _check_job_completion decides on rows that were loaded before and cancel requests,
\* retries and replays may have changed since.
THEOREM CompletedJobsAreWhole == Spec => []CompletedJobIsWhole
<1>1. PipelineInv => CompletedJobIsWhole
  BY DEF PipelineInv, WholeInv
<1> QED BY <1>1, PipelineInvariant, PTL

\* The commit that inserts the rows and the conditional UPDATE arbitrate: no two handlers
\* put the same stage on its engine's stream, and none does so while it is there, for any
\* number of orchestrators, replays and cancel requests.
THEOREM StagesDispatchedOnce == Spec => []DispatchedOnce
<1>1. PipelineInv => DispatchedOnce
  BY DEF PipelineInv, DispatchInv
<1> QED BY <1>1, PipelineInvariant, PTL

\* update_transcript_with_pii never writes findings that no pii_detect response holds.
THEOREM PatchesHaveFindings == Spec => []PatchedHasFindings
<1>1. PipelineInv => PatchedHasFindings
  BY DEF PipelineInv
<1> QED BY <1>1, PipelineInvariant, PTL

\* With one orchestrator and no post-processing, a completed job is taken back by nothing but
\* a cancel request that was accepted before: no handler that could fail the job, plan it
\* anew or cancel it gets to do so, whatever is replayed, retried or late.
THEOREM CompletionsStay == ASSUME OneHandler PROVE Spec => CompletionStable
<1>1. ASSUME PipelineInv, [Next]_vars, job = "completed", gw.pc # "commit" PROVE job' = "completed"
  <2>1. /\ SettledInv /\ \A t \in Pipeline : Settled(t)
        /\ \A o \in Orchestrators : /\ pc[o] \notin Unsettled
                                    /\ GoesByCopy(o) => memJob[o] = "completed"
                                    /\ pc[o] = "checkCancelled" => memJob[o] # "cancelling"
    BY <1>1 DEF PipelineInv, SettledInv, Unconcerned
  <2> USE <1>1, <2>1 DEF Unsettled, At
  <2>2. ASSUME NEW o \in Orchestrators,
               BuildDagFails(o) \/ BuildDag(o) \/ QueueTaskFails(o) \/ FailJob(o)
        PROVE  FALSE
    BY <2>2 DEF BuildDagFails, BuildDag, QueueTaskFails, FailJob
  <2>3. ASSUME NEW o \in Orchestrators, CheckCompletion(o) PROVE FALSE
    BY <2>3 DEF CheckCompletion, GoesByCopy, TerminalJobs
  <2>4. ASSUME NEW o \in Orchestrators, CheckCancelled(o) PROVE UNCHANGED job
    BY <2>4 DEF CheckCancelled
  <2>5. ASSUME NEW o \in Orchestrators,
               \/ ReadNew(o) \/ ClaimStale(o) \/ ClaimInFlight(o) \/ AckEvent(o) \/ AbandonEvent(o)
               \/ JobCreated(o) \/ MarkRoot(o) \/ QueueTask(o) \/ QueueRetry(o) \/ QueueRetryFails(o)
               \/ TaskStarted(o) \/ TaskCompleted(o) \/ MarkCompleted(o) \/ Enrichment(o) \/ LoadTasks(o)
               \/ LoadJob(o) \/ Advance(o) \/ CancelPending(o) \/ CheckCompletionReturns(o)
        PROVE  UNCHANGED job
    BY <2>5 DEF ReadNew, ClaimStale, ClaimInFlight, AckEvent, AbandonEvent, JobCreated, MarkRoot,
                QueueTask, QueueRetry, QueueRetryFails, TaskStarted, TaskCompleted, MarkCompleted,
                Enrichment, LoadTasks, LoadJob, Advance, CancelPending, CheckCompletionReturns, db
  <2>6. ASSUME NEW o \in Orchestrators,
               \/ Release(o) \/ Decrement(o) \/ PublishVerdict(o) \/ JobWebhook(o) \/ InsertPostProc(o)
               \/ TrackEnrichment(o) \/ MarkPiiReady(o) \/ QueuePiiFails(o) \/ TaskFailed(o)
               \/ SettleFailure(o) \/ EnrichmentFailed(o) \/ EnsureJobFailed(o) \/ TaskWaitTimeout(o)
               \/ SettleTimeout(o) \/ CancelRequested(o) \/ CancelQueued(o) \/ LoadCancelledJob(o)
        PROVE  UNCHANGED job
    BY <2>6 DEF Release, Decrement, PublishVerdict, JobWebhook, InsertPostProc, TrackEnrichment,
                MarkPiiReady, QueuePiiFails, TaskFailed, SettleFailure, EnrichmentFailed,
                EnsureJobFailed, TaskWaitTimeout, SettleTimeout, CancelRequested, CancelQueued,
                LoadCancelledJob, db
  <2>7. ASSUME NEW m \in Message, EngineStep(m) \/ WaitTimeout(m) \/ EngineRejects(m) \/ EngineDies(m)
        PROVE  UNCHANGED job
    BY <2>7 DEF EngineStep, EngineSkips, EngineStarts, EngineCompletes, EngineFails, WaitTimeout,
                EngineRejects, EngineDies, db
  <2>8. ASSUME CancelRead \/ CancelStep \/ GatewayCrash PROVE UNCHANGED job
    BY <2>8 DEF CancelRead, CancelStep, CancelCommit, CancelPublish, CancelRelease, CancelDecrement,
                GatewayCrash, db
  <2>9. CASE UNCHANGED vars
    BY <2>9 DEF vars, db
  <2> QED BY <2>2, <2>3, <2>4, <2>5, <2>6, <2>7, <2>8, <2>9
             DEF Next, Fault, OrchestratorStep, HandlerStep
<1>2. PipelineInv /\ [Next]_vars => [(job = "completed" /\ gw.pc # "commit") => (job' = "completed")]_vars
  BY <1>1
<1> QED BY <1>2, PipelineInvariant, PTL DEF Spec, CompletionStable

\* With one orchestrator, no post-processing and no faults, the endpoints of a job that nobody
\* cancels hear one verdict, the job's status, since whoever publishes a verdict or hands one
\* to delivery agrees with the job's row, and nothing turns a verdict once it is published.
THEOREM VerdictInvariant == ASSUME OneHandler, MaxFaults = 0 PROVE Spec => []VerdictInv
<1>1. PipelineInv /\ VerdictInv /\ [Next]_vars => VerdictInv'
  BY VerdictStep DEF PipelineInv
<1> QED BY <1>1, VerdictInit, PipelineInvariant, PTL DEF Spec

\* _handle_job_webhook creates deliveries for the job's status only.
THEOREM OneVerdictIsHeard == ASSUME OneHandler, MaxFaults = 0 PROVE Spec => []OneVerdict
<1>1. VerdictInv => OneVerdict
  BY DEF VerdictInv
<1> QED BY <1>1, VerdictInvariant, PTL

=============================================================================
