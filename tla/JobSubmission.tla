--------------------------- MODULE JobSubmission ---------------------------
(***************************************************************************)
(* A transcription request from the gateway's rate limit check to the      *)
(* tasks the orchestrator plans for it, and the way the tenant's counter   *)
(* of concurrent jobs follows (transcription.py, speech_to_text.py,        *)
(* rate_limiter.py, polling.py, handlers.py).                              *)
(*                                                                         *)
(* Each await between two effects is a step, so that requests, event       *)
(* handlers of several orchestrators and the engine registry interleave.   *)
(* What happens to a planned job is JobPipeline's subject; here a running  *)
(* job simply ends, in a handler that then gives its slot back.            *)
(***************************************************************************)
EXTENDS Planning, Integers

CONSTANTS
    Jobs,       \* requests of one tenant; a request and its job share a name
    Handlers,   \* event handlers, of one or of several orchestrators
    Limit       \* max_concurrent_jobs

ASSUME SubmissionAssumption ==
    /\ IsFiniteSet(Jobs) /\ Limit \in Nat
    /\ None \notin Jobs \cup Models \cup {"PENDING", "RUNNING", "COMPLETED", "FAILED", "CANCELLED"}

VARIABLES
    params,     \* params[j]: what the request asks for
    req,        \* req[j]: where the request is in the gateway
    row,        \* row[j]: status of the job row
    plan,       \* plan[j]: the task rows, and the granularity they serve
    queued,     \* jobs whose prepare task is on its engine's stream
    counter,    \* dalston:ratelimit:jobs:<tenant>
    guard,      \* jobs whose "decremented" key is set
    inbox,      \* inbox[j]: job.created deliveries not yet handled
    hand,       \* hand[h]: the event handler's local state
    reg,        \* what the engine registry shows
    left,       \* bounds: what may still go wrong, or change
    counted,    \* history: jobs counted by increment_concurrent_jobs
    released,   \* history: jobs whose DECR was done
    early,      \* history: jobs whose DECR came before their INCR
    overlap     \* history: a check ran inside another request's window

gatewayVars == <<params, req>>
limitVars   == <<counter, guard, counted, released, early, overlap>>
jobVars     == <<row, plan, queued, inbox>>
subVars     == <<gatewayVars, limitVars, jobVars, hand, reg, left>>

Terminal == {"COMPLETED", "FAILED", "CANCELLED"}
NoPlan   == [tasks |-> {}, words |-> FALSE]
Idle     == [pc |-> "idle", job |-> None, sel |-> <<>>, words |-> FALSE]
\* A request between its check and its increment.
InWindow == {"checked", "created", "published"}

SubInit(s) ==
    /\ params = s.params
    /\ req = [j \in Jobs |-> IF params[j] = None THEN "absent" ELSE "new"]
    /\ row = [j \in Jobs |-> None]
    /\ plan = [j \in Jobs |-> NoPlan]
    /\ queued = {}
    /\ counter = 0
    /\ guard = {} /\ counted = {} /\ released = {} /\ early = {}
    /\ overlap = FALSE
    /\ inbox = [j \in Jobs |-> 0]
    /\ hand = [h \in Handlers |-> Idle]
    /\ reg = [i \in Instances |-> [state |-> IF i \in s.up THEN "idle" ELSE "gone",
                                   full |-> TRUE]]
    /\ left = [fault |-> s.faults, churn |-> s.churn, restless |-> s.restless,
             died |-> FALSE, lost |-> FALSE, slow |-> FALSE]

-----------------------------------------------------------------------------
(* The gateway. *)

\* get_principal_with_job_rate_limit: a read of the counter.
Check(j) ==
    /\ req[j] = "new"
    /\ req' = [req EXCEPT ![j] = IF counter < Limit THEN "checked" ELSE "refused"]
    /\ overlap' = (overlap \/ \E k \in Jobs \ {j} : req[k] \in InWindow)
    /\ UNCHANGED <<params, counter, guard, counted, released, early, jobVars, hand, reg, left>>

\* Upload of the audio, then create_job commits the PENDING row.
CreateJob(j) ==
    /\ req[j] = "checked"
    /\ req' = [req EXCEPT ![j] = "created"]
    /\ row' = [row EXCEPT ![j] = "PENDING"]
    /\ UNCHANGED <<params, limitVars, plan, queued, inbox, hand, reg, left>>

PublishJobCreated(j) ==
    /\ req[j] = "created"
    /\ req' = [req EXCEPT ![j] = "published"]
    /\ inbox' = [inbox EXCEPT ![j] = @ + 1]
    /\ UNCHANGED <<params, limitVars, row, plan, queued, hand, reg, left>>

\* increment_concurrent_jobs, the last step of every route: INCR.
Increment(j) ==
    /\ req[j] = "published"
    /\ req' = [req EXCEPT ![j] = IF params[j].sync THEN "waiting" ELSE "accepted"]
    /\ counter' = counter + 1
    /\ counted' = counted \cup {j}
    /\ UNCHANGED <<params, guard, released, early, overlap, jobVars, hand, reg, left>>

\* wait_for_job_completion: a poll that finds a terminal row, or the deadline.
Answer(j) ==
    /\ req[j] = "waiting"
    /\ \/ row[j] \in Terminal /\ req' = [req EXCEPT ![j] = "answered"]
       \/ req' = [req EXCEPT ![j] = "expired"]
    /\ UNCHANGED <<params, limitVars, jobVars, hand, reg, left>>

\* The gateway process ends while it serves the request.
GatewayDies(j) ==
    /\ req[j] \in InWindow
    /\ left.fault > 0
    /\ left' = [left EXCEPT !.fault = @ - 1, !.lost = TRUE]
    /\ req' = [req EXCEPT ![j] = "lost"]
    /\ UNCHANGED <<params, limitVars, jobVars, hand, reg>>

-----------------------------------------------------------------------------
(* handle_job_created. *)

\* The early returns: cancelled, running, or tasks already there.  Any other
\* status goes on, a FAILED job without tasks too.
Settled(j) == row[j] \in {None, "CANCELLING", "CANCELLED", "RUNNING"} \/ plan[j].tasks # {}

Claim(h, j) ==
    /\ hand[h].pc = "idle"
    /\ inbox[j] > 0
    /\ inbox' = [inbox EXCEPT ![j] = @ - 1]
    /\ hand' = IF Settled(j) THEN hand
               ELSE [hand EXCEPT ![h] = [pc |-> "select", job |-> j, sel |-> <<>>,
                                         words |-> params[j].words]]
    /\ UNCHANGED <<gatewayVars, limitVars, row, plan, queued, reg, left>>

\* selections[stage] = ...
Extended(sel, stage, o) == [s \in DOMAIN sel \cup {stage} |-> IF s = stage THEN o ELSE sel[s]]

\* One select_engine call of select_pipeline_engines.
Select(h, ready) ==
    LET me == hand[h]
        p  == params[me.job]
    IN  /\ me.pc = "select"
        /\ \E stage \in NextStages(p, me.words, me.sel) :
           \E o \in SelectEngine(stage, p, reg, ready) :
              hand' = [hand EXCEPT ![h] =
                  IF o.ok THEN [me EXCEPT !.sel = Extended(@, stage, o)]
                  ELSE IF Degrades(p, stage, o) THEN [me EXCEPT !.words = FALSE]
                  ELSE [me EXCEPT !.pc = "refuse"]]
        /\ UNCHANGED <<gatewayVars, limitVars, jobVars, reg, left>>

\* Rows of another plan make the insert fail on (job_id, stage).
Conflicts(j, tasks) ==
    \E t \in tasks, u \in plan[j].tasks : <<t.stage, t.channel>> = <<u.stage, u.channel>>

\* The row of a task, and the handler that planned it.
RowFor(t, h) == [stage |-> t.stage, channel |-> t.channel, deps |-> t.deps, engine |-> t.engine,
                 model |-> t.model, waits |-> t.waits, by |-> h]

\* The tasks, their dependencies and the status RUNNING in one transaction.
InsertTasks(h) ==
    LET me == hand[h]
        j  == me.job
        tasks == {RowFor(t, h) : t \in BuildDag(params[j], me.words, me.sel)}
    IN  /\ me.pc = "select"
        /\ NextStages(params[j], me.words, me.sel) = {}
        /\ IF Conflicts(j, tasks)
           THEN /\ hand' = [hand EXCEPT ![h].pc = "ack"]
                /\ UNCHANGED <<row, plan>>
           ELSE /\ hand' = [hand EXCEPT ![h].pc = "queue"]
                /\ row' = [row EXCEPT ![j] = "RUNNING"]
                /\ plan' = [plan EXCEPT ![j] = [tasks |-> @.tasks \cup tasks,
                                                words |-> me.words]]
        /\ UNCHANGED <<gatewayVars, limitVars, queued, inbox, reg, left>>

\* The prepare task becomes READY and goes to queue_task, which fails fast
\* when its engine has no healthy instance, unless the task waits for one.
QueueInitial(h) ==
    LET me == hand[h]
        t  == CHOOSE u \in plan[me.job].tasks : u.deps = {}
    IN  /\ me.pc = "queue"
        /\ IF t.waits \/ IsEngineAvailable(reg, t.engine)
           THEN /\ queued' = queued \cup {me.job}
                /\ hand' = [hand EXCEPT ![h].pc = "ack"]
                /\ UNCHANGED row
           ELSE /\ hand' = [hand EXCEPT ![h].pc = "guard"]
                /\ row' = [row EXCEPT ![me.job] = "FAILED"]
                /\ UNCHANGED queued
        /\ UNCHANGED <<gatewayVars, limitVars, plan, inbox, reg, left>>

\* One of the three selection errors: the job fails.
FailSelection(h) ==
    /\ hand[h].pc = "refuse"
    /\ row' = [row EXCEPT ![hand[h].job] = "FAILED"]
    /\ hand' = [hand EXCEPT ![h].pc = "guard"]
    /\ UNCHANGED <<gatewayVars, limitVars, plan, queued, inbox, reg, left>>

\* The job's last task event, in a handler that had nothing to do.
EndJob(h, j) ==
    /\ hand[h].pc = "idle"
    /\ row[j] = "RUNNING" /\ j \in queued
    /\ \E verdict \in {"COMPLETED", "FAILED"} : row' = [row EXCEPT ![j] = verdict]
    /\ hand' = [hand EXCEPT ![h] = [Idle EXCEPT !.pc = "guard", !.job = j]]
    /\ UNCHANGED <<gatewayVars, limitVars, plan, queued, inbox, reg, left>>

-----------------------------------------------------------------------------
(* _decrement_concurrent_jobs: SET NX, DECR, and SET 0 below zero. *)

\* Mutant: the guard key is set but not looked at.
SetGuardBlindly(h) ==
    /\ hand[h].pc = "guard"
    /\ guard' = guard \cup {hand[h].job}
    /\ hand' = [hand EXCEPT ![h].pc = "decr"]
    /\ UNCHANGED <<gatewayVars, counter, counted, released, early, overlap, jobVars, reg, left>>

SetGuard(h) ==
    LET j == hand[h].job
    IN  /\ hand[h].pc = "guard"
        /\ guard' = guard \cup {j}
        /\ hand' = [hand EXCEPT ![h].pc = IF j \in guard THEN "ack" ELSE "decr"]
        /\ UNCHANGED <<gatewayVars, counter, counted, released, early, overlap, jobVars, reg, left>>

Decrement(h) ==
    LET j == hand[h].job
    IN  /\ hand[h].pc = "decr"
        /\ counter' = counter - 1
        /\ released' = released \cup {j}
        /\ early' = IF j \in counted THEN early ELSE early \cup {j}
        /\ hand' = [hand EXCEPT ![h].pc = IF counter' < 0 THEN "clamp" ELSE "ack"]
        /\ UNCHANGED <<gatewayVars, guard, counted, overlap, jobVars, reg, left>>

Clamp(h) ==
    /\ hand[h].pc = "clamp"
    /\ counter' = 0
    /\ hand' = [hand EXCEPT ![h].pc = "ack"]
    /\ UNCHANGED <<gatewayVars, guard, counted, released, early, overlap, jobVars, reg, left>>

\* The event is acknowledged when its handler has returned.
Acknowledge(h) ==
    /\ hand[h].pc = "ack"
    /\ hand' = [hand EXCEPT ![h] = Idle]
    /\ UNCHANGED <<gatewayVars, limitVars, jobVars, reg, left>>

-----------------------------------------------------------------------------
(* What goes wrong, and what changes by itself. *)

\* An orchestrator dies; the event it had not acknowledged is delivered again.
HandlerDies(h) ==
    /\ hand[h].pc # "idle"
    /\ left.fault > 0
    /\ left' = [left EXCEPT !.fault = @ - 1, !.died = TRUE]
    /\ inbox' = [inbox EXCEPT ![hand[h].job] = @ + 1]
    /\ hand' = [hand EXCEPT ![h] = Idle]
    /\ UNCHANGED <<gatewayVars, limitVars, row, plan, queued, reg>>

\* The event of a slow handler is claimed as idle by another one.
Redeliver(j) ==
    /\ left.fault > 0
    /\ \E h \in Handlers : hand[h].pc # "idle" /\ hand[h].job = j
    /\ left' = [left EXCEPT !.fault = @ - 1, !.slow = TRUE]
    /\ inbox' = [inbox EXCEPT ![j] = @ + 1]
    /\ UNCHANGED <<gatewayVars, limitVars, row, plan, queued, hand, reg>>

\* An engine's record: its key expires, a heartbeat after that writes it anew
\* without the capabilities, a registration writes all of it, the load
\* changes, the scanner marks it offline.
RecordAfter(r) ==
    CASE r.state = "gone" -> {[state |-> "idle", full |-> f] : f \in BOOLEAN}
      [] OTHER -> {[r EXCEPT !.state = s] : s \in {"gone", "idle", "busy", "offline"} \ {r.state}}

RegistryChanges(i) ==
    /\ left.churn > 0 /\ i \in left.restless
    /\ left' = [left EXCEPT !.churn = @ - 1]
    /\ \E r \in RecordAfter(reg[i]) : reg' = [reg EXCEPT ![i] = r]
    /\ UNCHANGED <<gatewayVars, limitVars, jobVars, hand>>

-----------------------------------------------------------------------------
GatewayStep(j) == \/ Check(j) \/ CreateJob(j) \/ PublishJobCreated(j)
                  \/ Increment(j) \/ Answer(j)
HandlerStep(h, ready) == \/ Select(h, ready) \/ InsertTasks(h) \/ QueueInitial(h)
                         \/ FailSelection(h) \/ SetGuard(h) \/ Decrement(h) \/ Clamp(h)
                         \/ Acknowledge(h)

SubNext(ready) ==
    \/ \E j \in Jobs : GatewayStep(j) \/ GatewayDies(j) \/ Redeliver(j)
    \/ \E h \in Handlers : HandlerStep(h, ready) \/ HandlerDies(h)
    \/ \E h \in Handlers, j \in Jobs : Claim(h, j) \/ EndJob(h, j)
    \/ \E i \in Instances : RegistryChanges(i)

-----------------------------------------------------------------------------
\* States of a request that increment_concurrent_jobs has counted.
Counted == {"waiting", "accepted", "answered", "expired"}
ReqStates == {"absent", "new", "refused", "checked", "created", "published", "lost"} \cup Counted
HandStates == {"idle", "select", "refuse", "queue", "guard", "decr", "clamp", "ack"}

\* Types of all variables.
SubTypeOK ==
    /\ req \in [Jobs -> ReqStates]
    /\ \A j \in Jobs : req[j] # "absent" => params[j].words \in BOOLEAN
    /\ row \in [Jobs -> {None, "PENDING", "RUNNING"} \cup Terminal]
    /\ DOMAIN plan = Jobs
    /\ \A j \in Jobs : plan[j].words \in BOOLEAN /\ \A t \in plan[j].tasks : t.by \in Handlers
    /\ queued \cup guard \cup counted \cup released \cup early \subseteq Jobs
    /\ counter \in Int /\ overlap \in BOOLEAN
    /\ inbox \in [Jobs -> Nat]
    /\ DOMAIN hand = Handlers
    /\ \A h \in Handlers :
          /\ hand[h] = [pc |-> hand[h].pc, job |-> hand[h].job, sel |-> hand[h].sel, words |-> hand[h].words]
          /\ hand[h].pc \in HandStates /\ hand[h].job \in Jobs \cup {None} /\ hand[h].words \in BOOLEAN
    /\ reg \in [Instances -> [state : {"gone", "idle", "busy", "offline"}, full : BOOLEAN]]
    /\ left \in [fault : Nat, churn : Nat, restless : SUBSET Instances, died : BOOLEAN,
                 lost : BOOLEAN, slow : BOOLEAN]

-----------------------------------------------------------------------------
(* Properties. *)

\* As long as no slot was given back before it was taken, the counter is the
\* number of slots taken and not given back, whatever is redelivered and
\* whoever dies: the guard key makes decrement_concurrent_jobs_once count once.
CounterExact == early = {} => counter = Cardinality(counted \ released)

\* Unless an orchestrator died, a job that ended has given its slot back:
\* every path of handlers.py that makes a job terminal ends in
\* _decrement_concurrent_jobs.
SlotReturned ==
    \A j \in Jobs : (row[j] \in Terminal /\ ~left.died
                       /\ \A h \in Handlers : hand[h].job # j) => j \in released

\* max_concurrent_jobs is respected while every request is counted before the
\* next one is checked and no event is handled twice.
LimitHeld ==
    (early = {} /\ ~overlap /\ ~left.died /\ ~left.lost /\ ~left.slow)
      => Cardinality({j \in Jobs : row[j] \in {"PENDING", "RUNNING"}}) <= Limit

\* Two handlers may plan the same job, with different views of the registry:
\* its tasks are those of one of them.
OnePlan ==
    \A j \in Jobs : \A t, u \in plan[j].tasks :
        t.by = u.by /\ (<<t.stage, t.channel>> = <<u.stage, u.channel>> => t = u)

\* The plan delivers what was asked, natively or by a stage of its own: word
\* timestamps (unless degraded, which an explicit align model forbids),
\* speakers, and each channel; and it waits only for tasks it contains.
PlanServes ==
    \A j \in {k \in Jobs : plan[k].tasks # {}} :
        LET p == params[j]
            has(stage, c) == \E t \in plan[j].tasks : t.stage = stage /\ t.channel = c
            native(c, skill) == \A t \in plan[j].tasks :
                (t.stage = "transcribe" /\ t.channel = c) => Profile[t.engine][skill]
        IN  /\ \A c \in Channels(p) : has("transcribe", c)
            /\ plan[j].words => \A c \in Channels(p) : native(c, "words") \/ has("align", c)
            /\ (p.words /\ ~plan[j].words) => Preference(p, "align") = None
            /\ p.speakers = "diarize" => native(None, "diarizes") \/ has("diarize", None)
            /\ \A t \in plan[j].tasks : \A d \in t.deps : has(d[1], d[2])

\* The model of an engine at a stage: the one that was asked for, or one that
\* is for that engine, that stage and the language of the request.
ModelFits(p, stage, engine, model) ==
    /\ Preference(p, stage) \in Models => model = Preference(p, stage)
    /\ model # None =>
          /\ About[model].engine = engine /\ About[model].stage = stage
          /\ stage \in {"transcribe", "align"} => Speaks(model, p.lang)

\* A model that was asked for is the one planned, and no model is planned for
\* a stage or a language it is not for, even though the registry and the
\* model rows change while the stages are selected one by one.
PinHonoured ==
    \A j \in Jobs : \A t \in plan[j].tasks : ModelFits(params[j], t.stage, t.engine, t.model)

\* A job that waits for its plan is not forgotten once its event was
\* published: the event is still to be delivered or a handler is at work on it,
\* although orchestrators die and slow ones have their events taken over.
NeverForgotten ==
    \A j \in Jobs : (row[j] = "PENDING" /\ req[j] \in {"published", "waiting", "accepted"})
        => inbox[j] > 0 \/ \E h \in Handlers : hand[h].job = j /\ hand[h].pc # "ack"

\* What the gateway has done for a request, and what the orchestrators can know of it.
RequestsKept ==
    \A j \in Jobs :
        /\ row[j] # None => req[j] \notin {"absent", "new", "refused", "checked"}
        /\ req[j] \in {"created", "published"} => row[j] # None
        /\ j \in counted <=> req[j] \in Counted
        /\ req[j] = "lost" => left.lost
        /\ row[j] = None => inbox[j] = 0 /\ \A h \in Handlers : hand[h].job # j
        /\ plan[j].tasks # {} \/ j \in queued => row[j] \notin {None, "PENDING"}

\* What a handler is at has happened; one handler at most is about to give a slot back.
HandlersKept ==
    /\ \A h \in Handlers :
          /\ hand[h].pc = "idle" <=> hand[h].job = None
          /\ hand[h].pc \in {"queue", "guard", "decr", "clamp"} => row[hand[h].job] # "PENDING"
          /\ hand[h].pc = "decr" =>
                /\ hand[h].job \in guard \ released
                /\ \A k \in Handlers : hand[k].pc = "decr" /\ hand[k].job = hand[h].job => k = h
          /\ hand[h].pc = "clamp" => early # {}
    /\ released \subseteq guard
    /\ released \ counted \subseteq early

\* A job that ended is on its way to give its slot back, unless an orchestrator died.
SlotsKept ==
    ~left.died => \A j \in Jobs :
        /\ row[j] \in Terminal => j \in guard \/ \E h \in Handlers : hand[h].job = j /\ hand[h].pc = "guard"
        /\ j \in guard => j \in released \/ \E h \in Handlers : hand[h].job = j /\ hand[h].pc = "decr"

\* Where every event is handled once a job is planned once and ends for good.
OneDelivery ==
    ~left.died /\ ~left.slow => \A j \in Jobs :
        /\ inbox[j] <= 1
        /\ req[j] = "created" \/ inbox[j] = 1 => row[j] = "PENDING" /\ \A h \in Handlers : hand[h].job # j
        /\ req[j] = "created" => inbox[j] = 0
        /\ j \in guard => row[j] \in Terminal
        /\ \A h \in Handlers : hand[h].job = j =>
              /\ hand[h].pc \in {"select", "refuse"} => row[j] = "PENDING"
              /\ hand[h].pc = "queue" => row[j] = "RUNNING" /\ j \notin queued
              /\ hand[h].pc \in {"select", "refuse", "queue"} => \A k \in Handlers : hand[k].job = j => k = h
              /\ hand[h].pc \in {"guard", "decr", "clamp"} => row[j] \in Terminal

\* Requests that take part in the limit: counted, or between their check and that.
Counting == (counted \ released) \cup {j \in Jobs : req[j] \in InWindow}

\* Where requests come one after the other, they are within the limit.
WindowKept ==
    (early = {} /\ ~overlap /\ ~left.died /\ ~left.lost /\ ~left.slow) =>
        /\ Cardinality(Counting) <= Limit
        /\ \A j, k \in Jobs : req[j] \in InWindow /\ req[k] \in InWindow => j = k

\* Every plan has a prepare task, so that two plans conflict.
PlansRooted ==
    \A j \in Jobs : plan[j].tasks # {} =>
        \E t \in plan[j].tasks : t.stage = "prepare" /\ t.channel = None

\* Submissions, redelivered events and dying processes leave the tenant's
\* counter, the job's row and its tasks in agreement.
SubmissionInv ==
    /\ SubTypeOK /\ CounterExact /\ SlotReturned /\ LimitHeld /\ OnePlan
    /\ NeverForgotten
    /\ RequestsKept /\ HandlersKept /\ SlotsKept /\ OneDelivery /\ WindowKept /\ PlansRooted

\* What a handler has selected so far for a request serves it: an engine is
\* credited only with what the catalogue says, a model is the one asked for or
\* one fit for the stage, and words are given up only without a preference.
SelectionKept ==
    \A h \in Handlers : hand[h].pc = "select" =>
        LET p == params[hand[h].job]
            sel == hand[h].sel
        IN  /\ (p.words /\ ~hand[h].words) => Preference(p, "align") = None
            /\ \A stage \in DOMAIN sel :
                  /\ sel[stage].words => Profile[sel[stage].engine].words
                  /\ sel[stage].diarizes => Profile[sel[stage].engine].diarizes
                  /\ ModelFits(p, stage, sel[stage].engine, sel[stage].model)

\* Whatever the registry showed while the stages were selected, a plan that
\* was stored serves the request, with the models the request named.
PlanInv == PlanServes /\ PinHonoured /\ SelectionKept

=============================================================================
