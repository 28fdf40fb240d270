----------------------------- MODULE Autoscaler -----------------------------
(***************************************************************************)
(* GPU workers are started and stopped with the length of the queues: the  *)
(* decision (infra/scripts/dalston_autoscale.py) and the tick that makes   *)
(* and applies it once a minute (infra/scripts/dalston-aws autoscale), for *)
(* one shape, that is a set of engines that share a worker.                *)
(*                                                                         *)
(* A unit of time is the interval between ticks.  Streams are the queues   *)
(* of the shape's engines; a worker takes tasks from all of them.          *)
(***************************************************************************)
EXTENDS Integers, FiniteSets, Sequences

CONSTANTS
    Nodes,          \* EC2 instances there may be
    Streams,        \* stream_engine_ids, a sequence
    Tasks,          \* tasks of the shape's engines
    Policy,         \* the policy file's values of the keys below
    MaxOnDemand,    \* max_on_demand, with fallback_to_on_demand
    BlockedTicks,   \* ON_DEMAND_FALLBACK_BLOCKED_TICKS
    RetryBackoff,   \* ON_DEMAND_RETRY_BACKOFF_S
    BootTimeout,    \* boot_timeout_s
    MaxTicks        \* bound: ticks explored

VARIABLES
    nodes,      \* nodes[n]: [state, spot, managed, born]
    work,       \* work[t]: [at, stream, node, late]
    scaler,     \* the tick that is running, or none
    idleSince,  \* AUTOSCALE_STATE_KEY: the tick at which the shape became idle
    blocked,    \* AUTOSCALE_BLOCKED_KEY: consecutive failures to get spot
    backOff,    \* AUTOSCALE_ON_DEMAND_COOLDOWN: until when
    tickNo,     \* the clock
    woes,       \* how much may still go wrong
    busyAt,     \* history: the last tick to note the shape was not idle, or a stop
    waits       \* history: ticks in a row that waited for managed workers to boot, while AWS
                \* obeyed and no worker lost its registration

scaleVars == <<nodes, work, scaler, idleSince, blocked, backOff, tickNo, woes, busyAt, waits>>

OverrideKeys == {"tasks_per_instance", "min_instances", "max_instances", "scale_down_after_s"}
StreamIds == {Streams[i] : i \in DOMAIN Streams}
Never == -1

InState(s) == {n \in Nodes : nodes[n].state = s}
Managed == {n \in Nodes : nodes[n].state # "none" /\ nodes[n].managed}
Paid == {n \in Managed : ~nodes[n].spot}
Queued(s) == {t \in Tasks : work[t].at = "queued" /\ work[t].stream = s}
Taken(s)  == {t \in Tasks : work[t].at = "taken" /\ work[t].stream = s}

-----------------------------------------------------------------------------
(* The policy and the decision. *)

\* ShapePolicy.from_dict, as far as the keys that can be overridden go.
ValidPolicy(p) == /\ p["tasks_per_instance"] >= 1
                  /\ p["scale_down_after_s"] >= 0
                  /\ 0 <= p["min_instances"] /\ p["min_instances"] <= p["max_instances"]

\* What from_dict demands of a policy; a tick is shorter than any boot_timeout_s.
ASSUME ScaleAssumption ==
    /\ IsFiniteSet(Nodes) /\ IsFiniteSet(Tasks)
    /\ Len(Streams) \in Nat \ {0} /\ DOMAIN Streams = 1..Len(Streams)
    /\ Policy \in [OverrideKeys -> Nat] /\ ValidPolicy(Policy)
    /\ MaxOnDemand \in Nat /\ BlockedTicks \in Nat /\ RetryBackoff \in Nat
    /\ BootTimeout \in Nat \ {0} /\ MaxTicks \in Nat

\* apply_overrides: all of them, or none when they do not make sense together.
ApplyOverrides(overrides) ==
    LET merged == [k \in OverrideKeys |-> IF k \in DOMAIN overrides THEN overrides[k] ELSE Policy[k]]
    IN  IF ValidPolicy(merged) THEN merged ELSE Policy

\* desired_instances.
DesiredInstances(p, backlog) ==
    LET raw == (backlog + p["tasks_per_instance"] - 1) \div p["tasks_per_instance"]
        capped == IF raw <= p["max_instances"] THEN raw ELSE p["max_instances"]
    IN  IF capped >= p["min_instances"] THEN capped ELSE p["min_instances"]

\* decide.  seen[s]: [lag, pending] as read; idle: for how long, or Never.
Decide(p, seen, live, pending, idle, cooling) ==
    LET sizes == {0} \cup {seen[s].lag + seen[s].pending : s \in StreamIds}
        desired == DesiredInstances(p, CHOOSE m \in sizes : \A k \in sizes : k <= m)
        total == Cardinality(live \cup pending)
        paid == {n \in live \cup pending : ~nodes[n].spot}
        allIdle == \A s \in StreamIds : seen[s].lag = 0 /\ seen[s].pending = 0
    IN  IF desired > total
        THEN IF pending # {} THEN "wait"
             ELSE IF /\ blocked >= BlockedTicks /\ Cardinality(paid) < MaxOnDemand
                     /\ ~cooling
                  THEN "launch_on_demand" ELSE "launch"
        ELSE IF Cardinality(live) > desired /\ allIdle /\ idle # Never
                  /\ idle >= p["scale_down_after_s"]
             THEN "terminate" ELSE "none"

-----------------------------------------------------------------------------
(* A tick. *)

Rest == [at |-> "rest"]

ScaleInit(s) ==
    /\ nodes = [n \in Nodes |-> IF n \in DOMAIN s.fleet THEN s.fleet[n]
                                ELSE [state |-> "none", spot |-> TRUE, managed |-> TRUE, born |-> 0]]
    /\ work = [t \in Tasks |-> [at |-> IF t \in s.tasks THEN "later" ELSE "done",
                                stream |-> Streams[1], node |-> Never, late |-> FALSE]]
    /\ scaler = Rest /\ idleSince = Never /\ blocked = 0 /\ backOff = 0
    /\ tickNo = s.ticks /\ woes = s.woes /\ busyAt = s.ticks /\ waits = 0

\* The timer fires; the policy is read, and the overrides.
StartTick(overrides) ==
    /\ scaler = Rest /\ tickNo < MaxTicks
    /\ tickNo' = tickNo + 1
    /\ scaler' = [at |-> "read", next |-> 1, policy |-> ApplyOverrides(overrides),
                  seen |-> [s \in StreamIds |-> [lag |-> 0, pending |-> 0]]]
    /\ UNCHANGED <<nodes, work, idleSince, blocked, backOff, woes, busyAt, waits>>

\* _fetch_engine_backlog, for one stream after the other.
ReadBacklog ==
    /\ scaler.at = "read" /\ scaler.next <= Len(Streams)
    /\ LET s == Streams[scaler.next]
       IN  scaler' = [scaler EXCEPT !.next = @ + 1,
                        !.seen[s] = [lag |-> Cardinality(Queued(s)), pending |-> Cardinality(Taken(s))]]
    /\ UNCHANGED <<nodes, work, idleSince, blocked, backOff, tickNo, woes, busyAt, waits>>

\* Mutant: a busy moment does not end the idle time.
UpdateIdleStateKept(idleNow) == IF idleNow /\ idleSince = Never THEN tickNo ELSE idleSince

\* _update_idle_state.
UpdateIdleState(idleNow) ==
    IF ~idleNow THEN Never ELSE IF idleSince = Never THEN tickNo ELSE idleSince

\* stuck_pending.
StuckBooting(n) == nodes[n].managed /\ tickNo - nodes[n].born >= BootTimeout

\* _fetch_autoscale_fleet, _update_idle_state and decide.
TakeDecision ==
    LET live == InState("live")
        pending == InState("booting")
        idleNow == /\ \A s \in StreamIds : scaler.seen[s].lag = 0 /\ scaler.seen[s].pending = 0
                   /\ live \cup pending # {}
        idle == IF idleNow /\ idleSince # Never THEN tickNo - idleSince ELSE Never
        action == Decide(scaler.policy, scaler.seen, live, pending, idle, backOff > tickNo)
    IN  /\ scaler.at = "read" /\ scaler.next > Len(Streams)
        /\ idleSince' = UpdateIdleState(idleNow)
        /\ busyAt' = IF idleNow THEN busyAt ELSE tickNo
        /\ waits' = IF action = "wait" /\ pending \subseteq Managed THEN waits + 1 ELSE 0
        /\ scaler' = [at |-> "reap", action |-> action, policy |-> scaler.policy, live |-> live,
                      left |-> {n \in pending : StuckBooting(n)},
                      stuck |-> FALSE]
        /\ UNCHANGED <<nodes, work, blocked, backOff, tickNo, woes>>

\* AWS or Redis raises: the tick is over.
TickDies ==
    /\ scaler.at \in {"read", "launch", "drain", "kill"} /\ woes > 0
    /\ woes' = woes - 1 /\ scaler' = Rest
    /\ UNCHANGED <<nodes, work, idleSince, blocked, backOff, tickNo, busyAt, waits>>

Lost(n) == [t \in Tasks |-> IF work[t].at = "taken" /\ work[t].node = n
                            THEN [work[t] EXCEPT !.at = "lost"] ELSE work[t]]

\* _reap_stuck_pending; AWS may refuse.
ReapStuck(n, ok) ==
    /\ scaler.at = "reap" /\ n \in scaler.left /\ (ok \/ woes > 0)
    /\ nodes' = IF ok THEN [nodes EXCEPT ![n].state = "none"] ELSE nodes
    /\ work' = IF ok THEN Lost(n) ELSE work
    /\ woes' = IF ok THEN woes ELSE woes - 1
    /\ waits' = IF ok THEN waits ELSE 0
    /\ scaler' = [scaler EXCEPT !.left = @ \ {n}, !.stuck = TRUE]
    /\ UNCHANGED <<idleSince, blocked, backOff, tickNo, busyAt>>

\* _apply_decision, unless the tick has reaped.  Paid workers go first, and
\* the newest.
ApplyDecision ==
    LET mine == {n \in scaler.live : nodes[n].managed}
        paid == {n \in mine : ~nodes[n].spot}
        from == IF paid # {} THEN paid ELSE mine
        newest == CHOOSE n \in from : \A m \in from : nodes[m].born <= nodes[n].born
        action == scaler.action
    IN  /\ scaler.at = "reap" /\ scaler.left = {}
        /\ blocked' = IF scaler.stuck \/ action \in {"launch", "launch_on_demand"}
                      THEN blocked ELSE 0
        /\ scaler' = IF scaler.stuck \/ action \in {"none", "wait"} THEN Rest
                     ELSE IF action = "terminate"
                     THEN IF mine = {} THEN Rest
                          ELSE [at |-> "drain", node |-> newest, policy |-> scaler.policy,
                                next |-> 1, passed |-> {}]
                     ELSE [at |-> "launch", spot |-> action = "launch", policy |-> scaler.policy]
        /\ UNCHANGED <<nodes, work, idleSince, backOff, tickNo, woes, busyAt, waits>>

\* _autoscale_launch, under a lock that a manual launch may hold.
Launch(outcome) ==
    /\ scaler.at = "launch" /\ (outcome = "ok" \/ woes > 0)
    /\ CASE outcome = "ok" ->
              /\ InState("none") # {}
              /\ LET n == CHOOSE n \in Nodes : nodes[n].state = "none"
                 IN  nodes' = [nodes EXCEPT ![n] = [state |-> "booting", spot |-> scaler.spot,
                                                    managed |-> TRUE, born |-> tickNo]]
              /\ blocked' = 0 /\ UNCHANGED <<backOff, woes>>
         [] outcome = "none_left" ->
              /\ blocked' = IF scaler.spot THEN blocked + 1 ELSE blocked
              /\ backOff' = IF scaler.spot THEN backOff ELSE tickNo + RetryBackoff
              /\ woes' = woes - 1 /\ UNCHANGED nodes
         [] outcome = "locked" -> woes' = woes - 1 /\ UNCHANGED <<nodes, blocked, backOff>>
    /\ scaler' = Rest
    /\ UNCHANGED <<work, idleSince, tickNo, busyAt, waits>>

\* _autoscale_terminate: stream by stream nothing may be in flight.  What is
\* found in flight is waited for, until the deadline of the drain.
DrainStep ==
    LET s == Streams[scaler.next]
    IN  /\ scaler.at = "drain"
        /\ scaler' = IF Taken(s) = {}
                     THEN [scaler EXCEPT !.next = @ + 1, !.passed = @ \cup {s},
                                         !.at = IF scaler.next = Len(Streams) THEN "kill" ELSE "drain"]
                     ELSE [scaler EXCEPT !.next = 1, !.passed = {}]
        /\ UNCHANGED <<nodes, work, idleSince, blocked, backOff, tickNo, woes, busyAt, waits>>

DrainTimeout ==
    /\ scaler.at = "drain" /\ \E s \in StreamIds : Taken(s) # {}
    /\ scaler' = Rest
    /\ UNCHANGED <<nodes, work, idleSince, blocked, backOff, tickNo, woes, busyAt, waits>>

\* ok: the tick lives to see that the cooldown starts anew.
Terminate(ok) ==
    /\ scaler.at = "kill" /\ (ok \/ woes > 0)
    /\ nodes' = [nodes EXCEPT ![scaler.node].state = "none"]
    /\ work' = Lost(scaler.node)
    /\ scaler' = Rest
    /\ idleSince' = IF ok THEN Never ELSE idleSince
    /\ busyAt' = IF ok THEN tickNo ELSE busyAt
    /\ woes' = IF ok THEN woes ELSE woes - 1
    /\ UNCHANGED <<blocked, backOff, tickNo, waits>>

-----------------------------------------------------------------------------
(* The rest of the world. *)

\* A task is put on a stream; a job's next task when the last one is done.
Enqueue(t, s) ==
    /\ work[t].at = "later" \/ (work[t].at = "taken" /\ work[t].stream = Streams[1] /\ s # Streams[1])
    /\ work' = [work EXCEPT ![t] = [at |-> "queued", stream |-> s, node |-> Never, late |-> FALSE]]
    /\ UNCHANGED <<nodes, scaler, idleSince, blocked, backOff, tickNo, woes, busyAt, waits>>

\* A worker takes a task.  late: the scale-down has already looked.
TakeTask(n, t) ==
    /\ nodes[n].state = "live" /\ work[t].at = "queued"
    /\ work' = [work EXCEPT ![t].at = "taken", ![t].node = n,
                            ![t].late = scaler.at \in {"drain", "kill"}
                                        /\ work[t].stream \in scaler.passed]
    /\ UNCHANGED <<nodes, scaler, idleSince, blocked, backOff, tickNo, woes, busyAt, waits>>

FinishTask(t) ==
    /\ work[t].at = "taken"
    /\ work' = [work EXCEPT ![t].at = "done"]
    /\ UNCHANGED <<nodes, scaler, idleSince, blocked, backOff, tickNo, woes, busyAt, waits>>

\* All engines of a worker have registered; or one of them no longer is.
Register(n) ==
    /\ nodes[n].state = "booting"
    /\ nodes' = [nodes EXCEPT ![n].state = "live"]
    /\ UNCHANGED <<work, scaler, idleSince, blocked, backOff, tickNo, woes, busyAt, waits>>

Unregister(n) ==
    /\ nodes[n].state = "live" /\ woes > 0
    /\ woes' = woes - 1
    /\ nodes' = [nodes EXCEPT ![n].state = "booting"]
    /\ waits' = 0
    /\ UNCHANGED <<work, scaler, idleSince, blocked, backOff, tickNo, busyAt>>

\* AWS takes a spot instance back.
Interrupt(n) ==
    /\ nodes[n].state # "none" /\ nodes[n].spot /\ woes > 0
    /\ woes' = woes - 1
    /\ nodes' = [nodes EXCEPT ![n].state = "none"]
    /\ work' = Lost(n)
    /\ UNCHANGED <<scaler, idleSince, blocked, backOff, tickNo, busyAt, waits>>

ScaleNext(overrides) ==
    \/ StartTick(overrides) \/ ReadBacklog \/ TakeDecision \/ TickDies \/ ApplyDecision
    \/ DrainStep \/ DrainTimeout
    \/ \E ok \in BOOLEAN : Terminate(ok)
    \/ \E outcome \in {"ok", "none_left", "locked"} : Launch(outcome)
    \/ \E n \in Nodes : \/ Register(n) \/ Unregister(n) \/ Interrupt(n)
                        \/ \E ok \in BOOLEAN : ReapStuck(n, ok)
                        \/ \E t \in Tasks : TakeTask(n, t)
    \/ \E t \in Tasks : FinishTask(t) \/ \E s \in StreamIds : Enqueue(t, s)

-----------------------------------------------------------------------------
Machines == [state : {"none", "booting", "live"}, spot : BOOLEAN, managed : BOOLEAN,
             born : 0..MaxTicks]
Policies == [OverrideKeys -> Nat]
Actions  == {"none", "wait", "launch", "launch_on_demand", "terminate"}
Reading  == [at : {"read"}, next : 1..Len(Streams)+1, policy : Policies,
             seen : [StreamIds -> [lag : 0..Cardinality(Tasks), pending : 0..Cardinality(Tasks)]]]
Reaping  == [at : {"reap"}, action : Actions, policy : Policies, live : SUBSET Nodes,
             left : SUBSET Nodes, stuck : BOOLEAN]
Starting == [at : {"launch"}, spot : BOOLEAN, policy : Policies]
Stopping == [at : {"drain", "kill"}, node : Nodes, policy : Policies,
             next : 1..Len(Streams)+1, passed : SUBSET StreamIds]

\* Types.
ScaleTypeOK ==
    /\ nodes \in [Nodes -> Machines]
    /\ work \in [Tasks -> [at : {"later", "queued", "taken", "done", "lost"}, stream : StreamIds,
                           node : Nodes \cup {Never}, late : BOOLEAN]]
    /\ scaler \in {Rest} \cup Reading \cup Reaping \cup Starting \cup Stopping
    /\ idleSince \in {Never} \cup 1..MaxTicks /\ tickNo \in 0..MaxTicks
    /\ blocked \in Nat /\ backOff \in Nat /\ woes \in Nat /\ busyAt \in Nat /\ waits \in Nat

\* A worker is started only while there are fewer than the policy in force
\* allows, booting ones included; paid ones never exceed their own limit,
\* though spot and paid launches, failures and interruptions alternate.
FleetBounded ==
    /\ scaler.at = "launch" =>
         Cardinality(Managed) < scaler.policy["max_instances"]
    /\ Cardinality(Paid) <= MaxOnDemand

\* Scaling is by values that make sense together: all overrides or none.
PolicySound == scaler # Rest => ValidPolicy(scaler.policy)

\* A worker is stopped only when each tick that got to note anything, for as
\* long as the policy asks, noted that the shape was idle and stopped nothing.
IdleBeforeStop ==
    scaler.at \in {"drain", "kill"} => tickNo - busyAt > scaler.policy["scale_down_after_s"]

\* Stopping an idle worker loses no task, but those it has taken from a
\* stream after the last look at that stream.
DrainHonest ==
    scaler.at = "kill" =>
      \A t \in Tasks : (work[t].at = "taken" /\ work[t].node = scaler.node) => work[t].late

\* A worker that does not come up cannot keep the shape waiting: it is
\* stopped in time, as long as it is the autoscaler's own, AWS obeys, and no
\* other worker takes its place.
BootBounded == waits <= BootTimeout

\* What was decided on a snapshot still holds when it is applied: the fleet
\* only shrinks meanwhile, and the clock stands.
DecisionKept ==
    /\ scaler.at = "reap" /\ scaler.action \in {"launch", "launch_on_demand"} =>
         /\ Managed \subseteq scaler.live /\ waits = 0
         /\ Cardinality(scaler.live) < scaler.policy["max_instances"]
         /\ scaler.action = "launch_on_demand" => Cardinality(Paid) < MaxOnDemand
    /\ scaler.at = "reap" /\ scaler.action = "terminate" =>
         tickNo - busyAt > scaler.policy["scale_down_after_s"]
    /\ scaler.at = "launch" => waits = 0 /\ (~scaler.spot => Cardinality(Paid) < MaxOnDemand)

\* The idle time starts after the last busy tick, and a tick notes the time
\* only once.
IdleKept ==
    /\ busyAt <= tickNo /\ (scaler.at = "read" => busyAt < tickNo)
    /\ idleSince # Never => busyAt < idleSince /\ idleSince <= tickNo

\* The streams that a drain has passed are those before the next one, and
\* what is taken from them was taken since.
DrainKept ==
    scaler.at \in {"drain", "kill"} =>
        /\ scaler.passed = {Streams[i] : i \in 1..scaler.next-1}
        /\ scaler.next = Len(Streams) + 1 <=> scaler.at = "kill"
        /\ \A t \in Tasks : work[t].at = "taken" /\ work[t].stream \in scaler.passed => work[t].late

\* Workers are at least as old as the ticks that waited for them; after as
\* many as the limit says, those that still boot are being stopped.
BootsKept ==
    /\ \A n \in Nodes : nodes[n].state # "none" =>
           nodes[n].born + waits + (IF scaler.at = "read" THEN 1 ELSE 0) <= tickNo
    /\ waits = BootTimeout => InState("booting") \subseteq IF scaler.at = "reap" THEN scaler.left ELSE {}

\* Ticks that fail half way and workers that come and go do not make the
\* autoscaler start too many, stop a busy one, or wait for ever.
ScaleInv ==
    /\ ScaleTypeOK /\ FleetBounded /\ PolicySound /\ IdleBeforeStop /\ DrainHonest
    /\ BootBounded /\ DecisionKept /\ IdleKept /\ DrainKept /\ BootsKept

=============================================================================
