--------------------------- MODULE SessionAllocator ---------------------------
(***************************************************************************)
(* Allocation of realtime sessions to workers: session_allocator.py, the    *)
(* proxy that acquires and releases a session (realtime_proxy.py), and the  *)
(* monitor that repairs what a dead gateway left behind                     *)
(* (session_health.py), all coroutines of one gateway process on one Redis. *)
(*                                                                          *)
(* Every Redis command is an action of its own.  Which workers the registry *)
(* offers is left open: it goes by what the workers reported with their     *)
(* last heartbeat, which lags behind the counters here.                     *)
(***************************************************************************)
EXTENDS Integers, FiniteSets

CONSTANTS
    Workers,    \* realtime worker instances
    Sessions,   \* sessions that clients ask for
    Capacity,   \* sessions a worker can serve
    MaxFaults,  \* bound on crashes of the gateway and on stalls of a keepalive
    NoWorker

ASSUME AllocatorAssumption ==
    /\ IsFiniteSet(Sessions)
    /\ Capacity \in Nat
    /\ MaxFaults \in Nat
    /\ NoWorker \notin Workers

VARIABLES
    \* Redis
    cnt,        \* active_sessions of each worker
    members,    \* members[w]: the worker's session set
    index,      \* ACTIVE_SESSIONS_KEY
    key,        \* session record: "none", "bare" (without a TTL) or "live"
    \* the gateway's coroutines
    pc, cand,   \* each session's step, and the workers it may still try
    on,         \* the worker it has reserved
    mpc, mtodo, mcur, mon,  \* the monitor's step, its snapshot of index, session and worker
    \* ghosts
    owes,       \* the worker whose counter holds the session's reservation
    twice,      \* sessions whose reservation was given back twice
    torn,       \* sessions that a fault hit while they were being given back
    faults

redis   == <<cnt, members, index, key>>
monitor == <<mpc, mtodo, mcur, mon>>
ghosts  == <<owes, twice, torn>>
vars    == <<redis, pc, cand, on, monitor, ghosts, faults>>

Init ==
    /\ cnt = [w \in Workers |-> 0]
    /\ members = [w \in Workers |-> {}]
    /\ index = {}
    /\ key = [s \in Sessions |-> "none"]
    /\ pc = [s \in Sessions |-> "new"]
    /\ cand = [s \in Sessions |-> {}]
    /\ on = [s \in Sessions |-> NoWorker]
    /\ mpc = "idle" /\ mtodo = {}
    /\ mcur \in Sessions
    /\ mon = NoWorker
    /\ owes = [s \in Sessions |-> NoWorker]
    /\ twice = {} /\ torn = {}
    /\ faults = 0

At(s, l)   == pc[s] = l
Goto(s, l) == pc' = [pc EXCEPT ![s] = l]
Step(s, l, m) == At(s, l) /\ Goto(s, m)

\* HINCRBY by -1 on behalf of s, and what it means for the session's reservation.
GiveBack(s, w) ==
    /\ cnt' = [cnt EXCEPT ![w] = @ - 1]
    /\ owes' = [owes EXCEPT ![s] = NoWorker]
    /\ twice' = IF owes[s] = NoWorker THEN twice \cup {s} ELSE twice

-----------------------------------------------------------------------------
(* acquire_worker and _acquire_from_list *)

\* get_available: at least one worker that said it had room.
Ask(s) ==
    /\ Step(s, "new", "reserve")
    /\ \E W \in SUBSET Workers : W # {} /\ cand' = [cand EXCEPT ![s] = W]
    /\ UNCHANGED <<redis, on, monitor, ghosts, faults>>

\* Mutant: the count is not compared with the capacity.
ReserveUnchecked(s) ==
    /\ At(s, "reserve")
    /\ \E w \in cand[s] :
         /\ cnt' = [cnt EXCEPT ![w] = @ + 1]
         /\ owes' = [owes EXCEPT ![s] = w]
         /\ on' = [on EXCEPT ![s] = w]
         /\ cand' = [cand EXCEPT ![s] = @ \ {w}]
    /\ Goto(s, "record")
    /\ UNCHANGED <<members, index, key, monitor, twice, torn, faults>>

\* HINCRBY by 1 on the next worker: the result decides whether the slot is ours.
Reserve(s) ==
    /\ At(s, "reserve")
    /\ \E w \in cand[s] :
         /\ cnt' = [cnt EXCEPT ![w] = @ + 1]
         /\ owes' = [owes EXCEPT ![s] = w]
         /\ on' = [on EXCEPT ![s] = w]
         /\ cand' = [cand EXCEPT ![s] = @ \ {w}]
         /\ Goto(s, IF cnt[w] + 1 > Capacity THEN "rollback" ELSE "record")
    /\ UNCHANGED <<members, index, key, monitor, twice, torn, faults>>

\* The worker was full: try the next, or close the socket for want of capacity.
Rollback(s) ==
    /\ Step(s, "rollback", IF cand[s] = {} THEN "over" ELSE "reserve")
    /\ GiveBack(s, on[s])
    /\ on' = [on EXCEPT ![s] = NoWorker]
    /\ UNCHANGED <<members, index, key, cand, monitor, torn, faults>>

\* _create_session: HSET, then EXPIRE.
Record(s) ==
    /\ Step(s, "record", "expire")
    /\ key' = [key EXCEPT ![s] = "bare"]
    /\ UNCHANGED <<cnt, members, index, cand, on, monitor, ghosts, faults>>

SetTtl(s) ==
    /\ Step(s, "expire", "join")
    /\ key' = [key EXCEPT ![s] = "live"]
    /\ UNCHANGED <<cnt, members, index, cand, on, monitor, ghosts, faults>>

Join(s) ==
    /\ Step(s, "join", "enter")
    /\ members' = [members EXCEPT ![on[s]] = @ \cup {s}]
    /\ UNCHANGED <<cnt, index, key, cand, on, monitor, ghosts, faults>>

Enter(s) ==
    /\ Step(s, "enter", "open")
    /\ index' = index \cup {s}
    /\ UNCHANGED <<cnt, members, key, cand, on, monitor, ghosts, faults>>

-----------------------------------------------------------------------------
(* release_worker, from the finally block of _run_allocated *)

\* HGETALL: nothing to do when the record has expired.
Close(s) ==
    /\ Step(s, "open", IF key[s] = "none" THEN "over" ELSE "release")
    /\ UNCHANGED <<redis, cand, on, monitor, ghosts, faults>>

Release(s) ==
    /\ Step(s, "release", "leave")
    /\ GiveBack(s, on[s])
    /\ UNCHANGED <<members, index, key, cand, on, monitor, torn, faults>>

\* Mutant: the session stays in the worker's set.
LeaveNot(s) ==
    /\ Step(s, "leave", "exit")
    /\ UNCHANGED <<redis, cand, on, monitor, ghosts, faults>>

Leave(s) ==
    /\ Step(s, "leave", "exit")
    /\ members' = [members EXCEPT ![on[s]] = @ \ {s}]
    /\ UNCHANGED <<cnt, index, key, cand, on, monitor, ghosts, faults>>

Exit(s) ==
    /\ Step(s, "exit", "end")
    /\ index' = index \ {s}
    /\ UNCHANGED <<cnt, members, key, cand, on, monitor, ghosts, faults>>

\* HSET of the status creates the record again if it has expired; EXPIRE follows.
End(s) ==
    /\ Step(s, "end", "endTtl")
    /\ key' = [key EXCEPT ![s] = IF @ = "none" THEN "bare" ELSE @]
    /\ UNCHANGED <<cnt, members, index, cand, on, monitor, ghosts, faults>>

EndTtl(s) ==
    /\ Step(s, "endTtl", "over")
    /\ key' = [key EXCEPT ![s] = "live"]
    /\ UNCHANGED <<cnt, members, index, cand, on, monitor, ghosts, faults>>

\* Redis drops a record whose TTL nobody extends.
Expire(s) ==
    /\ key[s] = "live" /\ pc[s] \in {"over", "dead"}
    /\ key' = [key EXCEPT ![s] = "none"]
    /\ UNCHANGED <<cnt, members, index, pc, cand, on, monitor, ghosts, faults>>

-----------------------------------------------------------------------------
(* reconcile_orphaned_sessions *)

MGoto(l) == mpc' = l

\* SMEMBERS of the index.
Scan ==
    /\ mpc = "idle" /\ index # {}
    /\ mtodo' = index
    /\ MGoto("check")
    /\ UNCHANGED <<redis, pc, cand, on, mcur, mon, ghosts, faults>>

\* EXISTS: a session whose record is there is left alone.
Check ==
    /\ mpc = "check"
    /\ \/ mtodo = {} /\ MGoto("idle") /\ UNCHANGED <<mtodo, mcur>>
       \/ \E s \in mtodo :
            /\ mtodo' = mtodo \ {s}
            /\ mcur' = s
            /\ MGoto(IF key[s] = "none" THEN "find" ELSE "check")
    /\ UNCHANGED <<redis, pc, cand, on, mon, ghosts, faults>>

\* Mutant: an orphan is removed from the index, its reservation is kept.
FindNothing ==
    /\ mpc = "find"
    /\ MGoto("forget")
    /\ UNCHANGED <<redis, pc, cand, on, mtodo, mcur, mon, ghosts, faults>>

\* SISMEMBER on each worker's set.
Find ==
    /\ mpc = "find"
    /\ \/ /\ \A w \in Workers : mcur \notin members[w]
          /\ MGoto("forget") /\ UNCHANGED mon
       \/ \E w \in Workers : mcur \in members[w] /\ mon' = w /\ MGoto("undo")
    /\ UNCHANGED <<redis, pc, cand, on, mtodo, mcur, ghosts, faults>>

\* HINCRBY by -1; a negative counter is then set to 0.
Undo ==
    /\ mpc = "undo"
    /\ GiveBack(mcur, mon)
    /\ MGoto(IF cnt[mon] - 1 < 0 THEN "clamp" ELSE "drop")
    /\ UNCHANGED <<members, index, key, pc, cand, on, mtodo, mcur, mon, torn, faults>>

Clamp ==
    /\ mpc = "clamp"
    /\ cnt' = [cnt EXCEPT ![mon] = 0]
    /\ MGoto("drop")
    /\ UNCHANGED <<members, index, key, pc, cand, on, mtodo, mcur, mon, ghosts, faults>>

Drop ==
    /\ mpc = "drop"
    /\ members' = [members EXCEPT ![mon] = @ \ {mcur}]
    /\ MGoto("forget")
    /\ UNCHANGED <<cnt, index, key, pc, cand, on, mtodo, mcur, mon, ghosts, faults>>

Forget ==
    /\ mpc = "forget"
    /\ index' = index \ {mcur}
    /\ MGoto("check")
    /\ UNCHANGED <<cnt, members, key, pc, cand, on, mtodo, mcur, mon, ghosts, faults>>

-----------------------------------------------------------------------------
(* Faults *)

Inject    == faults < MaxFaults /\ faults' = faults + 1
Releasing == {"release", "leave"}

\* The gateway dies with all its coroutines, and is started again.
Crash ==
    /\ Inject
    /\ pc' = [s \in Sessions |-> IF pc[s] \in {"new", "over"} THEN pc[s] ELSE "dead"]
    /\ torn' = torn \cup {s \in Sessions : pc[s] \in Releasing}
                   \cup (IF mpc \in {"clamp", "drop"} THEN {mcur} ELSE {})
    /\ mpc' = "idle" /\ mtodo' = {} /\ UNCHANGED <<mcur, mon>>
    /\ UNCHANGED <<redis, cand, on, owes, twice>>

\* The keepalive task has not reached Redis for a whole TTL.
Stall(s) ==
    /\ Inject
    /\ key[s] = "live" /\ pc[s] \in {"open"} \cup Releasing
    /\ key' = [key EXCEPT ![s] = "none"]
    /\ torn' = IF pc[s] \in Releasing THEN torn \cup {s} ELSE torn
    /\ UNCHANGED <<cnt, members, index, pc, cand, on, monitor, owes, twice>>

-----------------------------------------------------------------------------
(* Specification *)

Acquire(s)  == Reserve(s) \/ Rollback(s) \/ Record(s) \/ SetTtl(s) \/ Join(s) \/ Enter(s)
Finish(s)   == Close(s) \/ Release(s) \/ Leave(s) \/ Exit(s) \/ End(s) \/ EndTtl(s)
Monitor     == Scan \/ Check \/ Find \/ Undo \/ Clamp \/ Drop \/ Forget

Next ==
    \/ \E s \in Sessions : Ask(s) \/ Acquire(s) \/ Finish(s) \/ Expire(s) \/ Stall(s)
    \/ Monitor
    \/ Crash

\* Coroutines go on, every session ends some day, records expire, and the monitor's
\* loop runs; nobody has to ask for a session.
Fairness ==
    /\ \A s \in Sessions : WF_vars(Acquire(s) \/ Finish(s)) /\ WF_vars(Expire(s))
    /\ WF_vars(Monitor)

Spec     == Init /\ [][Next]_vars
FairSpec == Spec /\ Fairness

-----------------------------------------------------------------------------
(* Properties *)

Labels  == {"new", "reserve", "rollback", "record", "expire", "join", "enter", "open",
            "release", "leave", "exit", "end", "endTtl", "over", "dead"}
MLabels == {"idle", "check", "find", "undo", "clamp", "drop", "forget"}

\* Every counter, set and coroutine is in its range.
TypeOK ==
    /\ cnt \in [Workers -> Int]
    /\ members \in [Workers -> SUBSET Sessions]
    /\ index \in SUBSET Sessions
    /\ key \in [Sessions -> {"none", "bare", "live"}]
    /\ pc \in [Sessions -> Labels]
    /\ cand \in [Sessions -> SUBSET Workers]
    /\ on \in [Sessions -> Workers \cup {NoWorker}]
    /\ mpc \in MLabels /\ mtodo \in SUBSET Sessions /\ mcur \in Sessions
    /\ mon \in Workers \cup {NoWorker}
    /\ owes \in [Sessions -> Workers \cup {NoWorker}]
    /\ twice \in SUBSET Sessions /\ torn \in SUBSET Sessions
    /\ faults \in 0..MaxFaults

\* A reservation is given back twice only when a fault hit it half given back:
\* release_worker and the monitor do not both decrement for one session, although the
\* monitor works from a snapshot of the index and each of them takes several commands.
ReleasedOnce == twice \subseteq torn

\* The sessions whose reservation counts at a worker, and those it has to serve.
Serving == {"record", "expire", "join", "enter", "open", "release"}
Reserved(w) == {s \in Sessions : owes[s] = w}
Served(w)   == {s \in Reserved(w) : pc[s] \in Serving}

\* The sessions that hold a reservation of a worker fit its capacity, however many
\* requests overshoot the counter at once, as long as none was given back twice.
CapacityRespected == twice = {} => \A w \in Workers : Cardinality(Served(w)) <= Capacity

\* A session that is over, or that was registered when its gateway died, gives its
\* reservation back in the end.
OrphansRepaired ==
    \A s \in Sessions : (At(s, "over") \/ (At(s, "dead") /\ s \in index)) ~> owes[s] = NoWorker

-----------------------------------------------------------------------------
(* Why they hold *)

Early == {"new", "reserve", "rollback", "record", "expire", "join", "enter"}
Busy  == {"find", "undo", "clamp", "drop", "forget"}

\* Until a reservation is given back twice, the counters count the reservations, and
\* the monitor finds no negative one.
CounterInv ==
    twice = {} => /\ \A w \in Workers : cnt[w] = Cardinality(Reserved(w))
                  /\ mpc # "clamp"

\* Where a session is says whose reservation it holds and which set it is in.
SessionStateInv ==
    \A s \in Sessions :
        /\ owes[s] \in {on[s], NoWorker}
        /\ pc[s] \in {"new", "reserve"} => owes[s] = NoWorker
        /\ pc[s] \in {"rollback", "record", "expire", "join", "enter"} => owes[s] # NoWorker
        /\ pc[s] \in Serving \cup {"rollback", "leave"} => on[s] \in Workers
        /\ pc[s] \in Early \ {"enter"} => \A w \in Workers : s \notin members[w]
        /\ pc[s] \in Early => s \notin index \cup mtodo
        /\ \A w \in Workers : s \in members[w] => on[s] = w

\* The monitor is busy only with a session that was registered and whose record is gone,
\* and takes back its reservation from the worker that has it.
MonitorInv ==
    /\ mpc \in Busy => pc[mcur] \notin Early
    /\ mpc \in Busy => key[mcur] = "none" \/ pc[mcur] \in {"endTtl", "over", "dead"}
    /\ mpc \in {"undo", "clamp", "drop"} => mon = on[mcur] /\ mon \in Workers

\* Whoever is about to give a reservation back finds it there, or a fault has hit it.
ReleaseInv ==
    /\ \A s \in Sessions :
         /\ At(s, "open") /\ owes[s] = NoWorker => key[s] = "none"
         /\ At(s, "release") /\ owes[s] = NoWorker => s \in torn
         /\ pc[s] \in Releasing /\ key[s] = "none" => s \in torn
         /\ \A w \in Workers : s \in members[w] /\ owes[s] = NoWorker =>
              s \in torn \/ At(s, "leave") \/ (mpc \in {"clamp", "drop"} /\ mcur = s)
    /\ mpc = "undo" /\ owes[mcur] = NoWorker => mcur \in torn

\* The inductive invariant behind ReleasedOnce and CapacityRespected.
AllocatorInv ==
    TypeOK /\ SessionStateInv /\ MonitorInv /\ ReleaseInv /\ ReleasedOnce /\ CounterInv /\ CapacityRespected

=============================================================================
