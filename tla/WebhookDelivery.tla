--------------------------- MODULE WebhookDelivery ---------------------------
(***************************************************************************)
(* Delivery of webhooks: the rows that _handle_job_webhook inserts, the     *)
(* DeliveryWorker of each orchestrator (delivery.py), and the tenant's      *)
(* management of one endpoint (webhook_endpoints.py).                       *)
(*                                                                          *)
(* A worker sends its batch with one coroutine per row, all of them on ONE  *)
(* database session: a commit of any of them makes everybody's writes       *)
(* durable and releases every row lock, a rollback undoes everybody's.      *)
(***************************************************************************)
EXTENDS Integers, FiniteSets

CONSTANTS
    Workers,      \* orchestrators, each with a DeliveryWorker
    Deliveries,   \* (job, event) pairs that concern the endpoint
    Named,        \* those whose job names the endpoint (elevenlabs_webhook_id)
    MaxAttempts,  \* MAX_ATTEMPTS
    Threshold,    \* AUTO_DISABLE_FAILURE_THRESHOLD
    MaxBatch,     \* MAX_CONCURRENT
    MaxIncidents, \* bound on crashes, database calls that raise and the tenant's own retries
    Nobody

ASSUME DeliveryAssumption ==
    /\ IsFiniteSet(Workers) /\ IsFiniteSet(Deliveries) /\ Named \subseteq Deliveries
    /\ MaxAttempts \in Nat \ {0} /\ Threshold \in Nat \ {0} /\ MaxBatch \in Nat \ {0}
    /\ MaxIncidents \in Nat
    /\ Nobody \notin Workers

VARIABLES
    row,      \* webhook_deliveries: status, attempts, and whether next_retry_at has come
    ep,       \* the endpoint: state, consecutive_failures, last_success_at within 7 days
    lock,     \* the worker whose transaction holds the row's lock
    at,       \* at[w][d]: the step of w's coroutine for d
    mem,      \* mem[w][d]: the row as w's session has it
    dirty,    \* dirty[w]: rows that w's transaction has written
    epTx,     \* epTx[w]: the endpoint as w's transaction has written it, or Nobody
    expired,  \* expired[w]: rows of w's session that a rollback has expired
    manual,
    \* ghosts
    posts,    \* requests sent for each row, as long as it is not entangled
    acked,    \* rows for which the endpoint has answered 2xx, before any fault
    entangled, \* rows that two workers have processed at a time, or that a deadlock has hit
    faults

session == <<at, mem, dirty, epTx, expired>>
ghosts  == <<posts, acked, entangled>>
vars    == <<row, ep, lock, session, manual, ghosts, faults>>

NoRow == [st |-> "none", att |-> 0, due |-> FALSE]

Init ==
    /\ row = [d \in Deliveries |-> NoRow]
    /\ ep = [st |-> "none", fails |-> 0, recent |-> FALSE]
    /\ lock = [d \in Deliveries |-> Nobody]
    /\ at = [w \in Workers |-> [d \in Deliveries |-> "idle"]]
    /\ mem = [w \in Workers |-> [d \in Deliveries |-> NoRow]]
    /\ dirty = [w \in Workers |-> {}]
    /\ epTx = [w \in Workers |-> Nobody]
    /\ expired = [w \in Workers |-> {}]
    /\ manual = 0
    /\ posts = [d \in Deliveries |-> 0]
    /\ acked = {} /\ entangled = {}
    /\ faults = 0

Goto(w, d, l) == at' = [at EXCEPT ![w][d] = l]
Finish(w, d)  == Goto(w, d, "idle") /\ mem' = [mem EXCEPT ![w][d] = NoRow]
Active(w)     == {d \in Deliveries : at[w][d] # "idle"}
Incident      == manual + faults < MaxIncidents
Inject        == Incident /\ faults' = faults + 1

-----------------------------------------------------------------------------
(* The tenant's endpoint and its deliveries *)

CreateEndpoint ==
    /\ ep.st = "none"
    /\ ep' = [ep EXCEPT !.st = "active"]
    /\ UNCHANGED <<row, lock, session, manual, ghosts, faults>>

\* get_endpoint_authorized finds it; otherwise the route answers 404.
Known == ep.st \in {"active", "off", "auto"}

\* Nobody's transaction holds the endpoint's row.
EndpointFree(w) == \A v \in Workers \ {w} : epTx[v] = Nobody

\* update_endpoint with is_active: enabling clears the failures.
UpdateEndpoint ==
    /\ Known /\ EndpointFree(Nobody)
    /\ \/ ep' = [ep EXCEPT !.st = "off"]
       \/ ep' = [ep EXCEPT !.st = "active", !.fails = 0]
    /\ UNCHANGED <<row, lock, session, manual, ghosts, faults>>

\* delete_endpoint: only without a delivery history.
DeleteEndpoint ==
    /\ Known
    /\ \A d \in Deliveries : row[d].st = "none"
    /\ ep' = [ep EXCEPT !.st = "deleted"]
    /\ UNCHANGED <<row, lock, session, manual, ghosts, faults>>

\* _handle_job_webhook: one row per job, event and endpoint, however often it is replayed.
CreateDelivery(d) ==
    /\ ep.st = "active" \/ (d \in Named /\ Known)
    /\ row[d].st = "none"
    /\ row' = [row EXCEPT ![d] = [st |-> "pending", att |-> 0, due |-> TRUE]]
    /\ UNCHANGED <<ep, lock, session, manual, ghosts, faults>>

\* retry_delivery: the attempts are not reset.
RetryDelivery(d) ==
    /\ Known /\ Incident /\ manual' = manual + 1
    /\ row[d].st = "failed" /\ lock[d] = Nobody
    /\ row' = [row EXCEPT ![d].st = "pending", ![d].due = TRUE]
    /\ UNCHANGED <<ep, lock, session, ghosts, faults>>

\* Time passes: next_retry_at comes, and the last success is more than 7 days ago.
RetryComesDue(d) ==
    /\ row[d].st = "pending" /\ ~row[d].due
    /\ row' = [row EXCEPT ![d].due = TRUE]
    /\ UNCHANGED <<ep, lock, session, manual, ghosts, faults>>

SuccessAges ==
    /\ ep.recent /\ EndpointFree(Nobody)
    /\ ep' = [ep EXCEPT !.recent = FALSE]
    /\ UNCHANGED <<row, lock, session, manual, ghosts, faults>>

-----------------------------------------------------------------------------
(* The worker: _poll_and_deliver and the coroutines of its batch *)

\* SELECT ... FOR UPDATE SKIP LOCKED.
Free == {d \in Deliveries : row[d].st = "pending" /\ row[d].due /\ lock[d] = Nobody}

Poll(w) ==
    /\ Active(w) = {}
    /\ \E S \in SUBSET Free :
         /\ S # {} /\ Cardinality(S) <= MaxBatch
         /\ S = Free \/ Cardinality(S) = MaxBatch
         /\ lock' = [d \in Deliveries |-> IF d \in S THEN w ELSE lock[d]]
         /\ at' = [at EXCEPT ![w] = [d \in Deliveries |-> IF d \in S THEN "send" ELSE "idle"]]
         /\ mem' = [mem EXCEPT ![w] = [d \in Deliveries |-> IF d \in S THEN row[d] ELSE NoRow]]
         /\ entangled' = entangled \cup {d \in S : \E v \in Workers : d \in Active(v)}
    /\ posts' = [d \in Deliveries |-> IF d \in entangled' THEN 0 ELSE posts[d]]
    /\ acked' = acked \ entangled'
    /\ UNCHANGED <<row, ep, dirty, epTx, expired, manual, faults>>

\* WebhookService.deliver: the request is sent and answered, or not.
Post(w, d) ==
    /\ at[w][d] = "send"
    /\ posts' = [posts EXCEPT ![d] = IF d \in entangled THEN @ ELSE @ + 1]
    /\ \/ /\ Goto(w, d, "answered")
          /\ acked' = IF faults = 0 /\ d \notin entangled THEN acked \cup {d} ELSE acked
       \/ Goto(w, d, "refused")  /\ UNCHANGED acked
    /\ UNCHANGED <<row, ep, lock, mem, dirty, epTx, expired, manual, entangled, faults>>

\* The endpoint as w's transaction sees it.
Seen(w) == IF epTx[w] = Nobody THEN ep ELSE epTx[w]

Written(w, d, r, l) ==
    /\ mem' = [mem EXCEPT ![w][d] = r]
    /\ dirty' = [dirty EXCEPT ![w] = @ \cup {d}]
    /\ Goto(w, d, l)
    /\ UNCHANGED <<row, ep, expired, manual, ghosts, faults>>

\* An UPDATE of the endpoint flushes the row first, so both rows are locked.
Flush(w, d) ==
    /\ lock[d] \in {w, Nobody} /\ EndpointFree(w)
    /\ lock' = [lock EXCEPT ![d] = w]

\* A success resets the endpoint's failures.
Succeed(w, d) ==
    /\ at[w][d] = "answered" /\ d \notin expired[w] /\ Flush(w, d)
    /\ Written(w, d, [st |-> "success", att |-> mem[w][d].att + 1, due |-> FALSE], "commit")
    /\ epTx' = [epTx EXCEPT ![w] = [Seen(w) EXCEPT !.fails = 0, !.recent = TRUE]]

Last(w, d) == mem[w][d].att + 1 >= MaxAttempts

\* The attempts are exhausted: one more failure of the endpoint.
Exhaust(w, d) ==
    /\ at[w][d] = "refused" /\ d \notin expired[w] /\ Last(w, d) /\ Flush(w, d)
    /\ Written(w, d, [st |-> "failed", att |-> mem[w][d].att + 1, due |-> FALSE], "disable")
    /\ epTx' = [epTx EXCEPT ![w] = [Seen(w) EXCEPT !.fails = @ + 1]]

\* db.refresh and _check_auto_disable.
CheckAutoDisable(w, d) ==
    /\ at[w][d] = "disable" /\ d \notin expired[w]
    /\ LET e == Seen(w) IN
       IF e.fails < Threshold \/ e.recent
       THEN UNCHANGED epTx
       ELSE /\ EndpointFree(w)
            /\ epTx' = [epTx EXCEPT ![w] = [e EXCEPT !.st = "auto"]]
    /\ Goto(w, d, "commit")
    /\ UNCHANGED <<row, ep, lock, mem, dirty, expired, manual, ghosts, faults>>

\* Mutant: only the last attempt is counted.
ScheduleRetryUncounted(w, d) ==
    /\ at[w][d] = "refused" /\ d \notin expired[w] /\ ~Last(w, d)
    /\ Written(w, d, [mem[w][d] EXCEPT !.due = FALSE], "commit")
    /\ UNCHANGED <<lock, epTx>>

ScheduleRetry(w, d) ==
    /\ at[w][d] = "refused" /\ d \notin expired[w] /\ ~Last(w, d)
    /\ Written(w, d, [mem[w][d] EXCEPT !.att = @ + 1, !.due = FALSE], "commit")
    /\ UNCHANGED <<lock, epTx>>

\* The columns that the session has assigned; the status of a row that is to be retried
\* is not among them.
Stored(w, d) ==
    [mem[w][d] EXCEPT !.st = IF @ = "pending" THEN row[d].st ELSE @]

\* db.commit() of one coroutine: everybody's writes, everybody's locks.  It waits for
\* the rows that another worker has locked.
Commit(w, d) ==
    /\ at[w][d] = "commit" /\ d \notin expired[w]
    /\ \A c \in dirty[w] : lock[c] \in {w, Nobody}
    /\ row' = [c \in Deliveries |-> IF c \in dirty[w] THEN Stored(w, c) ELSE row[c]]
    /\ ep' = Seen(w)
    /\ dirty' = [dirty EXCEPT ![w] = {}]
    /\ epTx' = [epTx EXCEPT ![w] = Nobody]
    /\ lock' = [c \in Deliveries |-> IF lock[c] = w THEN Nobody ELSE lock[c]]
    /\ Finish(w, d)
    /\ UNCHANGED <<expired, manual, ghosts, faults>>

\* Mutant: the transaction stays open.
RollbackKeepingLocks(w) ==
    /\ dirty' = [dirty EXCEPT ![w] = {}]
    /\ epTx' = [epTx EXCEPT ![w] = Nobody]
    /\ UNCHANGED <<row, ep, lock, manual, posts, acked>>

\* db.rollback(): nobody's writes, and every object of the session expires.
Rollback(w) ==
    /\ dirty' = [dirty EXCEPT ![w] = {}]
    /\ epTx' = [epTx EXCEPT ![w] = Nobody]
    /\ lock' = [c \in Deliveries |-> IF lock[c] = w THEN Nobody ELSE lock[c]]
    /\ UNCHANGED <<row, ep, manual, posts, acked>>

\* w's session waits for a row that v has locked.
Waits(w, v) ==
    \E d \in Deliveries : d \notin expired[w] /\
        \/ at[w][d] \in {"answered", "refused"} /\ (lock[d] = v \/ epTx[v] # Nobody)
        \/ at[w][d] = "commit" /\ \E c \in dirty[w] : lock[c] = v

\* PostgreSQL lets one of two transactions that wait for each other fail.
Deadlocked(w) == \E v \in Workers \ {w} : Waits(w, v) /\ Waits(v, w)

\* A database call raises, as it also does when another coroutine is in the middle of a
\* commit on the same session: the coroutine ends, the others will find their rows expired.
Raise(w, d) ==
    /\ \/ Inject /\ UNCHANGED entangled
       \/ Deadlocked(w) /\ UNCHANGED faults /\ entangled' = entangled \cup Active(w)
    /\ at[w][d] \in {"answered", "refused", "disable", "commit"} /\ d \notin expired[w]
    /\ Rollback(w)
    /\ expired' = [expired EXCEPT ![w] = Active(w) \ {d}]
    /\ Finish(w, d)

\* Touching an expired row raises outside a database call.
RaiseExpired(w, d) ==
    /\ d \in expired[w] /\ at[w][d] # "send"
    /\ Rollback(w)
    /\ expired' = [expired EXCEPT ![w] = @ \ {d}]
    /\ Finish(w, d)
    /\ UNCHANGED <<entangled, faults>>

Crash(w) ==
    /\ Inject
    /\ Active(w) # {}
    /\ Rollback(w)
    /\ expired' = [expired EXCEPT ![w] = {}]
    /\ at' = [at EXCEPT ![w] = [d \in Deliveries |-> "idle"]]
    /\ mem' = [mem EXCEPT ![w] = [d \in Deliveries |-> NoRow]]
    /\ UNCHANGED entangled

-----------------------------------------------------------------------------
(* Specification *)

Deliver(w, d) ==
    \/ Post(w, d) \/ Succeed(w, d) \/ Exhaust(w, d) \/ CheckAutoDisable(w, d)
    \/ ScheduleRetry(w, d) \/ Commit(w, d) \/ RaiseExpired(w, d)

Work(w) == Poll(w) \/ \E d \in Deliveries : Deliver(w, d)

Tenant == CreateEndpoint \/ UpdateEndpoint \/ DeleteEndpoint

Next ==
    \/ Tenant \/ SuccessAges
    \/ \E d \in Deliveries : CreateDelivery(d) \/ RetryDelivery(d) \/ RetryComesDue(d)
    \/ \E w \in Workers : Work(w) \/ Crash(w)
    \/ \E w \in Workers, d \in Deliveries : Raise(w, d)

\* The loop of every worker goes on, each coroutine with it, and time passes.
Fairness ==
    /\ \A w \in Workers : WF_vars(Work(w))
    /\ \A w \in Workers : WF_vars(Deadlocked(w) /\ \E d \in Deliveries : Raise(w, d))
    /\ \A d \in Deliveries : WF_vars(RetryComesDue(d))

Spec     == Init /\ [][Next]_vars
FairSpec == Spec /\ Fairness

-----------------------------------------------------------------------------
(* Properties *)

Rows   == [st : {"none", "pending", "success", "failed"}, att : Nat, due : BOOLEAN]
Points == [st : {"none", "active", "off", "auto", "deleted"}, fails : Nat, recent : BOOLEAN]

\* Rows, locks, sessions and the endpoint are in their ranges.
TypeOK ==
    /\ row \in [Deliveries -> Rows] /\ ep \in Points
    /\ lock \in [Deliveries -> Workers \cup {Nobody}]
    /\ at \in [Workers -> [Deliveries -> {"idle", "send", "answered", "refused", "disable", "commit"}]]
    /\ mem \in [Workers -> [Deliveries -> Rows]]
    /\ dirty \in [Workers -> SUBSET Deliveries]
    /\ epTx \in [Workers -> Points \cup {Nobody}]
    /\ expired \in [Workers -> SUBSET Deliveries]
    /\ manual \in 0..MaxIncidents
    /\ posts \in [Deliveries -> Nat]
    /\ acked \in SUBSET Deliveries /\ entangled \in SUBSET Deliveries
    /\ faults \in 0..MaxIncidents

InFlight(d) == Cardinality({w \in Workers : at[w][d] \notin {"idle", "send"}})

\* A request that is not recorded as an attempt is in flight or was lost by a fault:
\* as long as no two workers had the row, the endpoint is not called more often.
AttemptsCounted ==
    \A d \in Deliveries \ entangled : posts[d] <= row[d].att + InFlight(d) + faults

\* No row gets more attempts than MAX_ATTEMPTS and the tenant's own retries, whoever
\* has worked on it.
AttemptsBounded == \A d \in Deliveries : row[d].att <= MaxAttempts + manual

\* An answer of the endpoint is not lost: the row says success once nobody works on it,
\* unless a fault or a second worker came in between.
AnswerKept ==
    \A d \in acked \ entangled :
        faults = 0 /\ (\A w \in Workers : at[w][d] = "idle") => row[d].st = "success"

Failed == {d \in Deliveries : row[d].st = "failed"}

\* An endpoint that is disabled automatically has as many failed deliveries as the
\* threshold says: a delivery counts once, whichever coroutine's commit or rollback it
\* went through (a retry of the tenant counts again, two workers on a row count twice).
DisabledForCause ==
    ep.st = "auto" /\ entangled = {} => Cardinality(Failed) + manual >= Threshold

\* Rows that two workers process at the same time are known as such.
Alone == \A d \in Deliveries \ entangled, v, w \in Workers : d \in Active(v) \cap Active(w) => v = w

\* A rollback expires the whole batch and leaves nothing written; what is written belongs
\* to coroutines that are about to commit.
SessionKept(w) ==
    /\ \A d \in dirty[w] : d \notin expired[w] /\ at[w][d] \in {"disable", "commit"}
    /\ expired[w] # {} => expired[w] = Active(w) /\ epTx[w] = Nobody
    /\ \A d \in expired[w] : faults > 0 \/ d \in entangled

SessionsKept == \A w \in Workers : SessionKept(w)

Unwritten == {"send", "answered", "refused"}

\* Only rows that exist are tried, and a row starts with no attempts.
RowsCreated ==
    \A d \in Deliveries : row[d].st = "none" => row[d].att = 0 /\ \A w \in Workers : at[w][d] = "idle"

\* What a session has read is what the row still says, but for its own writes.
RowFresh(w, d) ==
    /\ at[w][d] \in Unwritten => row[d].st = "pending" /\ mem[w][d].att = row[d].att
    /\ d \in dirty[w] => row[d].st = "pending" /\ mem[w][d].att = row[d].att + 1

RowsFresh == \A w \in Workers, d \in Deliveries : d \notin expired[w] \cup entangled => RowFresh(w, d)

\* The request that is not yet recorded, or that is yet to be sent and will be lost.
Owed(w, d) ==
    IF d \in expired[w] THEN IF at[w][d] = "send" THEN -1 ELSE 0
    ELSE IF at[w][d] \in {"answered", "refused"} \/ d \in dirty[w] THEN 1 ELSE 0

\* Requests, attempts and faults balance, row by row and worker by worker.
Books ==
    \A d \in Deliveries \ entangled :
        /\ (\A w \in Workers : d \notin Active(w)) => posts[d] <= row[d].att + faults
        /\ \A w \in Workers : d \in Active(w) => posts[d] <= row[d].att + faults + Owed(w, d)

\* A row that is to be tried has an attempt left, in the table and in every session.
AttemptLeft ==
    /\ \A d \in Deliveries : row[d].st = "pending" => row[d].att < MaxAttempts + manual
    /\ \A w \in Workers, d \in Deliveries :
        /\ at[w][d] \in Unwritten => mem[w][d].st = "pending" /\ mem[w][d].att < MaxAttempts + manual
        /\ d \in dirty[w] => /\ mem[w][d].st # "none" /\ mem[w][d].att <= MaxAttempts + manual
                             /\ mem[w][d].st = "pending" => mem[w][d].att < MaxAttempts

\* An answer is recorded, or somebody is about to record it.
AnswerHeld ==
    \A d \in acked \ entangled : faults = 0 =>
        \/ row[d].st = "success"
        \/ \E w \in Workers : at[w][d] = "answered" \/ (d \in dirty[w] /\ mem[w][d].st = "success")

FailedIn(w) == Failed \cup {d \in dirty[w] : mem[w][d].st = "failed"}

\* e counts no more failures than there are, and is disabled for enough of them.
Caused(e, F) == e.fails <= Cardinality(F) + manual /\ (e.st = "auto" => Cardinality(F) + manual >= Threshold)

\* That holds of the endpoint, and of what every transaction has made of it.
FailuresCounted ==
    entangled = {} =>
        Caused(ep, Failed) /\ \A w \in Workers : epTx[w] # Nobody => Caused(epTx[w], FailedIn(w))

\* Every delivery ends as a success or as a failure: a worker's crash, a rollback or a
\* deadlock of two workers leaves no row that nobody would take up again.
Settled == <>[](\A d \in Deliveries : row[d].st # "pending")

\* A batch that shares a session keeps honest books: requests and answers are recorded,
\* attempts are bounded, and the endpoint is disabled only for failures that happened.
DeliveryInv ==
    /\ TypeOK /\ AttemptsCounted /\ AttemptsBounded /\ AnswerKept /\ DisabledForCause
    /\ Alone /\ SessionsKept /\ RowsCreated /\ RowsFresh /\ Books /\ AttemptLeft /\ AnswerHeld /\ FailuresCounted

=============================================================================
