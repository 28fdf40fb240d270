----------------------------- MODULE EventStream -----------------------------
(***************************************************************************)
(* The durable event stream: common/durable_events.py on Redis, and the     *)
(* consumer loop of orchestrator/distributed_main.py that reads, replays,   *)
(* dispatches, acknowledges and dead-letters its entries.                   *)
(*                                                                          *)
(* An entry is its number in the stream.  Between two awaits of a consumer  *)
(* the others run; a consumer processes a batch one entry after the other.  *)
(***************************************************************************)
EXTENDS Integers, FiniteSets

CONSTANTS
    Consumers,      \* orchestrators, the consumers of the group
    Events,         \* bound on the number of published events
    Invalid,        \* entries that do not parse, or whose type no handler has
    MaxDeliveries,  \* settings.events_max_deliveries
    MaxLen,         \* MAX_STREAM_LENGTH
    Batch,          \* count of read_new_events
    MaxFaults       \* bound on crashes, failing Redis calls and claims from slow consumers

Ids == 1..Events

ASSUME StreamAssumption ==
    /\ Events \in Nat
    /\ Invalid \subseteq Ids
    /\ MaxDeliveries \in Nat \ {0}
    /\ MaxLen \in Nat \ {0}
    /\ Batch \in Nat \ {0}
    /\ MaxFaults \in Nat

VARIABLES
    \* Redis
    tail,        \* the last published entry
    first,       \* the oldest entry that has not been trimmed
    cursor,      \* the group's last delivered entry
    pel,         \* the group's pending entries
    deliveries,  \* times_delivered of each entry
    dlq,         \* how often each entry was written to the dead letter queue
    \* consumers
    held,        \* held[c][i]: delivery_count of the envelope c has in its batch, 0 if none
    at,          \* where c is with the first envelope of its batch
    \* ghosts
    applied,     \* how often the handler of each entry has returned
    faults

redis == <<tail, first, cursor, pel, deliveries, dlq>>
vars  == <<redis, held, at, applied, faults>>

Init ==
    /\ tail = 0 /\ first = 1 /\ cursor = 0
    /\ pel = {}
    /\ deliveries = [i \in Ids |-> 0]
    /\ dlq = [i \in Ids |-> 0]
    /\ held = [c \in Consumers |-> [i \in Ids |-> 0]]
    /\ at = [c \in Consumers |-> "dispatch"]
    /\ applied = [i \in Ids |-> 0]
    /\ faults = 0

HeldBy(c)    == {i \in Ids : held[c][i] > 0}
Idle(c)      == HeldBy(c) = {}
Current(c, i) == i \in HeldBy(c) /\ \A j \in HeldBy(c) : i <= j
InFlight     == UNION {HeldBy(c) : c \in Consumers}
At(c, l)     == at[c] = l
Goto(c, l)   == at' = [at EXCEPT ![c] = l]
Inject       == faults < MaxFaults /\ faults' = faults + 1

-----------------------------------------------------------------------------
(* Publishing *)

\* add_durable_event: XADD with an approximate MAXLEN, which keeps at least MaxLen entries.
Publish ==
    /\ tail < Events
    /\ tail' = tail + 1
    /\ \E f \in first..(tail + 2) :
         /\ f = first \/ f + MaxLen <= tail + 2
         /\ first' = f
    /\ UNCHANGED <<cursor, pel, deliveries, dlq, held, at, applied, faults>>

-----------------------------------------------------------------------------
(* Reading and claiming *)

\* read_new_events: the next entries of the stream, each delivered for the first time.
Unread == {i \in Ids : cursor < i /\ first <= i /\ i <= tail}

Read(c) ==
    /\ Idle(c)
    /\ \E k \in Unread :
         LET S == {i \in Unread : i <= k} IN
         /\ Cardinality(S) <= Batch
         /\ cursor' = k
         /\ pel' = pel \cup S
         /\ deliveries' = [i \in Ids |-> IF i \in S THEN 1 ELSE deliveries[i]]
         /\ held' = [held EXCEPT ![c] = [i \in Ids |-> IF i \in S THEN 1 ELSE 0]]
    /\ UNCHANGED <<tail, first, dlq, at, applied, faults>>

\* claim_stale_pending_events: XAUTOCLAIM counts a delivery and hands the entry over;
\* an entry that was trimmed leaves the pending list instead.
TakeOver(c, S) ==
    LET live == {i \in S : first <= i} IN
    /\ pel' = pel \ (S \ live)
    /\ deliveries' = [i \in Ids |-> IF i \in live THEN deliveries[i] + 1 ELSE deliveries[i]]
    /\ held' = [held EXCEPT ![c] = [i \in Ids |-> IF i \in live THEN deliveries[i] + 1 ELSE 0]]
    /\ UNCHANGED <<tail, first, cursor, dlq, at, applied>>

\* Mutant: an entry is not claimed again once it was delivered twice.
ClaimOnce(c) ==
    /\ Idle(c)
    /\ \E S \in SUBSET {i \in pel \ InFlight : deliveries[i] <= 1} : S # {} /\ TakeOver(c, S)
    /\ UNCHANGED faults

\* Mutant: the idle time is ignored, so that entries in process are claimed.
ClaimBusy(c) ==
    /\ Idle(c)
    /\ \E S \in SUBSET pel : S # {} /\ TakeOver(c, S)
    /\ UNCHANGED faults

\* Entries that nobody is processing have been idle for long enough.
Claim(c) ==
    /\ Idle(c)
    /\ \E S \in SUBSET (pel \ InFlight) : S # {} /\ TakeOver(c, S)
    /\ UNCHANGED faults

\* So have entries that wait in the batch of a consumer which is slow: at startup 30
\* seconds are enough.
ClaimFromSlow(c) ==
    /\ Idle(c)
    /\ Inject
    /\ \E S \in SUBSET pel : S \cap InFlight # {} /\ TakeOver(c, S)

-----------------------------------------------------------------------------
(* _process_durable_event, for the first envelope of the batch *)

\* _parse_envelope found a type and a JSON object, and a handler knows the type.
IsValid(i) == i \notin Invalid

Drop(c, i) == held' = [held EXCEPT ![c][i] = 0]

\* The handler returned.
Dispatched(c) ==
    /\ At(c, "dispatch")
    /\ \E i \in Ids :
         /\ Current(c, i) /\ IsValid(i)
         /\ applied' = [applied EXCEPT ![i] = @ + 1]
    /\ Goto(c, "ack")
    /\ UNCHANGED <<redis, held, faults>>

\* Mutant: one delivery fewer than the ceiling.
RetryableEarly(c, i) == held[c][i] + 1 < MaxDeliveries
Retryable(c, i) == held[c][i] < MaxDeliveries

\* It raised: below the ceiling the entry is left pending.
LeftPending(c) ==
    /\ At(c, "dispatch")
    /\ \E i \in Ids : Current(c, i) /\ IsValid(i) /\ Retryable(c, i) /\ Drop(c, i)
    /\ UNCHANGED <<redis, at, applied, faults>>

\* Not retryable, or at the ceiling.
GivenUp(c) ==
    /\ At(c, "dispatch")
    /\ \E i \in Ids : Current(c, i) /\ (~IsValid(i) \/ ~Retryable(c, i))
    /\ Goto(c, "bury")
    /\ UNCHANGED <<redis, held, applied, faults>>

\* move_event_to_dlq: XADD to the dead letter queue, then ack_event.
Bury(c) ==
    /\ At(c, "bury")
    /\ \E i \in Ids : Current(c, i) /\ dlq' = [dlq EXCEPT ![i] = @ + 1]
    /\ Goto(c, "ack")
    /\ UNCHANGED <<tail, first, cursor, pel, deliveries, held, applied, faults>>

\* Mutant: the whole batch is acknowledged with its first entry.
AckEverything(c) ==
    /\ At(c, "ack")
    /\ \E i \in Ids : Current(c, i) /\ pel' = pel \ HeldBy(c) /\ Drop(c, i)
    /\ Goto(c, "dispatch")
    /\ UNCHANGED <<tail, first, cursor, deliveries, dlq, applied, faults>>

\* ack_event: XACK, whoever the entry belongs to by now.
Ack(c) ==
    /\ At(c, "ack")
    /\ \E i \in Ids : Current(c, i) /\ pel' = pel \ {i} /\ Drop(c, i)
    /\ Goto(c, "dispatch")
    /\ UNCHANGED <<tail, first, cursor, deliveries, dlq, applied, faults>>

\* A Redis call raises: the loop logs it and goes on with the next envelope.
RedisError(c) ==
    /\ at[c] \in {"bury", "ack"}
    /\ Inject
    /\ \E i \in Ids : Current(c, i) /\ Drop(c, i)
    /\ Goto(c, "dispatch")
    /\ UNCHANGED <<redis, applied>>

\* The orchestrator dies with its batch, and is started again.
Crash(c) ==
    /\ ~Idle(c)
    /\ Inject
    /\ held' = [held EXCEPT ![c] = [i \in Ids |-> 0]]
    /\ Goto(c, "dispatch")
    /\ UNCHANGED <<redis, applied>>

-----------------------------------------------------------------------------
(* Specification *)

Process(c) == Dispatched(c) \/ LeftPending(c) \/ GivenUp(c) \/ Bury(c) \/ Ack(c)

Next ==
    \/ Publish
    \/ \E c \in Consumers :
         Read(c) \/ Claim(c) \/ ClaimFromSlow(c) \/ Process(c) \/ RedisError(c) \/ Crash(c)

\* A consumer that is up goes on with its batch, reads when it has none, and claims
\* every few minutes; nobody needs to publish, and handlers may go on raising.
Fairness == \A c \in Consumers : WF_vars(Process(c)) /\ WF_vars(Read(c)) /\ WF_vars(Claim(c))

Spec     == Init /\ [][Next]_vars
FairSpec == Spec /\ Fairness

-----------------------------------------------------------------------------
(* Properties *)

\* Every number is in its range, every batch and every pending list holds entries.
TypeOK ==
    /\ tail \in 0..Events
    /\ first \in 1..(Events + 1)
    /\ cursor \in 0..Events
    /\ pel \in SUBSET Ids
    /\ deliveries \in [Ids -> Nat]
    /\ dlq \in [Ids -> Nat]
    /\ held \in [Consumers -> [Ids -> Nat]]
    /\ at \in [Consumers -> {"dispatch", "ack", "bury"}]
    /\ applied \in [Ids -> Nat]
    /\ faults \in 0..MaxFaults

\* The consumer loop loses no event: it implements at-least-once processing with a
\* dead letter queue.  What is owed is what is unread or pending.
Owed == Unread \cup pel
Done == {i \in Ids : applied[i] > 0}
Dead == {i \in Ids : dlq[i] > 0}
Promise == INSTANCE AtLeastOnce WITH
    Kept <- MaxLen, accepted <- tail, owed <- Owed, done <- Done, dead <- Dead
KeepsPromise == Promise!Spec

\* An entry is in the dead letter queue only because it is malformed or because its
\* delivery ceiling was reached, whichever consumer's count decided it.
QuarantineJustified == \A i \in Dead : ~IsValid(i) \/ deliveries[i] >= MaxDeliveries

\* No entry is delivered beyond the ceiling but for faults: one that keeps failing
\* does not come back for ever.
DeliveryCeiling == \A i \in Ids : deliveries[i] <= MaxDeliveries + faults

\* Without faults an event is processed once: a claim never takes what is in process.
ProcessedOnce == \A i \in Ids : applied[i] <= 1 + faults

\* Claims repeat no delivery without need: the ceiling holds and, but for
\* faults, an event is processed once, although claims go by idle time alone.
DeliveryBounds == DeliveryCeiling /\ ProcessedOnce

\* Every published event is processed or dead-lettered in the end, unless it was trimmed.
Settles == \A i \in Ids : (i <= tail) ~> (i \in Done \cup Dead \/ i < first)

-----------------------------------------------------------------------------
(* Why they hold *)

\* An entry is trimmed only when MaxLen newer ones exist, and the group has delivered
\* what is pending, held or dead-lettered.
WindowInv ==
    /\ cursor <= tail /\ first <= tail + 1
    /\ first = 1 \/ first + MaxLen <= tail + 1
    /\ \A i \in pel \cup InFlight \cup Dead : i <= cursor

\* A consumer that is about to acknowledge has processed or buried the entry, one that
\* is about to bury it has a reason, and one without a batch is at neither point.
ConsumerInv ==
    \A c \in Consumers :
        /\ Idle(c) => At(c, "dispatch")
        /\ \A i \in Ids :
             /\ held[c][i] <= deliveries[i]
             /\ At(c, "ack") /\ Current(c, i) => i \in Done \cup Dead
             /\ At(c, "bury") /\ Current(c, i) => ~IsValid(i) \/ held[c][i] >= MaxDeliveries

\* Whatever consumer the entry is with, acknowledging it is safe: the inductive
\* invariant behind KeepsPromise and QuarantineJustified.
StreamInv == TypeOK /\ WindowInv /\ ConsumerInv /\ QuarantineJustified

\* The consumers whose handler may still return for the entry, and whether Redis will
\* deliver it once more.
Open(i)    == {c \in Consumers : held[c][i] > 0 /\ ~(At(c, "ack") /\ Current(c, i))}
Waiting(i) == cursor < i \/ i \in pel \ InFlight

\* A consumer's count is behind by the claims from slow consumers only, an entry that nobody
\* processes has a delivery left, and every fault is worth one more return of the handler:
\* the inductive invariant behind DeliveryBounds.
BoundsInv ==
    /\ DeliveryCeiling
    /\ \A i \in Ids :
         /\ \A c \in Consumers : held[c][i] > 0 => deliveries[i] <= held[c][i] + faults
         /\ i \in pel \ InFlight => deliveries[i] < MaxDeliveries + faults
         /\ IsFiniteSet(Open(i))
         /\ applied[i] + Cardinality(Open(i)) + (IF Waiting(i) THEN 1 ELSE 0) <= 1 + faults

=============================================================================
