-------------------------- MODULE EventStreamProofs --------------------------
(***************************************************************************)
(* The durable event stream keeps its promise, for any number of consumers, *)
(* events, deliveries and faults.                                           *)
(***************************************************************************)
EXTENDS EventStream, FiniteSetTheorems, TLAPS

USE DEF At

\* What TypeOK gives a step: every variable's type, and that the constants are numbers.
LEMMA Types ==
    ASSUME TypeOK
    PROVE  /\ Events \in Nat /\ MaxLen \in Nat \ {0} /\ MaxDeliveries \in Nat \ {0}
           /\ tail \in Nat /\ first \in Nat \ {0} /\ cursor \in Nat
           /\ tail <= Events
           /\ \A i \in Ids : deliveries[i] \in Nat /\ dlq[i] \in Nat /\ applied[i] \in Nat
           /\ \A c \in Consumers : \A i \in Ids : held[c][i] \in Nat
           /\ \A i \in Ids : i \in Nat /\ 1 <= i /\ i <= Events
BY StreamAssumption DEF TypeOK, Ids

\* XADD with a MAXLEN: what lies between the old and the new first entry has m successors.
LEMMA TrimArithmetic ==
    ASSUME NEW i \in Nat, NEW old \in Nat, NEW new \in Nat, NEW last \in Nat, NEW m \in Nat,
           old <= i, i < new, new = old \/ new + m <= last + 1
    PROVE  i + m <= last
OBVIOUS

\* The initial state: nothing published, delivered or held.
LEMMA StreamInit == Init => StreamInv
<1> SUFFICES ASSUME Init PROVE StreamInv
  OBVIOUS
<1>1. TypeOK
  BY StreamAssumption DEF Init, TypeOK
<1>2. /\ \A c \in Consumers : \A i \in Ids : held[c][i] = 0
      /\ \A i \in Ids : deliveries[i] = 0 /\ dlq[i] = 0
  BY DEF Init
<1>3. WindowInv
  BY <1>2, StreamAssumption DEF Init, WindowInv, InFlight, HeldBy, Dead
<1>4. ConsumerInv
  BY <1>2 DEF Init, ConsumerInv, HeldBy, Current
<1>5. QuarantineJustified
  BY <1>2 DEF QuarantineJustified, Dead
<1> QED BY <1>1, <1>3, <1>4, <1>5 DEF StreamInv

\* Types are kept by every step.
LEMMA TypeStep == ASSUME StreamInv, [Next]_vars PROVE TypeOK'
<1> USE StreamAssumption
<1>0. TypeOK /\ WindowInv
  BY DEF StreamInv
<1>1. CASE UNCHANGED vars
  BY <1>0, <1>1 DEF vars, redis, TypeOK
<1>2. CASE Publish
  BY <1>0, <1>2 DEF Publish, TypeOK, WindowInv
<1>3. ASSUME NEW c \in Consumers, Read(c) PROVE TypeOK'
  <2>1. PICK k \in Unread : /\ cursor' = k
                            /\ pel' = pel \cup {i \in Unread : i <= k}
                            /\ deliveries' \in [Ids -> Nat]
                            /\ held' \in [Consumers -> [Ids -> Nat]]
    BY <1>0, <1>3 DEF Read, TypeOK
  <2>2. Unread \subseteq Ids /\ k \in 0..Events
    BY DEF Unread, Ids
  <2> QED BY <1>0, <1>3, <2>1, <2>2 DEF Read, TypeOK
<1>4. ASSUME NEW c \in Consumers, NEW S \in SUBSET pel, TakeOver(c, S), faults' \in 0..MaxFaults
      PROVE  TypeOK'
  BY <1>0, <1>4 DEF TakeOver, TypeOK
<1>5. ASSUME NEW c \in Consumers, Claim(c) \/ ClaimFromSlow(c) PROVE TypeOK'
  <2>1. faults' \in 0..MaxFaults
    BY <1>0, <1>5 DEF Claim, ClaimFromSlow, Inject, TypeOK
  <2> QED BY <1>4, <1>5, <2>1 DEF Claim, ClaimFromSlow
<1>6. ASSUME NEW c \in Consumers, Process(c) PROVE TypeOK'
  <2>1. CASE Dispatched(c)
    BY <1>0, <2>1 DEF Dispatched, Goto, redis, TypeOK
  <2>2. CASE LeftPending(c)
    BY <1>0, <2>2 DEF LeftPending, Drop, redis, TypeOK
  <2>3. CASE GivenUp(c)
    BY <1>0, <2>3 DEF GivenUp, Goto, redis, TypeOK
  <2>4. CASE Bury(c)
    BY <1>0, <2>4 DEF Bury, Goto, TypeOK
  <2>5. CASE Ack(c)
    BY <1>0, <2>5 DEF Ack, Drop, Goto, TypeOK
  <2> QED BY <1>6, <2>1, <2>2, <2>3, <2>4, <2>5 DEF Process
<1>7. ASSUME NEW c \in Consumers, RedisError(c) PROVE TypeOK'
  BY <1>0, <1>7 DEF RedisError, Inject, Drop, Goto, redis, TypeOK
<1>8. ASSUME NEW c \in Consumers, Crash(c) PROVE TypeOK'
  BY <1>0, <1>8 DEF Crash, Inject, Goto, redis, TypeOK
<1> QED BY <1>1, <1>2, <1>3, <1>5, <1>6, <1>7, <1>8 DEF Next

\* Membership in the sets the invariants are about.
LEMMA Members ==
    /\ \A i : i \in InFlight <=> i \in Ids /\ \E c \in Consumers : held[c][i] > 0
    /\ \A i : i \in Dead <=> i \in Ids /\ dlq[i] > 0
    /\ \A i : i \in Done <=> i \in Ids /\ applied[i] > 0
    /\ \A c, i : i \in HeldBy(c) <=> i \in Ids /\ held[c][i] > 0
BY DEF InFlight, HeldBy, Dead, Done

\* The window of the stream moves only forward, and only over delivered entries.
LEMMA WindowStep == ASSUME StreamInv, [Next]_vars PROVE WindowInv'
<1> DEFINE Behind == /\ \A i \in pel : i <= cursor
                     /\ \A c \in Consumers : \A i \in Ids : held[c][i] > 0 => i <= cursor
                     /\ \A i \in Ids : dlq[i] > 0 => i <= cursor
           Window == /\ cursor <= tail /\ first <= tail + 1
                     /\ first = 1 \/ first + MaxLen <= tail + 1
<1>0. TypeOK /\ WindowInv
  BY DEF StreamInv
<1>a. Behind /\ Window
  BY <1>0, Members DEF WindowInv
<1>b. /\ Events \in Nat /\ MaxLen \in Nat \ {0} /\ tail \in Nat /\ first \in Nat \ {0} /\ cursor \in Nat
      /\ \A i \in Ids : i \in Nat /\ 1 <= i /\ i <= Events
      /\ \A i \in Ids : dlq[i] \in Nat
      /\ held \in [Consumers -> [Ids -> Nat]]
      /\ dlq \in [Ids -> Nat]
      /\ pel \subseteq Ids
  BY <1>0, Types DEF TypeOK
<1>c. Behind' /\ Window' => WindowInv'
  <2>1. /\ \A i : i \in InFlight' <=> i \in Ids /\ \E c \in Consumers : held'[c][i] > 0
        /\ \A i : i \in Dead' <=> i \in Ids /\ dlq'[i] > 0
    BY DEF InFlight, HeldBy, Dead
  <2> QED BY <2>1 DEF WindowInv
<1> HIDE DEF Behind, Window
<1>1. CASE UNCHANGED vars
  BY <1>a, <1>c, <1>1 DEF vars, redis, Behind, Window
<1>2. CASE Publish
  <2>1. Window'
    BY <1>a, <1>b, <1>2 DEF Publish, Window
  <2>2. Behind'
    BY <1>a, <1>2 DEF Publish, Behind
  <2> QED BY <2>1, <2>2, <1>c
<1>3. ASSUME NEW c \in Consumers, Read(c) PROVE WindowInv'
  <2>1. PICK k \in Unread : /\ cursor' = k
                            /\ pel' = pel \cup {i \in Unread : i <= k}
                            /\ held' = [held EXCEPT ![c] = [i \in Ids |-> IF i \in {j \in Unread : j <= k} THEN 1 ELSE 0]]
    BY <1>3 DEF Read
  <2>2. k \in Ids /\ cursor < k /\ k <= tail /\ UNCHANGED <<tail, first, dlq>>
    BY <1>3 DEF Unread, Read
  <2>3. Window'
    BY <1>a, <1>b, <2>1, <2>2 DEF Window
  <2>4. ASSUME NEW d \in Consumers, NEW i \in Ids, held'[d][i] > 0 PROVE i <= k
    BY <1>a, <1>b, <2>1, <2>2, <2>4 DEF Behind
  <2>5. ASSUME NEW i \in pel' PROVE i <= k
    BY <1>a, <1>b, <2>1, <2>2, <2>5 DEF Behind
  <2>6. ASSUME NEW i \in Ids, dlq'[i] > 0 PROVE i <= k
    BY <1>a, <1>b, <2>2, <2>6 DEF Behind
  <2>7. Behind'
    BY <2>1, <2>4, <2>5, <2>6 DEF Behind
  <2> QED BY <2>3, <2>7, <1>c
<1>4. ASSUME NEW c \in Consumers, NEW S \in SUBSET pel, TakeOver(c, S) PROVE WindowInv'
  <2>1. /\ UNCHANGED <<tail, first, cursor, dlq>>
        /\ pel' \subseteq pel
        /\ \A i \in Ids : held'[c][i] > 0 => i \in S
        /\ \A d \in Consumers \ {c} : held'[d] = held[d]
    BY <1>b, <1>4 DEF TakeOver
  <2>2. Window'
    BY <1>a, <2>1 DEF Window
  <2>3. Behind'
    BY <1>a, <2>1 DEF Behind
  <2> QED BY <2>2, <2>3, <1>c
<1>5. ASSUME NEW c \in Consumers, Claim(c) \/ ClaimFromSlow(c) PROVE WindowInv'
  BY <1>4, <1>5 DEF Claim, ClaimFromSlow
<1>6. ASSUME UNCHANGED <<tail, first, cursor>>, pel' \subseteq pel,
             \A d \in Consumers : \A i \in Ids : held'[d][i] > 0 => held[d][i] > 0,
             \A i \in Ids : dlq'[i] > 0 => dlq[i] > 0 \/ i \in InFlight
      PROVE  WindowInv'
  <2>1. Window'
    BY <1>a, <1>6 DEF Window
  <2>2. Behind'
    BY <1>a, <1>6, Members DEF Behind
  <2> QED BY <2>1, <2>2, <1>c
<1>7. ASSUME NEW c \in Consumers, Process(c) \/ RedisError(c) \/ Crash(c) PROVE WindowInv'
  <2>1. CASE Dispatched(c)
    BY <1>6, <2>1 DEF Dispatched, redis
  <2>2. CASE LeftPending(c)
    BY <1>6, <1>b, <2>2 DEF LeftPending, Drop, redis
  <2>3. CASE GivenUp(c)
    BY <1>6, <2>3 DEF GivenUp, redis
  <2>4. CASE Bury(c)
    BY <1>6, <1>b, <2>4, Members DEF Bury, Current
  <2>5. CASE Ack(c)
    BY <1>6, <1>b, <2>5 DEF Ack, Drop
  <2>6. CASE RedisError(c)
    BY <1>6, <1>b, <2>6 DEF RedisError, Drop, redis
  <2>7. CASE Crash(c)
    BY <1>6, <1>b, <2>7 DEF Crash, redis
  <2> QED BY <1>7, <2>1, <2>2, <2>3, <2>4, <2>5, <2>6, <2>7 DEF Process
<1> QED BY <1>1, <1>2, <1>3, <1>5, <1>7 DEF Next

\* The envelope a consumer processes is the first of its batch.
LEMMA FirstIsUnique == ASSUME NEW c, NEW i, NEW j, Current(c, i), Current(c, j) PROVE i = j
<1>1. i \in HeldBy(c) /\ j \in HeldBy(c) /\ i <= j /\ j <= i
  BY DEF Current
<1>2. i \in Int /\ j \in Int
  BY <1>1, StreamAssumption DEF HeldBy, Ids
<1> QED BY <1>1, <1>2

\* What each step does to a consumer's batch, with the rest of the state in the terms of
\* ConsumerInv: a consumer that the step leaves alone keeps its part of the invariant as
\* long as counts grow and nothing is taken out of Done and Dead.
LEMMA ConsumerStep == ASSUME StreamInv, [Next]_vars PROVE ConsumerInv'
<1> DEFINE Fine(c) ==
      /\ Idle(c) => At(c, "dispatch")
      /\ \A i \in Ids :
           /\ held[c][i] <= deliveries[i]
           /\ At(c, "ack") /\ Current(c, i) => applied[i] > 0 \/ dlq[i] > 0
           /\ At(c, "bury") /\ Current(c, i) => ~IsValid(i) \/ held[c][i] >= MaxDeliveries
<1> DEFINE Grows == \A i \in Ids : /\ deliveries[i] <= deliveries'[i]
                                   /\ applied[i] > 0 => applied'[i] > 0
                                   /\ dlq[i] > 0 => dlq'[i] > 0
<1>0. TypeOK /\ WindowInv /\ ConsumerInv
  BY DEF StreamInv
<1>a. \A c \in Consumers : Fine(c)
  BY <1>0, Members DEF ConsumerInv
<1>b. ASSUME \A c \in Consumers : Fine(c)' PROVE ConsumerInv'
  BY <1>b DEF ConsumerInv, Done, Dead
<1>c. /\ \A i \in Ids : deliveries[i] \in Nat /\ dlq[i] \in Nat /\ applied[i] \in Nat /\ i \in Nat
      /\ \A c \in Consumers : \A i \in Ids : held[c][i] \in Nat
      /\ held \in [Consumers -> [Ids -> Nat]] /\ at \in [Consumers -> {"dispatch", "ack", "bury"}]
      /\ deliveries \in [Ids -> Nat] /\ applied \in [Ids -> Nat] /\ dlq \in [Ids -> Nat]
      /\ pel \subseteq Ids
  BY <1>0, Types DEF TypeOK
<1>d. /\ \A i \in Ids : deliveries'[i] \in Nat
  BY TypeStep DEF TypeOK
<1>e. ASSUME NEW c \in Consumers, Grows, held'[c] = held[c], at'[c] = at[c] PROVE Fine(c)'
  <2>1. Idle(c)' = Idle(c) /\ \A i : Current(c, i)' = Current(c, i)
    BY <1>e DEF Idle, Current, HeldBy
  <2>2. \A i \in Ids : held'[c][i] <= deliveries'[i]
    BY <1>a, <1>c, <1>d, <1>e
  <2> QED BY <1>a, <1>e, <2>1, <2>2
<1> HIDE DEF Fine
<1>f. ASSUME NEW c \in Consumers, at'[c] = "dispatch", \A i \in Ids : held'[c][i] <= deliveries'[i]
      PROVE  Fine(c)'
  BY <1>f DEF Fine
<1>1. CASE UNCHANGED vars
  <2>1. Grows /\ \A c \in Consumers : held'[c] = held[c] /\ at'[c] = at[c]
    BY <1>c, <1>1 DEF vars, redis
  <2> QED BY <1>b, <1>e, <2>1
<1>2. CASE Publish
  <2>1. Grows /\ \A c \in Consumers : held'[c] = held[c] /\ at'[c] = at[c]
    BY <1>c, <1>2 DEF Publish
  <2> QED BY <1>b, <1>e, <2>1
<1>3. ASSUME NEW c \in Consumers, Read(c) PROVE ConsumerInv'
  <2>1. PICK S \in SUBSET Unread :
               /\ deliveries' = [i \in Ids |-> IF i \in S THEN 1 ELSE deliveries[i]]
               /\ held' = [held EXCEPT ![c] = [i \in Ids |-> IF i \in S THEN 1 ELSE 0]]
    <3>1. PICK k \in Unread :
               /\ deliveries' = [i \in Ids |-> IF i \in {j \in Unread : j <= k} THEN 1 ELSE deliveries[i]]
               /\ held' = [held EXCEPT ![c] = [i \in Ids |-> IF i \in {j \in Unread : j <= k} THEN 1 ELSE 0]]
      BY <1>3 DEF Read
    <3> QED BY <3>1
  <2>2. at[c] = "dispatch" /\ UNCHANGED <<at, applied, dlq>>
    BY <1>3, <1>a DEF Read, Fine
  <2>3. \A d \in Consumers : \A i \in S : held[d][i] = 0
    BY <1>0, <1>c, Members DEF WindowInv, Unread, TypeOK
  <2>4. ASSUME NEW d \in Consumers \ {c} PROVE Fine(d)'
    <3>1. held'[d] = held[d] /\ at'[d] = at[d]
      BY <1>c, <2>1, <2>2
    <3>2. \A i \in Ids : held[d][i] <= deliveries'[i]
      BY <1>a, <1>c, <2>1, <2>3 DEF Fine
    <3>3. Idle(d)' = Idle(d) /\ \A i : Current(d, i)' = Current(d, i)
      BY <3>1 DEF Idle, Current, HeldBy
    <3> QED BY <1>a, <2>2, <3>1, <3>2, <3>3 DEF Fine
  <2>5. Fine(c)'
    BY <1>c, <1>f, <2>1, <2>2
  <2> QED BY <1>b, <2>4, <2>5
<1>4. ASSUME NEW c \in Consumers, NEW S \in SUBSET pel, Idle(c), TakeOver(c, S) PROVE ConsumerInv'
  <2>1. Grows
    BY <1>c, <1>4 DEF TakeOver
  <2>2. at[c] = "dispatch" /\ at' = at
    BY <1>4, <1>a DEF TakeOver, Fine
  <2>3. \A i \in Ids : held'[c][i] <= deliveries'[i]
    BY <1>c, <1>4 DEF TakeOver
  <2>4. \A d \in Consumers \ {c} : held'[d] = held[d]
    BY <1>c, <1>4 DEF TakeOver
  <2> QED BY <1>b, <1>e, <1>f, <2>1, <2>2, <2>3, <2>4
<1>5. ASSUME NEW c \in Consumers, Claim(c) \/ ClaimFromSlow(c) PROVE ConsumerInv'
  BY <1>4, <1>5 DEF Claim, ClaimFromSlow
<1>6. ASSUME NEW c \in Consumers, Grows, Fine(c)',
             \A d \in Consumers \ {c} : held'[d] = held[d] /\ at'[d] = at[d]
      PROVE  ConsumerInv'
  BY <1>6, <1>b, <1>e
<1>7. ASSUME NEW c \in Consumers, Dispatched(c) PROVE ConsumerInv'
  <2>1. PICK i \in Ids : Current(c, i) /\ applied' = [applied EXCEPT ![i] = @ + 1]
    BY <1>7 DEF Dispatched
  <2>2. Grows /\ held' = held /\ at' = [at EXCEPT ![c] = "ack"]
    BY <1>c, <1>7, <2>1 DEF Dispatched, redis, Goto
  <2>3. \A j \in Ids : Current(c, j) => j = i
    BY <2>1, FirstIsUnique
  <2>4. Fine(c)'
    BY <1>a, <1>c, <1>d, <1>7, <2>1, <2>2, <2>3 DEF Fine, Idle, Current, HeldBy, Dispatched, redis
  <2> QED BY <1>6, <1>c, <2>2, <2>4
<1>8. ASSUME NEW c \in Consumers, LeftPending(c) PROVE ConsumerInv'
  <2>1. PICK i \in Ids : held' = [held EXCEPT ![c][i] = 0]
    BY <1>8 DEF LeftPending, Drop
  <2>2. Grows /\ at' = at /\ at[c] = "dispatch" /\ deliveries' = deliveries
    BY <1>c, <1>8 DEF LeftPending, redis
  <2>3. \A j \in Ids : held'[c][j] <= deliveries'[j]
    BY <1>a, <1>c, <2>1, <2>2 DEF Fine
  <2>4. Fine(c)'
    BY <1>f, <2>2, <2>3
  <2> QED BY <1>6, <1>c, <2>1, <2>2, <2>4
<1>9. ASSUME NEW c \in Consumers, GivenUp(c) PROVE ConsumerInv'
  <2>1. PICK i \in Ids : Current(c, i) /\ (~IsValid(i) \/ ~Retryable(c, i))
    BY <1>9 DEF GivenUp
  <2>2. Grows /\ held' = held /\ at' = [at EXCEPT ![c] = "bury"] /\ deliveries' = deliveries
    BY <1>c, <1>9 DEF GivenUp, redis, Goto
  <2>3. \A j \in Ids : Current(c, j) => j = i
    BY <2>1, FirstIsUnique
  <2>4. ~IsValid(i) \/ held[c][i] >= MaxDeliveries
    BY <1>c, <2>1, StreamAssumption DEF Retryable
  <2>5. Fine(c)'
    <3>1. Idle(c)' = Idle(c) /\ \A j : Current(c, j)' = Current(c, j)
      BY <2>2 DEF Idle, Current, HeldBy
    <3>2. ~Idle(c)
      BY <2>1 DEF Idle, Current
    <3> QED BY <1>a, <1>c, <2>2, <2>3, <2>4, <3>1, <3>2 DEF Fine
  <2> QED BY <1>6, <1>c, <2>2, <2>5
<1>10. ASSUME NEW c \in Consumers, Bury(c) PROVE ConsumerInv'
  <2>1. PICK i \in Ids : Current(c, i) /\ dlq' = [dlq EXCEPT ![i] = @ + 1]
    BY <1>10 DEF Bury
  <2>2. Grows /\ held' = held /\ at' = [at EXCEPT ![c] = "ack"] /\ deliveries' = deliveries
    BY <1>c, <1>10, <2>1 DEF Bury, Goto
  <2>3. \A j \in Ids : Current(c, j) => j = i
    BY <2>1, FirstIsUnique
  <2>4. dlq'[i] > 0
    BY <1>c, <2>1
  <2>5. Fine(c)'
    <3>1. Idle(c)' = Idle(c) /\ \A j : Current(c, j)' = Current(c, j)
      BY <2>2 DEF Idle, Current, HeldBy
    <3>2. ~Idle(c)
      BY <2>1 DEF Idle, Current
    <3> QED BY <1>a, <1>c, <2>2, <2>3, <2>4, <3>1, <3>2 DEF Fine
  <2> QED BY <1>6, <1>c, <2>2, <2>5
<1>11. ASSUME NEW c \in Consumers, Ack(c) \/ RedisError(c) \/ Crash(c) PROVE ConsumerInv'
  <2>1. Grows /\ at' = [at EXCEPT ![c] = "dispatch"] /\ deliveries' = deliveries
    BY <1>c, <1>11 DEF Ack, RedisError, Crash, redis, Goto
  <2>2. \A j \in Ids : held'[c][j] <= held[c][j]
    <3>1. CASE Crash(c)
      BY <1>c, <3>1 DEF Crash
    <3>2. CASE Ack(c) \/ RedisError(c)
      <4>1. PICK i \in Ids : held' = [held EXCEPT ![c][i] = 0]
        BY <3>2 DEF Ack, RedisError, Drop
      <4> QED BY <1>c, <4>1
    <3> QED BY <1>11, <3>1, <3>2
  <2>3. \A d \in Consumers \ {c} : held'[d] = held[d] /\ at'[d] = at[d]
    BY <1>c, <1>11, <2>1 DEF Ack, RedisError, Crash, Drop
  <2>4. \A j \in Ids : held'[c][j] \in Nat
    BY TypeStep DEF TypeOK
  <2>5. \A j \in Ids : held'[c][j] <= deliveries'[j]
    BY <1>a, <1>c, <2>1, <2>2, <2>4 DEF Fine
  <2>6. Fine(c)'
    BY <1>c, <1>f, <2>1, <2>5
  <2> QED BY <1>6, <2>1, <2>3, <2>6
<1> QED BY <1>1, <1>2, <1>3, <1>5, <1>7, <1>8, <1>9, <1>10, <1>11 DEF Next, Process

\* A dead letter has its reason, and deliveries are only counted up.
LEMMA QuarantineStep == ASSUME StreamInv, [Next]_vars PROVE QuarantineJustified'
<1>0. TypeOK /\ WindowInv /\ ConsumerInv
  BY DEF StreamInv
<1>a. /\ \A i \in Ids : dlq[i] > 0 => ~IsValid(i) \/ deliveries[i] >= MaxDeliveries
      /\ \A i \in Ids : dlq[i] > 0 => i <= cursor
  BY <1>0, Members DEF StreamInv, QuarantineJustified, WindowInv
<1>b. /\ \A i \in Ids : deliveries[i] \in Nat /\ i \in Nat
      /\ MaxDeliveries \in Nat /\ cursor \in Nat
      /\ deliveries \in [Ids -> Nat] /\ dlq \in [Ids -> Nat]
  BY <1>0, Types DEF TypeOK
<1>c. /\ \A i \in Ids : deliveries'[i] \in Nat
  BY TypeStep DEF TypeOK
<1>d. ASSUME \A i \in Ids : dlq'[i] > 0 => ~IsValid(i) \/ deliveries'[i] >= MaxDeliveries
      PROVE  QuarantineJustified'
  BY <1>d DEF QuarantineJustified, Dead
<1>1. CASE UNCHANGED vars \/ Publish
  BY <1>1, <1>a, <1>d DEF vars, redis, Publish
<1>2. ASSUME NEW c \in Consumers, Read(c) PROVE QuarantineJustified'
  <2>1. \A i \in Ids : deliveries'[i] = deliveries[i] \/ i > cursor
    BY <1>b, <1>2 DEF Read, Unread
  <2> QED BY <1>a, <1>b, <1>d, <1>2, <2>1 DEF Read
<1>3. ASSUME NEW c \in Consumers, NEW S, TakeOver(c, S) PROVE QuarantineJustified'
  <2>1. \A i \in Ids : deliveries'[i] >= deliveries[i]
    BY <1>b, <1>3 DEF TakeOver
  <2> QED BY <1>a, <1>b, <1>c, <1>d, <1>3, <2>1 DEF TakeOver
<1>4. ASSUME NEW c \in Consumers, Claim(c) \/ ClaimFromSlow(c) PROVE QuarantineJustified'
  BY <1>3, <1>4 DEF Claim, ClaimFromSlow
<1>5. ASSUME NEW c \in Consumers, Bury(c) PROVE QuarantineJustified'
  <2>1. PICK i \in Ids : Current(c, i) /\ dlq' = [dlq EXCEPT ![i] = @ + 1]
    BY <1>5 DEF Bury
  <2>2. ~IsValid(i) \/ held[c][i] >= MaxDeliveries
    BY <1>0, <1>5, <2>1 DEF ConsumerInv, Bury
  <2>3. held[c][i] \in Nat /\ held[c][i] <= deliveries[i] /\ deliveries' = deliveries
    BY <1>0, <1>5, Types DEF ConsumerInv, Bury
  <2> QED BY <1>a, <1>b, <1>d, <2>1, <2>2, <2>3
<1>6. ASSUME NEW c \in Consumers, Process(c) \/ RedisError(c) \/ Crash(c), ~Bury(c)
      PROVE  QuarantineJustified'
  <2>1. UNCHANGED <<dlq, deliveries>>
    BY <1>6 DEF Process, Dispatched, LeftPending, GivenUp, Ack, RedisError, Crash, redis
  <2> QED BY <1>a, <1>d, <2>1
<1> QED BY <1>1, <1>2, <1>4, <1>5, <1>6 DEF Next, Process

\* The stream's invariant: however consumers crash, claim from each other and fail,
\* acknowledging an entry is safe (_process_durable_event, move_event_to_dlq).
THEOREM StreamInvariant == Spec => []StreamInv
<1>1. Init => StreamInv
  BY StreamInit
<1>2. StreamInv /\ [Next]_vars => StreamInv'
  BY TypeStep, WindowStep, ConsumerStep, QuarantineStep DEF StreamInv
<1> QED BY <1>1, <1>2, PTL DEF Spec

\* Nothing valid is dead-lettered before its delivery ceiling, whichever consumer's
\* envelope carried the count.
THEOREM QuarantinesAreJustified == Spec => []QuarantineJustified
<1>1. StreamInv => QuarantineJustified
  BY DEF StreamInv
<1> QED BY <1>1, StreamInvariant, PTL

\* The consumer loop implements at-least-once processing: with the number of published
\* entries, the unread and pending ones, those processed and those dead-lettered in the
\* place of AtLeastOnce's variables, every step is one of its steps or leaves them alone.
THEOREM StreamKeepsPromise == Spec => KeepsPromise
<1> DEFINE Same == UNCHANGED <<tail, Owed, Done, Dead>>
<1>1. Init => Promise!Init
  <2>1. ASSUME Init PROVE Unread = {} /\ Done = {} /\ Dead = {}
    BY <2>1 DEF Init, Unread, Done, Dead, Ids
  <2> QED BY <2>1 DEF Init, Promise!Init, Owed
<1>2. ASSUME StreamInv, [Next]_vars PROVE [Promise!Next]_Promise!promise
  <2>0. TypeOK /\ WindowInv /\ ConsumerInv
    BY <1>2 DEF StreamInv
  <2>a. /\ \A i \in Ids : deliveries[i] \in Nat /\ dlq[i] \in Nat /\ applied[i] \in Nat
        /\ \A i \in Ids : i \in Nat /\ 1 <= i
        /\ tail \in Nat /\ first \in Nat \ {0} /\ cursor \in Nat /\ MaxLen \in Nat \ {0}
        /\ applied \in [Ids -> Nat] /\ dlq \in [Ids -> Nat] /\ pel \subseteq Ids
        /\ held \in [Consumers -> [Ids -> Nat]]
    BY <2>0, Types DEF TypeOK
  <2>b. Same => [Promise!Next]_Promise!promise
    BY DEF Promise!promise
  <2>c. \A i \in Ids : i < first => i + MaxLen <= tail
    BY <2>0, <2>a DEF WindowInv
  <2>d. \A c \in Consumers : \A i : Current(c, i) => i \in Ids /\ i <= cursor /\ i <= tail /\ i \in 1..tail
    <3>1. \A c \in Consumers : \A i : Current(c, i) => i \in Ids /\ i \in InFlight
      BY Members DEF Current
    <3> QED BY <3>1, <2>0, <2>a DEF WindowInv
  <2>1. CASE UNCHANGED vars
    BY <2>1, <2>b DEF vars, redis, Owed, Unread, Done, Dead
  <2>2. CASE Publish
    <3>1. tail + 1 \in Ids /\ tail' = tail + 1 /\ UNCHANGED <<cursor, pel, applied, dlq>>
      BY <2>2, <2>a, <2>0, StreamAssumption DEF Publish, TypeOK, Ids
    <3>2. first' \in Nat /\ first <= first' /\ (first' = first \/ first' + MaxLen <= tail' + 1)
      BY <2>2, <2>a DEF Publish
    <3>3. Owed' \subseteq Owed \cup {tail'}
      BY <3>1, <3>2, <2>a DEF Owed, Unread
    <3>4. ASSUME NEW i \in (Owed \cup {tail'}) \ Owed' PROVE i + MaxLen <= tail'
      <4>1. i \in Ids /\ i \notin pel
        BY <3>1, <3>4, <2>a DEF Owed, Unread
      <4>2. i < first'
        BY <4>1, <3>1, <3>2, <3>4, <2>a, <2>0 DEF Owed, Unread, WindowInv
      <4>3. first <= i
        BY <4>1, <3>1, <3>4, <2>a, <2>0 DEF Owed, Unread, WindowInv
      <4>4. i \in Nat /\ tail' \in Nat /\ MaxLen \in Nat /\ first \in Nat /\ first' \in Nat
        BY <4>1, <3>1, <3>2, <2>a
      <4> QED BY <4>2, <4>3, <4>4, <3>2, TrimArithmetic
    <3>5. UNCHANGED <<Done, Dead>>
      BY <3>1 DEF Done, Dead
    <3>6. Promise!Accept
      BY <3>1, <3>3, <3>4, <3>5 DEF Promise!Accept, Promise!Forgettable
    <3> QED BY <3>6 DEF Promise!Next
  <2>3. ASSUME NEW c \in Consumers, Read(c) PROVE Same
    <3>1. PICK k \in Unread : cursor' = k /\ pel' = pel \cup {i \in Unread : i <= k}
      BY <2>3 DEF Read
    <3>2. UNCHANGED <<tail, first, applied, dlq>>
      BY <2>3 DEF Read
    <3>3. \A i : i \in Unread' <=> i \in Unread /\ k < i
      BY <3>1, <3>2, <2>a DEF Unread
    <3>4. Owed' = Owed
      BY <3>1, <3>3, <2>a DEF Owed, Unread
    <3> QED BY <3>2, <3>4 DEF Done, Dead
  <2>4. ASSUME NEW c \in Consumers, NEW S \in SUBSET pel, TakeOver(c, S) PROVE Promise!Next
    <3>1. /\ pel' = pel \ (S \ {i \in S : first <= i})
          /\ UNCHANGED <<tail, first, cursor, applied, dlq>>
      BY <2>4 DEF TakeOver
    <3>2. UNCHANGED <<tail, Done, Dead>> /\ Unread' = Unread
      BY <3>1 DEF Done, Dead, Unread
    <3>3. Owed' \subseteq Owed /\ \A i \in Owed \ Owed' : i \in Ids /\ i < first
      BY <3>1, <3>2, <2>a DEF Owed
    <3>4. Promise!Forget
      BY <3>2, <3>3, <2>c DEF Promise!Forget, Promise!Forgettable
    <3> QED BY <3>4 DEF Promise!Next
  <2>5. ASSUME NEW c \in Consumers, Claim(c) \/ ClaimFromSlow(c) PROVE Promise!Next
    BY <2>4, <2>5 DEF Claim, ClaimFromSlow
  <2>6. ASSUME NEW c \in Consumers, Dispatched(c) PROVE Promise!Next
    <3>1. PICK i \in Ids : Current(c, i) /\ applied' = [applied EXCEPT ![i] = @ + 1]
      BY <2>6 DEF Dispatched
    <3>2. UNCHANGED <<tail, first, cursor, pel, dlq>>
      BY <2>6 DEF Dispatched, redis
    <3>3. UNCHANGED <<tail, Owed, Dead>>
      BY <3>2 DEF Owed, Unread, Dead
    <3>4. Done' = Done \cup {i}
      BY <3>1, <2>a DEF Done
    <3>5. i \in 1..tail
      BY <2>d, <3>1
    <3> QED BY <3>3, <3>4, <3>5 DEF Promise!Next, Promise!Process
  <2>7. ASSUME NEW c \in Consumers, Bury(c) PROVE Promise!Next
    <3>1. PICK i \in Ids : Current(c, i) /\ dlq' = [dlq EXCEPT ![i] = @ + 1]
      BY <2>7 DEF Bury
    <3>2. UNCHANGED <<tail, first, cursor, pel, applied>>
      BY <2>7 DEF Bury
    <3>3. UNCHANGED <<tail, Owed, Done>>
      BY <3>2 DEF Owed, Unread, Done
    <3>4. Dead' = Dead \cup {i}
      BY <3>1, <2>a DEF Dead
    <3>5. i \in 1..tail
      BY <2>d, <3>1
    <3> QED BY <3>3, <3>4, <3>5 DEF Promise!Next, Promise!Quarantine
  <2>8. ASSUME NEW c \in Consumers, Ack(c) PROVE Promise!Next
    <3>1. PICK i \in Ids : Current(c, i) /\ pel' = pel \ {i}
      BY <2>8 DEF Ack
    <3>2. UNCHANGED <<tail, first, cursor, applied, dlq>>
      BY <2>8 DEF Ack
    <3>3. UNCHANGED <<tail, Unread, Done, Dead>>
      BY <3>2 DEF Unread, Done, Dead
    <3>4. i \notin Unread
      BY <3>1, <2>d, <2>a DEF Unread
    <3>5. i \in Done \cup Dead
      BY <2>0, <2>8, <3>1 DEF ConsumerInv, Ack
    <3>6. Owed' = Owed \ {i}
      BY <3>1, <3>3, <3>4 DEF Owed
    <3> QED BY <3>3, <3>5, <3>6 DEF Promise!Next, Promise!Settle
  <2>9. ASSUME NEW c \in Consumers, LeftPending(c) \/ GivenUp(c) \/ RedisError(c) \/ Crash(c) PROVE Same
    <3>1. UNCHANGED <<tail, first, cursor, pel, applied, dlq>>
      BY <2>9 DEF LeftPending, GivenUp, RedisError, Crash, redis
    <3> QED BY <3>1 DEF Owed, Unread, Done, Dead
  <2> QED BY <1>2, <2>1, <2>2, <2>3, <2>5, <2>6, <2>7, <2>8, <2>9, <2>b DEF Next, Process
<1> QED BY <1>1, <1>2, StreamInvariant, PTL DEF Spec, KeepsPromise, Promise!Spec

-----------------------------------------------------------------------------
(* Deliveries and returns of the handler *)

\* What the bounds say of one entry.
Ceiling(i) ==
    /\ deliveries[i] <= MaxDeliveries + faults
    /\ \A c \in Consumers : held[c][i] > 0 => deliveries[i] <= held[c][i] + faults
    /\ i \in pel /\ (\A c \in Consumers : held[c][i] = 0) => deliveries[i] < MaxDeliveries + faults
Returns(i) ==
    /\ IsFiniteSet(Open(i))
    /\ applied[i] + Cardinality(Open(i)) + (IF Waiting(i) THEN 1 ELSE 0) <= 1 + faults

\* BoundsInv, entry by entry.
LEMMA BoundsByEntry == ASSUME TypeOK PROVE BoundsInv <=> \A i \in Ids : Ceiling(i) /\ Returns(i)
<1>1. \A i \in Ids : i \in pel \ InFlight <=> i \in pel /\ \A c \in Consumers : held[c][i] = 0
  BY Types, Members
<1> QED BY <1>1 DEF BoundsInv, DeliveryCeiling, Ceiling, Returns

\* Cardinalities of the sets of consumers, in the three ways a step changes them.
LEMMA Counts ==
    ASSUME NEW S, IsFiniteSet(S)
    PROVE  /\ Cardinality(S) \in Nat
           /\ \A T \in SUBSET S : /\ IsFiniteSet(T) /\ Cardinality(T) \in Nat
                                  /\ Cardinality(T) <= Cardinality(S)
                                  /\ T # S => Cardinality(T) < Cardinality(S)
           /\ \A c : \A T \in SUBSET (S \cup {c}) : /\ IsFiniteSet(T) /\ Cardinality(T) \in Nat
                                                    /\ Cardinality(T) <= Cardinality(S) + 1
<1>1. Cardinality(S) \in Nat
  BY FS_CardinalityType
<1>2. ASSUME NEW T \in SUBSET S
      PROVE  /\ IsFiniteSet(T) /\ Cardinality(T) \in Nat /\ Cardinality(T) <= Cardinality(S)
             /\ T # S => Cardinality(T) < Cardinality(S)
  BY FS_Subset, FS_CardinalityType
<1>3. ASSUME NEW c, NEW T \in SUBSET (S \cup {c})
      PROVE  IsFiniteSet(T) /\ Cardinality(T) \in Nat /\ Cardinality(T) <= Cardinality(S) + 1
  <2>1. /\ IsFiniteSet(S \cup {c})
        /\ Cardinality(S \cup {c}) = Cardinality(S) \/ Cardinality(S \cup {c}) = Cardinality(S) + 1
    BY FS_AddElement
  <2>2. IsFiniteSet(T) /\ Cardinality(T) <= Cardinality(S \cup {c})
    BY <2>1, FS_Subset
  <2> QED BY <1>1, <2>1, <2>2, FS_CardinalityType
<1> QED BY <1>1, <1>2, <1>3

\* Nothing is delivered in the initial state.
LEMMA BoundsInit == Init => BoundsInv
<1> SUFFICES ASSUME Init PROVE BoundsInv
  OBVIOUS
<1>1. TypeOK
  BY StreamInit DEF StreamInv
<1>2. \A i \in Ids : Ceiling(i)
  BY StreamAssumption DEF Init, Ceiling
<1>3. \A i \in Ids : Open(i) = {}
  BY DEF Init, Open
<1>4. \A i \in Ids : Returns(i)
  BY <1>3, FS_EmptySet DEF Init, Returns
<1> QED BY <1>1, <1>2, <1>4, BoundsByEntry

\* An entry that is not delivered by the step keeps its ceiling: when the last consumer
\* lets go of it, it is left pending below the ceiling, or a fault has been counted.
LEMMA CeilingKept ==
    ASSUME TypeOK, TypeOK', NEW i \in Ids, Ceiling(i), deliveries'[i] = deliveries[i], faults <= faults',
           \A c \in Consumers : held'[c][i] \in {held[c][i], 0},
           \/ i \notin pel'
           \/ i \in pel /\ \A c \in Consumers : held'[c][i] = 0 => held[c][i] = 0
           \/ faults < faults'
           \/ \E c \in Consumers : 0 < held[c][i] /\ held[c][i] < MaxDeliveries
    PROVE  Ceiling(i)'
<1>1. /\ faults \in Nat /\ faults' \in Nat /\ deliveries[i] \in Nat /\ MaxDeliveries \in Nat
      /\ \A c \in Consumers : held[c][i] \in Nat
  BY StreamAssumption DEF TypeOK
<1> QED BY <1>1 DEF Ceiling

\* An entry that is delivered to c has the count that c holds.
LEMMA CeilingDelivered ==
    ASSUME TypeOK, TypeOK', NEW i \in Ids, NEW c \in Consumers,
           deliveries'[i] > 0, held'[c][i] = deliveries'[i], \A d \in Consumers \ {c} : held'[d][i] = held[d][i],
           deliveries'[i] <= MaxDeliveries + faults',
           \A d \in Consumers : held[d][i] > 0 => deliveries'[i] <= held[d][i] + faults'
    PROVE  Ceiling(i)'
<1>1. /\ faults' \in Nat /\ deliveries'[i] \in Nat /\ MaxDeliveries \in Nat
      /\ \A d \in Consumers : held[d][i] \in Nat
  BY StreamAssumption DEF TypeOK
<1> QED BY <1>1 DEF Ceiling

\* Without a return, no consumer more, and a further delivery only for a fault or a consumer less.
LEMMA ReturnsKept ==
    ASSUME TypeOK, TypeOK', NEW i \in Ids, Returns(i), applied'[i] = applied[i], faults <= faults',
           Open(i)' \subseteq Open(i),
           Waiting(i)' => Waiting(i) \/ faults < faults' \/ Open(i)' # Open(i)
    PROVE  Returns(i)'
<1>1. /\ faults \in Nat /\ faults' \in Nat /\ applied[i] \in Nat
  BY StreamAssumption DEF TypeOK
<1>2. /\ Cardinality(Open(i)) \in Nat /\ Cardinality(Open(i)') \in Nat /\ IsFiniteSet(Open(i)')
      /\ Cardinality(Open(i)') <= Cardinality(Open(i))
      /\ Open(i)' # Open(i) => Cardinality(Open(i)') < Cardinality(Open(i))
  BY Counts DEF Returns
<1> QED BY <1>1, <1>2 DEF Returns

\* The handler returns for one consumer, which is then about to acknowledge.
LEMMA ReturnsCounted ==
    ASSUME TypeOK, TypeOK', NEW i \in Ids, Returns(i), applied'[i] = applied[i] + 1, faults' = faults,
           Open(i)' \subseteq Open(i), Open(i)' # Open(i), Waiting(i)' => Waiting(i)
    PROVE  Returns(i)'
<1>1. /\ faults \in Nat /\ applied[i] \in Nat
  BY StreamAssumption DEF TypeOK
<1>2. /\ Cardinality(Open(i)) \in Nat /\ Cardinality(Open(i)') \in Nat /\ IsFiniteSet(Open(i)')
      /\ Cardinality(Open(i)') < Cardinality(Open(i))
  BY Counts DEF Returns
<1> QED BY <1>1, <1>2 DEF Returns

\* A delivery uses up the one that was due, or a fault has been counted.
LEMMA ReturnsDelivered ==
    ASSUME TypeOK, TypeOK', NEW i \in Ids, NEW c, Returns(i), applied'[i] = applied[i], faults <= faults',
           Open(i)' \subseteq Open(i) \cup {c}, ~Waiting(i)', Waiting(i) \/ faults < faults'
    PROVE  Returns(i)'
<1>1. /\ faults \in Nat /\ faults' \in Nat /\ applied[i] \in Nat
  BY StreamAssumption DEF TypeOK
<1>2. /\ Cardinality(Open(i)) \in Nat /\ Cardinality(Open(i)') \in Nat /\ IsFiniteSet(Open(i)')
      /\ Cardinality(Open(i)') <= Cardinality(Open(i)) + 1
  BY Counts DEF Returns
<1> QED BY <1>1, <1>2 DEF Returns

\* Every step keeps the bounds of every entry.
LEMMA BoundsStep == ASSUME StreamInv, BoundsInv, [Next]_vars PROVE BoundsInv'
<1>0. TypeOK /\ WindowInv /\ ConsumerInv /\ TypeOK'
  BY TypeStep DEF StreamInv
<1>a. \A i \in Ids : Ceiling(i) /\ Returns(i)
  BY <1>0, BoundsByEntry
<1>b. /\ faults \in Nat /\ faults' \in Nat /\ MaxDeliveries \in Nat /\ MaxDeliveries >= 1
      /\ tail \in Nat /\ first \in Nat /\ cursor \in Nat
      /\ \A i \in Ids : i \in Nat /\ deliveries[i] \in Nat /\ applied[i] \in Nat
      /\ held \in [Consumers -> [Ids -> Nat]] /\ at \in [Consumers -> {"dispatch", "ack", "bury"}]
      /\ deliveries \in [Ids -> Nat] /\ applied \in [Ids -> Nat] /\ pel \subseteq Ids
  <2>1. faults \in Nat /\ faults' \in Nat
    BY <1>0, StreamAssumption DEF TypeOK
  <2> QED BY <1>0, <2>1, Types DEF TypeOK
<1>c. ASSUME \A i \in Ids : Ceiling(i)' /\ Returns(i)' PROVE BoundsInv'
  <2>1. \A i \in Ids : i \in pel' \ InFlight' <=> i \in pel' /\ \A c \in Consumers : held'[c][i] = 0
    BY <1>0 DEF TypeOK, InFlight, HeldBy
  <2> QED BY <1>c, <2>1 DEF BoundsInv, DeliveryCeiling, Ceiling, Returns
<1>d. \A i \in Ids : /\ Waiting(i) <=> cursor < i \/ (i \in pel /\ \A c \in Consumers : held[c][i] = 0)
                     /\ Waiting(i)' <=> cursor' < i \/ (i \in pel' /\ \A c \in Consumers : held'[c][i] = 0)
  BY <1>0 DEF TypeOK, Waiting, InFlight, HeldBy
<1>e. \A c \in Consumers : \A i, j \in Ids : Current(c, i) /\ Current(c, j) => i = j
  BY FirstIsUnique
<1>1. CASE UNCHANGED <<cursor, pel, deliveries, held, at, applied, faults>>
  <2>1. \A i \in Ids : Open(i)' = Open(i)
    BY <1>1 DEF Open, Current, HeldBy
  <2>2. \A i \in Ids : Waiting(i)' <=> Waiting(i)
    BY <1>1 DEF Waiting, InFlight, HeldBy
  <2>3. \A i \in Ids : Ceiling(i)'
    BY <1>a, <1>1 DEF Ceiling
  <2>4. \A i \in Ids : Returns(i)'
    BY <1>a, <1>1, <2>1, <2>2 DEF Returns
  <2> QED BY <1>c, <2>3, <2>4
<1>2. ASSUME NEW c \in Consumers, NEW S \in SUBSET Ids, at[c] = "dispatch", \A i \in Ids : held[c][i] = 0,
             UNCHANGED <<at, applied>>, faults <= faults', cursor <= cursor', cursor' \in Nat,
             \A d \in Consumers \ {c} : held'[d] = held[d],
             \A i \in Ids \ S : /\ held'[c][i] = 0 /\ deliveries'[i] = deliveries[i]
                                /\ i \in pel' => i \in pel,
             \A i \in S : /\ held'[c][i] = deliveries'[i] /\ deliveries'[i] > 0
                          /\ i <= cursor'
                          /\ Waiting(i) \/ faults < faults'
                          /\ deliveries'[i] <= MaxDeliveries + faults'
                          /\ \A d \in Consumers : held[d][i] > 0 => deliveries'[i] <= held[d][i] + faults'
      PROVE  BoundsInv'
  <2>1. ASSUME NEW i \in Ids PROVE Open(i)' \subseteq Open(i) \cup {c}
    BY <1>2 DEF Open, Current, HeldBy
  <2>2. ASSUME NEW i \in Ids \ S PROVE Ceiling(i)' /\ Returns(i)'
    <3>1. \A d \in Consumers : held'[d][i] = held[d][i]
      BY <1>2, <2>2
    <3>2. Ceiling(i)'
      BY <1>0, <1>a, <1>2, <2>2, <3>1, CeilingKept
    <3>3. Open(i)' \subseteq Open(i)
      BY <1>2, <2>1, <2>2 DEF Open
    <3>4. Waiting(i)' => Waiting(i)
      <4>1. cursor' < i => cursor < i
        BY <1>b, <1>2
      <4> QED BY <1>d, <1>2, <2>2, <3>1, <4>1
    <3> QED BY <1>0, <1>a, <1>2, <2>2, <3>2, <3>3, <3>4, ReturnsKept
  <2>3. ASSUME NEW i \in S PROVE Ceiling(i)' /\ Returns(i)'
    <3>1. Ceiling(i)'
      BY <1>0, <1>2, <2>3, CeilingDelivered
    <3>2. ~Waiting(i)'
      <4>1. ~(cursor' < i) /\ held'[c][i] # 0
        BY <1>b, <1>2, <2>3
      <4> QED BY <1>d, <2>3, <4>1
    <3> QED BY <1>0, <1>a, <1>2, <2>1, <2>3, <3>1, <3>2, ReturnsDelivered
  <2> QED BY <1>c, <2>2, <2>3
<1>3. ASSUME NEW c \in Consumers, Idle(c)
      PROVE  at[c] = "dispatch" /\ \A i \in Ids : held[c][i] = 0
  BY <1>0, <1>b, <1>3 DEF ConsumerInv, Idle, HeldBy
<1>4. ASSUME NEW c \in Consumers, Read(c) PROVE BoundsInv'
  <2>1. PICK k \in Unread :
             /\ cursor' = k
             /\ pel' = pel \cup {i \in Unread : i <= k}
             /\ deliveries' = [i \in Ids |-> IF i \in {j \in Unread : j <= k} THEN 1 ELSE deliveries[i]]
             /\ held' = [held EXCEPT ![c] = [i \in Ids |-> IF i \in {j \in Unread : j <= k} THEN 1 ELSE 0]]
    BY <1>4 DEF Read
  <2> DEFINE S == {i \in Unread : i <= k}
  <2>2. S \subseteq Ids /\ UNCHANGED <<at, applied, faults>>
    BY <1>4 DEF Read, Unread
  <2>3. cursor <= cursor' /\ cursor' \in Nat /\ \A i \in S : cursor < i /\ i <= cursor'
    BY <1>b, <2>1 DEF Unread
  <2>4. \A d \in Consumers : \A i \in S : held[d][i] = 0
    BY <1>0, <1>b, <2>2, <2>3, Members DEF WindowInv
  <2>5. \A d \in Consumers \ {c} : held'[d] = held[d]
    BY <1>b, <2>1
  <2>6. \A i \in Ids \ S : held'[c][i] = 0 /\ deliveries'[i] = deliveries[i] /\ (i \in pel' => i \in pel)
    BY <1>b, <2>1
  <2>7. \A i \in S : held'[c][i] = 1 /\ deliveries'[i] = 1
    BY <1>b, <2>1, <2>2
  <2>8. \A i \in S : Waiting(i)
    BY <2>3 DEF Waiting
  <2>9. \A i \in S : /\ held'[c][i] = deliveries'[i] /\ deliveries'[i] > 0
                     /\ i <= cursor'
                     /\ Waiting(i) \/ faults < faults'
                     /\ deliveries'[i] <= MaxDeliveries + faults'
                     /\ \A d \in Consumers : held[d][i] > 0 => deliveries'[i] <= held[d][i] + faults'
    BY <1>b, <2>3, <2>4, <2>7, <2>8
  <2>10. at[c] = "dispatch" /\ \A i \in Ids : held[c][i] = 0
    BY <1>3, <1>4 DEF Read
  <2> HIDE DEF S
  <2> QED BY SMTT(30), <1>b, <1>2, <2>2, <2>3, <2>5, <2>6, <2>9, <2>10
<1>5. ASSUME NEW c \in Consumers, NEW T \in SUBSET pel, Idle(c), TakeOver(c, T),
             \/ faults' = faults /\ T \cap InFlight = {}
             \/ faults' = faults + 1
      PROVE  BoundsInv'
  <2> DEFINE S == {i \in T : first <= i}
  <2>1. /\ pel' = pel \ (T \ S)
        /\ deliveries' = [i \in Ids |-> IF i \in S THEN deliveries[i] + 1 ELSE deliveries[i]]
        /\ held' = [held EXCEPT ![c] = [i \in Ids |-> IF i \in S THEN deliveries[i] + 1 ELSE 0]]
        /\ UNCHANGED <<cursor, at, applied>>
    BY <1>5 DEF TakeOver
  <2>2. S \subseteq Ids /\ S \subseteq pel /\ faults <= faults'
    BY <1>b, <1>5
  <2>3. cursor <= cursor' /\ cursor' \in Nat /\ \A i \in S : i <= cursor'
    BY <1>0, <1>b, <2>1, <2>2 DEF WindowInv
  <2>5. \A d \in Consumers \ {c} : held'[d] = held[d]
    BY <1>b, <2>1
  <2>6. \A i \in Ids \ S : held'[c][i] = 0 /\ deliveries'[i] = deliveries[i] /\ (i \in pel' => i \in pel)
    BY <1>b, <2>1
  <2>7. \A i \in S : held'[c][i] = deliveries[i] + 1 /\ deliveries'[i] = deliveries[i] + 1
    BY <1>b, <2>1, <2>2
  <2>8. ASSUME NEW i \in S
        PROVE  /\ Waiting(i) \/ faults < faults'
               /\ deliveries'[i] <= MaxDeliveries + faults'
               /\ \A d \in Consumers : held[d][i] > 0 => deliveries'[i] <= held[d][i] + faults'
    <3>1. CASE faults' = faults + 1
      <4>1. i \in Ids /\ Ceiling(i) /\ \A d \in Consumers : held[d][i] \in Nat
        BY <1>a, <1>b, <2>2, <2>8
      <4> QED BY <1>b, <2>7, <2>8, <3>1, <4>1 DEF Ceiling
    <3>2. CASE faults' = faults /\ T \cap InFlight = {}
      <4>1. i \in Ids /\ i \in pel /\ Ceiling(i)
        BY <1>a, <2>2, <2>8
      <4>2. \A d \in Consumers : held[d][i] = 0
        BY <1>b, <2>8, <3>2, <4>1, Members
      <4>3. Waiting(i)
        BY <1>d, <4>1, <4>2
      <4>4. deliveries[i] < MaxDeliveries + faults
        BY <4>1, <4>2 DEF Ceiling
      <4> QED BY <1>b, <2>7, <2>8, <3>2, <4>1, <4>2, <4>3, <4>4
    <3> QED BY <1>5, <3>1, <3>2
  <2>9. at[c] = "dispatch" /\ \A i \in Ids : held[c][i] = 0
    BY <1>3, <1>5
  <2>10. \A i \in S : held'[c][i] = deliveries'[i] /\ deliveries'[i] > 0
    BY <1>b, <2>2, <2>7
  <2> HIDE DEF S
  <2> QED BY <1>b, <1>2, <2>1, <2>2, <2>3, <2>5, <2>6, <2>8, <2>9, <2>10
<1>6. ASSUME NEW c \in Consumers, Claim(c) \/ ClaimFromSlow(c) PROVE BoundsInv'
  <2>1. CASE Claim(c)
    BY <1>5, <2>1 DEF Claim
  <2>2. CASE ClaimFromSlow(c)
    BY <1>5, <2>2 DEF ClaimFromSlow, Inject
  <2> QED BY <1>6, <2>1, <2>2
<1>7. ASSUME NEW c \in Consumers, Process(c) \/ RedisError(c) \/ Crash(c), NEW i \in Ids
      PROVE  /\ UNCHANGED <<deliveries, cursor>> /\ pel' \subseteq pel /\ faults <= faults'
             /\ \A d \in Consumers \ {c} : held'[d] = held[d] /\ (d \in Open(i)' <=> d \in Open(i))
             /\ held'[c][i] \in {held[c][i], 0}
  <2>1. UNCHANGED <<deliveries, cursor>> /\ pel' \subseteq pel
    BY <1>7 DEF Process, Dispatched, LeftPending, GivenUp, Bury, Ack, RedisError, Crash, redis
  <2>2. faults' = faults \/ faults' = faults + 1
    BY <1>7 DEF Process, Dispatched, LeftPending, GivenUp, Bury, Ack, RedisError, Crash, Inject
  <2>3. \/ held' = held
        \/ held' = [held EXCEPT ![c] = [j \in Ids |-> 0]]
        \/ \E j \in Ids : held' = [held EXCEPT ![c][j] = 0]
    BY <1>7 DEF Process, Dispatched, LeftPending, GivenUp, Bury, Ack, RedisError, Crash, Drop
  <2>4. \A d \in Consumers \ {c} : held'[d] = held[d]
    BY <1>b, <2>3
  <2>5. held'[c][i] \in {held[c][i], 0}
    BY <1>b, <1>7, <2>3
  <2>6. \A d \in Consumers \ {c} : at'[d] = at[d]
    BY <1>b, <1>7 DEF Process, Dispatched, LeftPending, GivenUp, Bury, Ack, RedisError, Crash, Goto
  <2>7. \A d \in Consumers \ {c} : Current(d, i)' <=> Current(d, i)
    BY <2>4 DEF Current, HeldBy
  <2>8. \A d \in Consumers \ {c} : d \in Open(i)' <=> d \in Open(i)
    BY <2>4, <2>6, <2>7 DEF Open
  <2> QED BY <1>b, <2>1, <2>2, <2>4, <2>5, <2>8
<1>8. ASSUME NEW c \in Consumers, NEW i \in Ids, Process(c) \/ RedisError(c) \/ Crash(c),
             \/ held'[c][i] = held[c][i]
             \/ i \notin pel'
             \/ faults < faults'
             \/ 0 < held[c][i] /\ held[c][i] < MaxDeliveries
      PROVE  Ceiling(i)'
  <2>1. \A d \in Consumers : held'[d][i] \in {held[d][i], 0}
    BY <1>7, <1>8
  <2>2. \/ i \notin pel'
        \/ i \in pel /\ \A d \in Consumers : held'[d][i] = 0 => held[d][i] = 0
        \/ faults < faults'
        \/ \E d \in Consumers : 0 < held[d][i] /\ held[d][i] < MaxDeliveries
    BY <1>7, <1>8
  <2>3. deliveries'[i] = deliveries[i] /\ faults <= faults'
    BY <1>7, <1>8
  <2> QED BY <1>0, <1>a, <2>1, <2>2, <2>3, CeilingKept
<1>9. ASSUME NEW c \in Consumers, NEW i \in Ids, Process(c) \/ RedisError(c) \/ Crash(c), applied'[i] = applied[i],
             c \in Open(i)' => c \in Open(i),
             \/ held'[c][i] = held[c][i]
             \/ i \notin pel'
             \/ faults < faults'
             \/ c \in Open(i) /\ c \notin Open(i)'
      PROVE  Returns(i)'
  <2>1. Open(i)' \subseteq Open(i)
    BY <1>7, <1>9 DEF Open
  <2>2. cursor' = cursor /\ faults <= faults' /\ pel' \subseteq pel
        /\ \A d \in Consumers \ {c} : held'[d] = held[d]
    BY <1>7, <1>9
  <2>3. Waiting(i)' => Waiting(i) \/ faults < faults' \/ Open(i)' # Open(i)
    <3>1. CASE held'[c][i] = held[c][i]
      <4>1. \A d \in Consumers : held'[d][i] = held[d][i]
        BY <2>2, <3>1
      <4> QED BY <1>d, <1>9, <2>2, <4>1
    <3>2. CASE i \notin pel'
      BY <1>d, <1>9, <2>2, <3>2
    <3> QED BY <1>9, <3>1, <3>2
  <2> QED BY <1>0, <1>a, <1>9, <2>1, <2>2, <2>3, ReturnsKept
<1>10. ASSUME NEW c \in Consumers, Dispatched(c) PROVE BoundsInv'
  <2>1. PICK j \in Ids : Current(c, j) /\ applied' = [applied EXCEPT ![j] = @ + 1]
    BY <1>10 DEF Dispatched
  <2>2. held' = held /\ at' = [at EXCEPT ![c] = "ack"] /\ at[c] = "dispatch" /\ pel' = pel /\ faults' = faults
    BY <1>10 DEF Dispatched, Goto, redis
  <2>3. ASSUME NEW i \in Ids PROVE Ceiling(i)'
    BY <1>8, <1>10, <2>2, <2>3 DEF Process
  <2>4. \A i \in Ids : c \in Open(i)' => c \in Open(i)
    BY <1>b, <2>2 DEF Open
  <2>5. ASSUME NEW i \in Ids \ {j} PROVE Returns(i)'
    <3>1. applied'[i] = applied[i]
      BY <1>b, <2>1, <2>5
    <3> QED BY <1>9, <1>10, <2>2, <2>4, <2>5, <3>1 DEF Process
  <2>6. Returns(j)'
    <3>1. c \in Open(j) /\ c \notin Open(j)'
      <4>1. held[c][j] > 0 /\ Current(c, j)' /\ at'[c] = "ack"
        BY <1>b, <2>1, <2>2 DEF Current, HeldBy
      <4> QED BY <2>2, <4>1 DEF Open
    <3>2. Open(j)' \subseteq Open(j)
      BY <1>7, <1>10, <2>1, <3>1 DEF Open, Process
    <3>3. Waiting(j)' => Waiting(j)
      BY <1>7, <1>10, <2>2 DEF Waiting, InFlight, HeldBy, Process
    <3>4. applied'[j] = applied[j] + 1
      BY <1>b, <2>1
    <3> QED BY <1>0, <1>a, <2>2, <3>1, <3>2, <3>3, <3>4, ReturnsCounted
  <2> QED BY <1>c, <2>3, <2>5, <2>6
<1>11. ASSUME NEW c \in Consumers, LeftPending(c) PROVE BoundsInv'
  <2>1. PICK j \in Ids : Current(c, j) /\ Retryable(c, j) /\ held' = [held EXCEPT ![c][j] = 0]
    BY <1>11 DEF LeftPending, Drop
  <2>2. at' = at /\ at[c] = "dispatch" /\ applied' = applied
    BY <1>11 DEF LeftPending
  <2>3. 0 < held[c][j] /\ held[c][j] < MaxDeliveries /\ held'[c][j] = 0
    BY <1>b, <2>1 DEF Current, HeldBy, Retryable
  <2>4. \A i \in Ids \ {j} : held'[c][i] = held[c][i]
    BY <1>b, <2>1
  <2>5. \A i \in Ids : c \in Open(i)' => c \in Open(i)
    BY <1>b, <2>2, <2>3, <2>4 DEF Open
  <2>6. c \in Open(j) /\ c \notin Open(j)'
    BY <1>b, <2>2, <2>3 DEF Open
  <2>7. ASSUME NEW i \in Ids PROVE Ceiling(i)'
    BY <1>8, <1>11, <2>3, <2>4, <2>7 DEF Process
  <2>8. ASSUME NEW i \in Ids PROVE Returns(i)'
    BY <1>9, <1>11, <2>2, <2>4, <2>5, <2>6, <2>8 DEF Process
  <2> QED BY <1>c, <2>7, <2>8
<1>12. ASSUME NEW c \in Consumers, GivenUp(c) \/ Bury(c) PROVE BoundsInv'
  <2>1. held' = held /\ applied' = applied /\ at[c] # "ack"
    BY <1>12 DEF GivenUp, Bury
  <2>2. \A i \in Ids : c \in Open(i)' => c \in Open(i)
    BY <2>1 DEF Open
  <2>3. ASSUME NEW i \in Ids PROVE Ceiling(i)'
    BY <1>8, <1>12, <2>1, <2>3 DEF Process
  <2>4. ASSUME NEW i \in Ids PROVE Returns(i)'
    BY <1>9, <1>12, <2>1, <2>2, <2>4 DEF Process
  <2> QED BY <1>c, <2>3, <2>4
<1>13. ASSUME NEW c \in Consumers, Ack(c) \/ RedisError(c) PROVE BoundsInv'
  <2>1. PICK j \in Ids : /\ Current(c, j) /\ held' = [held EXCEPT ![c][j] = 0]
                         /\ j \notin pel' \/ faults < faults'
    <3>1. CASE Ack(c)
      BY <3>1 DEF Ack, Drop
    <3>2. CASE RedisError(c)
      <4>1. faults < faults'
        BY <1>b, <3>2 DEF RedisError, Inject
      <4> QED BY <3>2, <4>1 DEF RedisError, Drop
    <3> QED BY <1>13, <3>1, <3>2
  <2>2. applied' = applied
    BY <1>13 DEF Ack, RedisError
  <2>3. held'[c][j] = 0 /\ \A i \in Ids \ {j} : held'[c][i] = held[c][i]
    BY <1>b, <2>1
  <2>4. ASSUME NEW i \in Ids, c \in Open(i)' PROVE c \in Open(i)
    <3>1. i # j /\ held[c][i] > 0
      BY <1>b, <2>3, <2>4 DEF Open
    <3>2. ~Current(c, i)
      BY <1>e, <2>1, <2>4, <3>1
    <3> QED BY <3>1, <3>2 DEF Open
  <2>5. ASSUME NEW i \in Ids PROVE Ceiling(i)'
    BY <1>8, <1>13, <2>1, <2>3, <2>5 DEF Process
  <2>6. ASSUME NEW i \in Ids PROVE Returns(i)'
    BY <1>9, <1>13, <2>1, <2>2, <2>3, <2>4, <2>6 DEF Process
  <2> QED BY <1>c, <2>5, <2>6
<1>14. ASSUME NEW c \in Consumers, Crash(c) PROVE BoundsInv'
  <2>1. applied' = applied /\ faults < faults' /\ \A i \in Ids : held'[c][i] = 0
    BY <1>b, <1>14 DEF Crash, Inject
  <2>2. \A i \in Ids : c \notin Open(i)'
    BY <2>1 DEF Open
  <2>3. ASSUME NEW i \in Ids PROVE Ceiling(i)'
    BY <1>8, <1>14, <2>1, <2>3
  <2>4. ASSUME NEW i \in Ids PROVE Returns(i)'
    BY <1>9, <1>14, <2>1, <2>2, <2>4
  <2> QED BY <1>c, <2>3, <2>4
<1>15. CASE Publish \/ UNCHANGED vars
  BY <1>1, <1>15 DEF Publish, vars, redis
<1> QED BY <1>4, <1>6, <1>10, <1>11, <1>12, <1>13, <1>14, <1>15 DEF Next, Process

\* For any number of consumers and faults, no entry is delivered beyond its ceiling but
\* for faults, and but for faults its handler returns once, although claim_stale_pending_events
\* goes by idle time alone and a slow consumer acknowledges what was claimed from it.
THEOREM DeliveriesAreBounded == Spec => []DeliveryBounds
<1>1. StreamInv /\ BoundsInv /\ [Next]_vars => (StreamInv /\ BoundsInv)'
  BY TypeStep, WindowStep, ConsumerStep, QuarantineStep, BoundsStep DEF StreamInv
<1>2. StreamInv /\ BoundsInv => DeliveryBounds
  <2> SUFFICES ASSUME StreamInv, BoundsInv PROVE DeliveryBounds
    OBVIOUS
  <2>1. faults \in Nat /\ \A i \in Ids : applied[i] \in Nat
    BY StreamAssumption DEF StreamInv, TypeOK
  <2>2. \A i \in Ids : Cardinality(Open(i)) \in Nat
    BY Counts DEF BoundsInv
  <2>3. \A i \in Ids : applied[i] <= 1 + faults
    BY <2>1, <2>2 DEF BoundsInv
  <2> QED BY <2>3 DEF BoundsInv, DeliveryBounds, ProcessedOnce
<1>3. Spec => [](StreamInv /\ BoundsInv)
  BY <1>1, StreamInit, BoundsInit, PTL DEF Spec
<1> QED BY <1>2, <1>3, PTL

=============================================================================
