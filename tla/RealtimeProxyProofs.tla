------------------------- MODULE RealtimeProxyProofs -------------------------
(***************************************************************************)
(* The two forwarding tasks of a realtime session agree, for any number of  *)
(* messages, any depth of the queue of committed items and any number of    *)
(* faults.                                                                  *)
(***************************************************************************)
EXTENDS RealtimeProxy, TLAPS

USE DEF task, ids, fate, counts

Kinds == {"note", "final", "terminated", "end"}

\* The stages: what is connected and counted at each label of run.
LEMMA StagesStep == ASSUME StagesKept, TypeOK, [Next]_vars PROVE StagesKept'
<1> USE DEF StagesKept, Before, After
<1>0. slot \in Nat
  BY DEF TypeOK
<1>1. CASE UNCHANGED vars
  BY <1>1 DEF vars
<1>2. CASE Admit \/ Refuse \/ AcquireWorker \/ Uncount
  BY <1>0, <1>2 DEF Admit, Refuse, AcquireWorker, Uncount
<1>3. CASE CreateSession \/ Connect \/ ConnectFails \/ Release \/ FinalizeSession
  BY <1>3 DEF CreateSession, Connect, ConnectFails, Release, FinalizeSession
<1>4. CASE WaitForEnd \/ WaitedForEnd \/ EndTimesOut
  BY <1>4 DEF WaitForEnd, WaitedForEnd, EndTimesOut, Finished
<1>5. CASE CancelPending \/ Settle
  BY <1>5 DEF CancelPending, Settle, CloseWorker, Finished
<1>6. CASE FromClient
  BY <1>6 DEF FromClient, Forward, Answer, SendFlush, Commit, Clear, LeaveC2W, Reads
<1>7. CASE FromWorker
  BY <1>7 DEF FromWorker, RelayFails, RelayNote, RelayFinal, RelayTerminated, RelayEnd, WorkerGone, Read
<1>8. CASE Environment
  BY <1>8 DEF Environment, ClientLeaves, WorkerSpeaks, WorkerEnds, WorkerLags, WorkerDies
<1> QED BY <1>1, <1>2, <1>3, <1>4, <1>5, <1>6, <1>7, <1>8 DEF Next, Lifecycle
\* Every task reads and appends messages of the four kinds only.
LEMMA InboxTyped == ASSUME TypeOK, [Next]_vars PROVE inbox' \in Seq(Kinds)
<1> USE DEF Kinds
<1>0. inbox \in Seq(Kinds)
  BY DEF TypeOK
<1>1. CASE inbox' = inbox
  BY <1>0, <1>1
<1>2. CASE inbox # <<>> /\ inbox' = Tail(inbox)
  BY <1>0, <1>2
<1>3. ASSUME NEW m \in Kinds, inbox' = Append(inbox, m) PROVE inbox' \in Seq(Kinds)
  BY <1>0, <1>3
<1>4. CASE inbox' = inbox \o <<"final", "end">>
  <2>1. <<"final", "end">> \in Seq(Kinds)
    OBVIOUS
  <2> QED BY <1>0, <1>4, <2>1
<1>5. CASE inbox' = <<>>
  BY <1>5
<1>6. \/ inbox' = inbox \/ (inbox # <<>> /\ inbox' = Tail(inbox)) \/ inbox' = <<>>
      \/ (\E m \in Kinds : inbox' = Append(inbox, m)) \/ inbox' = inbox \o <<"final", "end">>
  <2>1. CASE UNCHANGED vars
    BY <2>1 DEF vars
  <2>2. CASE Lifecycle
    BY <2>2 DEF Lifecycle, Admit, Refuse, AcquireWorker, Uncount, CreateSession, Connect, ConnectFails,
                WaitForEnd, WaitedForEnd, EndTimesOut, CancelPending, Settle, Release, FinalizeSession
  <2>3. CASE FromClient
    BY <2>3 DEF FromClient, Forward, Answer, SendFlush, Commit, Clear, LeaveC2W
  <2>4. CASE FromWorker
    BY <2>4 DEF FromWorker, RelayFails, RelayNote, RelayFinal, RelayTerminated, RelayEnd, WorkerGone, Read
  <2>5. CASE Environment
    BY <2>5 DEF Environment, ClientLeaves, WorkerSpeaks, WorkerEnds, WorkerLags, WorkerDies
  <2> QED BY <2>1, <2>2, <2>3, <2>4, <2>5 DEF Next
<1> QED BY <1>1, <1>2, <1>3, <1>4, <1>5, <1>6

\* What the row says, and when it is written.
LEMMA RowStep == ASSUME RowKept, TypeOK, [Next]_vars PROVE RowKept'
<1> USE DEF RowKept, Recorded, Persisted
<1>0. faults \in Nat
  BY DEF TypeOK
<1>1. CASE UNCHANGED vars
  BY <1>1 DEF vars
<1>2. CASE Admit \/ Refuse \/ AcquireWorker \/ Uncount
  BY <1>0, <1>2 DEF Admit, Refuse, AcquireWorker, Uncount, Fault
<1>3. CASE CreateSession \/ Connect \/ ConnectFails \/ Release \/ FinalizeSession
  BY <1>0, <1>3 DEF CreateSession, Connect, ConnectFails, Release, FinalizeSession, CreatedRow, Fault
<1>4. CASE WaitForEnd \/ WaitedForEnd \/ EndTimesOut \/ CancelPending \/ Settle
  BY <1>4 DEF WaitForEnd, WaitedForEnd, EndTimesOut, CancelPending, Settle
<1>5. CASE FromClient
  BY <1>5 DEF FromClient, Forward, Answer, SendFlush, Commit, Clear, LeaveC2W, Reads
<1>6. CASE FromWorker
  BY <1>6 DEF FromWorker, RelayFails, RelayNote, RelayFinal, RelayTerminated, RelayEnd, WorkerGone, Read
<1>7. CASE Environment
  BY <1>0, <1>7 DEF Environment, ClientLeaves, WorkerSpeaks, WorkerEnds, WorkerLags, WorkerDies, Fault
<1> QED BY <1>1, <1>2, <1>3, <1>4, <1>5, <1>6, <1>7 DEF Next, Lifecycle

\* A COMPLETED row was written by a finalisation that holds the data of session.end.
LEMMA CompletedStep ==
    ASSUME TypeOK, StagesKept, RowKept, LastWords, CompletedWasEnded, [Next]_vars PROVE CompletedWasEnded'
<1> USE DEF CompletedWasEnded
<1>1. CASE UNCHANGED vars
  BY <1>1 DEF vars
<1>2. CASE Lifecycle /\ ~FinalizeSession
  BY <1>2 DEF Lifecycle, Admit, Refuse, AcquireWorker, Uncount, CreateSession, Connect, ConnectFails, CreatedRow,
              WaitForEnd, WaitedForEnd, EndTimesOut, CancelPending, Settle, Release, RowKept, Recorded
<1>3. CASE FinalizeSession
  BY <1>3 DEF FinalizeSession, FinalRow, FinalStatus, RowKept, Recorded, LastWords
<1>4. CASE FromClient
  BY <1>4 DEF FromClient, Forward, Answer, SendFlush, Commit, Clear, LeaveC2W, Reads
<1>5. CASE FromWorker
  BY <1>5 DEF FromWorker, RelayFails, RelayNote, RelayFinal, RelayTerminated, RelayEnd, WorkerGone, Read,
              StagesKept, RowKept, Recorded, After
<1>6. CASE Environment
  BY <1>6 DEF Environment, ClientLeaves, WorkerSpeaks, WorkerEnds, WorkerLags, WorkerDies
<1> QED BY <1>1, <1>2, <1>3, <1>4, <1>5, <1>6 DEF Next, Lifecycle

\* Reading takes the oldest message; the last one stays the last until it is read.
LEMMA ReadKeepsLast ==
    ASSUME NEW q \in Seq(Kinds), q # <<>>
    PROVE  /\ \A i \in 1..Len(Tail(q)) : \E j \in 1..Len(q) : Tail(q)[i] = q[j]
           /\ Tail(q) # <<>> => Last(Tail(q)) = Last(q)
           /\ Tail(q) = <<>> => Last(q) = Head(q)
           /\ \E j \in 1..Len(q) : Head(q) = q[j]
<1>1. Len(Tail(q)) = Len(q) - 1 /\ \A i \in 1..Len(Tail(q)) : Tail(q)[i] = q[i + 1]
  OBVIOUS
<1>2. Len(q) \in Nat \ {0} /\ Head(q) = q[1]
  OBVIOUS
<1>3. Tail(q) # <<>> => Len(Tail(q)) > 0
  OBVIOUS
<1>4. Len(<<>>) = 0
  OBVIOUS
<1> QED BY <1>1, <1>2, <1>3, <1>4 DEF Last

\* A message that is sent becomes the last one.
LEMMA SentIsLast ==
    ASSUME NEW q \in Seq(Kinds), NEW m \in Kinds
    PROVE  /\ \A i \in 1..Len(Append(q, m)) : Append(q, m)[i] = m \/ \E j \in 1..Len(q) : Append(q, m)[i] = q[j]
           /\ Append(q, m) # <<>> /\ Last(Append(q, m)) = m
BY DEF Last

\* The rest of the transcript and session.end, sent together.
LEMMA EndIsLast ==
    ASSUME NEW q \in Seq(Kinds)
    PROVE  LET r == q \o <<"final", "end">>
           IN  /\ \A i \in 1..Len(r) : r[i] \in {"final", "end"} \/ \E j \in 1..Len(q) : r[i] = q[j]
               /\ r # <<>> /\ Last(r) = "end"
<1> DEFINE r == q \o <<"final", "end">>
<1>1. /\ <<"final", "end">> \in Seq(Kinds) /\ Len(<<"final", "end">>) = 2
      /\ <<"final", "end">>[1] = "final" /\ <<"final", "end">>[2] = "end"
  BY DEF Kinds
<1>2. Len(r) = Len(q) + 2 /\ Len(q) \in Nat
  BY <1>1
<1>3. \A i \in 1..Len(q) : r[i] = q[i]
  BY <1>1
<1>4. r[Len(q) + 1] = "final" /\ r[Len(q) + 2] = "end"
  BY <1>1
<1>5. r # <<>>
  BY <1>2
<1> QED BY <1>2, <1>3, <1>4, <1>5 DEF Last

\* The worker's last message is not lost: a step leaves inbox, connection and data alone, or
\* reads the oldest message, or appends one, or the gateway stops waiting.
LEMMA LastWordsStep == ASSUME TypeOK, StagesKept, LastWords, [Next]_vars PROVE LastWords'
<1> USE DEF LastWords, Unread, Persisted
<1>0. inbox \in Seq(Kinds) /\ data \in BOOLEAN /\ ended \in BOOLEAN /\ late \in BOOLEAN /\ deaf \in BOOLEAN /\ goodbye \in BOOLEAN
  BY DEF TypeOK, Kinds
<1>1. CASE UNCHANGED vars
  BY <1>1 DEF vars
<1>2. CASE Admit \/ Refuse \/ AcquireWorker \/ Uncount \/ CreateSession \/ ConnectFails
           \/ WaitForEnd \/ WaitedForEnd \/ Release \/ FinalizeSession
  BY <1>2 DEF Admit, Refuse, AcquireWorker, Uncount, CreateSession, ConnectFails, WaitForEnd, WaitedForEnd,
              Release, FinalizeSession
<1>3. CASE Connect
  BY <1>3 DEF Connect, StagesKept, Before
<1>4. CASE EndTimesOut
  BY <1>4 DEF EndTimesOut
<1>5. CASE CancelPending
  BY <1>5 DEF CancelPending, StagesKept, Finished
<1>6. CASE Settle
  BY <1>6 DEF Settle, CloseWorker, StagesKept, After
<1>7. CASE FromClient /\ ~SendFlush
  BY <1>7 DEF FromClient, Forward, Answer, Commit, Clear, LeaveC2W, Reads
<1>8. CASE SendFlush
  <2>1. CASE UNCHANGED inbox
    BY <1>8, <2>1 DEF SendFlush, Reads
  <2>2. CASE worker = "up" /\ inbox' = Append(inbox, "final")
    BY <1>0, <1>8, <2>2, SentIsLast DEF SendFlush, Reads, Kinds
  <2> QED BY <1>8, <2>1, <2>2 DEF SendFlush
<1>9. CASE RelayFails
  BY <1>0, <1>9, ReadKeepsLast DEF RelayFails
<1>10. CASE RelayNote \/ RelayFinal
  <2>1. w2c = "run" /\ inbox # <<>> /\ inbox' = Tail(inbox) /\ Head(inbox) \in {"note", "final"}
    BY <1>10 DEF RelayNote, RelayFinal, Read
  <2>2. /\ UNCHANGED <<api, pc, client, worker, w2c, data, ended, late>>
        /\ goodbye' = goodbye
        /\ deaf' => client' = "gone"
    BY <1>10 DEF RelayNote, RelayFinal, Delivered, Lost
  <2>3. \A i \in 1..Len(inbox') : \E j \in 1..Len(inbox) : inbox'[i] = inbox[j]
    BY <1>0, <2>1, ReadKeepsLast
  <2>4. \A m \in Kinds : Unread(m) => Unread(m)' \/ m = Head(inbox)
    BY <1>0, <2>1, <2>2, ReadKeepsLast
  <2>5. Unread("end") => Unread("end")'
    BY <2>1, <2>4 DEF Kinds
  <2> HIDE DEF Unread
  <2>6. Unread("terminated") => Unread("terminated")'
    BY <1>0, <2>1, <2>2, <2>4, <1>10 DEF Kinds, RelayNote, RelayFinal
  <2> QED BY <1>0, <2>2, <2>3, <2>5, <2>6
<1>11. CASE RelayTerminated
  <2>1. w2c = "run" /\ inbox # <<>> /\ inbox' = Tail(inbox) /\ Head(inbox) = "terminated"
    BY <1>11 DEF RelayTerminated, Read
  <2>2. /\ UNCHANGED <<api, pc, client, worker, w2c, data, ended, late>>
        /\ deaf' => client' = "gone"
    BY <1>11 DEF RelayTerminated, Delivered, Lost
  <2>3. \A i \in 1..Len(inbox') : \E j \in 1..Len(inbox) : inbox'[i] = inbox[j]
    BY <1>0, <2>1, ReadKeepsLast
  <2>4. \A m \in Kinds : Unread(m) => Unread(m)' \/ m = Head(inbox)
    BY <1>0, <2>1, <2>2, ReadKeepsLast
  <2>5. Unread("end") => Unread("end")'
    BY <2>1, <2>4 DEF Kinds
  <2> HIDE DEF Unread
  <2>6. client = "here" => goodbye'
    BY <1>0, <2>1, <2>2, <2>4, <1>11 DEF Kinds, RelayTerminated
  <2>7. goodbye => goodbye'
    BY <1>0, <1>11 DEF RelayTerminated
  <2> QED BY <1>0, <2>2, <2>3, <2>5, <2>6, <2>7
<1>12. CASE RelayEnd
  BY <1>0, <1>12, ReadKeepsLast DEF RelayEnd, Read, Delivered, Lost
<1>13. CASE WorkerGone
  BY <1>0, <1>13 DEF WorkerGone
<1>14. CASE ClientLeaves
  BY <1>14 DEF ClientLeaves
<1>15. CASE WorkerSpeaks
  BY <1>0, <1>15, SentIsLast DEF WorkerSpeaks, Kinds
<1>16. CASE WorkerEnds
  <2>1. /\ inbox' # <<>> /\ Last(inbox') = "end"
        /\ \A i \in 1..Len(inbox') : inbox'[i] \in {"final", "end"} \/ \E j \in 1..Len(inbox) : inbox'[i] = inbox[j]
    <3>1. CASE inbox' = Append(inbox, "end")
      BY <1>0, <3>1, SentIsLast DEF Kinds
    <3>2. CASE inbox' = inbox \o <<"final", "end">>
      BY <1>0, <3>2, EndIsLast
    <3> QED BY <1>16, <3>1, <3>2 DEF WorkerEnds
  <2> QED BY <1>0, <1>16, <2>1 DEF WorkerEnds
<1>17. CASE WorkerLags
  BY <1>0, <1>17, SentIsLast DEF WorkerLags, Kinds
<1>18. CASE WorkerDies
  BY <1>0, <1>18 DEF WorkerDies
<1> QED BY <1>1, <1>2, <1>3, <1>4, <1>5, <1>6, <1>7, <1>8, <1>9, <1>10, <1>11, <1>12, <1>13, <1>14,
           <1>15, <1>16, <1>17, <1>18 DEF Next, Lifecycle, FromClient, FromWorker, Environment

\* What connect returns about a session that was seen to end reaches its row.
LEMMA EndStep ==
    ASSUME TypeOK, StagesKept, RowKept, LastWords, EndKept, [Next]_vars PROVE EndKept'
<1> USE DEF EndKept, Recorded, Persisted
<1>0. /\ data \in BOOLEAN /\ ended \in BOOLEAN /\ late \in BOOLEAN
      /\ faults \in Nat
  BY DEF TypeOK
<1>1. CASE UNCHANGED vars
  BY <1>1 DEF vars
<1>2. CASE Admit \/ Refuse \/ AcquireWorker \/ CreateSession \/ Connect \/ ConnectFails
  BY <1>2 DEF Admit, Refuse, AcquireWorker, CreateSession, Connect, ConnectFails, StagesKept, Before, LastWords
<1>3. CASE Uncount
  BY <1>0, <1>3 DEF Uncount, Fault
<1>4. CASE WaitForEnd \/ WaitedForEnd \/ EndTimesOut \/ CancelPending \/ Release
  BY <1>4 DEF WaitForEnd, WaitedForEnd, EndTimesOut, CancelPending, Release
<1>5. CASE Settle
  <2>1. ended /\ ~late /\ Persisted => data
    BY <1>5 DEF Settle, LastWords, Unread, StagesKept, After
  <2> QED BY <1>0, <1>5, <2>1 DEF Settle, Outcome
<1>6. CASE FinalizeSession
  <2>1. ended /\ ~late /\ Persisted => data
    BY <1>6 DEF FinalizeSession, LastWords, Unread, StagesKept, After
  <2> QED BY <1>0, <1>6, <2>1 DEF FinalizeSession, FinalRow, FinalStatus, RowKept, Fault
<1>7. CASE FromClient
  BY <1>7 DEF FromClient, Forward, Answer, SendFlush, Commit, Clear, LeaveC2W, Reads
<1>8. CASE FromWorker
  BY <1>8 DEF FromWorker, RelayFails, RelayNote, RelayFinal, RelayTerminated, RelayEnd, WorkerGone, Read
<1>9. CASE ClientLeaves \/ WorkerSpeaks \/ WorkerLags
  BY <1>9 DEF ClientLeaves, WorkerSpeaks, WorkerLags
<1>10. CASE WorkerEnds
  BY <1>10 DEF WorkerEnds, StagesKept
<1>11. CASE WorkerDies
  BY <1>0, <1>11 DEF WorkerDies, Fault
<1> QED BY <1>1, <1>2, <1>3, <1>4, <1>5, <1>6, <1>7, <1>8, <1>9, <1>10, <1>11 DEF Next, Lifecycle, Environment

-----------------------------------------------------------------------------
(* Items *)

ItemsOK(s) == s \in [pending : Nat, active : Nat, queue : Seq(Nat)]

Oldest(s) == IF s.queue = <<>> THEN s.active \in {NoItem, s.pending} ELSE s.active = Head(s.queue)

Ordered(s, done) ==
    /\ \A i \in 1..Len(s.queue) : /\ NoItem < s.queue[i] /\ s.queue[i] < s.pending
                                  /\ \A j \in 1..i-1 : s.queue[j] < s.queue[i]
    /\ NoItem < s.pending
    /\ \A k \in 1..Len(done) : /\ done[k] <= s.pending
                               /\ \A i \in 1..Len(s.queue) : done[k] <= s.queue[i]

\* The parts of the item state agree.
Sound(s, done) == ItemsOK(s) /\ Oldest(s) /\ Ordered(s, done)

\* ensure_active_item makes the oldest item the active one.
LEMMA EnsureSound ==
    ASSUME NEW s, NEW done \in Seq(Nat), Sound(s, done)
    PROVE  LET t == EnsureActive(s)
           IN  /\ Sound(t, done) /\ t.queue = s.queue /\ t.pending = s.pending
               /\ t.active = IF s.queue = <<>> THEN s.pending ELSE Head(s.queue)
BY DEF EnsureActive, Sound, ItemsOK, Oldest, Ordered, NoItem

\* The elements of a sequence of items.
LEMMA Elements ==
    ASSUME NEW q \in Seq(Nat), NEW x PROVE x \in ToSet(q) <=> \E i \in 1..Len(q) : x = q[i]
<1>1. DOMAIN q = 1..Len(q)
  OBVIOUS
<1> QED BY <1>1 DEF ToSet

\* What is left of a queue whose head is taken off.
LEMMA TailOrdered ==
    ASSUME NEW s, NEW done \in Seq(Nat), ItemsOK(s), Ordered(s, done), s.queue # <<>>,
           NEW t, ItemsOK(t), t.queue = Tail(s.queue), t.pending = s.pending
    PROVE  /\ Ordered(t, done)
           /\ \A i \in 1..Len(t.queue) : Head(s.queue) < t.queue[i]
           /\ Head(s.queue) < s.pending /\ NoItem < Head(s.queue)
           /\ ToSet(s.queue) = {Head(s.queue)} \cup ToSet(t.queue)
<1>0. s.queue \in Seq(Nat) /\ Len(s.queue) \in Nat \ {0} /\ s.pending \in Nat
  BY DEF ItemsOK
<1>1. /\ Len(t.queue) = Len(s.queue) - 1 /\ Head(s.queue) = s.queue[1]
      /\ \A i \in 1..Len(t.queue) : t.queue[i] = s.queue[i + 1]
  BY <1>0
<1>2. \A i \in 1..Len(t.queue) : i + 1 \in 1..Len(s.queue) /\ 1 \in 1..(i + 1) - 1
  BY <1>0, <1>1
<1>3. \A i \in 1..Len(t.queue) : \A j \in 1..i-1 : j + 1 \in 1..(i + 1) - 1 /\ j \in 1..Len(t.queue)
  BY <1>0, <1>1
<1>4. \A i \in 1..Len(t.queue) : NoItem < t.queue[i] /\ t.queue[i] < t.pending /\ Head(s.queue) < t.queue[i]
  BY <1>1, <1>2 DEF Ordered
<1>5. \A i \in 1..Len(t.queue) : \A j \in 1..i-1 : t.queue[j] < t.queue[i]
  BY <1>1, <1>2, <1>3 DEF Ordered
<1>6. \A k \in 1..Len(done) : done[k] <= t.pending /\ \A i \in 1..Len(t.queue) : done[k] <= t.queue[i]
  BY <1>1, <1>2 DEF Ordered
<1>7. Head(s.queue) < s.pending /\ NoItem < Head(s.queue)
  BY <1>0, <1>1 DEF Ordered
<1>8. ToSet(s.queue) = {Head(s.queue)} \cup ToSet(t.queue)
  <2>1. \A i \in 1..Len(s.queue) : i = 1 \/ (i - 1 \in 1..Len(t.queue) /\ s.queue[i] = t.queue[i - 1])
    BY <1>0, <1>1
  <2>2. 1 \in 1..Len(s.queue) /\ t.queue \in Seq(Nat)
    BY <1>0 DEF ItemsOK
  <2>3. ASSUME NEW x PROVE x \in ToSet(s.queue) <=> x = Head(s.queue) \/ x \in ToSet(t.queue)
    <3>1. (x \in ToSet(s.queue) <=> \E i \in 1..Len(s.queue) : x = s.queue[i])
          /\ (x \in ToSet(t.queue) <=> \E i \in 1..Len(t.queue) : x = t.queue[i])
      BY <1>0, <2>2, Elements
    <3> QED BY <1>1, <1>2, <2>1, <2>2, <3>1
  <2> QED BY <2>3
<1> QED BY <1>4, <1>5, <1>6, <1>7, <1>8 DEF Ordered

\* finalize_active_item after ensure_active_item: the oldest item leaves and is completed,
\* after everything that was completed before.
LEMMA FinalizeSound ==
    ASSUME NEW s, NEW done \in Seq(Nat), Sound(s, done), NEW x, x = EnsureActive(s).active
    PROVE  LET t == FinalizeActive(EnsureActive(s))
           IN  /\ Sound(t, Append(done, x)) /\ x \in Nat
               /\ ToSet(s.queue) \subseteq ToSet(t.queue) \cup {x}
               /\ \A k \in 1..Len(done) : done[k] <= x
<1> DEFINE a == EnsureActive(s)
           t == FinalizeActive(a)
<1>0. /\ Sound(a, done) /\ a.queue = s.queue /\ a.pending = s.pending
      /\ x = IF s.queue = <<>> THEN s.pending ELSE Head(s.queue)
  BY EnsureSound
<1>1. /\ a \in [pending : Nat, active : Nat, queue : Seq(Nat)] /\ a.active = x
      /\ s.pending \in Nat /\ s.queue \in Seq(Nat) /\ NoItem < s.pending
  BY <1>0 DEF Sound, ItemsOK, Ordered
<1>2. Ordered(s, done) /\ ItemsOK(s)
  BY DEF Sound
<1> HIDE DEF a
<1>3. CASE s.queue = <<>>
  <2>1. x = s.pending /\ x # NoItem /\ x \in Nat
    BY <1>0, <1>1, <1>3 DEF NoItem
  <2>2. RemoveFirst(a.queue, a.active) = <<>>
    BY <1>0, <1>3 DEF RemoveFirst
  <2>3. t = [a EXCEPT !.queue = <<>>, !.active = NoItem]
    BY <1>0, <1>1, <1>3, <2>1, <2>2 DEF FinalizeActive, HeadOrNone
  <2> HIDE DEF t
  <2>a. t.queue = <<>> /\ t.active = NoItem /\ t.pending = s.pending
    BY <1>0, <1>1, <2>3
  <2>b. <<>> \in Seq(Nat) /\ NoItem \in Nat
    BY DEF NoItem
  <2>c. ItemsOK(t)
    BY <1>1, <2>3, <2>b DEF ItemsOK
  <2>4. t.queue = <<>> /\ t.active = NoItem /\ t.pending = s.pending /\ ItemsOK(t)
    BY <2>a, <2>c
  <2>5. \A k \in 1..Len(done) : done[k] <= x
    BY <1>2, <2>1 DEF Ordered
  <2>6. \A k \in 1..Len(Append(done, x)) : Append(done, x)[k] <= t.pending
    BY <2>1, <2>4, <2>5
  <2>7. Sound(t, Append(done, x))
    BY <1>1, <2>4, <2>6 DEF Sound, Oldest, Ordered
  <2>8. ToSet(s.queue) = {}
    BY <1>3 DEF ToSet
  <2> QED BY <2>1, <2>5, <2>7, <2>8 DEF t, a
<1>4. CASE s.queue # <<>>
  <2>1. x = Head(s.queue) /\ x \in Nat
    BY <1>0, <1>1, <1>4
  <2>2. NoItem < x
    BY <1>1, <1>2, <1>4, <2>1 DEF Ordered
  <2>3. t = [a EXCEPT !.queue = Tail(s.queue), !.active = HeadOrNone(Tail(s.queue))]
    BY <1>0, <1>1, <1>4, <2>1, <2>2 DEF FinalizeActive, NoItem
  <2> HIDE DEF t
  <2>4. HeadOrNone(Tail(s.queue)) \in Nat /\ Tail(s.queue) \in Seq(Nat)
    <3>1. Tail(s.queue) \in Seq(Nat)
      BY <1>1, <1>4
    <3>2. Tail(s.queue) # <<>> => Head(Tail(s.queue)) \in Nat
      BY SMTT(30), <3>1
    <3> QED BY <3>1, <3>2 DEF HeadOrNone, NoItem
  <2>5. /\ t.queue = Tail(s.queue) /\ t.active = HeadOrNone(Tail(s.queue)) /\ t.pending = s.pending
        /\ ItemsOK(t)
    BY <1>0, <1>1, <2>3, <2>4 DEF ItemsOK
  <2>6. /\ Ordered(t, done) /\ \A i \in 1..Len(t.queue) : Head(s.queue) < t.queue[i]
        /\ Head(s.queue) < s.pending
        /\ ToSet(s.queue) = {Head(s.queue)} \cup ToSet(t.queue)
    BY <1>2, <1>4, <2>5, TailOrdered
  <2>7. \A k \in 1..Len(done) : done[k] <= x
    <3>1. 1 \in 1..Len(s.queue) /\ x = s.queue[1]
      BY <1>1, <1>4, <2>1
    <3> QED BY <1>2, <3>1 DEF Ordered
  <2>8. ASSUME NEW k \in 1..Len(Append(done, x))
        PROVE  Append(done, x)[k] <= t.pending /\ \A i \in 1..Len(t.queue) : Append(done, x)[k] <= t.queue[i]
    <3>0. t.queue \in Seq(Nat) /\ t.pending \in Nat
      BY <2>5 DEF ItemsOK
    <3>1. CASE k \in 1..Len(done)
      <4>1. Append(done, x)[k] = done[k]
        BY <2>1, <3>1
      <4> QED BY <2>6, <3>1, <4>1 DEF Ordered
    <3>2. CASE k = Len(done) + 1
      <4>1. Append(done, x)[k] = x
        BY <2>1, <3>2
      <4>2. x <= t.pending
        BY <2>1, <2>5, <2>6, <3>0
      <4>3. ASSUME NEW i \in 1..Len(t.queue) PROVE x <= t.queue[i]
        <5>1. t.queue[i] \in Nat /\ x < t.queue[i]
          BY <2>1, <2>6, <3>0
        <5> QED BY <2>1, <5>1
      <4> QED BY <4>1, <4>2, <4>3
    <3> QED BY <2>1, <3>1, <3>2
  <2>9. Ordered(t, Append(done, x))
    BY <2>6, <2>8 DEF Ordered
  <2>10. Oldest(t)
    BY <2>5 DEF Oldest, HeadOrNone
  <2>11. Sound(t, Append(done, x)) /\ ToSet(s.queue) \subseteq ToSet(t.queue) \cup {x}
    BY <2>1, <2>5, <2>6, <2>9, <2>10 DEF Sound
  <2> QED BY <2>1, <2>7, <2>11 DEF t, a
<1> QED BY <1>3, <1>4 DEF a

\* discard_pending_item: a committed item stays the active one.
LEMMA DiscardSound ==
    ASSUME NEW s, NEW done \in Seq(Nat), Sound(s, done)
    PROVE  Sound(DiscardPending(s), done) /\ DiscardPending(s).queue = s.queue
<1> DEFINE t == DiscardPending(s)
<1>0. s \in [pending : Nat, active : Nat, queue : Seq(Nat)]
  BY DEF Sound, ItemsOK
<1> DEFINE act == IF \E i \in 1..Len(s.queue) : s.queue[i] = s.active THEN s.active ELSE NoItem
<1>a. t = [s EXCEPT !.pending = s.pending + 1, !.active = act]
  BY <1>0 DEF DiscardPending
<1>b. act \in Nat
  BY <1>0 DEF NoItem
<1> HIDE DEF t, act
<1>1. t.queue = s.queue /\ t.pending = s.pending + 1 /\ t.active = act /\ ItemsOK(t)
  <2>1. s.pending + 1 \in Nat
    BY <1>0
  <2>2. t.queue = s.queue /\ t.pending = s.pending + 1 /\ t.active = act
    BY <1>0, <1>a
  <2>3. ItemsOK(t)
    BY <1>0, <1>a, <1>b, <2>1 DEF ItemsOK
  <2> QED BY <2>2, <2>3
<1>2. Oldest(t)
  <2>1. CASE s.queue = <<>>
    BY <1>1, <2>1 DEF Oldest, act
  <2>2. CASE s.queue # <<>>
    <3>1. 1 \in 1..Len(s.queue) /\ s.queue[1] = s.active
      BY <1>0, <2>2 DEF Oldest, Sound
    <3> QED BY <1>1, <2>2, <3>1 DEF Oldest, Sound, act
  <2> QED BY <2>1, <2>2
<1>3. Ordered(t, done)
  <2>1. s.pending \in Nat /\ \A i \in 1..Len(s.queue) : s.queue[i] \in Nat
    BY <1>0
  <2>2. Ordered(s, done) /\ \A k \in 1..Len(done) : done[k] \in Nat
    BY DEF Sound
  <2> QED BY <1>1, <2>1, <2>2 DEF Ordered, NoItem
<1> QED BY <1>1, <1>2, <1>3 DEF Sound, t

\* An item that is put behind the others.
LEMMA AppendOrdered ==
    ASSUME NEW s, NEW done \in Seq(Nat), Sound(s, done),
           NEW t, ItemsOK(t), t.queue = Append(s.queue, s.pending), t.pending = s.pending + 1
    PROVE  Ordered(t, done) /\ ToSet(t.queue) = ToSet(s.queue) \cup {s.pending}
<1>0. s.queue \in Seq(Nat) /\ Len(s.queue) \in Nat /\ s.pending \in Nat /\ t.queue \in Seq(Nat) /\ Ordered(s, done)
  BY DEF Sound, ItemsOK
<1>1. /\ Len(t.queue) = Len(s.queue) + 1 /\ t.queue[Len(s.queue) + 1] = s.pending
      /\ \A i \in 1..Len(s.queue) : t.queue[i] = s.queue[i] /\ t.queue[i] \in Nat
  BY <1>0
<1>2. ASSUME NEW i \in 1..Len(t.queue)
      PROVE  NoItem < t.queue[i] /\ t.queue[i] < t.pending /\ \A j \in 1..i-1 : t.queue[j] < t.queue[i]
  <2>1. CASE i \in 1..Len(s.queue)
    BY <1>0, <1>1, <2>1 DEF Ordered
  <2>2. CASE i = Len(s.queue) + 1
    BY <1>0, <1>1, <2>2 DEF Ordered
  <2> QED BY <1>0, <1>1, <2>1, <2>2
<1>3. ASSUME NEW k \in 1..Len(done)
      PROVE  done[k] <= t.pending /\ \A i \in 1..Len(t.queue) : done[k] <= t.queue[i]
  <2>1. done[k] <= s.pending /\ \A i \in 1..Len(s.queue) : done[k] <= s.queue[i]
    BY <1>0 DEF Ordered
  <2>2. done[k] \in Nat
    OBVIOUS
  <2> QED BY SMTT(30), <1>0, <1>1, <2>1, <2>2
<1>4. NoItem < t.pending
  BY <1>0 DEF Ordered, NoItem
<1>5. ASSUME NEW x PROVE x \in ToSet(t.queue) <=> x \in ToSet(s.queue) \/ x = s.pending
  <2>1. /\ x \in ToSet(s.queue) <=> \E i \in 1..Len(s.queue) : x = s.queue[i]
        /\ x \in ToSet(t.queue) <=> \E i \in 1..Len(t.queue) : x = t.queue[i]
    BY <1>0, Elements
  <2>2. \A i \in 1..Len(t.queue) : i \in 1..Len(s.queue) \/ i = Len(s.queue) + 1
    BY <1>0, <1>1
  <2>3. Len(s.queue) + 1 \in 1..Len(t.queue) /\ \A i \in 1..Len(s.queue) : i \in 1..Len(t.queue)
    BY <1>0, <1>1
  <2> QED BY <1>1, <2>1, <2>2, <2>3
<1> QED BY <1>2, <1>3, <1>4, <1>5 DEF Ordered

\* Append leaves something.
LEMMA AppendFull == ASSUME NEW q \in Seq(Nat), NEW x \in Nat PROVE Append(q, x) # <<>>
OBVIOUS

\* commit_active_item: the pending item is put behind the others, and when the queue is too
\* long the oldest is dropped and the next one becomes the active one.
LEMMA CommitSound ==
    ASSUME NEW s, NEW done \in Seq(Nat), Sound(s, done)
    PROVE  LET t == CommitActive(s)
               g == Append(s.queue, s.pending)
           IN  /\ Sound(t, done)
               /\ ToSet(s.queue) \cup {s.pending} \subseteq
                    ToSet(t.queue) \cup (IF Overflows(s) THEN {Head(g)} ELSE {})
<1> DEFINE t == CommitActive(s)
           g == Append(s.queue, s.pending)
           u == [s EXCEPT !.queue = g, !.pending = s.pending + 1]
<1>0. s \in [pending : Nat, active : Nat, queue : Seq(Nat)] /\ Oldest(s) /\ Ordered(s, done)
  BY DEF Sound, ItemsOK
<1>1. /\ g \in Seq(Nat) /\ g # <<>> /\ s.pending \in Nat /\ s.pending + 1 \in Nat /\ s.queue \in Seq(Nat)
      /\ NoItem < s.pending
  <2>1. s.pending \in Nat /\ s.pending + 1 \in Nat /\ s.queue \in Seq(Nat) /\ NoItem < s.pending
    BY <1>0 DEF Ordered
  <2>2. g \in Seq(Nat) /\ Len(g) = Len(s.queue) + 1 /\ Len(s.queue) \in Nat
    BY <2>1
  <2>3. g # <<>>
    BY <2>1, AppendFull
  <2> QED BY <2>1, <2>2, <2>3
<1>2. Head(g) = IF s.queue = <<>> THEN s.pending ELSE Head(s.queue)
  BY <1>0
<1>3. s.queue # <<>> => s.active = Head(s.queue) /\ NoItem < s.active /\ s.active \in Nat
  <2>1. ASSUME s.queue # <<>> PROVE 1 \in 1..Len(s.queue) /\ Head(s.queue) = s.queue[1]
    BY <1>1, <2>1
  <2> QED BY <1>0, <2>1 DEF Oldest, Ordered
<1>4. s.queue = <<>> => s.active \in {NoItem, s.pending}
  BY <1>0 DEF Oldest
<1> HIDE DEF g
<1>5. u.queue = g /\ u.pending = s.pending + 1 /\ ItemsOK(u)
  BY <1>0, <1>1 DEF ItemsOK
<1> HIDE DEF u
<1>6. Ordered(u, done) /\ ToSet(u.queue) = ToSet(s.queue) \cup {s.pending}
  BY <1>5, AppendOrdered DEF g
<1>7. CASE ~Overflows(s)
  <2>1. t = [s EXCEPT !.queue = g, !.active = IF s.active = NoItem THEN s.pending ELSE s.active,
                      !.pending = s.pending + 1]
    BY <1>0, <1>7 DEF CommitActive, g
  <2> HIDE DEF t
  <2>2. /\ t.queue = g /\ t.pending = s.pending + 1
        /\ t.active = IF s.active = NoItem THEN s.pending ELSE s.active
    BY <1>0, <2>1
  <2>3. ItemsOK(t)
    BY <1>0, <1>1, <2>1 DEF ItemsOK
  <2>4. Ordered(t, done)
    BY <1>5, <1>6, <2>2 DEF Ordered
  <2>5. t.active = Head(g)
    BY <1>1, <1>2, <1>3, <1>4, <2>2 DEF NoItem
  <2>6. Sound(t, done)
    BY <1>1, <2>2, <2>3, <2>4, <2>5 DEF Sound, Oldest
  <2>7. ToSet(s.queue) \cup {s.pending} = ToSet(t.queue)
    BY <1>5, <1>6, <2>2
  <2> QED BY <1>7, <2>6, <2>7 DEF t
<1>8. CASE Overflows(s)
  <2>1. s.queue # <<>>
    <3>1. Len(s.queue) # 0
      BY <1>1, <1>8, ProxyAssumption DEF Overflows
    <3>2. Len(<<>>) = 0
      OBVIOUS
    <3> QED BY <3>1, <3>2
  <2>2. s.active = Head(g) /\ s.active # NoItem
    BY <1>2, <1>3, <2>1 DEF NoItem
  <2>3. Tail(g) \in Seq(Nat) /\ Tail(g) # <<>>
    <3>1. Len(g) = Len(s.queue) + 1 /\ Len(s.queue) > 0 /\ Len(s.queue) \in Nat
      BY <1>1, <2>1 DEF g
    <3>2. Len(Tail(g)) = Len(g) - 1 /\ Tail(g) \in Seq(Nat)
      BY <1>1
    <3>3. Len(Tail(g)) # 0
      <4>1. Len(Tail(g)) = Len(s.queue)
        BY <3>1, <3>2
      <4>2. \A n \in Nat : n > 0 => n # 0
        OBVIOUS
      <4>3. Len(s.queue) # 0
        BY <3>1, <4>2
      <4> QED BY <4>1, <4>3, Zenon
    <3>4. Len(<<>>) = 0
      OBVIOUS
    <3> QED BY <3>2, <3>3, <3>4
  <2>4. ItemsOK(u) /\ Ordered(u, done) /\ u.queue # <<>>
    BY <1>1, <1>5, <1>6
  <2>5. Head(Tail(g)) \in Nat /\ Head(Tail(g)) # NoItem
    <3>1. Tail(g) = Tail(u.queue)
      BY <1>5
    <3>2. Head(Tail(g)) \in Nat /\ Len(Tail(g)) \in Nat \ {0} /\ Head(Tail(g)) = Tail(g)[1]
      BY <2>3
    <3>3. Tail(g)[1] = g[2] /\ 2 \in 1..Len(g)
      <4>1. Len(g) \in Nat /\ Len(Tail(g)) = Len(g) - 1 /\ \A i \in 1..Len(Tail(g)) : Tail(g)[i] = g[i + 1]
        BY <1>1
      <4>2. ASSUME NEW m \in Nat \ {0}, NEW n \in Nat, m = n - 1
            PROVE  n >= 2 /\ 1 \in 1..m /\ 2 \in 1..n
        BY <4>2
      <4>3. 1 \in 1..Len(Tail(g)) /\ 2 \in 1..Len(g)
        BY <3>2, <4>1, <4>2
      <4> QED BY <4>1, <4>3
    <3>4. NoItem < g[2]
      BY <1>5, <1>6, <3>3 DEF Ordered
    <3> QED BY <3>2, <3>3, <3>4 DEF NoItem
  <2>6. t = [s EXCEPT !.queue = Tail(g), !.active = Head(Tail(g)), !.pending = s.pending + 1]
    <3> DEFINE grown == [s EXCEPT !.queue = Append(s.queue, s.pending)]
    <3>1. grown = [s EXCEPT !.queue = g] /\ grown.queue = g /\ grown.active = s.active
      BY <1>0 DEF g
    <3>2. Overflowed(grown) = [grown EXCEPT !.queue = Tail(g), !.active = Head(Tail(g))]
      BY <2>2, <2>3, <3>1 DEF Overflowed, HeadOrNone
    <3>3. t = [Overflowed(grown) EXCEPT
                 !.active = IF @ = NoItem THEN s.pending ELSE @, !.pending = @ + 1]
      BY <1>8 DEF CommitActive
    <3> HIDE DEF t
    <3> QED BY <1>0, <2>5, <3>1, <3>2, <3>3
  <2> HIDE DEF t
  <2>7. t.queue = Tail(g) /\ t.pending = s.pending + 1 /\ t.active = Head(Tail(g))
    BY <1>0, <2>6
  <2>8. ItemsOK(t)
    BY <1>0, <1>1, <2>3, <2>5, <2>6 DEF ItemsOK
  <2>9. Ordered(t, done) /\ ToSet(u.queue) = {Head(g)} \cup ToSet(t.queue)
    BY <1>5, <2>4, <2>7, <2>8, TailOrdered
  <2>10. Sound(t, done)
    BY <2>3, <2>7, <2>8, <2>9 DEF Sound, Oldest
  <2> QED BY <1>6, <1>8, <2>9, <2>10 DEF t, g
<1> QED BY <1>7, <1>8 DEF t, g

\* What the invariant says about the items.
ItemsInv ==
    /\ Sound(items, completed) /\ NoItemLost /\ ItemsInOrder
    /\ completed \in Seq(Nat) /\ committed \subseteq Nat /\ dropped \subseteq Nat

\* The four operations of the item state are the only ones that change it.
LEMMA ItemsStep == ASSUME ItemsInv, [Next]_vars PROVE ItemsInv'
<1> USE DEF ItemsInv
<1>0. items.pending \in Nat /\ items.queue \in Seq(Nat)
  BY DEF Sound, ItemsOK
<1>1. CASE UNCHANGED ids
  BY <1>1 DEF NoItemLost, ItemsInOrder
<1>2. CASE Commit
  <2>1. /\ items' = CommitActive(items) /\ committed' = committed \cup {items.pending}
        /\ dropped' = (IF Overflows(items) THEN dropped \cup {Head(Append(items.queue, items.pending))} ELSE dropped)
        /\ completed' = completed
    BY <1>2 DEF Commit
  <2>2. /\ Sound(items', completed)
        /\ ToSet(items.queue) \cup {items.pending} \subseteq
             ToSet(items'.queue) \cup (IF Overflows(items) THEN {Head(Append(items.queue, items.pending))} ELSE {})
    BY <2>1, CommitSound
  <2>3. Head(Append(items.queue, items.pending)) \in Nat
    BY <1>0
  <2>4. NoItemLost'
    BY <2>1, <2>2 DEF NoItemLost
  <2>5. committed' \subseteq Nat /\ dropped' \subseteq Nat
    BY <1>0, <2>1, <2>3
  <2>6. ItemsInOrder'
    BY <2>1 DEF ItemsInOrder
  <2> QED BY <2>1, <2>2, <2>4, <2>5, <2>6
<1>3. CASE items' = DiscardPending(items) /\ UNCHANGED <<committed, completed, dropped>>
  BY <1>3, DiscardSound DEF NoItemLost, ItemsInOrder
<1>4. CASE items' = EnsureActive(items) /\ UNCHANGED <<committed, completed, dropped>>
  BY <1>4, EnsureSound DEF NoItemLost, ItemsInOrder
<1>5. CASE /\ items' = FinalizeActive(EnsureActive(items))
           /\ completed' = Append(completed, EnsureActive(items).active)
           /\ UNCHANGED <<committed, dropped>>
  <2> DEFINE x == EnsureActive(items).active
  <2> HIDE DEF x
  <2>1. /\ Sound(items', completed') /\ x \in Nat
        /\ ToSet(items.queue) \subseteq ToSet(items'.queue) \cup {x}
        /\ \A k \in 1..Len(completed) : completed[k] <= x
    BY <1>5, FinalizeSound DEF x
  <2>2. completed' \in Seq(Nat) /\ completed' = Append(completed, x)
    BY <1>5, <2>1 DEF x
  <2>3. /\ Len(completed') = Len(completed) + 1 /\ completed'[Len(completed) + 1] = x /\ Len(completed) \in Nat
        /\ \A k \in 1..Len(completed) : completed'[k] = completed[k]
    BY <2>1, <2>2
  <2>4. ASSUME NEW y, y \in ToSet(completed) \/ y = x PROVE y \in ToSet(completed')
    <3>1. (y \in ToSet(completed) <=> \E i \in 1..Len(completed) : y = completed[i])
          /\ (y \in ToSet(completed') <=> \E i \in 1..Len(completed') : y = completed'[i])
      BY <2>2, Elements
    <3>2. Len(completed) + 1 \in 1..Len(completed') /\ \A i \in 1..Len(completed) : i \in 1..Len(completed')
      BY <2>3
    <3> QED BY <2>3, <2>4, <3>1, <3>2
  <2>5. NoItemLost'
    BY <1>5, <2>1, <2>4 DEF NoItemLost
  <2>6. ItemsInOrder'
    <3>1. ASSUME NEW i \in 1..Len(completed'), NEW j \in 1..i PROVE completed'[j] <= completed'[i]
      <4>1. CASE i \in 1..Len(completed)
        BY <2>3, <4>1 DEF ItemsInOrder
      <4>2. CASE i = Len(completed) + 1 /\ j \in 1..Len(completed)
        BY <2>1, <2>3, <4>2
      <4>3. CASE i = Len(completed) + 1 /\ j = i
        BY <2>1, <2>3, <4>3
      <4> QED BY <2>3, <4>1, <4>2, <4>3
    <3> QED BY <3>1 DEF ItemsInOrder
  <2> QED BY <1>5, <2>1, <2>2, <2>5, <2>6
<1>6. \/ UNCHANGED ids \/ Commit
      \/ UNCHANGED <<committed, completed, dropped>> /\ items' \in {DiscardPending(items), EnsureActive(items)}
      \/ /\ items' = FinalizeActive(EnsureActive(items)) /\ completed' = Append(completed, EnsureActive(items).active)
         /\ UNCHANGED <<committed, dropped>>
  <2>1. CASE UNCHANGED vars
    BY <2>1 DEF vars
  <2>2. CASE Lifecycle
    BY <2>2 DEF Lifecycle, Admit, Refuse, AcquireWorker, Uncount, CreateSession, Connect, ConnectFails,
                WaitForEnd, WaitedForEnd, EndTimesOut, CancelPending, Settle, Release, FinalizeSession
  <2>3. CASE Forward \/ Answer \/ SendFlush \/ LeaveC2W
    BY <2>3 DEF Forward, Answer, SendFlush, LeaveC2W
  <2>4. CASE Clear
    BY <2>4 DEF Clear
  <2>5. CASE RelayFails \/ RelayTerminated \/ RelayEnd \/ WorkerGone
    BY <2>5 DEF RelayFails, RelayTerminated, RelayEnd, WorkerGone
  <2>6. CASE RelayNote
    BY <2>6 DEF RelayNote
  <2>7. CASE RelayFinal
    BY <2>7 DEF RelayFinal
  <2>8. CASE Environment
    BY <2>8 DEF Environment, ClientLeaves, WorkerSpeaks, WorkerEnds, WorkerLags, WorkerDies
  <2> QED BY <2>1, <2>2, <2>3, <2>4, <2>5, <2>6, <2>7, <2>8 DEF Next, FromClient, FromWorker
<1> QED BY <1>1, <1>2, <1>3, <1>4, <1>5, <1>6

\* The other variables keep their types.
LEMMA TypeStep == ASSUME TypeOK, ItemsInv, StagesKept, ItemsInv', [Next]_vars PROVE TypeOK'
<1>0. /\ api \in Apis /\ slot \in Nat /\ faults \in Nat /\ said \in Nat /\ words \in Nat
      /\ asked \in BOOLEAN /\ deaf \in BOOLEAN /\ data \in BOOLEAN /\ ended \in BOOLEAN /\ late \in BOOLEAN
      /\ goodbye \in BOOLEAN
  BY DEF TypeOK
<1>1. /\ inbox' \in Seq({"note", "final", "terminated", "end"})
      /\ items' \in [pending : Nat, active : Nat, queue : Seq(Nat)]
      /\ completed' \in Seq(Nat) /\ committed' \subseteq Nat /\ dropped' \subseteq Nat
  BY InboxTyped DEF Kinds, ItemsInv, Sound, ItemsOK
<1> DEFINE
      Stages  == {"new", "accepted", "uncount", "allocated", "connect", "proxy", "wait", "settle", "release", "finalize", "over"}
      Results == {"none", "completed", "interrupted", "error", "lag_exceeded"}
      Rows    == Results \cup {"active"}
      Tasks   == {"new", "run", "commit", "returned", "interrupted", "error", "cancelled"}
<1>2. /\ pc' \in Stages /\ client' \in {"here", "gone"} /\ worker' \in {"idle", "up", "done", "lag", "dead", "closed"}
      /\ api' \in Apis /\ c2w' \in Tasks /\ w2c' \in Tasks \ {"commit"}
  <2> USE DEF TypeOK
  <2>1. CASE UNCHANGED vars
    BY <2>1 DEF vars
  <2>2. CASE Lifecycle
    BY <2>2 DEF Lifecycle, Admit, Refuse, AcquireWorker, Uncount, CreateSession, Connect, ConnectFails, CloseWorker,
                WaitForEnd, WaitedForEnd, EndTimesOut, CancelPending, Settle, Release, FinalizeSession
  <2>3. CASE FromClient
    BY <2>3 DEF FromClient, Forward, Answer, SendFlush, Commit, Clear, LeaveC2W, RaiseC2W
  <2>4. CASE FromWorker
    BY <2>4 DEF FromWorker, RelayFails, RelayNote, RelayFinal, RelayTerminated, RelayEnd, WorkerGone
  <2>5. CASE Environment
    BY <2>5 DEF Environment, ClientLeaves, WorkerSpeaks, WorkerEnds, WorkerLags, WorkerDies
  <2> QED BY <2>1, <2>2, <2>3, <2>4, <2>5 DEF Next
<1>3. result' \in Results /\ row' \in Rows
  <2> USE DEF TypeOK
  <2>1. CASE UNCHANGED vars
    BY <2>1 DEF vars
  <2>2. CASE Lifecycle
    BY <2>2 DEF Lifecycle, Admit, Refuse, AcquireWorker, Uncount, CreateSession, Connect, ConnectFails, CreatedRow,
                WaitForEnd, WaitedForEnd, EndTimesOut, CancelPending, Settle, Release, FinalizeSession,
                Outcome, OutcomeElevenlabs, Raised, FinalRow, FinalStatus
  <2>3. CASE FromClient
    BY <2>3 DEF FromClient, Forward, Answer, SendFlush, Commit, Clear, LeaveC2W
  <2>4. CASE FromWorker
    BY <2>4 DEF FromWorker, RelayFails, RelayNote, RelayFinal, RelayTerminated, RelayEnd, WorkerGone
  <2>5. CASE Environment
    BY <2>5 DEF Environment, ClientLeaves, WorkerSpeaks, WorkerEnds, WorkerLags, WorkerDies
  <2> QED BY <2>1, <2>2, <2>3, <2>4, <2>5 DEF Next
<1>4. slot' \in Nat
  <2>1. CASE Uncount
    BY <1>0, <2>1 DEF Uncount, StagesKept
  <2>2. CASE Lifecycle /\ ~Uncount
    BY <1>0, <2>2 DEF Lifecycle, Admit, Refuse, AcquireWorker, CreateSession, Connect, ConnectFails,
                WaitForEnd, WaitedForEnd, EndTimesOut, CancelPending, Settle, Release, FinalizeSession
  <2>3. CASE UNCHANGED slot
    BY <1>0, <2>3
  <2>4. FromClient \/ FromWorker \/ Environment \/ UNCHANGED vars => UNCHANGED slot
    BY DEF FromClient, Forward, Answer, SendFlush, Commit, Clear, LeaveC2W,
           FromWorker, RelayFails, RelayNote, RelayFinal, RelayTerminated, RelayEnd, WorkerGone,
           Environment, ClientLeaves, WorkerSpeaks, WorkerEnds, WorkerLags, WorkerDies, vars
  <2> QED BY <2>1, <2>2, <2>3, <2>4 DEF Next
<1>5. said' \in Nat /\ words' \in Nat /\ faults' \in Nat
  <2>1. CASE UNCHANGED vars
    BY <1>0, <2>1 DEF vars
  <2>2. CASE Lifecycle
    BY <1>0, <2>2 DEF Lifecycle, Admit, Refuse, AcquireWorker, Uncount, CreateSession, Connect, ConnectFails, Fault,
                WaitForEnd, WaitedForEnd, EndTimesOut, CancelPending, Settle, Release, FinalizeSession
  <2>3. CASE FromClient
    BY <1>0, <2>3 DEF FromClient, Forward, Answer, SendFlush, Commit, Clear, LeaveC2W, Reads
  <2>4. CASE FromWorker
    BY <1>0, <2>4 DEF FromWorker, RelayFails, RelayNote, RelayFinal, RelayTerminated, RelayEnd, WorkerGone
  <2>5. CASE Environment
    BY <1>0, <2>5 DEF Environment, ClientLeaves, WorkerSpeaks, WorkerEnds, WorkerLags, WorkerDies, Fault
  <2> QED BY <2>1, <2>2, <2>3, <2>4, <2>5 DEF Next
<1>6. asked' \in BOOLEAN /\ deaf' \in BOOLEAN
  <2>1. CASE UNCHANGED vars
    BY <1>0, <2>1 DEF vars
  <2>2. CASE Lifecycle
    BY <1>0, <2>2 DEF Lifecycle, Admit, Refuse, AcquireWorker, Uncount, CreateSession, Connect, ConnectFails,
                WaitForEnd, WaitedForEnd, EndTimesOut, CancelPending, Settle, Release, FinalizeSession
  <2>3. CASE FromClient
    BY <1>0, <2>3 DEF FromClient, Forward, Answer, SendFlush, Commit, Clear, LeaveC2W, RaiseC2W
  <2>4. CASE FromWorker
    BY <1>0, <2>4 DEF FromWorker, RelayFails, RelayNote, RelayFinal, RelayTerminated, RelayEnd, WorkerGone, Delivered
  <2>5. CASE Environment
    BY <1>0, <2>5 DEF Environment, ClientLeaves, WorkerSpeaks, WorkerEnds, WorkerLags, WorkerDies
  <2> QED BY <2>1, <2>2, <2>3, <2>4, <2>5 DEF Next
<1>7. data' \in BOOLEAN /\ ended' \in BOOLEAN /\ late' \in BOOLEAN /\ goodbye' \in BOOLEAN
  <2>1. CASE UNCHANGED vars
    BY <1>0, <2>1 DEF vars
  <2>2. CASE Lifecycle
    BY <1>0, <2>2 DEF Lifecycle, Admit, Refuse, AcquireWorker, Uncount, CreateSession, Connect, ConnectFails,
                WaitForEnd, WaitedForEnd, EndTimesOut, CancelPending, Settle, Release, FinalizeSession
  <2>3. CASE FromClient
    BY <1>0, <2>3 DEF FromClient, Forward, Answer, SendFlush, Commit, Clear, LeaveC2W
  <2>4. CASE FromWorker
    BY <1>0, <2>4 DEF FromWorker, RelayFails, RelayNote, RelayFinal, RelayTerminated, RelayEnd, WorkerGone, Persisted
  <2>5. CASE Environment
    BY <1>0, <2>5 DEF Environment, ClientLeaves, WorkerSpeaks, WorkerEnds, WorkerLags, WorkerDies
  <2> QED BY <2>1, <2>2, <2>3, <2>4, <2>5 DEF Next
<1> QED BY SMTT(30), <1>1, <1>2, <1>3, <1>4, <1>5, <1>6, <1>7 DEF TypeOK

\* The initial state: nobody is connected and no item is known.
LEMMA ProxyInit == Init => ProxyInv
<1> SUFFICES ASSUME Init PROVE ProxyInv
  OBVIOUS
<1>1. items = [pending |-> 1, active |-> NoItem, queue |-> <<>>] /\ completed = <<>> /\ inbox = <<>>
  BY DEF Init
<1>2. TypeOK
  <2>1. items \in [pending : Nat, active : Nat, queue : Seq(Nat)] /\ completed \in Seq(Nat)
    <3>1. <<>> \in Seq(Nat) /\ NoItem \in Nat
      BY DEF NoItem
    <3> QED BY <1>1, <3>1
  <2>2. inbox \in Seq({"note", "final", "terminated", "end"})
    BY <1>1
  <2>3. {asked, deaf, data, ended, late, goodbye} \subseteq BOOLEAN
    BY Zenon DEF Init
  <2>4. {slot, said, words, faults} \subseteq Nat
    BY DEF Init
  <2> QED BY <2>1, <2>2, <2>3, <2>4 DEF Init, TypeOK
<1>3. ActiveIsOldest /\ QueueOrdered
  BY <1>1 DEF ActiveIsOldest, QueueOrdered, NoItem
<1>4. NoItemLost /\ ItemsInOrder
  BY DEF Init, NoItemLost, ItemsInOrder
<1>5. StagesKept /\ RowKept /\ CompletedWasEnded
  BY DEF Init, StagesKept, RowKept, CompletedWasEnded, Before, After, Recorded
<1>6. LastWords /\ EndKept
  BY DEF Init, LastWords, EndKept
<1>7. StatsKept /\ ClientTold
  BY DEF Init, StatsKept, ClientTold
<1> QED BY <1>2, <1>3, <1>4, <1>5, <1>6, <1>7 DEF ProxyInv

\* Whatever the client, the worker and the two tasks do in which order: transcripts go to
\* the items they belong to, in order and without a loss but by the overflow of the queue,
\* and the worker's session.end reaches the session's row and the client.
THEOREM ProxyInvariant == Spec => []ProxyInv
<1>1. ASSUME ProxyInv, [Next]_vars PROVE ProxyInv'
  <2>0. TypeOK /\ StagesKept /\ RowKept /\ LastWords /\ EndKept /\ CompletedWasEnded
    BY <1>1 DEF ProxyInv
  <2>1. ItemsInv
    BY <1>1 DEF ProxyInv, ItemsInv, TypeOK, Sound, ItemsOK, Oldest, Ordered, ActiveIsOldest, QueueOrdered
  <2>2. ItemsInv'
    BY <1>1, <2>1, ItemsStep
  <2>3. TypeOK'
    BY <1>1, <2>0, <2>1, <2>2, TypeStep
  <2>4. ActiveIsOldest' /\ QueueOrdered' /\ NoItemLost' /\ ItemsInOrder'
    BY <2>2 DEF ItemsInv, Sound, Oldest, Ordered, ActiveIsOldest, QueueOrdered
  <2>5. StagesKept' /\ RowKept' /\ LastWords' /\ EndKept' /\ CompletedWasEnded'
    BY <1>1, <2>0, StagesStep, RowStep, LastWordsStep, EndStep, CompletedStep
  <2>6. StatsKept' /\ ClientTold'
    <3>1. StatsKept'
      BY <2>5 DEF StatsKept, EndKept, Recorded, Persisted
    <3>2. ClientTold'
      BY <2>5 DEF ClientTold, LastWords, Unread, StagesKept, After, Persisted
    <3> QED BY <3>1, <3>2
  <2> QED BY <2>3, <2>4, <2>5, <2>6 DEF ProxyInv
<1>2. ProxyInv /\ UNCHANGED vars => ProxyInv'
  BY <1>1
<1> QED BY ProxyInit, <1>1, <1>2, PTL DEF Spec


=============================================================================
