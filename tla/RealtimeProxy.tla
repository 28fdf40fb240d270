---------------------------- MODULE RealtimeProxy ----------------------------
(***************************************************************************)
(* The gateway's side of one realtime session: the lifecycle that           *)
(* RealtimeProxy.run shares between the three client protocols, the two     *)
(* tasks of each protocol that carry messages between client and worker,    *)
(* the item identifiers of the OpenAI protocol that both tasks change, and  *)
(* the session's row in PostgreSQL.                                         *)
(*                                                                          *)
(* Client and worker are the environment.  A client may leave at any time;  *)
(* a worker answers as RealtimeSession says, stalls, dies or closes the     *)
(* connection over its lag.  What is written to a connection whose other    *)
(* side has gone either fails or vanishes.                                  *)
(***************************************************************************)
EXTENDS Integers, Sequences, FiniteSets, SequencesExt

CONSTANTS
    Apis,        \* of "native", "elevenlabs" and "openai"
    QueueDepth,  \* MAX_COMMITTED_QUEUE_DEPTH
    MaxMessages, \* bound on what the client sends before it leaves
    MaxWords,    \* bound on the messages a worker volunteers
    MaxFaults    \* bound on database failures, refused connections and dead workers

ASSUME ProxyAssumption ==
    /\ Apis \subseteq {"native", "elevenlabs", "openai"} /\ Apis # {}
    /\ QueueDepth \in Nat \ {0}
    /\ {MaxMessages, MaxWords, MaxFaults} \subseteq Nat

VARIABLES
    api,      \* the protocol of the session
    pc,       \* where the route and run are
    slot,     \* sessions counted against the tenant's limit for this one
    client,   \* "here" or "gone"
    worker,   \* "idle", "up", or how the connection ended
    asked,    \* the worker was sent "end"
    inbox,    \* the worker's messages that the gateway has not read
    c2w, w2c, \* the two tasks
    deaf,     \* worker_to_client found the client gone
    data,     \* worker_to_client holds the data of session.end
    result,   \* what connect returned or raised
    row,      \* the session's row: its status, or its error
    items,    \* OpenAISessionState
    committed, completed, dropped, \* items announced, completed in turn, overflowed
    ended, late, \* ghosts: session.end was sent; the gateway stopped waiting for it
    goodbye,  \* the client was sent the last message of the session
    said, words, faults

task   == <<c2w, w2c>>
ids    == <<items, committed, completed, dropped>>
fate   == <<ended, late, goodbye>>
counts == <<said, words, faults>>
vars == <<api, pc, slot, client, worker, asked, inbox, task, deaf, data, result, row, ids, fate, counts>>

Persisted == api # "elevenlabs"
NoItem    == 0

Init ==
    /\ api \in Apis /\ pc = "new" /\ slot = 0 /\ client = "here" /\ worker = "idle"
    /\ asked = FALSE /\ inbox = <<>> /\ c2w = "new" /\ w2c = "new"
    /\ deaf = FALSE /\ data = FALSE /\ result = "none" /\ row = "none"
    /\ items = [pending |-> 1, active |-> NoItem, queue |-> <<>>]
    /\ committed = {} /\ completed = <<>> /\ dropped = {}
    /\ ended = FALSE /\ late = FALSE /\ goodbye = FALSE
    /\ said = 0 /\ words = 0 /\ faults = 0

Fault == faults < MaxFaults /\ faults' = faults + 1 /\ UNCHANGED <<said, words>>

-----------------------------------------------------------------------------
(* The item identifiers of the OpenAI protocol *)

HeadOrNone(q) == IF q = <<>> THEN NoItem ELSE Head(q)

\* ensure_active_item
EnsureActive(s) ==
    IF s.active # NoItem THEN s
    ELSE [s EXCEPT !.active = IF s.queue # <<>> THEN Head(s.queue) ELSE s.pending]

\* Mutant: the item that overflows stays the active one.
OverflowedStale(s) == [s EXCEPT !.queue = Tail(@)]

\* The queue is one too long: its oldest item is dropped.
Overflowed(s) ==
    LET q == Tail(s.queue)
    IN  [s EXCEPT !.queue = q, !.active = IF @ = Head(s.queue) THEN HeadOrNone(q) ELSE @]

Overflows(s) == Len(s.queue) + 1 > QueueDepth

\* commit_active_item
CommitActive(s) ==
    LET grown   == [s EXCEPT !.queue = Append(@, s.pending)]
        trimmed == IF Overflows(s) THEN Overflowed(grown) ELSE grown
    IN  [trimmed EXCEPT !.active = IF @ = NoItem THEN s.pending ELSE @, !.pending = @ + 1]

\* finalize_active_item: the active item leaves the queue wherever it is.
FinalizeActive(s) ==
    LET q == IF s.queue # <<>> /\ Head(s.queue) = s.active THEN Tail(s.queue)
             ELSE RemoveFirst(s.queue, s.active)
    IN  IF s.active = NoItem THEN s
        ELSE [s EXCEPT !.queue = q, !.active = HeadOrNone(q)]

\* discard_pending_item
DiscardPending(s) ==
    [s EXCEPT !.pending = @ + 1,
              !.active = IF \E i \in 1..Len(s.queue) : s.queue[i] = @ THEN @ ELSE NoItem]

-----------------------------------------------------------------------------
(* The lifecycle: RealtimeProxy.run *)

\* The route authenticated the client; the tenant's limit allows the session, or it ends.
Admit ==
    /\ pc = "new"
    /\ \/ pc' = "accepted" /\ slot' = slot + 1
       \/ pc' = "over" /\ UNCHANGED slot
    /\ UNCHANGED <<api, client, worker, asked, inbox, task, deaf, data, result, row, ids, fate, counts>>

\* A parameter is invalid, no model can serve the request, or a lookup raises.
Refuse ==
    /\ pc = "accepted" /\ pc' = "uncount"
    /\ UNCHANGED <<api, slot, client, worker, asked, inbox, task, deaf, data, result, row, ids, fate, counts>>

\* run asks for a worker (SessionAllocator), and gives up without one.
AcquireWorker ==
    /\ pc = "accepted" /\ pc' \in {"allocated", "uncount"}
    /\ UNCHANGED <<api, slot, client, worker, asked, inbox, task, deaf, data, result, row, ids, fate, counts>>

\* The finally of every route: decrement_realtime_session_count, which only logs a failure.
Uncount ==
    /\ pc = "uncount" /\ pc' = "over"
    /\ \/ slot' = slot - 1 /\ UNCHANGED counts
       \/ Fault /\ UNCHANGED slot
    /\ UNCHANGED <<api, client, worker, asked, inbox, task, deaf, data, result, row, ids, fate>>

CreatedRow == IF Persisted THEN "active" ELSE "none"

\* _create_db_session, in its own transaction; without a row the session goes on.
CreateSession ==
    /\ pc = "allocated" /\ pc' = "connect"
    /\ \/ row' = CreatedRow /\ UNCHANGED counts
       \/ Persisted /\ Fault /\ UNCHANGED row
    /\ UNCHANGED <<api, slot, client, worker, asked, inbox, task, deaf, data, result, ids, fate>>

\* connect tells the client that the session started, opens the worker's connection and
\* starts the two tasks.
Connect ==
    /\ pc = "connect" /\ pc' = "proxy" /\ worker' = "up" /\ c2w' = "run" /\ w2c' = "run"
    /\ UNCHANGED <<api, slot, client, asked, inbox, deaf, data, result, row, ids, fate, counts>>

\* Either may fail: the client is gone already, or the worker refuses the connection.
ConnectFails ==
    /\ pc = "connect" /\ pc' = "release"
    /\ \/ client = "gone" /\ api # "native" /\ result' = "interrupted" /\ UNCHANGED counts
       \/ Fault /\ result' = "error"
    /\ UNCHANGED <<api, slot, client, worker, asked, inbox, task, deaf, data, row, ids, fate>>

Finished(t) == t \notin {"new", "run", "commit"}

\* What ends the async with: the connection to the worker is closed.
CloseWorker == worker' = IF worker = "up" THEN "closed" ELSE worker

\* The tasks are looked at when the first has finished.  A client that finished first
\* leaves its worker ten seconds for session.end.
WaitForEnd ==
    /\ pc = "proxy" /\ Persisted /\ Finished(c2w) /\ ~Finished(w2c) /\ pc' = "wait"
    /\ UNCHANGED <<api, slot, client, worker, asked, inbox, task, deaf, data, result, row, ids, fate, counts>>

WaitedForEnd ==
    /\ pc = "wait" /\ Finished(w2c) /\ pc' = "settle"
    /\ UNCHANGED <<api, slot, client, worker, asked, inbox, task, deaf, data, result, row, ids, fate, counts>>

\* Mutant: there is no limit on the wait.
EndTimesOutNever ==
    /\ pc = "wait" /\ Finished(w2c) /\ w2c' = "cancelled" /\ data' = FALSE /\ late' = TRUE
    /\ pc' = "settle"
    /\ UNCHANGED <<api, slot, client, worker, asked, inbox, c2w, deaf, result, row, ids, ended, goodbye, counts>>

\* The timeout cancels worker_to_client, which takes what it has read with it.
EndTimesOut ==
    /\ pc = "wait" /\ ~Finished(w2c) /\ w2c' = "cancelled" /\ data' = FALSE /\ late' = TRUE
    /\ pc' = "settle"
    /\ UNCHANGED <<api, slot, client, worker, asked, inbox, c2w, deaf, result, row, ids, ended, goodbye, counts>>

\* The worker finished first, or the protocol does not wait: the other task is cancelled.
CancelPending ==
    /\ pc = "proxy" /\ (Finished(w2c) \/ (Finished(c2w) /\ ~Persisted))
    /\ c2w' = (IF Finished(c2w) THEN c2w ELSE "cancelled")
    /\ w2c' = (IF Finished(w2c) THEN w2c ELSE "cancelled")
    /\ pc' = "settle"
    /\ UNCHANGED <<api, slot, client, worker, asked, inbox, deaf, data, result, row, ids, fate, counts>>

Raised(t) == t \in {"interrupted", "error"}

\* What _proxy_to_worker and _proxy_to_worker_openai return or raise: an exception of the
\* client's task counts only without session.end, and goes before the close code.
Outcome ==
    IF Raised(c2w) /\ ~data THEN c2w
    ELSE IF ~data /\ worker = "lag" THEN "lag_exceeded" ELSE "completed"

\* _proxy_to_worker_elevenlabs raises what either task raised.
OutcomeElevenlabs ==
    IF Raised(c2w) THEN c2w ELSE IF Raised(w2c) THEN w2c ELSE "completed"

Settle ==
    /\ pc = "settle" /\ pc' = "release"
    /\ result' = (IF Persisted THEN Outcome ELSE OutcomeElevenlabs) /\ CloseWorker
    /\ UNCHANGED <<api, slot, client, asked, inbox, task, deaf, data, row, ids, fate, counts>>

\* The keepalive is cancelled and the worker's place given back (SessionAllocator).
Release ==
    /\ pc = "release" /\ pc' = "finalize"
    /\ UNCHANGED <<api, slot, client, worker, asked, inbox, task, deaf, data, result, row, ids, fate, counts>>

\* A session that was not seen to end is an error, whatever connect returned.
FinalStatus == IF result = "completed" /\ ~data THEN "error" ELSE result

FinalRow == IF row = "none" THEN row ELSE FinalStatus

\* _finalize_db_session; a failure is only logged and leaves the row as it is.
FinalizeSession ==
    /\ pc = "finalize" /\ pc' = "uncount"
    /\ \/ row' = FinalRow /\ UNCHANGED counts
       \/ row # "none" /\ Fault /\ UNCHANGED row
    /\ UNCHANGED <<api, slot, client, worker, asked, inbox, task, deaf, data, result, ids, fate>>

-----------------------------------------------------------------------------
(* From the client to the worker *)

\* A message sent to the worker: it arrives, fails, or vanishes in a closed connection.
Fails   == worker # "up"
Arrives == worker \in {"up", "lag", "dead", "done"}

\* An exception of client_to_worker; the worker is asked to end if it still can be.
RaiseC2W(e) == c2w' = e /\ asked' = (asked \/ worker = "up")

Reads == c2w = "run" /\ said < MaxMessages /\ said' = said + 1 /\ UNCHANGED <<words, faults>>

\* Audio, and the control messages that only the worker answers.  The native "end" is one:
\* the task reads on.
Forward ==
    /\ Reads
    /\ \/ Arrives /\ UNCHANGED <<c2w, asked>>
       \/ Arrives /\ api = "native" /\ asked' = (asked \/ worker = "up") /\ UNCHANGED c2w
       \/ Fails /\ RaiseC2W("error")
    /\ UNCHANGED <<api, pc, slot, client, worker, inbox, w2c, deaf, data, result, row, ids, fate>>

\* Something the client is told about at once: a changed configuration, or an error.
Answer ==
    /\ Reads /\ api = "openai"
    /\ \/ Arrives /\ UNCHANGED <<c2w, asked>>
       \/ client = "gone" /\ RaiseC2W("interrupted")
       \/ Fails /\ RaiseC2W("error")
    /\ UNCHANGED <<api, pc, slot, client, worker, inbox, w2c, deaf, data, result, row, ids, fate>>

\* input_audio_buffer.commit: the worker is told to flush first, and may answer before the
\* task goes on.
SendFlush ==
    /\ Reads /\ api = "openai"
    /\ \/ Arrives /\ c2w' = "commit" /\ UNCHANGED asked
          /\ (UNCHANGED inbox \/ (worker = "up" /\ inbox' = Append(inbox, "final")))
       \/ Fails /\ RaiseC2W("error") /\ UNCHANGED inbox
    /\ UNCHANGED <<api, pc, slot, client, worker, w2c, deaf, data, result, row, ids, fate>>

Commit ==
    /\ c2w = "commit"
    /\ items' = CommitActive(items) /\ committed' = committed \cup {items.pending}
    /\ dropped' = (IF Overflows(items) THEN dropped \cup {Head(Append(items.queue, items.pending))} ELSE dropped)
    /\ \/ c2w' = "run" /\ UNCHANGED asked
       \/ client = "gone" /\ RaiseC2W("interrupted")
    /\ UNCHANGED <<api, pc, slot, client, worker, inbox, w2c, deaf, data, result, row, completed, fate, counts>>

\* input_audio_buffer.clear
Clear ==
    /\ Reads /\ api = "openai"
    /\ \/ Arrives /\ items' = DiscardPending(items)
          /\ \/ UNCHANGED <<c2w, asked>>
             \/ client = "gone" /\ RaiseC2W("interrupted")
       \/ Fails /\ RaiseC2W("error") /\ UNCHANGED items
    /\ UNCHANGED <<api, pc, slot, client, worker, inbox, w2c, deaf, data, result, row,
                   committed, completed, dropped, fate>>

\* close_stream, or the client's disconnection: the worker is asked to end.
LeaveC2W ==
    /\ c2w = "run" /\ (client = "gone" \/ (api = "elevenlabs" /\ said < MaxMessages))
    /\ \/ Arrives /\ c2w' = "returned" /\ asked' = (asked \/ worker = "up")
       \/ Fails /\ RaiseC2W("error")
    /\ UNCHANGED <<api, pc, slot, client, worker, inbox, w2c, deaf, data, result, row, ids, fate, counts>>

-----------------------------------------------------------------------------
(* From the worker to the client *)

\* A message for the client.  The ElevenLabs task stops at the first one that fails, the
\* others stop sending and read on.
Lost      == client = "gone" /\ ~deaf
Delivered == UNCHANGED deaf \/ (Lost /\ api # "elevenlabs" /\ deaf' = TRUE)

Read(m) == w2c = "run" /\ inbox # <<>> /\ Head(inbox) = m /\ inbox' = Tail(inbox)

RelayFails ==
    /\ w2c = "run" /\ inbox # <<>> /\ api = "elevenlabs" /\ client = "gone"
    /\ w2c' = "interrupted" /\ inbox' = Tail(inbox)
    /\ UNCHANGED <<api, pc, slot, client, worker, asked, c2w, deaf, data, result, row, ids, fate, counts>>

\* A partial transcript, the start and the end of speech.
RelayNote ==
    /\ Read("note") /\ Delivered
    /\ items' = (IF api = "openai" THEN EnsureActive(items) ELSE items)
    /\ UNCHANGED <<api, pc, slot, client, worker, asked, task, data, result, row, committed, completed, dropped, fate, counts>>

RelayFinal ==
    /\ Read("final") /\ Delivered
    /\ IF api = "openai"
       THEN /\ items' = FinalizeActive(EnsureActive(items))
            /\ completed' = Append(completed, EnsureActive(items).active)
       ELSE UNCHANGED <<items, completed>>
    /\ UNCHANGED <<api, pc, slot, client, worker, asked, task, data, result, row, committed, dropped, fate, counts>>

\* session.terminated, after which the worker closes the connection.
RelayTerminated ==
    /\ Read("terminated") /\ Delivered
    /\ goodbye' = (goodbye \/ (client = "here" /\ ~deaf))
    /\ UNCHANGED <<api, pc, slot, client, worker, asked, task, data, result, row, ids, ended, late, counts>>

\* session.end: its data are kept before the client is sent anything.
RelayEnd ==
    /\ Read("end") /\ Delivered /\ w2c' = "returned"
    /\ data' = Persisted
    /\ goodbye' = (goodbye \/ (api # "openai" /\ client = "here" /\ ~deaf))
    /\ UNCHANGED <<api, pc, slot, client, worker, asked, c2w, result, row, ids, ended, late, counts>>

\* The worker's connection is closed and everything it sent was read.
WorkerGone ==
    /\ w2c = "run" /\ inbox = <<>> /\ worker \in {"done", "lag", "dead"}
    /\ w2c' = (IF worker = "done" THEN "returned" ELSE "error")
    /\ UNCHANGED <<api, pc, slot, client, worker, asked, inbox, c2w, deaf, data, result, row, ids, fate, counts>>

-----------------------------------------------------------------------------
(* The environment *)

ClientLeaves ==
    /\ client = "here" /\ client' = "gone"
    /\ UNCHANGED <<api, pc, slot, worker, asked, inbox, task, deaf, data, result, row, ids, fate, counts>>

\* The worker volunteers a partial, the bounds of an utterance, or its transcript.
WorkerSpeaks ==
    /\ worker = "up" /\ words < MaxWords /\ words' = words + 1
    /\ \E m \in {"note", "final"} : inbox' = Append(inbox, m)
    /\ UNCHANGED <<api, pc, slot, client, worker, asked, task, deaf, data, result, row, ids, fate, said, faults>>

\* It answers "end" with the rest of the transcript and session.end, and closes.
WorkerEnds ==
    /\ worker = "up" /\ asked /\ worker' = "done" /\ ended' = TRUE
    /\ (inbox' = Append(inbox, "end") \/ inbox' = inbox \o <<"final", "end">>)
    /\ UNCHANGED <<api, pc, slot, client, asked, task, deaf, data, result, row, ids, late, goodbye, counts>>

WorkerLags ==
    /\ worker = "up" /\ worker' = "lag" /\ inbox' = Append(inbox, "terminated")
    /\ UNCHANGED <<api, pc, slot, client, asked, task, deaf, data, result, row, ids, fate, counts>>

\* It dies, with or without what it had sent.
WorkerDies ==
    /\ worker = "up" /\ worker' = "dead" /\ Fault
    /\ (UNCHANGED inbox \/ inbox' = <<>>)
    /\ UNCHANGED <<api, pc, slot, client, asked, task, deaf, data, result, row, ids, fate>>

-----------------------------------------------------------------------------

Lifecycle == Admit \/ Refuse \/ AcquireWorker \/ Uncount \/ CreateSession \/ Connect \/ ConnectFails \/ WaitForEnd \/ WaitedForEnd
             \/ EndTimesOut \/ CancelPending \/ Settle \/ Release \/ FinalizeSession
FromClient == Forward \/ Answer \/ SendFlush \/ Commit \/ Clear \/ LeaveC2W
FromWorker == RelayFails \/ RelayNote \/ RelayFinal \/ RelayTerminated \/ RelayEnd \/ WorkerGone
Environment == ClientLeaves \/ WorkerSpeaks \/ WorkerEnds \/ WorkerLags \/ WorkerDies

Next == Lifecycle \/ FromClient \/ FromWorker \/ Environment

\* The event loop runs every task that can go on.  Neither the client nor the worker need
\* do anything.
Fairness ==
    /\ WF_vars(Lifecycle) /\ WF_vars(FromWorker)
    /\ WF_vars(Commit) /\ WF_vars(LeaveC2W /\ client = "gone")

Spec     == Init /\ [][Next]_vars
FairSpec == Spec /\ Fairness

-----------------------------------------------------------------------------
(* Properties *)

\* Tasks, connections, row and item state are in their ranges.
TypeOK ==
    /\ api \in Apis
    /\ pc \in {"new", "accepted", "uncount", "allocated", "connect", "proxy", "wait", "settle", "release", "finalize", "over"}
    /\ client \in {"here", "gone"}
    /\ worker \in {"idle", "up", "done", "lag", "dead", "closed"}
    /\ c2w \in {"new", "run", "commit", "returned", "interrupted", "error", "cancelled"}
    /\ w2c \in {"new", "run", "returned", "interrupted", "error", "cancelled"}
    /\ {asked, deaf, data, ended, late, goodbye} \subseteq BOOLEAN
    /\ inbox \in Seq({"note", "final", "terminated", "end"})
    /\ result \in {"none", "completed", "interrupted", "error", "lag_exceeded"}
    /\ row \in {"none", "active", "completed", "interrupted", "error", "lag_exceeded"}
    /\ items \in [pending : Nat, active : Nat, queue : Seq(Nat)]
    /\ committed \subseteq Nat /\ dropped \subseteq Nat /\ completed \in Seq(Nat)
    /\ {slot, said, words, faults} \subseteq Nat

\* The two OpenAI tasks agree on the item a transcript belongs to: the oldest committed one
\* or, when nothing is committed, the one that audio is being collected for.
ActiveIsOldest ==
    IF items.queue = <<>> THEN items.active \in {NoItem, items.pending}
    ELSE items.active = Head(items.queue)

\* A committed item is completed, or waits its turn, or was dropped when the queue overflowed.
NoItemLost == committed \subseteq ToSet(completed) \cup ToSet(items.queue) \cup dropped

\* Transcripts are given to items in the order in which the items came up.
ItemsInOrder == \A i \in 1..Len(completed) : \A j \in 1..i : completed[j] <= completed[i]

\* The end that the worker reported reaches the row, whichever task finished first and
\* whatever the other one raised, unless the gateway had stopped waiting for it or its
\* connection failed.
StatsKept ==
    (pc = "over" /\ ended /\ ~late /\ faults = 0 /\ Persisted) => row = "completed"

\* A client that stays learns how its session ended: of the lag, in the two protocols that
\* wait for the worker, and of session.end, in the protocol that passes it on.
ClientTold ==
    /\ pc = "over" /\ client = "here" /\ ~late
    /\ (worker = "lag" /\ Persisted) \/ (worker = "done" /\ api = "native")
    => goodbye

\* A row says "completed" only when the worker's session.end was read.
CompletedWasEnded == row = "completed" => (ended /\ data)

\* When the client or the worker has gone, the session is over some time later, and it no
\* longer counts against the tenant's limit unless Redis failed.
SessionSettles ==
    (client = "gone" \/ worker \in {"done", "lag", "dead"})
        ~> (pc = "over" /\ (slot = 0 \/ faults = MaxFaults))

-----------------------------------------------------------------------------
(* Why they hold *)

Before   == {"new", "accepted", "allocated", "connect"}
After    == {"settle", "release", "finalize", "uncount", "over"}
Recorded == {"uncount", "over"}

\* The worker's connection and the two tasks live between connect and settle, and the
\* session counts against the limit until it is over.
StagesKept ==
    /\ pc \in Before => worker = "idle" /\ w2c = "new"
    /\ pc \in {"proxy", "wait"} => worker \notin {"idle", "closed"} /\ w2c # "new"
    /\ pc \in After => w2c # "run"
    /\ worker = "up" => pc \in {"proxy", "wait", "settle"}
    /\ pc = "new" => slot = 0
    /\ pc \notin {"new", "over"} => slot = 1

\* The row is written when the session is created and when it is finalised.
RowKept ==
    /\ pc \in {"new", "accepted", "allocated"} => row = "none"
    /\ pc \notin Recorded => row \in {"none", "active"}
    /\ pc \notin Recorded \cup {"new", "accepted", "allocated"} /\ faults = 0 /\ Persisted => row = "active"

Unread(m) == w2c = "run" /\ inbox # <<>> /\ Last(inbox) = m

\* The worker's last message is the last one in the inbox until it is read, nobody else
\* sends it, and as long as the gateway has not stopped waiting, what it says is kept.
LastWords ==
    /\ \A i \in 1..Len(inbox) : /\ inbox[i] = "end" => worker = "done"
                                /\ inbox[i] = "terminated" => worker = "lag"
    /\ ended <=> worker = "done"
    /\ data => ended
    /\ worker = "up" /\ Persisted /\ ~late => w2c = "run"
    /\ worker = "done" /\ Persisted /\ ~late => data \/ Unread("end")
    /\ deaf => client = "gone"
    /\ client = "here" /\ ~late =>
          /\ worker = "done" /\ api = "native" => goodbye \/ Unread("end")
          /\ worker = "lag" /\ Persisted => goodbye \/ Unread("terminated")

\* Until the row is written, the outcome of a session that was seen to end is known.
EndKept ==
    ended /\ ~late /\ Persisted =>
        /\ pc \in {"release", "finalize"} => result = "completed"
        /\ pc \in Recorded /\ faults = 0 => row = "completed"

\* Items are queued in the order of their numbers, after all that were completed.
QueueOrdered ==
    /\ \A i \in 1..Len(items.queue) : /\ NoItem < items.queue[i] /\ items.queue[i] < items.pending
                                      /\ \A j \in 1..i-1 : items.queue[j] < items.queue[i]
    /\ NoItem < items.pending
    /\ \A k \in 1..Len(completed) : /\ completed[k] <= items.pending
                                    /\ \A i \in 1..Len(items.queue) : completed[k] <= items.queue[i]

\* The two forwarding tasks agree: transcripts go to the items they belong to, and the
\* worker's end reaches the row and the client whichever task ends first.
ProxyInv ==
    /\ TypeOK /\ ActiveIsOldest /\ NoItemLost /\ ItemsInOrder /\ StatsKept
    /\ ClientTold /\ CompletedWasEnded
    /\ StagesKept /\ RowKept /\ LastWords /\ EndKept /\ QueueOrdered

=============================================================================
