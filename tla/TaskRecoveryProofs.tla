------------------------- MODULE TaskRecoveryProofs -------------------------
(***************************************************************************)
(* Whatever is lost or dies, the scanner and the sweeper invent no failure  *)
(* and no completion, and a job that has failed stays failed, for any       *)
(* number of engines, orchestrators, retries, messages and faults.          *)
(***************************************************************************)
EXTENDS TaskRecovery, TLAPS

USE RecoveryAssumption

\* A failed job stays failed: the verdict is given on running jobs only.
LEMMA JobStep == ASSUME Next, job = "FAILED" PROVE job' = "FAILED"
<1>1. CASE Handler
  BY <1>1 DEF Handler, HandleStarted, HandleCompleted, HandleWaitTimeout, Retry, RetryAgain, GiveUp, IgnoreFailure,
              Enqueue, FailFast, Verdicts
<1>2. ASSUME NEW e \in Engines,
             Execute(e) \/ Fail(e) \/ Defer(e) \/ EngineDies(e) \/ Register(e) \/ BeatExpires(e) \/ BeatReturns(e)
      PROVE  job' = "FAILED"
  BY <1>2 DEF Execute, ClaimStale, ReadOwn, ReadTask, Take, Finish, Fail, Defer, EngineDies, Executing, Register,
              BeatExpires, BeatReturns, row
<1>3. ASSUME NEW s \in Scanners, Scan(s) PROVE job' = "FAILED"
  BY <1>3 DEF Scan, FindDoomed, FailTask, FindOverdue, ClearMarker, TimeOutWait, Decide, row
<1>4. ASSUME NEW r \in Sweepers, Sweep(r) \/ OrphanDies(r) PROVE job' = "FAILED"
  BY <1>4 DEF Sweep, OrphanDies, FindOrphan, CommitOrphan, CleanPel, Readd, Requeue, FinishJob, Decide, row
<1>5. ASSUME LongTime \/ \E k \in {"scan", "sweep"} : LockExpires(k) PROVE job' = "FAILED"
  BY <1>5 DEF LongTime, LockExpires, row
<1> QED BY <1>1, <1>2, <1>3, <1>4, <1>5 DEF Next

\* A job that was reported as failed never completes, whatever events arrive late or twice
\* and whatever the reconciler finds (FailedStays; handlers.py and reconciler.py).
THEOREM FailedIsFinal == Spec => FailedStays
<1>1. [Next]_vars => [job = "FAILED" => job' = "FAILED"]_vars
  BY JobStep DEF vars, row
<1> QED BY <1>1, PTL DEF Spec, FailedStays

\* The rows keep their types.
LEMMA RowStep == ASSUME RowOK, Next PROVE RowOK'
<1> USE DEF RowOK, Terminal
<1>1. ASSUME Handler PROVE saved' \in BOOLEAN /\ job' \in {"RUNNING"} \cup Terminal
  BY <1>1 DEF Handler, HandleStarted, HandleCompleted, HandleWaitTimeout, Retry, RetryAgain, GiveUp, IgnoreFailure,
              Enqueue, FailFast, Verdicts, Handling
<1>2. ASSUME Handler PROVE RowOK'
  <2>1. CASE HandleStarted
    BY <1>1, <1>2, <2>1 DEF HandleStarted
  <2>2. CASE HandleCompleted
    BY <1>1, <1>2, <2>2 DEF HandleCompleted
  <2>3. CASE HandleWaitTimeout
    BY <1>1, <1>2, <2>3 DEF HandleWaitTimeout
  <2>4. CASE Retry
    <3> DEFINE t == [task EXCEPT !.st = "READY", !.tries = @ + 1]
    <3>1. t \in [st : {"READY", "RUNNING"} \cup Terminal, tries : 0 .. MaxRetries, old : BOOLEAN, ended : BOOLEAN]
      <4>1. task.tries < MaxRetries /\ task.tries \in Nat
        BY <2>4 DEF Retry
      <4>2. task.tries + 1 \in 0 .. MaxRetries
        BY <4>1
      <4> QED BY <4>2
    <3>2. task' = t \/ task' = [t EXCEPT !.st = "FAILED"]
      BY <2>4 DEF Retry, Enqueue
    <3> HIDE DEF t
    <3> QED BY <1>1, <1>2, <3>1, <3>2
  <2>5. CASE RetryAgain
    BY <1>1, <1>2, <2>5 DEF RetryAgain, Enqueue
  <2>6. CASE GiveUp \/ IgnoreFailure
    BY <1>1, <1>2, <2>6 DEF GiveUp, IgnoreFailure
  <2> QED BY <1>2, <2>1, <2>2, <2>3, <2>4, <2>5, <2>6 DEF Handler
<1>3. ASSUME NEW e \in Engines,
             Execute(e) \/ Fail(e) \/ Defer(e) \/ EngineDies(e) \/ Register(e) \/ BeatExpires(e) \/ BeatReturns(e)
      PROVE  RowOK'
  BY <1>3 DEF Execute, ClaimStale, ReadOwn, ReadTask, Take, Finish, Fail, Defer, EngineDies, Executing, Register,
              BeatExpires, BeatReturns, row
<1>4. ASSUME NEW s \in Scanners, Scan(s) PROVE RowOK'
  BY <1>4 DEF Scan, FindDoomed, FailTask, FindOverdue, ClearMarker, TimeOutWait, Decide, Alone, Carry, Breaks, row
<1>5. ASSUME NEW r \in Sweepers, Sweep(r) \/ OrphanDies(r) PROVE RowOK'
  <2>1. saved' \in BOOLEAN
    BY <1>5 DEF Sweep, OrphanDies, FindOrphan, CommitOrphan, CleanPel, Readd, Requeue, FinishJob, Decide, Alone,
                Carry, Breaks, row
  <2>2. job' \in {"RUNNING"} \cup Terminal
    BY <1>5 DEF Sweep, OrphanDies, FindOrphan, CommitOrphan, CleanPel, Readd, Requeue, FinishJob, Decide, Verdicts, row
  <2>3. task' \in [st : {"READY", "RUNNING"} \cup Terminal, tries : 0 .. MaxRetries, old : BOOLEAN, ended : BOOLEAN]
    BY <1>5 DEF Sweep, OrphanDies, FindOrphan, CommitOrphan, CleanPel, Readd, Requeue, FinishJob, Decide, row
  <2> QED BY <2>1, <2>2, <2>3
<1>6. ASSUME LongTime PROVE RowOK'
  BY <1>6 DEF LongTime
<1>7. ASSUME NEW k \in {"scan", "sweep"}, LockExpires(k) PROVE RowOK'
  BY <1>7 DEF LockExpires, row
<1> QED BY <1>2, <1>3, <1>4, <1>5, <1>6, <1>7 DEF Next

\* What the model appends, acknowledges or hands over leaves the stream well formed.
LEMMA StreamMoves ==
    ASSUME StreamOK
    PROVE  /\ UNCHANGED stream => StreamOK'
           /\ Append => StreamOK'
           /\ \A m \in 1 .. cursor, e \in Engines \cup {Nobody} :
                /\ pel' = [pel EXCEPT ![m] = e] /\ idle' = idle \ {m}
                /\ UNCHANGED <<tail, cursor, gone>>
                => StreamOK'
<1> USE DEF StreamOK, Messages, Open
<1>1. UNCHANGED stream => StreamOK'
  BY DEF stream
<1>2. Append => StreamOK'
  BY DEF Append
<1>3. ASSUME NEW m \in 1 .. cursor, NEW e \in Engines \cup {Nobody},
             pel' = [pel EXCEPT ![m] = e], idle' = idle \ {m}, UNCHANGED <<tail, cursor, gone>>
      PROVE  StreamOK'
  BY <1>3
<1> QED BY <1>1, <1>2, <1>3

\* The stream keeps its types.
LEMMA StreamStep == ASSUME StreamOK, MetaOK, EnginesOK, Next PROVE StreamOK'
<1>0. /\ tail \in Nat /\ cursor \in Nat /\ cursor <= tail /\ tail <= MaxMessages /\ Nobody \notin Engines
      /\ Open \subseteq 1 .. cursor /\ 1 .. cursor \subseteq Messages
  BY DEF StreamOK, Messages
<1>1. ASSUME HandleStarted \/ HandleCompleted \/ HandleWaitTimeout \/ GiveUp \/ IgnoreFailure PROVE StreamOK'
  BY <1>1, StreamMoves DEF HandleStarted, HandleCompleted, HandleWaitTimeout, GiveUp, IgnoreFailure
<1>2. ASSUME Retry \/ RetryAgain PROVE StreamOK'
  <2>1. UNCHANGED stream \/ Append
    BY <1>2 DEF Retry, RetryAgain, Enqueue, QueueRetry, QueueRetryDies, FailFast
  <2> QED BY <2>1, StreamMoves
<1>3. ASSUME NEW e \in Engines, Defer(e) \/ EngineDies(e) \/ Register(e) \/ BeatExpires(e) \/ BeatReturns(e)
      PROVE  StreamOK'
  BY <1>3, StreamMoves DEF Defer, EngineDies, Register, BeatExpires, BeatReturns
<1>4. ASSUME NEW e \in Engines, NEW m, Take(e, m) PROVE \E x \in Engines \cup {Nobody} : pel' = [pel EXCEPT ![m] = x]
  BY <1>4 DEF Take
<1>5. ASSUME NEW e \in Engines, ClaimStale(e) \/ ReadOwn(e) PROVE StreamOK'
  <2>1. PICK m \in Open : Take(e, m) /\ idle' = idle \ {m}
    BY <1>5 DEF ClaimStale, ReadOwn
  <2>2. m \in 1 .. cursor /\ UNCHANGED <<tail, cursor, gone>>
    BY <1>0, <1>5, <2>1 DEF ClaimStale, ReadOwn
  <2> QED BY <1>4, <2>1, <2>2, StreamMoves
<1>6. ASSUME NEW e \in Engines, ReadTask(e) PROVE StreamOK'
  <2>1. PICK m \in cursor + 1 .. tail : cursor' = m /\ Take(e, m)
    BY <1>6 DEF ReadTask
  <2>2. PICK x \in Engines \cup {Nobody} : pel' = [pel EXCEPT ![m] = x]
    BY <1>4, <2>1
  <2>3. UNCHANGED <<tail, gone, idle>>
    BY <1>6 DEF ReadTask
  <2>4. m \in Messages /\ m \notin Open
    BY <1>0 DEF Messages
  <2>5. pel' \in [Messages -> Engines \cup {Nobody}]
    BY <2>2, <2>4 DEF StreamOK
  <2>6. Open' \subseteq Open \cup {m} /\ Open \subseteq Open'
    BY <2>2, <2>4 DEF StreamOK, Open
  <2> QED BY <1>0, <2>1, <2>3, <2>4, <2>5, <2>6 DEF StreamOK
<1>7. ASSUME NEW m \in 1 .. cursor, Acked(m) PROVE StreamOK'
  BY <1>7, StreamMoves DEF Acked
<1>8. ASSUME NEW e \in Engines, Finish(e) \/ Fail(e) PROVE StreamOK'
  <2>1. at[e] \in 1 .. cursor
    BY <1>0, <1>8 DEF Finish, Fail, Executing, EnginesOK
  <2>2. Acked(at[e]) \/ UNCHANGED stream
    BY <1>8 DEF Finish, Fail
  <2> QED BY <1>7, <2>1, <2>2, StreamMoves
<1>9. ASSUME NEW s \in Scanners, FindDoomed(s) \/ FailTask(s) \/ FindOverdue(s) \/ ClearMarker(s) PROVE StreamOK'
  BY <1>9, StreamMoves DEF FindDoomed, FailTask, FindOverdue, ClearMarker, Decide
<1>10. ASSUME NEW s \in Scanners, TimeOutWait(s) PROVE StreamOK'
  <2>1. gone' \subseteq gone \cup ({meta.msg} \ {0}) /\ UNCHANGED <<tail, cursor, pel, idle>>
    BY <1>10 DEF TimeOutWait
  <2>2. meta.msg \in 0 .. tail
    BY DEF MetaOK
  <2> QED BY <1>0, <2>1, <2>2 DEF StreamOK, Open
<1>11. ASSUME NEW r \in Sweepers, FindOrphan(r) \/ CommitOrphan(r) \/ OrphanDies(r) \/ FinishJob(r) PROVE StreamOK'
  BY <1>11, StreamMoves DEF FindOrphan, CommitOrphan, OrphanDies, FinishJob, Decide
<1>12. ASSUME NEW r \in Sweepers, CleanPel(r) PROVE StreamOK'
  <2>1. PICK m \in Open : Acked(m)
    BY <1>12 DEF CleanPel, Shown
  <2> QED BY <1>0, <1>7, <2>1
<1>13. ASSUME NEW r \in Sweepers, Readd(r) PROVE StreamOK'
  <2>1. PICK m \in Open : /\ tail < MaxMessages /\ tail' = tail + 1
                          /\ \/ pel' = [pel EXCEPT ![m] = Nobody] /\ idle' = idle \ {m}
                             \/ UNCHANGED <<pel, idle>>
    BY <1>13 DEF Readd, Shown
  <2>2. UNCHANGED <<cursor, gone>>
    BY <1>13 DEF Readd
  <2>3. pel' \in [Messages -> Engines \cup {Nobody}] /\ Open' \subseteq Open /\ idle' \subseteq Open'
    BY <2>1 DEF StreamOK, Open
  <2>4. tail' \in 0 .. MaxMessages /\ cursor' \in 0 .. tail' /\ gone' \subseteq 1 .. tail'
    BY <1>0, <2>1, <2>2 DEF StreamOK
  <2> QED BY <1>0, <2>2, <2>3, <2>4 DEF StreamOK
<1>14. ASSUME NEW r \in Sweepers, Requeue(r) PROVE StreamOK'
  BY <1>14, StreamMoves DEF Requeue
<1>15. ASSUME LongTime PROVE StreamOK'
  BY <1>15 DEF LongTime, StreamOK, Open
<1>16. ASSUME NEW k \in {"scan", "sweep"}, LockExpires(k) PROVE StreamOK'
  BY <1>16, StreamMoves DEF LockExpires
<1> QED BY <1>1, <1>2, <1>3, <1>5, <1>6, <1>8, <1>9, <1>10, <1>11, <1>12, <1>13, <1>14, <1>15, <1>16
        DEF Next, Handler, Execute, Scan, Sweep

\* The hash and the deduplication keys keep their types.
LEMMA MetaStep == ASSUME RowOK, StreamOK, MetaOK, Next PROVE MetaOK'
<1> DEFINE Rec(n) == [msg : 0 .. n, fresh : BOOLEAN, wait : {"no", "yes", "due"}, blocked : BOOLEAN]
<1>0. tail \in Nat /\ meta \in Rec(tail) /\ keys \subseteq 0 .. MaxRetries /\ task.tries \in 0 .. MaxRetries
  BY DEF StreamOK, MetaOK, RowOK
<1>a. Written \in Rec(tail)
  BY <1>0 DEF Written
<1>b. ASSUME NEW n \in Nat, tail <= n PROVE Rec(tail) \subseteq Rec(n)
  BY <1>0, <1>b
<1>c. ASSUME tail' = tail, meta' \in Rec(tail), keys' \subseteq 0 .. MaxRetries PROVE MetaOK'
  BY <1>c DEF MetaOK
<1>d. ASSUME tail' = tail + 1, meta' \in Rec(tail + 1), keys' \subseteq 0 .. MaxRetries PROVE MetaOK'
  BY <1>d DEF MetaOK
<1>1. ASSUME UNCHANGED <<tail, meta, keys>> PROVE MetaOK'
  BY <1>1 DEF MetaOK
<1>2. ASSUME HandleStarted \/ HandleCompleted \/ HandleWaitTimeout \/ GiveUp \/ IgnoreFailure PROVE MetaOK'
  BY <1>1, <1>2 DEF HandleStarted, HandleCompleted, HandleWaitTimeout, GiveUp, IgnoreFailure, stream
<1>3. ASSUME NEW k \in 0 .. MaxRetries, QueueRetry(k) \/ QueueRetryDies(k) \/ FailFast PROVE MetaOK'
  <2>1. CASE tail' = tail /\ keys' = keys /\ meta' \in {meta, Written}
    BY <1>0, <1>a, <1>c, <2>1
  <2>2. CASE tail' = tail + 1 /\ keys' = keys \cup {k} /\ meta' \in {Written, [Written EXCEPT !.msg = tail']}
    <3>1. Written \in Rec(tail + 1)
      BY <1>0, <1>a, <1>b
    <3>2. meta' \in Rec(tail + 1)
      BY <1>0, <2>2, <3>1
    <3> QED BY <1>0, <1>d, <2>2, <3>2
  <2> QED BY <1>3, <2>1, <2>2 DEF QueueRetry, QueueRetryDies, FailFast, Append, stream
<1>4. ASSUME Retry \/ RetryAgain PROVE MetaOK'
  <2>1. \E k \in 0 .. MaxRetries : QueueRetry(k) \/ QueueRetryDies(k) \/ FailFast
    BY <1>0, <1>4 DEF Retry, RetryAgain, Enqueue
  <2> QED BY <1>3, <2>1
<1>5. ASSUME NEW e \in Engines, ClaimStale(e) \/ ReadOwn(e) \/ ReadTask(e) PROVE MetaOK'
  <2>1. UNCHANGED <<tail, keys>> /\ meta' \in {meta, [meta EXCEPT !.wait = "no"]}
    BY <1>5 DEF ClaimStale, ReadOwn, ReadTask, Take
  <2> QED BY <1>0, <1>c, <2>1
<1>6. ASSUME NEW e \in Engines, Finish(e) \/ Fail(e) \/ Defer(e) \/ EngineDies(e) PROVE MetaOK'
  BY <1>1, <1>6 DEF Finish, Fail, Defer, EngineDies, Executing, Acked, stream
<1>7. ASSUME NEW e \in Engines, Register(e) \/ BeatExpires(e) \/ BeatReturns(e) PROVE MetaOK'
  BY <1>1, <1>7 DEF Register, BeatExpires, BeatReturns, stream
<1>8. ASSUME NEW s \in Scanners, FindDoomed(s) \/ FailTask(s) \/ FindOverdue(s) PROVE MetaOK'
  BY <1>1, <1>8 DEF FindDoomed, FailTask, FindOverdue, Decide, Carry, Breaks, stream
<1>9. ASSUME NEW s \in Scanners, ClearMarker(s) \/ TimeOutWait(s) PROVE MetaOK'
  <2>1. /\ UNCHANGED <<tail, keys>>
        /\ meta' \in {[meta EXCEPT !.wait = "no"], [meta EXCEPT !.blocked = TRUE, !.wait = "no"],
                      [meta EXCEPT !.blocked = TRUE]}
    BY <1>9 DEF ClearMarker, TimeOutWait, Alone, Carry, Breaks, stream
  <2> QED BY <1>0, <1>c, <2>1
<1>10. ASSUME NEW r \in Sweepers, FindOrphan(r) \/ CommitOrphan(r) \/ OrphanDies(r) \/ FinishJob(r) \/ CleanPel(r)
       PROVE  MetaOK'
  BY <1>1, <1>10 DEF FindOrphan, CommitOrphan, OrphanDies, FinishJob, CleanPel, Decide, Carry, Breaks, Alone, Acked, stream
<1>11. ASSUME NEW r \in Sweepers, Readd(r) \/ Requeue(r) PROVE MetaOK'
  <2>1. tail' = tail + 1 /\ keys' = keys /\ meta' \in {meta, [meta EXCEPT !.msg = tail']}
    BY <1>11 DEF Readd, Requeue, Append, Alone
  <2>2. meta \in Rec(tail + 1)
    BY <1>0, <1>b
  <2>3. meta' \in Rec(tail + 1)
    BY <1>0, <2>1, <2>2
  <2> QED BY <1>0, <1>d, <2>1, <2>3
<1>12. ASSUME LongTime PROVE MetaOK'
  <2>1. /\ UNCHANGED <<tail, keys>>
        /\ meta' = [meta EXCEPT !.fresh = FALSE, !.wait = IF @ = "yes" THEN "due" ELSE @]
    BY <1>12 DEF LongTime
  <2> QED BY <1>0, <1>c, <2>1
<1>13. ASSUME NEW k \in {"scan", "sweep"}, LockExpires(k) PROVE MetaOK'
  BY <1>1, <1>13 DEF LockExpires, stream
<1> QED BY <1>2, <1>4, <1>5, <1>6, <1>7, <1>8, <1>9, <1>10, <1>11, <1>12, <1>13
        DEF Next, Handler, Execute, Scan, Sweep

\* The engines keep their types.
LEMMA EnginesStep == ASSUME StreamOK, EnginesOK, Next PROVE EnginesOK'
<1>0. /\ tail \in Nat /\ cursor \in Nat /\ cursor <= tail /\ Open \subseteq 1 .. cursor
      /\ up \subseteq Engines /\ beat \subseteq Engines /\ at \in [Engines -> 0 .. cursor]
  BY DEF StreamOK, EnginesOK
<1>1. ASSUME UNCHANGED <<cursor, engines>> PROVE EnginesOK'
  BY <1>1 DEF EnginesOK, engines
<1>2. ASSUME NEW e \in Engines, NEW m \in 0 .. cursor, UNCHANGED cursor, at' = [at EXCEPT ![e] = m],
             up' \subseteq Engines, beat' \subseteq Engines
      PROVE  EnginesOK'
  BY <1>2 DEF EnginesOK
<1>3. ASSUME HandleStarted \/ HandleCompleted \/ HandleWaitTimeout \/ GiveUp \/ IgnoreFailure PROVE EnginesOK'
  BY <1>1, <1>3 DEF HandleStarted, HandleCompleted, HandleWaitTimeout, GiveUp, IgnoreFailure, Handling, stream
<1>4. ASSUME Retry \/ RetryAgain PROVE EnginesOK'
  BY <1>1, <1>4 DEF Retry, RetryAgain, Enqueue, QueueRetry, QueueRetryDies, FailFast, Append, Handling, stream
<1>5. ASSUME NEW e \in Engines, NEW m, Take(e, m)
      PROVE  /\ beat' = beat /\ up' \subseteq up
             /\ at' = at \/ at' = [at EXCEPT ![e] = m] \/ at' = [at EXCEPT ![e] = 0]
  BY <1>5 DEF Take, Send, Dies
<1>6. ASSUME NEW e \in Engines, ClaimStale(e) \/ ReadOwn(e) PROVE EnginesOK'
  <2>1. PICK m \in Open : Take(e, m)
    BY <1>6 DEF ClaimStale, ReadOwn
  <2>2. m \in 0 .. cursor /\ 0 \in 0 .. cursor /\ UNCHANGED cursor
    BY <1>0, <1>6, <2>1 DEF ClaimStale, ReadOwn
  <2>3. up' \subseteq Engines /\ beat' \subseteq Engines
    BY <1>0, <1>5, <2>1
  <2>4. CASE at' = at
    BY <1>0, <2>2, <2>3, <2>4 DEF EnginesOK
  <2> QED BY <1>2, <1>5, <2>1, <2>2, <2>3, <2>4
<1>7. ASSUME NEW e \in Engines, ReadTask(e) PROVE EnginesOK'
  <2>1. PICK m \in cursor + 1 .. tail : cursor' = m /\ Take(e, m)
    BY <1>7 DEF ReadTask
  <2>2. up' \subseteq Engines /\ beat' \subseteq Engines
    BY <1>0, <1>5, <2>1
  <2>3. m \in 0 .. m /\ 0 \in 0 .. m /\ at \in [Engines -> 0 .. m]
    BY <1>0
  <2>4. at' \in [Engines -> 0 .. m]
    BY <1>5, <2>1, <2>3
  <2> QED BY <2>1, <2>2, <2>4 DEF EnginesOK
<1>8. ASSUME NEW e \in Engines, Finish(e) \/ Fail(e) \/ Defer(e) \/ EngineDies(e) PROVE EnginesOK'
  <2>1. /\ at' = [at EXCEPT ![e] = 0] /\ up' \subseteq up /\ beat' = beat /\ UNCHANGED cursor
    BY <1>8 DEF Finish, Fail, Defer, EngineDies, Executing, Send, Dies, Acked, stream
  <2>2. 0 \in 0 .. cursor
    BY <1>0
  <2> QED BY <1>0, <1>2, <2>1, <2>2
<1>9. ASSUME NEW e \in Engines, Register(e) \/ BeatExpires(e) \/ BeatReturns(e) PROVE EnginesOK'
  <2>1. at' = at /\ cursor' = cursor /\ up' \subseteq up \cup {e} /\ beat' \subseteq beat \cup {e}
    BY <1>9 DEF Register, BeatExpires, BeatReturns, stream
  <2> QED BY <1>0, <2>1 DEF EnginesOK
<1>10. ASSUME NEW s \in Scanners, Scan(s) PROVE EnginesOK'
  BY <1>1, <1>10 DEF Scan, FindDoomed, FailTask, FindOverdue, ClearMarker, TimeOutWait, Decide, Carry, Breaks, Alone, stream
<1>11. ASSUME NEW r \in Sweepers, Sweep(r) \/ OrphanDies(r) PROVE EnginesOK'
  BY <1>1, <1>11 DEF Sweep, FindOrphan, CommitOrphan, OrphanDies, FinishJob, CleanPel, Readd, Requeue, Decide, Carry,
                     Breaks, Alone, Acked, Append, stream
<1>12. ASSUME LongTime \/ \E k \in {"scan", "sweep"} : LockExpires(k) PROVE EnginesOK'
  BY <1>1, <1>12 DEF LongTime, LockExpires, stream
<1> QED BY <1>3, <1>4, <1>6, <1>7, <1>8, <1>9, <1>10, <1>11, <1>12 DEF Next, Handler, Execute

\* Scanners and sweepers keep their types.
LEMMA SweepsStep == ASSUME SweepsOK, Next PROVE SweepsOK'
<1> DEFINE Decisions == {"idle", "fail", "block", "completed", "failed"}
           Locks     == {"scan", "sweep"}
<1>0. /\ lock \in [Locks -> Leaders \cup {Nobody}] /\ pc \in [Leaders -> Decisions]
      /\ Scanners \subseteq Leaders /\ Sweepers \subseteq Leaders
  BY DEF SweepsOK, Leaders
<1>1. ASSUME UNCHANGED sweeps PROVE SweepsOK'
  BY <1>1 DEF SweepsOK, sweeps
<1>2. ASSUME NEW p \in Leaders, NEW k \in Locks, NEW what \in Decisions,
             Decide(p, k, what) \/ Carry(p, k, what) \/ Breaks(p, what)
      PROVE  SweepsOK'
  <2>1. lock' \in [Locks -> Leaders \cup {Nobody}]
    BY <1>0, <1>2 DEF Decide, Carry, Breaks
  <2>2. pc' \in [Leaders -> Decisions]
    BY <1>0, <1>2 DEF Decide, Carry, Breaks
  <2> QED BY <2>1, <2>2 DEF SweepsOK
<1>3. ASSUME Handler PROVE SweepsOK'
  BY <1>1, <1>3 DEF Handler, HandleStarted, HandleCompleted, HandleWaitTimeout, Retry, RetryAgain, GiveUp, IgnoreFailure,
                    Handling
<1>4. ASSUME NEW e \in Engines,
             Execute(e) \/ Fail(e) \/ Defer(e) \/ EngineDies(e) \/ Register(e) \/ BeatExpires(e) \/ BeatReturns(e)
      PROVE  SweepsOK'
  BY <1>1, <1>4 DEF Execute, ClaimStale, ReadOwn, ReadTask, Take, Finish, Fail, Defer, EngineDies, Executing, Register,
                    BeatExpires, BeatReturns
<1>5. ASSUME NEW s \in Scanners, Scan(s) PROVE SweepsOK'
  <2>1. \/ UNCHANGED sweeps
        \/ \E what \in Decisions : Decide(s, "scan", what) \/ Carry(s, "scan", what) \/ Breaks(s, what)
    BY <1>5 DEF Scan, FindDoomed, FailTask, FindOverdue, ClearMarker, TimeOutWait, Alone
  <2> QED BY <1>0, <1>1, <1>2, <2>1
<1>6. ASSUME NEW r \in Sweepers, Sweep(r) \/ OrphanDies(r) PROVE SweepsOK'
  <2>1. Output \in Decisions
    BY DEF Output
  <2>2. \/ UNCHANGED sweeps
        \/ \E what \in Decisions : Decide(r, "sweep", what) \/ Carry(r, "sweep", what) \/ Breaks(r, what)
    BY <1>6, <2>1 DEF Sweep, FindOrphan, CommitOrphan, OrphanDies, FinishJob, CleanPel, Readd, Requeue, Alone
  <2> QED BY <1>0, <1>1, <1>2, <2>2
<1>7. ASSUME LongTime PROVE SweepsOK'
  BY <1>1, <1>7 DEF LongTime
<1>8. ASSUME NEW k \in Locks, LockExpires(k) PROVE SweepsOK'
  BY <1>0, <1>8 DEF LockExpires, SweepsOK
<1> QED BY <1>3, <1>4, <1>5, <1>6, <1>7, <1>8 DEF Next

\* Events, failures and faults are counted.
LEMMA CountStep ==
    ASSUME events \in [Types -> Nat], failures \in Nat, faults \in 0 .. MaxFaults, Next
    PROVE  events' \in [Types -> Nat] /\ failures' \in Nat /\ faults' \in 0 .. MaxFaults /\ faults <= faults' /\ failures <= failures'
<1>1. ASSUME Calm \/ Inject PROVE faults' \in 0 .. MaxFaults /\ faults <= faults'
  BY <1>1 DEF Calm, Inject
<1>2. Calm \/ Inject
  <2>1. ASSUME Handler PROVE Calm \/ Inject
    BY <2>1 DEF Handler, HandleStarted, HandleCompleted, HandleWaitTimeout, Retry, RetryAgain, GiveUp, IgnoreFailure,
                Enqueue, Done
  <2>2. ASSUME NEW e \in Engines,
               Execute(e) \/ Fail(e) \/ Defer(e) \/ EngineDies(e) \/ Register(e) \/ BeatExpires(e) \/ BeatReturns(e)
        PROVE  Calm \/ Inject
    BY <2>2 DEF Execute, ClaimStale, ReadOwn, ReadTask, Take, Send, Dies, Finish, Fail, Defer, EngineDies, Register,
                BeatExpires, BeatReturns, Calm
  <2>3. ASSUME NEW s \in Scanners, Scan(s) PROVE Calm \/ Inject
    BY <2>3 DEF Scan, FindDoomed, FailTask, FindOverdue, ClearMarker, TimeOutWait, Carry, Breaks, Calm
  <2>4. ASSUME NEW r \in Sweepers, Sweep(r) \/ OrphanDies(r) PROVE Calm \/ Inject
    BY <2>4 DEF Sweep, FindOrphan, CommitOrphan, OrphanDies, FinishJob, CleanPel, Readd, Requeue, Carry, Breaks, Calm
  <2>5. ASSUME LongTime \/ \E k \in {"scan", "sweep"} : LockExpires(k) PROVE Calm \/ Inject
    BY <2>5 DEF LongTime, LockExpires, Calm
  <2> QED BY <2>1, <2>2, <2>3, <2>4, <2>5 DEF Next
<1>3. failures' = failures \/ failures' = failures + 1
  <2>1. ASSUME Handler PROVE failures' = failures
    BY <2>1 DEF Handler, HandleStarted, HandleCompleted, HandleWaitTimeout, Retry, RetryAgain, GiveUp, IgnoreFailure,
                Handling
  <2>2. ASSUME NEW e \in Engines,
               Execute(e) \/ Fail(e) \/ Defer(e) \/ EngineDies(e) \/ Register(e) \/ BeatExpires(e) \/ BeatReturns(e)
        PROVE  failures' = failures \/ failures' = failures + 1
    BY <2>2 DEF Execute, ClaimStale, ReadOwn, ReadTask, Take, Finish, Fail, Defer, EngineDies, Register,
                BeatExpires, BeatReturns
  <2>3. ASSUME NEW s \in Scanners, Scan(s) PROVE failures' = failures
    BY <2>3 DEF Scan, FindDoomed, FailTask, FindOverdue, ClearMarker, TimeOutWait, Decide, Carry, Breaks, Alone
  <2>4. ASSUME NEW r \in Sweepers, Sweep(r) \/ OrphanDies(r) PROVE failures' = failures
    BY <2>4 DEF Sweep, FindOrphan, CommitOrphan, OrphanDies, FinishJob, CleanPel, Readd, Requeue, Decide, Carry, Breaks, Alone
  <2>5. ASSUME LongTime \/ \E k \in {"scan", "sweep"} : LockExpires(k) PROVE failures' = failures
    BY <2>5 DEF LongTime, LockExpires
  <2> QED BY <2>1, <2>2, <2>3, <2>4, <2>5 DEF Next
<1>4. events' \in [Types -> Nat]
  <2> USE DEF Types
  <2>1. ASSUME UNCHANGED events PROVE events' \in [Types -> Nat]
    BY <2>1
  <2>2. ASSUME NEW y \in Types, Publish(y) PROVE events' \in [Types -> Nat]
    BY <2>2 DEF Publish
  <2>3. ASSUME NEW y \in Types, events[y] > 0, Done(y) PROVE events' \in [Types -> Nat]
    BY <2>3 DEF Done
  <2>4. ASSUME Handler PROVE events' \in [Types -> Nat]
    <3>1. UNCHANGED events \/ \E y \in Types : events[y] > 0 /\ Done(y)
      BY <2>4 DEF Handler, HandleStarted, HandleCompleted, HandleWaitTimeout, Retry, RetryAgain, GiveUp, IgnoreFailure,
                  Handling, Enqueue
    <3> QED BY <2>1, <2>3, <3>1
  <2>5. ASSUME NEW e \in Engines,
               Execute(e) \/ Fail(e) \/ Defer(e) \/ EngineDies(e) \/ Register(e) \/ BeatExpires(e) \/ BeatReturns(e)
        PROVE  events' \in [Types -> Nat]
    <3>1. UNCHANGED events \/ \E y \in Types : Publish(y)
      BY <2>5 DEF Execute, ClaimStale, ReadOwn, ReadTask, Take, Send, Finish, Fail, Defer, EngineDies, Register,
                  BeatExpires, BeatReturns
    <3> QED BY <2>1, <2>2, <3>1
  <2>6. ASSUME NEW s \in Scanners, Scan(s) PROVE events' \in [Types -> Nat]
    <3>1. UNCHANGED events \/ \E y \in Types : Publish(y)
      BY <2>6 DEF Scan, FindDoomed, FailTask, FindOverdue, ClearMarker, TimeOutWait
    <3> QED BY <2>1, <2>2, <3>1
  <2>7. ASSUME NEW r \in Sweepers, Sweep(r) \/ OrphanDies(r) PROVE events' \in [Types -> Nat]
    <3>1. UNCHANGED events \/ \E y \in Types : Publish(y)
      BY <2>7 DEF Sweep, FindOrphan, Output, CommitOrphan, OrphanDies, FinishJob, CleanPel, Readd, Requeue
    <3> QED BY <2>1, <2>2, <3>1
  <2>8. ASSUME LongTime \/ \E k \in {"scan", "sweep"} : LockExpires(k) PROVE events' \in [Types -> Nat]
    BY <2>1, <2>8 DEF LongTime, LockExpires
  <2> QED BY <2>4, <2>5, <2>6, <2>7, <2>8 DEF Next
<1> QED BY <1>1, <1>2, <1>3, <1>4

\* Types are kept by every step.
LEMMA TypeStep == ASSUME TypeOK, Next PROVE TypeOK'
BY RowStep, StreamStep, MetaStep, EnginesStep, SweepsStep, CountStep DEF TypeOK

\* A message that is noted last is unread, read or deleted with an announcement.
LEMMA LiveFollows == ASSUME TypeOK, MessageKept PROVE Live
<1> SUFFICES ASSUME job = "RUNNING", task.st = "READY", faults = 0
             PROVE  \/ (cursor + 1 .. tail) \ gone # {} \/ events["wait_timeout"] > 0
                    \/ meta.msg # 0 /\ meta.msg <= cursor
  BY DEF Live, TypeOK, Types
<1>1. meta.msg = tail /\ tail > 0 /\ tail \in Nat /\ cursor \in Nat
  BY DEF TypeOK, StreamOK, MessageKept
<1>2. tail \in gone /\ tail > cursor => events["wait_timeout"] > 0
  BY DEF MessageKept
<1> QED BY <1>1, <1>2

\* Causes, blocks and outputs are not taken back.
LEMMA CauseKept ==
    ASSUME TypeOK, Next
    PROVE  (Cause => Cause') /\ (meta.blocked => meta'.blocked) /\ (saved => saved')
<1>0. meta \in [msg : 0 .. tail, fresh : BOOLEAN, wait : {"no", "yes", "due"}, blocked : BOOLEAN]
  BY DEF TypeOK, MetaOK
<1>1. meta.blocked => meta'.blocked
  <2>1. ASSUME UNCHANGED meta PROVE meta.blocked => meta'.blocked
    BY <2>1
  <2>2. Written.blocked = meta.blocked
    BY <1>0 DEF Written
  <2>3. ASSUME Handler PROVE meta.blocked => meta'.blocked
    <3>1. meta' = meta \/ meta' = Written \/ meta' = [Written EXCEPT !.msg = tail']
      BY <2>3 DEF Handler, HandleStarted, HandleCompleted, HandleWaitTimeout, Retry, RetryAgain, GiveUp, IgnoreFailure,
                  Enqueue, QueueRetry, QueueRetryDies, FailFast
    <3>2. [Written EXCEPT !.msg = tail'].blocked = meta.blocked
      BY <1>0 DEF Written
    <3> QED BY <2>2, <3>1, <3>2
  <2>4. ASSUME NEW e \in Engines,
               Execute(e) \/ Fail(e) \/ Defer(e) \/ EngineDies(e) \/ Register(e) \/ BeatExpires(e) \/ BeatReturns(e)
        PROVE  meta.blocked => meta'.blocked
    <3>1. meta' = meta \/ meta' = [meta EXCEPT !.wait = "no"]
      BY <2>4 DEF Execute, ClaimStale, ReadOwn, ReadTask, Take, Finish, Fail, Defer, EngineDies, Executing, Register,
                  BeatExpires, BeatReturns
    <3> QED BY <1>0, <3>1
  <2>5. ASSUME NEW s \in Scanners, Scan(s) PROVE meta.blocked => meta'.blocked
    <3>1. \/ meta' = meta \/ meta' = [meta EXCEPT !.wait = "no"]
          \/ meta' = [meta EXCEPT !.blocked = TRUE, !.wait = "no"] \/ meta' = [meta EXCEPT !.blocked = TRUE]
      BY <2>5 DEF Scan, FindDoomed, FailTask, FindOverdue, ClearMarker, TimeOutWait, Decide
    <3> QED BY <1>0, <3>1
  <2>6. ASSUME NEW r \in Sweepers, Sweep(r) \/ OrphanDies(r) PROVE meta.blocked => meta'.blocked
    <3>1. meta' = meta \/ meta' = [meta EXCEPT !.msg = tail']
      BY <2>6 DEF Sweep, FindOrphan, CommitOrphan, OrphanDies, FinishJob, CleanPel, Readd, Requeue, Decide
    <3> QED BY <1>0, <3>1
  <2>7. ASSUME LongTime PROVE meta.blocked => meta'.blocked
    BY <1>0, <2>7 DEF LongTime
  <2>8. ASSUME NEW k \in {"scan", "sweep"}, LockExpires(k) PROVE meta.blocked => meta'.blocked
    BY <2>1, <2>8 DEF LockExpires
  <2> QED BY <2>3, <2>4, <2>5, <2>6, <2>7, <2>8 DEF Next
<1>2. saved => saved'
  BY DEF Next, Handler, HandleStarted, HandleCompleted, HandleWaitTimeout, Retry, RetryAgain, GiveUp, IgnoreFailure,
         Handling, Execute, ClaimStale, ReadOwn, ReadTask, Take, Finish, Fail, Defer, EngineDies, Register,
         BeatExpires, BeatReturns, Scan, FindDoomed, FailTask, FindOverdue, ClearMarker, TimeOutWait, Decide, Carry,
         Breaks, Alone, Sweep, FindOrphan, CommitOrphan, OrphanDies, FinishJob, CleanPel, Readd, Requeue, LongTime,
         LockExpires, row
<1>3. failures > 0 => failures' > 0
  BY CountStep DEF TypeOK
<1>4. faults > 0 => faults' > 0
  BY CountStep DEF TypeOK
<1> QED BY <1>1, <1>2, <1>3, <1>4 DEF Cause

\* A timeout fails a task that waits, and leaves one that runs or is done.
LEMMA WaitTimeout ==
    ASSUME TypeOK, HandleWaitTimeout
    PROVE  \/ task' = task /\ task.st \notin {"READY", "FAILED"}
           \/ task'.st = "FAILED" /\ task'.tries = task.tries
<1>1. task \in [st : {"READY", "RUNNING"} \cup Terminal, tries : 0 .. MaxRetries, old : BOOLEAN, ended : BOOLEAN]
  BY DEF TypeOK, RowOK
<1>2. CASE task.st \in {"READY", "FAILED"}
  <2>1. PICK b : task' = [task EXCEPT !.st = "FAILED", !.ended = b]
    BY <1>2 DEF HandleWaitTimeout
  <2> QED BY <1>1, <2>1
<1>3. CASE task.st \notin {"READY", "FAILED"}
  BY <1>3 DEF HandleWaitTimeout
<1> QED BY <1>2, <1>3

\* A completion that is announced, decided or recorded has its output.
LEMMA OutputStep ==
    ASSUME TypeOK, CompletedHasOutput, OutputKept, Next
    PROVE  CompletedHasOutput' /\ OutputKept'
<1>0. /\ saved \in BOOLEAN /\ events \in [Types -> Nat] /\ pc \in [Leaders -> {"idle", "fail", "block", "completed", "failed"}]
      /\ task \in [st : {"READY", "RUNNING"} \cup Terminal, tries : 0 .. MaxRetries, old : BOOLEAN, ended : BOOLEAN]
      /\ Scanners \subseteq Leaders /\ Sweepers \subseteq Leaders /\ "completed" \in Types
  BY DEF TypeOK, RowOK, SweepsOK, Leaders, Types
<1>1. ASSUME saved' PROVE CompletedHasOutput' /\ OutputKept'
  BY <1>1 DEF CompletedHasOutput, OutputKept
<1>2. CASE saved
  BY <1>1, <1>2, CauseKept
<1>3. CASE ~saved
  <2>0. task.st # "COMPLETED" /\ events["completed"] = 0 /\ \A p \in Leaders : pc[p] # "completed"
    BY <1>0, <1>3 DEF CompletedHasOutput, OutputKept
  <2>1. ASSUME task'.st # "COMPLETED", events'["completed"] = 0, \A p \in Leaders : pc'[p] # "completed"
        PROVE  CompletedHasOutput' /\ OutputKept'
    BY <2>1 DEF CompletedHasOutput, OutputKept
  <2>2. ASSUME Handler PROVE CompletedHasOutput' /\ OutputKept'
    <3>1. ~HandleCompleted
      BY <2>0 DEF HandleCompleted, Handling
    <3>2. events'["completed"] = 0
      BY <1>0, <2>0, <2>2, <3>1 DEF Handler, HandleStarted, HandleWaitTimeout, Retry, RetryAgain, GiveUp, IgnoreFailure,
                  Enqueue, Done, Types
    <3>3. pc' = pc
      BY <2>2 DEF Handler, HandleStarted, HandleCompleted, HandleWaitTimeout, Retry, RetryAgain, GiveUp, IgnoreFailure,
                  Handling, sweeps
    <3>4. task'.st # "COMPLETED"
      <4>1. CASE HandleStarted \/ GiveUp \/ IgnoreFailure
        BY <1>0, <2>0, <4>1 DEF HandleStarted, GiveUp, IgnoreFailure
      <4>4. CASE HandleWaitTimeout
        BY <2>0, <4>4, WaitTimeout
      <4>2. CASE Retry
        BY <1>0, <4>2 DEF Retry, Enqueue
      <4>3. CASE RetryAgain
        BY <1>0, <2>0, <4>3 DEF RetryAgain, Enqueue
      <4> QED BY <2>2, <3>1, <4>1, <4>2, <4>3, <4>4 DEF Handler
    <3> QED BY <2>0, <2>1, <3>2, <3>3, <3>4
  <2>3. ASSUME NEW e \in Engines,
               Execute(e) \/ Fail(e) \/ Defer(e) \/ EngineDies(e) \/ Register(e) \/ BeatExpires(e) \/ BeatReturns(e)
        PROVE  CompletedHasOutput' /\ OutputKept'
    <3>1. CASE Finish(e)
      BY <1>1, <3>1 DEF Finish
    <3>2. CASE ~Finish(e)
      <4>1. task' = task /\ pc' = pc
        BY <2>3 DEF Execute, ClaimStale, ReadOwn, ReadTask, Take, Finish, Fail, Defer, EngineDies, Executing, Register,
                    BeatExpires, BeatReturns, row, sweeps
      <4>2. events' = events \/ Publish("started") \/ Publish("failed")
        BY <2>3, <3>2 DEF Execute, ClaimStale, ReadOwn, ReadTask, Take, Send, Fail, Defer, EngineDies, Register,
                    BeatExpires, BeatReturns
      <4>3. events'["completed"] = 0
        BY <1>0, <2>0, <4>2 DEF Publish, Types
      <4> QED BY <2>0, <2>1, <4>1, <4>3
    <3> QED BY <3>1, <3>2
  <2>4. ASSUME NEW s \in Scanners, Scan(s) PROVE CompletedHasOutput' /\ OutputKept'
    <3>1. events' = events \/ Publish("failed") \/ Publish("wait_timeout")
      BY <2>4 DEF Scan, FindDoomed, FailTask, FindOverdue, ClearMarker, TimeOutWait
    <3>2. events'["completed"] = 0
      BY <1>0, <2>0, <3>1 DEF Publish, Types
    <3>3. \E x \in {"idle", "fail", "block"} : pc' = pc \/ pc' = [pc EXCEPT ![s] = x]
      BY <2>4 DEF Scan, FindDoomed, FailTask, FindOverdue, ClearMarker, TimeOutWait, Decide, Carry, Breaks, Alone, sweeps
    <3>4. \A p \in Leaders : pc'[p] # "completed"
      BY <1>0, <2>0, <3>3
    <3>5. task' = task \/ task' = [task EXCEPT !.st = "FAILED", !.ended = TRUE]
      BY <2>4 DEF Scan, FindDoomed, FailTask, FindOverdue, ClearMarker, TimeOutWait, Decide, row
    <3>6. task'.st # "COMPLETED"
      BY <1>0, <2>0, <3>5
    <3> QED BY <2>1, <3>2, <3>4, <3>6
  <2>5. ASSUME NEW r \in Sweepers, Sweep(r) \/ OrphanDies(r) PROVE CompletedHasOutput' /\ OutputKept'
    <3>0. Output = "failed"
      BY <1>3 DEF Output
    <3>1. events' = events \/ Publish("failed")
      BY <2>5, <3>0 DEF Sweep, FindOrphan, CommitOrphan, OrphanDies, FinishJob, CleanPel, Readd, Requeue
    <3>2. events'["completed"] = 0
      BY <1>0, <2>0, <3>1 DEF Publish, Types
    <3>3. pc' = pc \/ pc' = [pc EXCEPT ![r] = "idle"] \/ pc' = [pc EXCEPT ![r] = "failed"]
      BY <2>5, <3>0 DEF Sweep, FindOrphan, CommitOrphan, OrphanDies, FinishJob, CleanPel, Readd, Requeue, Decide, Carry,
                        Breaks, Alone, sweeps
    <3>4. \A p \in Leaders : pc'[p] # "completed"
      BY <1>0, <2>0, <3>3
    <3>5. task' = task \/ task' = [task EXCEPT !.st = "FAILED", !.ended = TRUE]
      <4>1. pc[r] # "completed"
        BY <1>0, <2>0
      <4> QED BY <2>5, <4>1 DEF Sweep, FindOrphan, CommitOrphan, OrphanDies, FinishJob, CleanPel, Readd, Requeue, Decide,
                       Carry, row
    <3>6. task'.st # "COMPLETED"
      BY <1>0, <2>0, <3>5
    <3> QED BY <2>1, <3>2, <3>4, <3>6
  <2>6. ASSUME LongTime \/ \E k \in {"scan", "sweep"} : LockExpires(k) PROVE CompletedHasOutput' /\ OutputKept'
    <3>1. task'.st = task.st /\ UNCHANGED <<events, pc>>
      BY <1>0, <2>6 DEF LongTime, LockExpires, sweeps, row
    <3> QED BY <2>0, <2>1, <3>1
  <2> QED BY <2>2, <2>3, <2>4, <2>5, <2>6 DEF Next
<1> QED BY <1>0, <1>2, <1>3

\* Without a fault every engine that has a message runs and is known to run.
LEMMA EnginesKnownStep == ASSUME TypeOK, EnginesKnown, Next PROVE EnginesKnown'
<1> SUFFICES ASSUME faults' = 0 PROVE up' = beat' /\ \A m \in Open' : pel'[m] \in beat'
  BY DEF EnginesKnown
<1>0. faults = 0
  BY CountStep DEF TypeOK
<1>1. ~Inject
  BY <1>0 DEF Inject
<1>2. up = beat /\ \A m \in Messages : pel[m] # Nobody => pel[m] \in beat
  BY <1>0 DEF EnginesKnown, Open
<1>3. pel \in [Messages -> Engines \cup {Nobody}]
  BY DEF TypeOK, StreamOK
<1> DEFINE Goal == up' = beat' /\ \A m \in Messages : pel'[m] # Nobody => pel'[m] \in beat'
<1>4. ASSUME UNCHANGED <<up, beat>>, \E m : pel' = [pel EXCEPT ![m] = Nobody] PROVE Goal
  BY <1>2, <1>3, <1>4
<1>5. ASSUME UNCHANGED <<up, beat, pel>> PROVE Goal
  BY <1>2, <1>5
<1>6. ASSUME Handler PROVE Goal
  BY <1>5, <1>6 DEF Handler, HandleStarted, HandleCompleted, HandleWaitTimeout, Retry, RetryAgain, GiveUp, IgnoreFailure,
                    Handling, Enqueue, QueueRetry, QueueRetryDies, FailFast, Append, engines, stream
<1>7. ASSUME NEW e \in up, NEW m, Take(e, m) PROVE Goal
  <2>1. UNCHANGED <<up, beat>>
    BY <1>1, <1>7 DEF Take, Send, Dies
  <2>2. pel' = [pel EXCEPT ![m] = Nobody] \/ pel' = [pel EXCEPT ![m] = e]
    BY <1>7 DEF Take
  <2> QED BY <1>2, <1>3, <1>4, <2>1, <2>2
<1>8. ASSUME NEW e \in Engines, ClaimStale(e) \/ ReadOwn(e) \/ ReadTask(e) PROVE Goal
  <2>1. e \in up /\ \E m : Take(e, m)
    BY <1>8 DEF ClaimStale, ReadOwn, ReadTask, Free
  <2> HIDE DEF Goal
  <2> QED BY <1>7, <2>1
<1>9. ASSUME NEW e \in Engines, Finish(e) \/ Fail(e) \/ Defer(e) \/ EngineDies(e) PROVE Goal
  <2>1. /\ UNCHANGED <<up, beat>>
        /\ (\E m : pel' = [pel EXCEPT ![m] = Nobody])
    BY <1>1, <1>9 DEF Finish, Fail, Defer, EngineDies, Executing, Send, Dies, Acked
  <2> HIDE DEF Goal
  <2> QED BY <1>4, <2>1
<1>10. ASSUME NEW e \in Engines, Register(e) \/ BeatExpires(e) \/ BeatReturns(e) PROVE Goal
  <2>1. pel' = pel /\ up' = beat' /\ beat \subseteq beat'
    BY <1>1, <1>2, <1>10 DEF Register, BeatExpires, BeatReturns, stream
  <2> QED BY <1>2, <2>1
<1>11. ASSUME NEW s \in Scanners, Scan(s) PROVE Goal
  BY <1>5, <1>11 DEF Scan, FindDoomed, FailTask, FindOverdue, ClearMarker, TimeOutWait, Decide, Carry, Breaks, Alone,
                     stream, engines
<1>12. ASSUME NEW r \in Sweepers, Sweep(r) \/ OrphanDies(r) PROVE Goal
  <2>1. UNCHANGED <<up, beat>>
    BY <1>12 DEF Sweep, FindOrphan, CommitOrphan, OrphanDies, FinishJob, CleanPel, Readd, Requeue, Decide, Carry,
                 Breaks, Alone, engines
  <2>2. pel' = pel \/ \E m : pel' = [pel EXCEPT ![m] = Nobody]
    BY <1>12 DEF Sweep, FindOrphan, CommitOrphan, OrphanDies, FinishJob, CleanPel, Readd, Requeue, Decide, Acked,
                 Append, stream
  <2> HIDE DEF Goal
  <2> QED BY <1>4, <1>5, <2>1, <2>2
<1>13. ASSUME LongTime \/ \E k \in {"scan", "sweep"} : LockExpires(k) PROVE Goal
  BY <1>5, <1>13 DEF LongTime, LockExpires, engines, stream
<1>14. Goal
  <2> HIDE DEF Goal
  <2> QED BY <1>6, <1>8, <1>9, <1>10, <1>11, <1>12, <1>13 DEF Next, Execute
<1> QED BY <1>14 DEF Open

\* Without a fault no engine of a pending message is dead.
LEMMA NoneDead == ASSUME EnginesKnown, faults = 0, NEW m \in Shown PROVE ~Dead(m)
BY DEF EnginesKnown, Shown, Dead

\* Timeouts are announced, and messages deleted, of blocked tasks only.
LEMMA BlockStep ==
    ASSUME TypeOK, events["wait_timeout"] > 0 \/ gone # {} => meta.blocked, Next
    PROVE  events'["wait_timeout"] > 0 \/ gone' # {} => meta'.blocked
<1>0. /\ meta \in [msg : 0 .. tail, fresh : BOOLEAN, wait : {"no", "yes", "due"}, blocked : BOOLEAN]
      /\ events \in [Types -> Nat]
  BY DEF TypeOK, MetaOK
<1>1. CASE meta.blocked
  BY <1>1, CauseKept
<1>2. ASSUME NEW s \in Scanners, TimeOutWait(s) PROVE meta'.blocked
  BY <1>0, <1>2 DEF TimeOutWait
<1>3. CASE ~meta.blocked /\ \A s \in Scanners : ~TimeOutWait(s)
  <2>1. events["wait_timeout"] = 0 /\ gone = {} /\ "wait_timeout" \in Types
    BY <1>0, <1>3 DEF Types
  <2>2. gone' = gone
    BY <1>3 DEF Next, Handler, HandleStarted, HandleCompleted, HandleWaitTimeout, Retry, RetryAgain, GiveUp, IgnoreFailure,
         Enqueue, QueueRetry, QueueRetryDies, FailFast, Append,
         Execute, ClaimStale, ReadOwn, ReadTask, Finish, Fail, Defer, EngineDies, Register, Acked,
         BeatExpires, BeatReturns, Scan, FindDoomed, FailTask, FindOverdue, ClearMarker, Decide, Sweep, FindOrphan,
         CommitOrphan, OrphanDies, FinishJob, CleanPel, Readd, Requeue, LongTime, LockExpires, stream
  <2>3. events'["wait_timeout"] = 0
    <3>1. ASSUME NEW y \in Types, y # "wait_timeout", Publish(y) \/ Done(y) PROVE events'["wait_timeout"] = 0
      BY <1>0, <2>1, <3>1 DEF Publish, Done
    <3>2. ASSUME Handler PROVE events'["wait_timeout"] = 0
      <4>1. ~HandleWaitTimeout
        BY <2>1 DEF HandleWaitTimeout, Handling
      <4> QED BY <2>1, <3>1, <3>2, <4>1 DEF Handler, HandleStarted, HandleCompleted, Retry, RetryAgain, GiveUp,
                 IgnoreFailure, Enqueue, Types
    <3>3. ASSUME NEW e \in Engines,
                 Execute(e) \/ Fail(e) \/ Defer(e) \/ EngineDies(e) \/ Register(e) \/ BeatExpires(e) \/ BeatReturns(e)
          PROVE  events'["wait_timeout"] = 0
      <4>1. UNCHANGED events \/ \E y \in {"started", "completed", "failed"} : Publish(y)
        BY <3>3 DEF Execute, ClaimStale, ReadOwn, ReadTask, Take, Send, Finish, Fail, Defer, EngineDies, Register,
                    BeatExpires, BeatReturns
      <4> QED BY <2>1, <3>1, <4>1 DEF Types
    <3>4. ASSUME NEW s \in Scanners, Scan(s) PROVE events'["wait_timeout"] = 0
      <4>1. UNCHANGED events \/ Publish("failed")
        BY <1>3, <3>4 DEF Scan, FindDoomed, FailTask, FindOverdue, ClearMarker
      <4> QED BY <2>1, <3>1, <4>1 DEF Types
    <3>5. ASSUME NEW r \in Sweepers, Sweep(r) \/ OrphanDies(r) PROVE events'["wait_timeout"] = 0
      <4>1. UNCHANGED events \/ \E y \in {"completed", "failed"} : Publish(y)
        BY <3>5 DEF Sweep, FindOrphan, Output, CommitOrphan, OrphanDies, FinishJob, CleanPel, Readd, Requeue
      <4> QED BY <2>1, <3>1, <4>1 DEF Types
    <3>6. ASSUME LongTime \/ \E k \in {"scan", "sweep"} : LockExpires(k) PROVE events'["wait_timeout"] = 0
      BY <2>1, <3>6 DEF LongTime, LockExpires
    <3> QED BY <3>2, <3>3, <3>4, <3>5, <3>6 DEF Next
  <2> QED BY <2>1, <2>2, <2>3
<1> QED BY <1>0, <1>1, <1>2, <1>3

\* What fails has a cause: an engine's report, a fault, or a wait that was given up.
LEMMA FailureStep ==
    ASSUME TypeOK, NoFailureInvented, FailureCaused, CompletedHasOutput, EnginesKnown, Next
    PROVE  NoFailureInvented' /\ FailureCaused'
<1> DEFINE Begun == task.st = "RUNNING" \/ events["started"] > 0
           Quiet == /\ events'["failed"] = 0 /\ \A p \in Leaders : pc'[p] \notin {"fail", "failed"}
                    /\ task'.st # "FAILED" /\ task'.tries = 0
                    /\ task'.st = "RUNNING" \/ events'["started"] > 0 => saved' \/ Open' # {}
<1>0. events'["wait_timeout"] > 0 \/ gone' # {} => meta'.blocked
  BY BlockStep DEF FailureCaused
<1>1. CASE Cause'
  BY <1>0, <1>1 DEF NoFailureInvented, FailureCaused
<1>2. ASSUME ~Cause' PROVE Quiet
  <2>1. /\ ~Cause /\ faults = 0 /\ faults' = 0 /\ failures' = failures /\ failures = 0 /\ ~meta.blocked /\ ~meta'.blocked
    <3>1. ~Cause
      BY <1>2, CauseKept
    <3>2. ~meta.blocked /\ ~meta'.blocked
      BY <1>2, <3>1 DEF Cause
    <3>3. faults' \in Nat /\ failures' \in Nat /\ faults \in Nat /\ failures \in Nat
      BY CountStep DEF TypeOK
    <3> QED BY <1>2, <3>1, <3>2, <3>3 DEF Cause
  <2>2. /\ events["failed"] = 0 /\ events["wait_timeout"] = 0 /\ gone = {} /\ \A p \in Leaders : pc[p] \notin {"fail", "failed"}
        /\ task.st # "FAILED" /\ task.tries = 0
        /\ Begun => saved \/ Open # {}
    BY <2>1 DEF TypeOK, RowOK, Types, NoFailureInvented, FailureCaused
  <2>3. /\ events \in [Types -> Nat] /\ pc \in [Leaders -> {"idle", "fail", "block", "completed", "failed"}]
        /\ task \in [st : {"READY", "RUNNING"} \cup Terminal, tries : 0 .. MaxRetries, old : BOOLEAN, ended : BOOLEAN]
        /\ Scanners \subseteq Leaders /\ Sweepers \subseteq Leaders /\ pel \in [Messages -> Engines \cup {Nobody}]
        /\ Types = {"started", "completed", "failed", "wait_timeout"} /\ Terminal = {"COMPLETED", "FAILED"}
    BY DEF TypeOK, RowOK, SweepsOK, StreamOK, Leaders, Types, Terminal
  <2>4. ~Inject
    BY <2>1 DEF Inject
  <2>5. Shown = Open /\ \A m \in Shown : ~Dead(m)
    BY <2>1, <2>2, NoneDead DEF Shown
  <2>6. saved => saved'
    BY CauseKept
  <2>7. ASSUME UNCHANGED <<events, pc>>, task'.st = task.st, task'.tries = task.tries, saved' \/ Open' = Open PROVE Quiet
    BY <2>2, <2>6, <2>7
  <2>8. ASSUME Handler PROVE Quiet
    <3>1. HandleStarted \/ HandleCompleted
      BY <2>2, <2>8 DEF Handler, HandleWaitTimeout, Retry, RetryAgain, GiveUp, IgnoreFailure, Handling
    <3>2. pc' = pc /\ Open' = Open
      BY <3>1 DEF HandleStarted, HandleCompleted, Handling, sweeps, stream, Open
    <3>3. events'["failed"] = 0 /\ (events'["started"] > 0 => events["started"] > 0)
      BY <2>2, <2>3, <3>1 DEF HandleStarted, HandleCompleted, Handling, Done
    <3>4. CASE HandleStarted
      <4>1. Begun
        BY <3>4 DEF HandleStarted, Handling
      <4>2. task'.st # "FAILED" /\ task'.tries = 0
        BY <2>2, <2>3, <3>4 DEF HandleStarted
      <4> QED BY <2>2, <2>6, <3>2, <3>3, <4>1, <4>2
    <3>5. CASE HandleCompleted
      <4>1. task'.st = "COMPLETED" /\ task'.tries = 0
        BY <2>2, <2>3, <3>5 DEF HandleCompleted
      <4> QED BY <2>2, <2>6, <3>2, <3>3, <4>1
    <3> QED BY <3>1, <3>4, <3>5
  <2>9. ASSUME NEW e \in Engines, ClaimStale(e) \/ ReadOwn(e) \/ ReadTask(e) PROVE Quiet
    <3>1. PICK m \in Messages : Take(e, m)
      <4>1. cursor + 1 .. tail \subseteq Messages
        BY DEF TypeOK, StreamOK, Messages
      <4> QED BY <2>9, <4>1 DEF ClaimStale, ReadOwn, ReadTask, Open
    <3>2. /\ pel' = [pel EXCEPT ![m] = e] /\ task' = task /\ pc' = pc
          /\ events' = events \/ Publish("started")
      BY <2>1, <2>4, <3>1 DEF Take, Send, Dies, row, sweeps
    <3>3. events'["failed"] = 0
      BY <2>2, <2>3, <3>2 DEF Publish
    <3>4. m \in Open'
      BY <2>3, <3>2 DEF Open
    <3> QED BY <2>2, <3>2, <3>3, <3>4
  <2>10. ASSUME NEW e \in Engines, Finish(e) PROVE Quiet
    <3>1. saved' /\ task' = task /\ pc' = pc /\ (events' = events \/ Publish("completed"))
      BY <2>10 DEF Finish, Executing, Send, sweeps
    <3>2. events'["failed"] = 0
      BY <2>2, <2>3, <3>1 DEF Publish
    <3> QED BY <2>2, <3>1, <3>2
  <2>11. ASSUME NEW e \in Engines,
                Fail(e) \/ Defer(e) \/ EngineDies(e) \/ Register(e) \/ BeatExpires(e) \/ BeatReturns(e)
         PROVE  Quiet
    <3>1. Register(e) \/ BeatExpires(e) \/ BeatReturns(e)
      BY <2>1, <2>4, <2>11 DEF Fail, Defer, EngineDies, Dies
    <3>2. UNCHANGED <<task, events, pc>> /\ Open' = Open
      BY <3>1 DEF Register, BeatExpires, BeatReturns, row, stream, sweeps, Open
    <3> HIDE DEF Quiet
    <3> QED BY <2>7, <3>2
  <2>12. ASSUME NEW s \in Scanners, Scan(s) PROVE Quiet
    <3>1. ~FindDoomed(s)
      BY <2>4, <2>5 DEF FindDoomed
    <3>2. ~FailTask(s)
      BY <2>2, <2>3 DEF FailTask, Carry, Breaks
    <3>3. ~TimeOutWait(s)
      <4>1. meta \in [msg : 0 .. tail, fresh : BOOLEAN, wait : {"no", "yes", "due"}, blocked : BOOLEAN]
        BY DEF TypeOK, MetaOK
      <4> QED BY <2>1, <4>1 DEF TimeOutWait
    <3>4. /\ UNCHANGED <<task, events>> /\ Open' = Open
          /\ pc' = pc \/ pc' = [pc EXCEPT ![s] = "block"]
      BY <2>12, <3>1, <3>2, <3>3 DEF Scan, FindOverdue, ClearMarker, Decide, Alone, row, stream, sweeps, Open
    <3> QED BY <2>2, <2>3, <2>6, <3>4
  <2>13. ASSUME NEW r \in Sweepers, FindOrphan(r) PROVE Quiet
    <3>1. saved
      BY <2>2, <2>5, <2>13 DEF FindOrphan
    <3>2. task' = task /\ Publish("completed") /\ pc' = [pc EXCEPT ![r] = "completed"]
      BY <2>13, <3>1 DEF FindOrphan, Output, Decide, row
    <3>3. events'["failed"] = 0
      BY <2>2, <2>3, <3>2 DEF Publish
    <3>4. \A p \in Leaders : pc'[p] \notin {"fail", "failed"}
      BY <2>2, <2>3, <3>2
    <3> QED BY <2>2, <2>6, <3>1, <3>2, <3>3, <3>4
  <2>14. ASSUME NEW r \in Sweepers, CommitOrphan(r) \/ OrphanDies(r) PROVE Quiet
    <3>1. CommitOrphan(r) /\ pc[r] # "failed"
      BY <2>2, <2>3, <2>4, <2>14 DEF OrphanDies, Breaks
    <3>2. /\ task' = [task EXCEPT !.st = "COMPLETED", !.ended = TRUE] /\ UNCHANGED events /\ Open' = Open
          /\ pc' = [pc EXCEPT ![r] = "idle"]
      BY <3>1 DEF CommitOrphan, Carry, stream, Open
    <3>3. task'.st = "COMPLETED" /\ task'.tries = 0
      BY <2>2, <2>3, <3>2
    <3>4. \A p \in Leaders : pc'[p] \notin {"fail", "failed"}
      BY <2>2, <2>3, <3>2
    <3> QED BY <2>2, <2>6, <3>2, <3>3, <3>4
  <2>15. ASSUME NEW r \in Sweepers, CleanPel(r) PROVE Quiet
    <3>1. saved /\ UNCHANGED <<task, events, pc>>
      BY <2>2, <2>3, <2>15 DEF CleanPel, Cleanable, CompletedHasOutput, Alone, sweeps
    <3> HIDE DEF Quiet
    <3> QED BY <2>6, <2>7, <3>1
  <2>16. ASSUME NEW r \in Sweepers, Readd(r) \/ Requeue(r) \/ FinishJob(r) PROVE Quiet
    <3>1. ~Readd(r)
      BY <2>5 DEF Readd
    <3>2. UNCHANGED <<task, events, pc>> /\ Open' = Open
      BY <2>16, <3>1 DEF Requeue, FinishJob, Alone, Append, sweeps, stream, Open
    <3> HIDE DEF Quiet
    <3> QED BY <2>7, <3>2
  <2>17. ASSUME LongTime PROVE Quiet
    <3>1. PICK b : task' = [task EXCEPT !.old = b]
      BY <2>17 DEF LongTime
    <3>2. task'.st = task.st /\ task'.tries = task.tries
      BY <2>3, <3>1
    <3>3. UNCHANGED <<events, pc>> /\ Open' = Open
      BY <2>17 DEF LongTime, sweeps, Open
    <3> HIDE DEF Quiet
    <3> QED BY <2>7, <3>2, <3>3
  <2>18. ASSUME NEW k \in {"scan", "sweep"}, LockExpires(k) PROVE Quiet
    <3>1. UNCHANGED <<task, events, pc>> /\ Open' = Open
      BY <2>18 DEF LockExpires, row, stream, Open
    <3> HIDE DEF Quiet
    <3> QED BY <2>7, <3>1
  <2> HIDE DEF Quiet
  <2> QED BY <2>8, <2>9, <2>10, <2>11, <2>12, <2>13, <2>14, <2>15, <2>16, <2>17, <2>18 DEF Next, Execute, Sweep
<1>3. CASE ~Cause'
  <2>1. Quiet
    BY <1>2, <1>3
  <2> QED BY <1>0, <2>1 DEF NoFailureInvented, FailureCaused
<1> QED BY <1>1, <1>3

\* Retries are keyed by their number, so that a new one is always appended; without a
\* fault the last message is the one noted, and its deletion is announced.
LEMMA MessageStep == ASSUME TypeOK, MessageKept, EnginesKnown, Next PROVE MessageKept'
<1> DEFINE Keyed == \A k \in keys' : k <= task'.tries
           Noted == /\ meta'.msg = tail' /\ tail' > 0
                    /\ task'.st = "READY" /\ tail' \in gone' /\ tail' > cursor' => events'["wait_timeout"] > 0
           Good  == Keyed /\ (faults' = 0 => Noted)
<1>0. /\ events \in [Types -> Nat] /\ Types = {"started", "completed", "failed", "wait_timeout"}
      /\ task \in [st : {"READY", "RUNNING"} \cup Terminal, tries : 0 .. MaxRetries, old : BOOLEAN, ended : BOOLEAN]
      /\ meta \in [msg : 0 .. tail, fresh : BOOLEAN, wait : {"no", "yes", "due"}, blocked : BOOLEAN]
      /\ keys \subseteq 0 .. MaxRetries /\ task.tries \in Nat
      /\ tail \in Nat /\ cursor \in Nat /\ gone \subseteq 1 .. tail /\ Open \subseteq 1 .. cursor
      /\ \A k \in keys : k <= task.tries
  BY DEF TypeOK, RowOK, StreamOK, MetaOK, Types, MessageKept
<1>a. ASSUME faults' = 0
      PROVE  /\ faults = 0 /\ ~Inject /\ meta.msg = tail /\ tail > 0
             /\ task.st = "READY" /\ tail \in gone /\ tail > cursor => events["wait_timeout"] > 0
  <2>1. faults = 0
    BY <1>a, CountStep DEF TypeOK
  <2> QED BY <1>a, <2>1 DEF Inject, MessageKept
\* Neither the noted message nor what is deleted changes.
<1>1. ASSUME UNCHANGED <<keys, tail, gone>>, task'.tries = task.tries, meta'.msg = meta.msg,
             cursor' \in Nat, cursor <= cursor',
             \/ task'.st # "READY"
             \/ task'.st = task.st /\ events'["wait_timeout"] >= events["wait_timeout"]
      PROVE  Good
  <2>1. Keyed
    BY <1>0, <1>1
  <2>2. ASSUME faults' = 0 PROVE Noted
    <3>1. events["wait_timeout"] \in Nat
      BY <1>0
    <3>2. CASE task'.st # "READY"
      BY <1>1, <1>a, <2>2, <3>2
    <3>3. CASE task'.st = task.st /\ events'["wait_timeout"] >= events["wait_timeout"]
      <4>1. meta'.msg = tail' /\ tail' > 0
        BY <1>1, <1>a, <2>2
      <4>2. ASSUME task'.st = "READY", tail' \in gone', tail' > cursor' PROVE events["wait_timeout"] > 0
        BY <1>0, <1>1, <1>a, <2>2, <3>3, <4>2
      <4>3. events'["wait_timeout"] \in Nat
        BY CountStep DEF TypeOK, Types
      <4> QED BY <3>1, <3>3, <4>1, <4>2, <4>3
    <3> QED BY <1>1, <3>2, <3>3
  <2> QED BY <2>1, <2>2
\* A message is appended, and noted unless there was a fault.
<1>2. ASSUME NEW k \in 0 .. task'.tries, Append, keys' \subseteq keys \cup {k},
             task'.tries \in Nat, task.tries <= task'.tries, faults' = 0 => meta'.msg = tail'
      PROVE  Good
  <2>1. Keyed
    BY <1>0, <1>2
  <2>2. tail' = tail + 1 /\ gone' = gone
    BY <1>2 DEF Append
  <2>3. tail' \notin gone' /\ tail' > 0
    BY <1>0, <2>2
  <2> QED BY <1>2, <2>1, <2>3
<1>3. ASSUME HandleStarted \/ HandleCompleted \/ HandleWaitTimeout \/ GiveUp \/ IgnoreFailure PROVE Good
  <2>1. UNCHANGED <<keys, tail, gone, cursor, meta>>
    BY <1>3 DEF HandleStarted, HandleCompleted, HandleWaitTimeout, GiveUp, IgnoreFailure, stream
  <2>2. task'.tries = task.tries /\ task'.st # "READY"
    <3>1. CASE HandleStarted
      BY <1>0, <3>1 DEF HandleStarted, Terminal
    <3>2. CASE HandleCompleted
      BY <1>0, <3>2 DEF HandleCompleted
    <3>3. CASE HandleWaitTimeout
      BY <3>3, WaitTimeout
    <3>4. CASE GiveUp
      BY <1>0, <3>4 DEF GiveUp
    <3>5. CASE IgnoreFailure
      BY <1>0, <3>5 DEF IgnoreFailure
    <3> QED BY <1>3, <3>1, <3>2, <3>3, <3>4, <3>5
  <2> HIDE DEF Good
  <2> QED BY <1>0, <1>1, <2>1, <2>2
<1>4. ASSUME Retry PROVE Good
  <2> DEFINE t == [task EXCEPT !.st = "READY", !.tries = @ + 1]
             k == task.tries + 1
  <2>1. task' = t \/ task' = [t EXCEPT !.st = "FAILED"]
    BY <1>4 DEF Retry, Enqueue
  <2>2. task'.tries = k
    BY <1>0, <2>1
  <2>3. k \notin keys /\ k \in 0 .. k /\ k \in Nat /\ task.tries <= k
    BY <1>0
  <2>4. CASE QueueRetry(k)
    <3>1. Append /\ keys' = keys \cup {k} /\ meta' = [Written EXCEPT !.msg = tail']
      BY <2>3, <2>4 DEF QueueRetry
    <3>2. meta'.msg = tail'
      BY <1>0, <3>1 DEF Written
    <3> HIDE DEF Good, k
    <3> QED BY <1>2, <2>2, <2>3, <3>1, <3>2
  <2>5. CASE QueueRetryDies(k) /\ Inject
    <3>1. faults' # 0
      BY <1>a, <2>5
    <3>2. keys' \subseteq keys \cup {k}
      BY <2>5 DEF QueueRetryDies
    <3> QED BY <1>0, <2>2, <2>3, <3>1, <3>2
  <2>6. CASE FailFast /\ task' = [t EXCEPT !.st = "FAILED"]
    <3>1. UNCHANGED <<keys, tail, gone, meta>> /\ task'.st = "FAILED"
      BY <1>0, <2>6 DEF FailFast, stream
    <3>2. Keyed
      BY <1>0, <2>2, <3>1
    <3> HIDE DEF t, k
    <3> QED BY <1>a, <3>1, <3>2
  <2> HIDE DEF Good
  <2> QED BY <1>4, <2>4, <2>5, <2>6 DEF Retry, Enqueue
<1>5. ASSUME RetryAgain PROVE Good
  <2> DEFINE k == task.tries
  <2>1. task.st = "READY" /\ (task' = task \/ task' = [task EXCEPT !.st = "FAILED"])
    BY <1>5 DEF RetryAgain, Enqueue
  <2>2. task'.tries = k /\ k \in Nat /\ k \in 0 .. k
    BY <1>0, <2>1
  <2>3. events'["wait_timeout"] = events["wait_timeout"]
    BY <1>0, <1>5 DEF RetryAgain, Enqueue, Done
  <2>4. CASE QueueRetry(k) /\ task' = task /\ k \notin keys
    <3>1. Append /\ keys' = keys \cup {k} /\ meta' = [Written EXCEPT !.msg = tail']
      BY <2>4 DEF QueueRetry
    <3>2. meta'.msg = tail'
      BY <1>0, <3>1 DEF Written
    <3> HIDE DEF Good, k
    <3> QED BY <1>0, <1>2, <2>2, <2>4, <3>1, <3>2
  <2>5. CASE QueueRetry(k) /\ task' = task /\ k \in keys
    <3>1. meta' = Written /\ UNCHANGED <<keys, tail, gone, cursor>>
      BY <2>5 DEF QueueRetry, stream
    <3>2. meta'.msg = meta.msg
      BY <1>0, <3>1 DEF Written
    <3>3. events["wait_timeout"] \in Nat
      BY <1>0
    <3> HIDE DEF Good, k
    <3> QED BY <1>0, <1>1, <2>3, <2>5, <3>1, <3>2, <3>3
  <2>6. CASE QueueRetryDies(k) /\ Inject
    <3>1. faults' # 0
      BY <1>a, <2>6
    <3>2. keys' \subseteq keys \cup {k}
      BY <2>6 DEF QueueRetryDies
    <3> QED BY <1>0, <2>2, <3>1, <3>2
  <2>7. CASE FailFast /\ task' = [task EXCEPT !.st = "FAILED"]
    <3>1. UNCHANGED <<keys, tail, gone, meta>> /\ task'.st = "FAILED"
      BY <1>0, <2>7 DEF FailFast, stream
    <3>2. Keyed
      BY <1>0, <2>2, <3>1
    <3> HIDE DEF k
    <3> QED BY <1>a, <3>1, <3>2
  <2> HIDE DEF Good
  <2> QED BY <1>5, <2>4, <2>5, <2>6, <2>7 DEF RetryAgain, Enqueue
<1>6. ASSUME NEW e \in Engines,
             Execute(e) \/ Fail(e) \/ Defer(e) \/ EngineDies(e) \/ Register(e) \/ BeatExpires(e) \/ BeatReturns(e)
      PROVE  Good
  <2>1. UNCHANGED <<keys, tail, gone, task>>
    BY <1>6 DEF Execute, ClaimStale, ReadOwn, ReadTask, Take, Finish, Fail, Defer, EngineDies, Executing, Register,
                BeatExpires, BeatReturns, Acked, row, stream
  <2>2. meta' = meta \/ meta' = [meta EXCEPT !.wait = "no"]
    BY <1>6 DEF Execute, ClaimStale, ReadOwn, ReadTask, Take, Finish, Fail, Defer, EngineDies, Executing, Register,
                BeatExpires, BeatReturns
  <2>3. meta'.msg = meta.msg
    BY <1>0, <2>2
  <2>4. cursor' = cursor \/ cursor' \in cursor + 1 .. tail
    BY <1>6 DEF Execute, ClaimStale, ReadOwn, ReadTask, Finish, Fail, Defer, EngineDies, Register,
                BeatExpires, BeatReturns, Acked, stream
  <2>5. events' = events \/ \E y \in {"started", "completed", "failed"} : Publish(y)
    BY <1>6 DEF Execute, ClaimStale, ReadOwn, ReadTask, Take, Send, Finish, Fail, Defer, EngineDies, Register,
                BeatExpires, BeatReturns
  <2>6. events'["wait_timeout"] = events["wait_timeout"] /\ events["wait_timeout"] \in Nat
    BY <1>0, <2>5 DEF Publish
  <2>7. cursor' \in Nat /\ cursor <= cursor'
    BY <1>0, <2>4
  <2> HIDE DEF Good
  <2> QED BY <1>1, <2>1, <2>3, <2>6, <2>7
<1>7. ASSUME NEW s \in Scanners, Scan(s), ~TimeOutWait(s) PROVE Good
  <2>1. UNCHANGED <<keys, tail, gone, cursor>>
    BY <1>7 DEF Scan, FindDoomed, FailTask, FindOverdue, ClearMarker, Decide, Carry, Breaks, Alone, stream
  <2>2. meta' = meta \/ meta' = [meta EXCEPT !.wait = "no"]
    BY <1>7 DEF Scan, FindDoomed, FailTask, FindOverdue, ClearMarker, Decide
  <2>3. meta'.msg = meta.msg
    BY <1>0, <2>2
  <2>4. task' = task \/ task' = [task EXCEPT !.st = "FAILED", !.ended = TRUE]
    BY <1>7 DEF Scan, FindDoomed, FailTask, FindOverdue, ClearMarker, Decide, row
  <2>5. task'.tries = task.tries /\ (task'.st = task.st \/ task'.st = "FAILED")
    BY <1>0, <2>4
  <2>6. events' = events \/ Publish("failed")
    BY <1>7 DEF Scan, FindDoomed, FailTask, FindOverdue, ClearMarker
  <2>7. events'["wait_timeout"] = events["wait_timeout"] /\ events["wait_timeout"] \in Nat
    BY <1>0, <2>6 DEF Publish
  <2> HIDE DEF Good
  <2> QED BY <1>0, <1>1, <2>1, <2>3, <2>5, <2>7
<1>8. ASSUME NEW s \in Scanners, TimeOutWait(s) PROVE Good
  <2>1. UNCHANGED <<keys, tail, task>>
    BY <1>8 DEF TimeOutWait, Carry, Breaks
  <2>2. meta'.msg = meta.msg
    BY <1>0, <1>8 DEF TimeOutWait
  <2>3. ASSUME faults' = 0 PROVE events'["wait_timeout"] > 0
    <3>1. Publish("wait_timeout")
      BY <1>8, <1>a, <2>3 DEF TimeOutWait, Breaks
    <3>2. events'["wait_timeout"] = events["wait_timeout"] + 1 /\ events["wait_timeout"] \in Nat
      BY <1>0, <3>1 DEF Publish
    <3> QED BY <3>2
  <2> QED BY <1>0, <1>a, <2>1, <2>2, <2>3
<1>9. ASSUME NEW r \in Sweepers, FindOrphan(r) \/ CommitOrphan(r) \/ OrphanDies(r) \/ FinishJob(r) \/ CleanPel(r)
      PROVE  Good
  <2>1. UNCHANGED <<keys, tail, gone, cursor, meta>>
    BY <1>9 DEF FindOrphan, CommitOrphan, OrphanDies, FinishJob, CleanPel, Decide, Carry, Breaks, Alone, Acked, stream
  <2>2. \/ task' = task \/ task' = [task EXCEPT !.st = "COMPLETED", !.ended = TRUE]
        \/ task' = [task EXCEPT !.st = "FAILED", !.ended = TRUE]
    BY <1>9 DEF FindOrphan, CommitOrphan, OrphanDies, FinishJob, CleanPel, Decide, row
  <2>3. task'.tries = task.tries /\ (task'.st = task.st \/ task'.st # "READY")
    BY <1>0, <2>2
  <2>4. events' = events \/ \E y \in {"completed", "failed"} : Publish(y)
    BY <1>9 DEF FindOrphan, Output, CommitOrphan, OrphanDies, FinishJob, CleanPel
  <2>5. events'["wait_timeout"] = events["wait_timeout"] /\ events["wait_timeout"] \in Nat
    BY <1>0, <2>4 DEF Publish
  <2> HIDE DEF Good
  <2> QED BY <1>0, <1>1, <2>1, <2>3, <2>5
<1>10. ASSUME NEW r \in Sweepers, Readd(r) PROVE Good
  <2>1. UNCHANGED <<keys, task>>
    BY <1>10 DEF Readd, Alone
  <2>2. faults' # 0
    <3>1. PICK m \in Shown : Dead(m)
      BY <1>10 DEF Readd
    <3> QED BY <1>a, <3>1, NoneDead
  <2> QED BY <1>0, <2>1, <2>2
<1>11. ASSUME NEW r \in Sweepers, Requeue(r) PROVE Good
  <2>1. Append /\ UNCHANGED <<keys, task>>
    BY <1>11 DEF Requeue, Alone
  <2>2. meta' = [meta EXCEPT !.msg = tail'] \/ Inject
    BY <1>11 DEF Requeue
  <2>3. faults' = 0 => meta'.msg = tail'
    BY <1>0, <1>a, <2>2
  <2>4. 0 \in 0 .. task'.tries /\ keys' \subseteq keys \cup {0} /\ task'.tries \in Nat /\ task.tries <= task'.tries
    BY <1>0, <2>1
  <2> HIDE DEF Good
  <2> QED BY <1>2, <2>1, <2>3, <2>4
<1>12. ASSUME LongTime PROVE Good
  <2>1. PICK b : task' = [task EXCEPT !.old = b]
    BY <1>12 DEF LongTime
  <2>2. task'.st = task.st /\ task'.tries = task.tries
    BY <1>0, <2>1
  <2>3. UNCHANGED <<keys, tail, gone, cursor, events>>
    BY <1>12 DEF LongTime
  <2>4. meta'.msg = meta.msg
    BY <1>0, <1>12 DEF LongTime
  <2>5. events["wait_timeout"] \in Nat
    BY <1>0
  <2> HIDE DEF Good
  <2> QED BY <1>0, <1>1, <2>2, <2>3, <2>4, <2>5
<1>13. ASSUME NEW k \in {"scan", "sweep"}, LockExpires(k) PROVE Good
  <2>1. UNCHANGED <<keys, tail, gone, cursor, task, meta, events>>
    BY <1>13 DEF LockExpires, row, stream
  <2>2. events["wait_timeout"] \in Nat
    BY <1>0
  <2> HIDE DEF Good
  <2> QED BY <1>0, <1>1, <2>1, <2>2
<1>14. Good
  <2> HIDE DEF Good
  <2> QED BY <1>3, <1>4, <1>5, <1>6, <1>7, <1>8, <1>9, <1>10, <1>11, <1>12, <1>13 DEF Next, Handler, Execute, Scan, Sweep
<1> QED BY <1>14 DEF MessageKept

\* The job starts with its root task queued, or with a fault.
LEMMA RecoveryInit == Init => RecoveryInv
<1> SUFFICES ASSUME Init PROVE RecoveryInv
  OBVIOUS
<1>1. PICK added \in {0, 1}, noted \in {0, 1} :
         /\ noted <= added /\ tail = added
         /\ faults = IF noted = 1 THEN 0 ELSE 1
         /\ meta = [msg |-> noted, fresh |-> TRUE, wait |-> IF beat = {} THEN "yes" ELSE "no", blocked |-> FALSE]
  BY DEF Init
<1>2. /\ task = [st |-> "READY", tries |-> 0, old |-> FALSE, ended |-> FALSE] /\ job = "RUNNING"
      /\ cursor = 0 /\ gone = {} /\ idle = {} /\ pel = [m \in Messages |-> Nobody] /\ keys = {}
      /\ events = [y \in Types |-> 0] /\ pc = [p \in Leaders |-> "idle"] /\ up = beat /\ failures = 0
      /\ faults <= MaxFaults
  BY DEF Init
<1>3. Open = {}
  BY <1>2 DEF Open
<1>4. TypeOK
  <2>1. RowOK
    <3>1. 0 \in 0 .. MaxRetries /\ saved = FALSE
      BY DEF Init
    <3>2. task \in [st : {"READY", "RUNNING"} \cup Terminal, tries : 0 .. MaxRetries, old : BOOLEAN, ended : BOOLEAN]
      BY <1>2, <3>1
    <3>3. saved \in BOOLEAN
      BY <3>1
    <3> QED BY <1>2, <3>2, <3>3 DEF RowOK
  <2>2. StreamOK
    BY <1>1, <1>2, <1>3 DEF StreamOK
  <2>3. MetaOK
    BY <1>1, <1>2 DEF MetaOK
  <2>4. EnginesOK /\ SweepsOK
    BY DEF Init, EnginesOK, SweepsOK
  <2>5. events \in [Types -> Nat] /\ failures \in Nat /\ faults \in 0 .. MaxFaults
    BY <1>1, <1>2
  <2> QED BY <2>1, <2>2, <2>3, <2>4, <2>5 DEF TypeOK
<1>5. MessageKept
  BY <1>1, <1>2 DEF MessageKept
<1>6. CompletedHasOutput /\ NoFailureInvented
  BY <1>2 DEF CompletedHasOutput, NoFailureInvented
<1>7. OutputKept /\ FailureCaused
  BY <1>2 DEF OutputKept, FailureCaused, Types
<1>8. EnginesKnown
  BY <1>2, <1>3 DEF EnginesKnown
<1> QED BY <1>4, <1>5, <1>6, <1>7, <1>8, LiveFollows DEF RecoveryInv

\* A step that changes nothing keeps everything.
LEMMA RecoveryStutter == ASSUME RecoveryInv, UNCHANGED vars PROVE RecoveryInv'
<1> USE DEF RecoveryInv, vars, row, stream, engines, sweeps
<1>1. TypeOK'
  BY DEF TypeOK, RowOK, StreamOK, MetaOK, EnginesOK, SweepsOK, Open
<1>2. CompletedHasOutput' /\ NoFailureInvented' /\ OutputKept'
  BY DEF CompletedHasOutput, NoFailureInvented, OutputKept, Cause
<1>3. FailureCaused' /\ EnginesKnown'
  BY DEF FailureCaused, EnginesKnown, Cause, Open
<1>4. MessageKept'
  BY DEF MessageKept
<1>5. Live'
  BY DEF Live, Shown, Open
<1> QED BY <1>1, <1>2, <1>3, <1>4, <1>5

\* Scanner and sweeper repair and do no harm, whatever dies or is lost between their
\* decisions and their commits (RecoveryInv; scanner.py and reconciler.py).
THEOREM RecoveryInvariant == Spec => []RecoveryInv
<1>1. RecoveryInv /\ [Next]_vars => RecoveryInv'
  <2> SUFFICES ASSUME RecoveryInv, [Next]_vars PROVE RecoveryInv'
    OBVIOUS
  <2>1. CASE Next
    <3>1. TypeOK'
      BY <2>1, TypeStep DEF RecoveryInv
    <3>2. MessageKept'
      BY <2>1, MessageStep DEF RecoveryInv
    <3>3. Live'
      BY <3>1, <3>2, LiveFollows, PTL
    <3> QED BY <2>1, <3>1, <3>2, <3>3, OutputStep, FailureStep, EnginesKnownStep DEF RecoveryInv
  <2>2. CASE UNCHANGED vars
    BY <2>2, RecoveryStutter
  <2> QED BY <2>1, <2>2
<1> QED BY <1>1, RecoveryInit, PTL DEF Spec

=============================================================================
