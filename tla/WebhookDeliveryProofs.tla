------------------------ MODULE WebhookDeliveryProofs ------------------------
(***************************************************************************)
(* The books of the delivery worker: the coroutines of a batch share one    *)
(* session, so that one's commit writes everybody's rows and one's rollback  *)
(* undoes them, and still requests, answers and failures are accounted for,  *)
(* for any number of workers, deliveries, attempts and incidents.            *)
(***************************************************************************)
EXTENDS WebhookDelivery, FiniteSetTheorems, TLAPS

USE DeliveryAssumption

\* What the steps do, coroutine by coroutine and worker by worker.
MovedTo(w, d, l) ==
    \A v \in Workers, c \in Deliveries : at'[v][c] = IF v = w /\ c = d THEN l ELSE at[v][c]
Keeps(w, d, r) ==
    \A v \in Workers, c \in Deliveries : mem'[v][c] = IF v = w /\ c = d THEN r ELSE mem[v][c]
Wrote(w, D)    == \A v \in Workers : dirty'[v] = IF v = w THEN D ELSE dirty[v]
Endpoint(w, e) == \A v \in Workers : epTx'[v] = IF v = w THEN e ELSE epTx[v]
Expires(w, D)  == \A v \in Workers : expired'[v] = IF v = w THEN D ELSE expired[v]

LEMMA GotoEffect ==
    ASSUME TypeOK, NEW w \in Workers, NEW d \in Deliveries, NEW l, Goto(w, d, l)
    PROVE  MovedTo(w, d, l)
BY DEF TypeOK, Goto, MovedTo

LEMMA FinishEffect ==
    ASSUME TypeOK, NEW w \in Workers, NEW d \in Deliveries, Finish(w, d)
    PROVE  MovedTo(w, d, "idle") /\ Keeps(w, d, NoRow)
<1>1. MovedTo(w, d, "idle")
  BY GotoEffect DEF Finish
<1>2. Keeps(w, d, NoRow)
  BY DEF TypeOK, Finish, Keeps
<1> QED BY <1>1, <1>2

LEMMA PollEffect ==
    ASSUME TypeOK, NEW w \in Workers, Poll(w)
    PROVE  \E S \in SUBSET Free :
             /\ \A c \in Deliveries : at[w][c] = "idle"
             /\ \A v \in Workers, c \in Deliveries :
                  at'[v][c] = IF v = w /\ c \in S THEN "send" ELSE at[v][c]
             /\ \A v \in Workers, c \in Deliveries :
                  mem'[v][c] = IF v = w THEN IF c \in S THEN row[c] ELSE NoRow ELSE mem[v][c]
             /\ entangled \subseteq entangled'
             /\ \A c \in S \ entangled', v \in Workers : at[v][c] = "idle"
             /\ (\A c \in Deliveries \ entangled' : posts'[c] = posts[c]) /\ acked' \subseteq acked
             /\ UNCHANGED <<row, ep, dirty, epTx, expired, manual, faults>>
<1>1. PICK S \in SUBSET Free :
        /\ at' = [at EXCEPT ![w] = [d \in Deliveries |-> IF d \in S THEN "send" ELSE "idle"]]
        /\ mem' = [mem EXCEPT ![w] = [d \in Deliveries |-> IF d \in S THEN row[d] ELSE NoRow]]
        /\ entangled' = entangled \cup {d \in S : \E v \in Workers : d \in Active(v)}
  BY DEF Poll
<1>2. \A c \in Deliveries : at[w][c] = "idle"
  BY DEF Poll, Active
<1>3. \A v \in Workers, c \in Deliveries : at'[v][c] = IF v = w /\ c \in S THEN "send" ELSE at[v][c]
  BY <1>1, <1>2 DEF TypeOK
<1>4. \A v \in Workers, c \in Deliveries :
        mem'[v][c] = IF v = w THEN IF c \in S THEN row[c] ELSE NoRow ELSE mem[v][c]
  BY <1>1 DEF TypeOK
<1>5. \A c \in S \ entangled', v \in Workers : at[v][c] = "idle"
  BY <1>1 DEF Active, Free
<1>6. entangled \subseteq entangled' /\ UNCHANGED <<row, ep, dirty, epTx, expired, manual, faults>>
  BY <1>1 DEF Poll
<1>7. (\A c \in Deliveries \ entangled' : posts'[c] = posts[c]) /\ acked' \subseteq acked
  BY DEF TypeOK, Poll
<1> QED BY <1>2, <1>3, <1>4, <1>5, <1>6, <1>7

LEMMA PostEffect ==
    ASSUME TypeOK, NEW w \in Workers, NEW d \in Deliveries, Post(w, d)
    PROVE  /\ at[w][d] = "send"
           /\ \/ MovedTo(w, d, "answered") /\ acked' \subseteq acked \cup {d}
              \/ MovedTo(w, d, "refused") /\ UNCHANGED acked
           /\ \A c \in Deliveries : posts'[c] = IF c = d /\ d \notin entangled THEN posts[c] + 1 ELSE posts[c]
           /\ UNCHANGED <<row, ep, mem, dirty, epTx, expired, manual, entangled, faults>>
<1>1. \A c \in Deliveries : posts'[c] = IF c = d /\ d \notin entangled THEN posts[c] + 1 ELSE posts[c]
  BY DEF TypeOK, Post
<1>2. \/ MovedTo(w, d, "answered") /\ acked' \subseteq acked \cup {d}
      \/ MovedTo(w, d, "refused") /\ UNCHANGED acked
  BY GotoEffect DEF Post
<1> QED BY <1>1, <1>2 DEF Post

LEMMA WrittenEffect ==
    ASSUME TypeOK, NEW w \in Workers, NEW d \in Deliveries, NEW r, NEW l, Written(w, d, r, l)
    PROVE  /\ MovedTo(w, d, l) /\ Keeps(w, d, r) /\ Wrote(w, dirty[w] \cup {d})
           /\ UNCHANGED <<row, ep, expired, manual, posts, acked, entangled, faults>>
<1>1. MovedTo(w, d, l)
  BY GotoEffect DEF Written
<1>2. Keeps(w, d, r)
  BY DEF TypeOK, Written, Keeps
<1>3. Wrote(w, dirty[w] \cup {d})
  BY DEF TypeOK, Written, Wrote
<1> QED BY <1>1, <1>2, <1>3 DEF Written, ghosts

\* The three ways to record an attempt have this in common.
LEMMA RecordEffect ==
    ASSUME TypeOK, NEW w \in Workers, NEW d \in Deliveries,
           Succeed(w, d) \/ Exhaust(w, d) \/ ScheduleRetry(w, d)
    PROVE  /\ at[w][d] \in {"answered", "refused"} /\ d \notin expired[w]
           /\ \E l \in {"disable", "commit"} : MovedTo(w, d, l)
           /\ \E r \in Rows : Keeps(w, d, r)
           /\ mem'[w][d].att = mem[w][d].att + 1
           /\ mem'[w][d].st = "pending" => mem'[w][d].att < MaxAttempts
           /\ mem'[w][d].st \in {"success", "failed", mem[w][d].st}
           /\ Wrote(w, dirty[w] \cup {d})
           /\ UNCHANGED <<row, ep, expired, manual, posts, acked, entangled, faults>>
<1> DEFINE good(r) == r.att = mem[w][d].att + 1 /\ (r.st = "pending" => r.att < MaxAttempts)
                       /\ r.st \in {"success", "failed", mem[w][d].st}
<1>1. at[w][d] \in {"answered", "refused"} /\ d \notin expired[w]
  BY DEF Succeed, Exhaust, ScheduleRetry
<1>2. mem[w][d] \in Rows
  BY DEF TypeOK
<1>3. \A m \in Rows, n \in Nat : [m EXCEPT !.att = n, !.due = FALSE] \in Rows
  BY DEF Rows
<1>4. mem[w][d].att + 1 \in Nat
  BY <1>2 DEF Rows
<1>5. PICK r \in Rows, l \in {"disable", "commit"} : Written(w, d, r, l) /\ good(r)
  <2>1. CASE Succeed(w, d)
    <3> DEFINE s == [st |-> "success", att |-> mem[w][d].att + 1, due |-> FALSE]
    <3>1. s \in Rows /\ good(s)
      BY <1>4 DEF Rows
    <3>2. Written(w, d, s, "commit")
      BY <2>1 DEF Succeed
    <3> HIDE DEF s, good
    <3> QED BY <3>1, <3>2
  <2>2. CASE Exhaust(w, d)
    <3> DEFINE s == [st |-> "failed", att |-> mem[w][d].att + 1, due |-> FALSE]
    <3>1. s \in Rows /\ good(s)
      BY <1>4 DEF Rows
    <3>2. Written(w, d, s, "disable")
      BY <2>2 DEF Exhaust
    <3> HIDE DEF s, good
    <3> QED BY <3>1, <3>2
  <2>3. CASE ScheduleRetry(w, d)
    <3> DEFINE s == [mem[w][d] EXCEPT !.att = @ + 1, !.due = FALSE]
    <3>1. s \in Rows
      BY <1>2, <1>3, <1>4
    <3>2. good(s)
      BY <1>2, <1>4, <2>3 DEF ScheduleRetry, Last, Rows
    <3>3. Written(w, d, s, "commit")
      BY <2>3 DEF ScheduleRetry
    <3> HIDE DEF s, good
    <3> QED BY <3>1, <3>2, <3>3
  <2> HIDE DEF good
  <2> QED BY <2>1, <2>2, <2>3
<1>6. Keeps(w, d, r) /\ MovedTo(w, d, l) /\ Wrote(w, dirty[w] \cup {d})
      /\ UNCHANGED <<row, ep, expired, manual, posts, acked, entangled, faults>>
  BY <1>5, WrittenEffect
<1>7. mem'[w][d] = r
  BY <1>6 DEF Keeps
<1> QED BY <1>1, <1>5, <1>6, <1>7

LEMMA CheckEffect ==
    ASSUME TypeOK, NEW w \in Workers, NEW d \in Deliveries, CheckAutoDisable(w, d)
    PROVE  /\ at[w][d] = "disable" /\ d \notin expired[w]
           /\ MovedTo(w, d, "commit")
           /\ \A v \in Workers : v # w => epTx'[v] = epTx[v]
           /\ UNCHANGED <<row, ep, mem, dirty, expired, manual, posts, acked, entangled, faults>>
<1>1. MovedTo(w, d, "commit")
  BY GotoEffect DEF CheckAutoDisable
<1>2. \A v \in Workers : v # w => epTx'[v] = epTx[v]
  BY DEF CheckAutoDisable, TypeOK
<1> QED BY <1>1, <1>2 DEF CheckAutoDisable, ghosts

LEMMA CommitEffect ==
    ASSUME TypeOK, NEW w \in Workers, NEW d \in Deliveries, Commit(w, d)
    PROVE  /\ at[w][d] = "commit" /\ d \notin expired[w]
           /\ \A c \in Deliveries :
                /\ c \notin dirty[w] => row'[c] = row[c]
                /\ c \in dirty[w] => /\ row'[c].att = mem[w][c].att
                                     /\ row'[c].st = IF mem[w][c].st = "pending" THEN row[c].st ELSE mem[w][c].st
           /\ MovedTo(w, d, "idle") /\ Keeps(w, d, NoRow) /\ Wrote(w, {}) /\ Endpoint(w, Nobody)
           /\ ep' = Seen(w)
           /\ UNCHANGED <<expired, manual, posts, acked, entangled, faults>>
<1>1. ASSUME NEW c \in Deliveries
      PROVE  /\ c \notin dirty[w] => row'[c] = row[c]
             /\ c \in dirty[w] => /\ row'[c].att = mem[w][c].att
                                  /\ row'[c].st = IF mem[w][c].st = "pending" THEN row[c].st ELSE mem[w][c].st
  <2>1. mem[w][c] \in Rows /\ row'[c] = IF c \in dirty[w] THEN Stored(w, c) ELSE row[c]
    BY DEF TypeOK, Commit
  <2> QED BY <2>1 DEF Stored, Rows
<1>2. MovedTo(w, d, "idle") /\ Keeps(w, d, NoRow)
  BY FinishEffect DEF Commit
<1>3. Wrote(w, {}) /\ Endpoint(w, Nobody)
  BY DEF TypeOK, Commit, Wrote, Endpoint
<1> QED BY <1>1, <1>2, <1>3 DEF Commit, ghosts

LEMMA RollbackEffect ==
    ASSUME TypeOK, NEW w \in Workers, Rollback(w)
    PROVE  Wrote(w, {}) /\ Endpoint(w, Nobody) /\ UNCHANGED <<row, ep, manual, posts, acked>>
BY DEF TypeOK, Rollback, Wrote, Endpoint

LEMMA RaiseEffect ==
    ASSUME TypeOK, NEW w \in Workers, NEW d \in Deliveries, Raise(w, d)
    PROVE  /\ at[w][d] # "idle" /\ d \notin expired[w]
           /\ \/ faults' = faults + 1 /\ UNCHANGED entangled
              \/ UNCHANGED faults /\ entangled' = entangled \cup Active(w)
           /\ MovedTo(w, d, "idle") /\ Keeps(w, d, NoRow) /\ Expires(w, Active(w) \ {d})
           /\ Wrote(w, {}) /\ Endpoint(w, Nobody) /\ UNCHANGED <<row, ep, manual, posts, acked>>
<1>1. MovedTo(w, d, "idle") /\ Keeps(w, d, NoRow)
  BY FinishEffect DEF Raise
<1>2. Wrote(w, {}) /\ Endpoint(w, Nobody) /\ UNCHANGED <<row, ep, manual, posts, acked>>
  BY RollbackEffect DEF Raise
<1>3. Expires(w, Active(w) \ {d})
  BY DEF TypeOK, Raise, Expires
<1>4. \/ faults' = faults + 1 /\ UNCHANGED entangled
      \/ UNCHANGED faults /\ entangled' = entangled \cup Active(w)
  BY DEF Raise, Inject
<1> QED BY <1>1, <1>2, <1>3, <1>4 DEF Raise

LEMMA RaiseExpiredEffect ==
    ASSUME TypeOK, NEW w \in Workers, NEW d \in Deliveries, RaiseExpired(w, d)
    PROVE  /\ at[w][d] # "send" /\ d \in expired[w]
           /\ MovedTo(w, d, "idle") /\ Keeps(w, d, NoRow) /\ Expires(w, expired[w] \ {d})
           /\ Wrote(w, {}) /\ Endpoint(w, Nobody)
           /\ UNCHANGED <<row, ep, manual, posts, acked, entangled, faults>>
<1>1. MovedTo(w, d, "idle") /\ Keeps(w, d, NoRow)
  BY FinishEffect DEF RaiseExpired
<1>2. Wrote(w, {}) /\ Endpoint(w, Nobody) /\ UNCHANGED <<row, ep, manual, posts, acked>>
  BY RollbackEffect DEF RaiseExpired
<1>3. Expires(w, expired[w] \ {d})
  BY DEF TypeOK, RaiseExpired, Expires
<1> QED BY <1>1, <1>2, <1>3 DEF RaiseExpired

LEMMA CrashEffect ==
    ASSUME TypeOK, NEW w \in Workers, Crash(w)
    PROVE  /\ \A v \in Workers, c \in Deliveries : at'[v][c] = IF v = w THEN "idle" ELSE at[v][c]
           /\ \A v \in Workers, c \in Deliveries : mem'[v][c] = IF v = w THEN NoRow ELSE mem[v][c]
           /\ Expires(w, {}) /\ Wrote(w, {}) /\ Endpoint(w, Nobody)
           /\ faults' = faults + 1
           /\ UNCHANGED <<row, ep, manual, posts, acked, entangled>>
<1>1. \A v \in Workers, c \in Deliveries : at'[v][c] = IF v = w THEN "idle" ELSE at[v][c]
  BY DEF TypeOK, Crash
<1>2. \A v \in Workers, c \in Deliveries : mem'[v][c] = IF v = w THEN NoRow ELSE mem[v][c]
  BY DEF TypeOK, Crash
<1>3. Expires(w, {})
  BY DEF TypeOK, Crash, Expires
<1>4. Wrote(w, {}) /\ Endpoint(w, Nobody) /\ UNCHANGED <<row, ep, manual, posts, acked>>
  BY RollbackEffect DEF Crash
<1> QED BY <1>1, <1>2, <1>3, <1>4 DEF Crash, Inject

LEMMA SeenPoint == ASSUME TypeOK, NEW w \in Workers PROVE Seen(w) \in Points
BY DEF TypeOK, Seen

\* Rows, locks, sessions and the endpoint keep their types.
LEMMA TypeStep == ASSUME TypeOK, Next PROVE TypeOK'
<1> DEFINE Places == {"idle", "send", "answered", "refused", "disable", "commit"}
<1>1. ASSUME Tenant \/ SuccessAges PROVE TypeOK'
  <2>1. ep \in Points
    BY DEF TypeOK
  <2>2. CASE Tenant
    <3>1. PICK s \in {"active", "off", "deleted"}, f \in {0, ep.fails} : ep' = [ep EXCEPT !.st = s, !.fails = f]
      BY <2>1, <2>2 DEF Tenant, CreateEndpoint, UpdateEndpoint, DeleteEndpoint, Points
    <3>2. ep' \in Points
      <4>1. PICK b \in BOOLEAN : ep' = [st |-> s, fails |-> f, recent |-> b]
        BY <2>1, <3>1 DEF Points
      <4> QED BY <2>1, <4>1 DEF Points
    <3> QED BY <2>2, <3>2 DEF TypeOK, Tenant, CreateEndpoint, UpdateEndpoint, DeleteEndpoint, session, ghosts
  <2>3. CASE SuccessAges
    <3>1. ep' \in Points
      BY <2>1, <2>3 DEF SuccessAges, Points
    <3> QED BY <2>3, <3>1 DEF TypeOK, SuccessAges, session, ghosts
  <2> QED BY <1>1, <2>2, <2>3
<1>2. ASSUME NEW d \in Deliveries, CreateDelivery(d) \/ RetryDelivery(d) \/ RetryComesDue(d) PROVE TypeOK'
  <2>1. row' \in [Deliveries -> Rows]
    <3>1. row[d] \in Rows
      BY DEF TypeOK
    <3>2. /\ [st |-> "pending", att |-> 0, due |-> TRUE] \in Rows
          /\ [row[d] EXCEPT !.st = "pending", !.due = TRUE] \in Rows /\ [row[d] EXCEPT !.due = TRUE] \in Rows
      BY <3>1 DEF Rows
    <3>3. PICK r \in Rows : row' = [row EXCEPT ![d] = r]
      BY <1>2, <3>2 DEF TypeOK, CreateDelivery, RetryDelivery, RetryComesDue
    <3> QED BY <3>3 DEF TypeOK
  <2>2. manual' \in 0 .. MaxIncidents
    BY <1>2 DEF TypeOK, CreateDelivery, RetryDelivery, RetryComesDue, Incident
  <2> QED BY <1>2, <2>1, <2>2 DEF TypeOK, CreateDelivery, RetryDelivery, RetryComesDue, session, ghosts
<1>3. ASSUME NEW w \in Workers, Poll(w) PROVE TypeOK'
  <2>1. NoRow \in Rows
    BY DEF NoRow, Rows
  <2> QED BY <1>3, <2>1 DEF TypeOK, Poll, Free
<1>4. ASSUME NEW w \in Workers, NEW d \in Deliveries, Post(w, d) PROVE TypeOK'
  <2>1. posts' \in [Deliveries -> Nat] /\ acked' \in SUBSET Deliveries
    BY <1>4 DEF TypeOK, Post
  <2>2. at' \in [Workers -> [Deliveries -> Places]]
    <3>1. PICK l \in Places : Goto(w, d, l)
      BY <1>4 DEF Post
    <3> QED BY <3>1 DEF TypeOK, Goto
  <2> QED BY <1>4, <2>1, <2>2 DEF TypeOK, Post
<1>5. ASSUME NEW w \in Workers, NEW d \in Deliveries, NEW r \in Rows, NEW l \in Places, Written(w, d, r, l)
      PROVE  /\ at' \in [Workers -> [Deliveries -> Places]] /\ mem' \in [Workers -> [Deliveries -> Rows]]
             /\ dirty' \in [Workers -> SUBSET Deliveries]
             /\ UNCHANGED <<row, ep, expired, manual, posts, acked, entangled, faults>>
  BY <1>5 DEF TypeOK, Written, Goto, ghosts
<1>6. ASSUME NEW w \in Workers, NEW d \in Deliveries, Flush(w, d)
      PROVE  lock' \in [Deliveries -> Workers \cup {Nobody}]
  BY <1>6 DEF TypeOK, Flush
<1>7. ASSUME NEW w \in Workers, NEW d \in Deliveries, Succeed(w, d) PROVE TypeOK'
  <2> DEFINE r == [st |-> "success", att |-> mem[w][d].att + 1, due |-> FALSE]
             e == [Seen(w) EXCEPT !.fails = 0, !.recent = TRUE]
  <2>1. r \in Rows
    BY DEF TypeOK, Rows
  <2>2. e \in Points
    BY SeenPoint DEF Points
  <2>3. Written(w, d, r, "commit") /\ Flush(w, d) /\ epTx' = [epTx EXCEPT ![w] = e]
    BY <1>7 DEF Succeed
  <2> HIDE DEF r, e
  <2> QED BY <1>5, <1>6, <2>1, <2>2, <2>3 DEF TypeOK
<1>8. ASSUME NEW w \in Workers, NEW d \in Deliveries, Exhaust(w, d) PROVE TypeOK'
  <2> DEFINE r == [st |-> "failed", att |-> mem[w][d].att + 1, due |-> FALSE]
             e == [Seen(w) EXCEPT !.fails = @ + 1]
  <2>1. r \in Rows
    BY DEF TypeOK, Rows
  <2>2. e \in Points
    BY SeenPoint DEF Points
  <2>3. Written(w, d, r, "disable") /\ Flush(w, d) /\ epTx' = [epTx EXCEPT ![w] = e]
    BY <1>8 DEF Exhaust
  <2> HIDE DEF r, e
  <2> QED BY <1>5, <1>6, <2>1, <2>2, <2>3 DEF TypeOK
<1>9. ASSUME NEW w \in Workers, NEW d \in Deliveries, ScheduleRetry(w, d) PROVE TypeOK'
  <2> DEFINE r == [mem[w][d] EXCEPT !.att = @ + 1, !.due = FALSE]
  <2>1. r \in Rows
    <3>1. mem[w][d] \in Rows
      BY DEF TypeOK
    <3>2. \A m \in Rows, n \in Nat : [m EXCEPT !.att = n, !.due = FALSE] \in Rows
      BY DEF Rows
    <3>3. mem[w][d].att + 1 \in Nat
      BY <3>1 DEF Rows
    <3> QED BY <3>1, <3>2, <3>3
  <2>2. Written(w, d, r, "commit") /\ UNCHANGED <<lock, epTx>>
    BY <1>9 DEF ScheduleRetry
  <2> HIDE DEF r
  <2> QED BY <1>5, <2>1, <2>2 DEF TypeOK
<1>10. ASSUME NEW w \in Workers, NEW d \in Deliveries, CheckAutoDisable(w, d) PROVE TypeOK'
  <2>1. [Seen(w) EXCEPT !.st = "auto"] \in Points
    BY SeenPoint DEF Points
  <2>2. epTx' \in [Workers -> Points \cup {Nobody}]
    BY <1>10, <2>1 DEF TypeOK, CheckAutoDisable
  <2>3. at' \in [Workers -> [Deliveries -> Places]]
    BY <1>10 DEF TypeOK, CheckAutoDisable, Goto
  <2> QED BY <1>10, <2>2, <2>3 DEF TypeOK, CheckAutoDisable, ghosts
<1>11. ASSUME NEW w \in Workers, NEW d \in Deliveries, Finish(w, d)
       PROVE  /\ at' \in [Workers -> [Deliveries -> Places]] /\ mem' \in [Workers -> [Deliveries -> Rows]]
  <2>1. NoRow \in Rows
    BY DEF NoRow, Rows
  <2> QED BY <1>11, <2>1 DEF TypeOK, Finish, Goto
<1>12. ASSUME NEW w \in Workers, NEW d \in Deliveries, Commit(w, d) PROVE TypeOK'
  <2>1. \A c \in Deliveries : Stored(w, c) \in Rows
    <3>1. ASSUME NEW c \in Deliveries PROVE mem[w][c] \in Rows /\ row[c] \in Rows
      BY DEF TypeOK
    <3> QED BY <3>1 DEF Stored, Rows
  <2>2. row' \in [Deliveries -> Rows]
    BY <1>12, <2>1 DEF TypeOK, Commit
  <2>3. Finish(w, d) /\ ep' \in Points
    BY <1>12, SeenPoint DEF Commit
  <2>4. /\ dirty' \in [Workers -> SUBSET Deliveries] /\ epTx' \in [Workers -> Points \cup {Nobody}]
        /\ lock' \in [Deliveries -> Workers \cup {Nobody}]
    BY <1>12 DEF TypeOK, Commit
  <2> QED BY <1>11, <1>12, <2>2, <2>3, <2>4 DEF TypeOK, Commit, ghosts
<1>13. ASSUME NEW w \in Workers, Rollback(w)
       PROVE  /\ dirty' \in [Workers -> SUBSET Deliveries] /\ epTx' \in [Workers -> Points \cup {Nobody}]
              /\ lock' \in [Deliveries -> Workers \cup {Nobody}]
              /\ UNCHANGED <<row, ep, manual, posts, acked>>
  BY <1>13 DEF TypeOK, Rollback
<1>14. ASSUME NEW w \in Workers, NEW d \in Deliveries, Raise(w, d) \/ RaiseExpired(w, d) PROVE TypeOK'
  <2>1. Finish(w, d) /\ Rollback(w)
    BY <1>14 DEF Raise, RaiseExpired
  <2>2. expired' \in [Workers -> SUBSET Deliveries] /\ entangled' \in SUBSET Deliveries
    BY <1>14 DEF TypeOK, Raise, RaiseExpired, Active
  <2>3. faults' \in 0 .. MaxIncidents
    BY <1>14 DEF TypeOK, Raise, RaiseExpired, Inject, Incident
  <2> QED BY <1>11, <1>13, <2>1, <2>2, <2>3 DEF TypeOK
<1>15. ASSUME NEW w \in Workers, Crash(w) PROVE TypeOK'
  <2>1. Rollback(w) /\ UNCHANGED entangled
    BY <1>15 DEF Crash
  <2>2. at' \in [Workers -> [Deliveries -> Places]]
    BY <1>15 DEF TypeOK, Crash
  <2>3. NoRow \in Rows
    BY DEF NoRow, Rows
  <2>4. mem' \in [Workers -> [Deliveries -> Rows]] /\ expired' \in [Workers -> SUBSET Deliveries]
    BY <1>15, <2>3 DEF TypeOK, Crash
  <2>5. faults' \in 0 .. MaxIncidents
    BY <1>15 DEF TypeOK, Crash, Inject, Incident
  <2> QED BY <1>13, <2>1, <2>2, <2>4, <2>5 DEF TypeOK
<1> QED
  BY <1>1, <1>2, <1>3, <1>4, <1>7, <1>8, <1>9, <1>10, <1>12, <1>14, <1>15 DEF Next, Work, Deliver

LEMMA TenantEffect ==
    ASSUME Tenant \/ SuccessAges
    PROVE  UNCHANGED <<row, at, mem, dirty, epTx, expired, manual, posts, acked, entangled, faults>>
BY DEF Tenant, CreateEndpoint, UpdateEndpoint, DeleteEndpoint, SuccessAges, session, ghosts

LEMMA RowEffect ==
    ASSUME TypeOK, NEW d \in Deliveries, CreateDelivery(d) \/ RetryDelivery(d) \/ RetryComesDue(d)
    PROVE  /\ \A c \in Deliveries : c # d => row'[c] = row[c]
           /\ \/ row[d].st = "none" /\ row'[d].st = "pending" /\ row'[d].att = 0 /\ manual' = manual
              \/ /\ row[d].st = "failed" /\ row'[d].st = "pending" /\ row'[d].att = row[d].att
                 /\ manual' = manual + 1
              \/ /\ row[d].st = "pending" /\ row'[d].st = "pending" /\ row'[d].att = row[d].att
                 /\ manual' = manual
           /\ UNCHANGED <<ep, at, mem, dirty, epTx, expired, posts, acked, entangled, faults>>
<1>1. row[d] \in Rows
  BY DEF TypeOK
<1>2. CASE CreateDelivery(d)
  BY <1>2 DEF CreateDelivery, TypeOK, session, ghosts
<1>3. CASE RetryDelivery(d)
  BY <1>1, <1>3 DEF RetryDelivery, TypeOK, Rows, session, ghosts
<1>4. CASE RetryComesDue(d)
  BY <1>1, <1>4 DEF RetryComesDue, TypeOK, Rows, session, ghosts
<1> QED BY <1>2, <1>3, <1>4

\* Only a poll takes up rows, and what is entangled stays so.
Quiet == /\ \A v \in Workers, c \in Deliveries : at'[v][c] # "idle" => at[v][c] # "idle"
         /\ entangled \subseteq entangled'

LEMMA QuietStep ==
    ASSUME TypeOK, NEW w \in Workers, NEW d \in Deliveries, Deliver(w, d) \/ Raise(w, d)
    PROVE  Quiet
<1> USE DEF Quiet
<1>1. CASE Deliver(w, d)
  <2>1. CASE Post(w, d)
    BY <2>1, PostEffect DEF MovedTo
  <2>2. CASE Succeed(w, d) \/ Exhaust(w, d) \/ ScheduleRetry(w, d)
    <3>1. PICK l \in {"disable", "commit"} : MovedTo(w, d, l)
      BY <2>2, RecordEffect
    <3>2. at[w][d] # "idle" /\ entangled' = entangled
      BY <2>2, RecordEffect
    <3> QED BY <3>1, <3>2 DEF MovedTo
  <2>3. CASE CheckAutoDisable(w, d)
    BY <2>3, CheckEffect DEF MovedTo
  <2>4. CASE Commit(w, d)
    BY <2>4, CommitEffect DEF MovedTo
  <2>5. CASE RaiseExpired(w, d)
    BY <2>5, RaiseExpiredEffect DEF MovedTo
  <2> QED BY <1>1, <2>1, <2>2, <2>3, <2>4, <2>5 DEF Deliver
<1>2. CASE Raise(w, d)
  BY ZenonT(30), <1>2, RaiseEffect DEF MovedTo
<1> QED BY <1>1, <1>2

LEMMA CrashQuiet == ASSUME TypeOK, NEW w \in Workers, Crash(w) PROVE Quiet
BY CrashEffect DEF Quiet

LEMMA OnlyPollStarts ==
    ASSUME TypeOK, Next PROVE Quiet \/ \E w \in Workers : Poll(w)
<1>1. ASSUME Tenant \/ SuccessAges \/ \E d \in Deliveries : CreateDelivery(d) \/ RetryDelivery(d) \/ RetryComesDue(d)
      PROVE  Quiet
  BY <1>1, TenantEffect, RowEffect DEF Quiet
<1> QED BY <1>1, QuietStep, CrashQuiet DEF Next, Work

\* Two workers on a row is known to be so.
LEMMA AloneStep == ASSUME TypeOK, Alone, Next PROVE Alone'
<1>1. CASE Quiet
  BY <1>1 DEF Quiet, Alone, Active
<1>2. ASSUME NEW w \in Workers, Poll(w) PROVE Alone'
  BY <1>2, PollEffect DEF Alone, Active, Free
<1> QED BY <1>1, <1>2, OnlyPollStarts

\* A row exists before it is tried.
LEMMA CreatedStep == ASSUME TypeOK, SessionsKept, RowsCreated, AttemptLeft, Next PROVE RowsCreated'
<1>1. ASSUME NEW w \in Workers, Poll(w) PROVE RowsCreated'
  BY <1>1, PollEffect DEF RowsCreated, Free
<1>2. ASSUME NEW c \in Deliveries, row'[c].st = "none" PROVE row[c].st = "none" /\ row'[c].att = row[c].att
  <2>1. ASSUME NEW w \in Workers, NEW d \in Deliveries, Deliver(w, d) \/ Raise(w, d)
        PROVE  row[c].st = "none" /\ row'[c].att = row[c].att
    <3>1. CASE Commit(w, d)
      <4>1. row[c].st # "none" => row'[c].st # "none"
        BY <3>1, CommitEffect DEF AttemptLeft
      <4>2. c \in dirty[w] => at[w][c] # "idle"
        BY DEF SessionsKept, SessionKept
      <4> QED BY <1>2, <3>1, <4>1, <4>2, CommitEffect DEF RowsCreated
    <3>2. CASE Post(w, d) \/ Succeed(w, d) \/ Exhaust(w, d) \/ ScheduleRetry(w, d) \/ CheckAutoDisable(w, d)
      BY <1>2, <3>2, PostEffect, RecordEffect, CheckEffect
    <3>3. CASE Raise(w, d) \/ RaiseExpired(w, d)
      BY <1>2, <3>3, RaiseEffect, RaiseExpiredEffect
    <3> QED BY <2>1, <3>1, <3>2, <3>3 DEF Deliver
  <2>2. ASSUME NEW w \in Workers, Poll(w) \/ Crash(w) PROVE row[c].st = "none" /\ row'[c].att = row[c].att
    BY <1>2, <2>2, PollEffect, CrashEffect
  <2>3. ASSUME Tenant \/ SuccessAges \/ \E d \in Deliveries : CreateDelivery(d) \/ RetryDelivery(d) \/ RetryComesDue(d)
        PROVE  row[c].st = "none" /\ row'[c].att = row[c].att
    BY <1>2, <2>3, TenantEffect, RowEffect
  <2> QED BY <2>1, <2>2, <2>3 DEF Next, Work
<1>3. CASE Quiet
  BY <1>2, <1>3 DEF Quiet, RowsCreated
<1> QED BY <1>1, <1>3, OnlyPollStarts

\* A worker's step leaves the sessions of the others alone.
LEMMA Aside ==
    ASSUME TypeOK, NEW w \in Workers, NEW d \in Deliveries, Deliver(w, d) \/ Raise(w, d),
           NEW v \in Workers, v # w
    PROVE  /\ \A c \in Deliveries : at'[v][c] = at[v][c] /\ mem'[v][c] = mem[v][c]
           /\ dirty'[v] = dirty[v] /\ epTx'[v] = epTx[v] /\ expired'[v] = expired[v]
           /\ entangled \subseteq entangled' /\ (faults' = faults \/ faults' = faults + 1)
<1> DEFINE Same == \A c \in Deliveries : at'[v][c] = at[v][c] /\ mem'[v][c] = mem[v][c]
           Rest == /\ dirty'[v] = dirty[v] /\ epTx'[v] = epTx[v] /\ expired'[v] = expired[v]
                   /\ entangled \subseteq entangled' /\ (faults' = faults \/ faults' = faults + 1)
<1>1. ASSUME NEW l, NEW r, MovedTo(w, d, l), Keeps(w, d, r) PROVE Same
  BY <1>1 DEF MovedTo, Keeps
<1>2. ASSUME NEW l, MovedTo(w, d, l), mem' = mem PROVE Same
  BY <1>2 DEF MovedTo
<1>3. ASSUME NEW D, NEW e, NEW X, Wrote(w, D), Endpoint(w, e), Expires(w, X) \/ expired' = expired
      PROVE  dirty'[v] = dirty[v] /\ epTx'[v] = epTx[v] /\ expired'[v] = expired[v]
  BY <1>3 DEF Wrote, Endpoint, Expires
<1>4. CASE Post(w, d)
  <2>1. Same
    BY <1>2, <1>4, PostEffect
  <2> QED BY <1>4, <2>1, PostEffect
<1>5. CASE Succeed(w, d) \/ Exhaust(w, d) \/ ScheduleRetry(w, d)
  <2>1. epTx'[v] = epTx[v]
    BY <1>5 DEF Succeed, Exhaust, ScheduleRetry, TypeOK
  <2>2. PICK l \in {"disable", "commit"} : MovedTo(w, d, l)
    BY <1>5, RecordEffect
  <2>3. PICK r \in Rows : Keeps(w, d, r)
    BY <1>5, RecordEffect
  <2>4. Same
    BY <1>1, <2>2, <2>3
  <2>5. Wrote(w, dirty[w] \cup {d}) /\ UNCHANGED <<expired, entangled, faults>>
    BY <1>5, RecordEffect
  <2> QED BY <2>1, <2>4, <2>5 DEF Wrote
<1>6. CASE CheckAutoDisable(w, d)
  <2>1. Same
    BY <1>2, <1>6, CheckEffect
  <2> QED BY <1>6, <2>1, CheckEffect
<1>7. CASE Commit(w, d)
  <2>1. Same
    BY <1>1, <1>7, CommitEffect
  <2>2. Wrote(w, {}) /\ Endpoint(w, Nobody) /\ UNCHANGED <<expired, entangled, faults>>
    BY <1>7, CommitEffect
  <2> QED BY <1>3, <2>1, <2>2
<1>8. CASE RaiseExpired(w, d)
  <2>1. Same
    BY <1>1, <1>8, RaiseExpiredEffect
  <2>2. Wrote(w, {}) /\ Endpoint(w, Nobody) /\ Expires(w, expired[w] \ {d}) /\ UNCHANGED <<entangled, faults>>
    BY <1>8, RaiseExpiredEffect
  <2> QED BY <1>3, <2>1, <2>2
<1>9. CASE Raise(w, d)
  <2>1. Same
    BY <1>1, <1>9, RaiseEffect
  <2>2. /\ Wrote(w, {}) /\ Endpoint(w, Nobody) /\ Expires(w, Active(w) \ {d})
        /\ entangled \subseteq entangled' /\ (faults' = faults \/ faults' = faults + 1)
    BY <1>9, RaiseEffect
  <2> QED BY <1>3, <2>1, <2>2
<1> QED BY <1>4, <1>5, <1>6, <1>7, <1>8, <1>9 DEF Deliver

LEMMA CrashAside ==
    ASSUME TypeOK, NEW w \in Workers, Crash(w), NEW v \in Workers, v # w
    PROVE  /\ \A c \in Deliveries : at'[v][c] = at[v][c] /\ mem'[v][c] = mem[v][c]
           /\ dirty'[v] = dirty[v] /\ epTx'[v] = epTx[v] /\ expired'[v] = expired[v]
           /\ entangled \subseteq entangled' /\ (faults' = faults \/ faults' = faults + 1)
BY CrashEffect DEF Expires, Wrote, Endpoint

\* A transaction holds what its coroutines have written, and a rollback spares nobody.
LEMMA SessionsStep == ASSUME TypeOK, SessionsKept, Next PROVE SessionsKept'
<1>1. ASSUME Tenant \/ SuccessAges \/ \E d \in Deliveries : CreateDelivery(d) \/ RetryDelivery(d) \/ RetryComesDue(d)
      PROVE  SessionsKept'
  <2>1. UNCHANGED <<at, dirty, epTx, expired, entangled, faults>>
    BY <1>1, TenantEffect, RowEffect
  <2> QED BY <2>1 DEF SessionsKept, SessionKept, Active
<1>2. ASSUME NEW w \in Workers, Poll(w) PROVE SessionsKept'
  <2>1. /\ \A c \in Deliveries : at[w][c] = "idle"
        /\ \A v \in Workers : v # w => \A c \in Deliveries : at'[v][c] = at[v][c]
        /\ entangled \subseteq entangled' /\ UNCHANGED <<dirty, epTx, expired, faults>>
    BY <1>2, PollEffect
  <2>2. expired[w] = {} /\ dirty[w] = {}
    <3>1. Active(w) = {}
      BY <2>1 DEF Active
    <3>2. dirty[w] \subseteq Deliveries /\ SessionKept(w)
      BY DEF TypeOK, SessionsKept
    <3> QED BY <2>1, <3>1, <3>2 DEF SessionKept
  <2>3. ASSUME NEW v \in Workers, v # w PROVE Active(v)' = Active(v)
    BY <2>1, <2>3 DEF Active
  <2> QED BY <2>1, <2>2, <2>3 DEF SessionsKept, SessionKept, TypeOK
<1>3. ASSUME NEW w \in Workers, NEW d \in Deliveries, Deliver(w, d) \/ Raise(w, d), NEW v \in Workers, v # w
      PROVE  SessionKept(v)'
  <2>1. /\ \A c \in Deliveries : at'[v][c] = at[v][c]
        /\ dirty'[v] = dirty[v] /\ epTx'[v] = epTx[v] /\ expired'[v] = expired[v]
        /\ entangled \subseteq entangled' /\ (faults' = faults \/ faults' = faults + 1)
    BY <1>3, Aside
  <2>2. Active(v)' = Active(v)
    BY <2>1 DEF Active
  <2> QED BY <2>1, <2>2 DEF SessionsKept, SessionKept, TypeOK
<1>4. ASSUME NEW w \in Workers, NEW d \in Deliveries, Deliver(w, d) \/ Raise(w, d) PROVE SessionKept(w)'
  <2>1. ASSUME NEW l \in {"answered", "refused", "disable", "commit"}, MovedTo(w, d, l), at[w][d] # "idle"
        PROVE  Active(w)' = Active(w)
    BY <2>1 DEF MovedTo, Active
  <2>2. ASSUME MovedTo(w, d, "idle") PROVE Active(w)' = Active(w) \ {d}
    BY <2>2 DEF MovedTo, Active
  <2>3. SessionKept(w)
    BY DEF SessionsKept
  <2>4. CASE Post(w, d)
    <3>1. PICK l \in {"answered", "refused"} : MovedTo(w, d, l)
      BY <2>4, PostEffect
    <3>2. at[w][d] = "send" /\ UNCHANGED <<dirty, epTx, expired, entangled, faults>>
      BY <2>4, PostEffect
    <3>3. Active(w)' = Active(w)
      BY <2>1, <3>1, <3>2
    <3> QED BY <2>3, <3>1, <3>2, <3>3 DEF SessionKept, MovedTo, TypeOK
  <2>5. CASE Succeed(w, d) \/ Exhaust(w, d) \/ ScheduleRetry(w, d)
    <3>1. PICK l \in {"disable", "commit"} : MovedTo(w, d, l)
      BY <2>5, RecordEffect
    <3>2. /\ at[w][d] \in {"answered", "refused"} /\ d \notin expired[w] /\ dirty'[w] = dirty[w] \cup {d}
          /\ expired' = expired
      BY <2>5, RecordEffect DEF Wrote
    <3>3. expired[w] = {}
      BY <2>3, <3>2 DEF SessionKept, Active
    <3> QED BY <2>3, <3>1, <3>2, <3>3 DEF SessionKept, MovedTo, TypeOK
  <2>6. CASE CheckAutoDisable(w, d)
    <3>1. /\ at[w][d] = "disable" /\ d \notin expired[w] /\ MovedTo(w, d, "commit")
          /\ UNCHANGED <<dirty, expired, entangled, faults>>
      BY <2>6, CheckEffect
    <3>2. expired[w] = {}
      BY <2>3, <3>1 DEF SessionKept, Active
    <3> QED BY <2>3, <3>1, <3>2 DEF SessionKept, MovedTo, TypeOK
  <2>7. CASE Commit(w, d)
    <3>1. at[w][d] = "commit" /\ d \notin expired[w] /\ dirty'[w] = {} /\ expired' = expired
      BY <2>7, CommitEffect DEF Wrote
    <3>2. expired[w] = {}
      BY <2>3, <3>1 DEF SessionKept, Active
    <3> QED BY <3>1, <3>2 DEF SessionKept
  <2>8. CASE RaiseExpired(w, d)
    <3>1. /\ d \in expired[w] /\ MovedTo(w, d, "idle") /\ expired'[w] = expired[w] \ {d}
          /\ dirty'[w] = {} /\ epTx'[w] = Nobody /\ UNCHANGED <<entangled, faults>>
      BY <2>8, RaiseExpiredEffect DEF Expires, Wrote, Endpoint
    <3>2. Active(w)' = expired'[w]
      BY <2>2, <2>3, <3>1 DEF SessionKept
    <3> QED BY <2>3, <3>1, <3>2 DEF SessionKept
  <2>9. CASE Raise(w, d)
    <3>1. /\ MovedTo(w, d, "idle") /\ expired'[w] = Active(w) \ {d} /\ dirty'[w] = {} /\ epTx'[w] = Nobody
          /\ faults' = faults + 1 \/ entangled' = entangled \cup Active(w)
      BY <2>9, RaiseEffect DEF Expires, Wrote, Endpoint
    <3> QED BY <2>2, <3>1 DEF SessionKept, TypeOK
  <2> QED BY <1>4, <2>4, <2>5, <2>6, <2>7, <2>8, <2>9 DEF Deliver
<1>5. ASSUME NEW w \in Workers, Crash(w) PROVE SessionsKept'
  <2>1. expired'[w] = {} /\ dirty'[w] = {}
    BY <1>5, CrashEffect DEF Expires, Wrote
  <2>2. ASSUME NEW v \in Workers, v # w PROVE SessionKept(v)'
    <3>1. /\ \A c \in Deliveries : at'[v][c] = at[v][c]
          /\ dirty'[v] = dirty[v] /\ epTx'[v] = epTx[v] /\ expired'[v] = expired[v]
          /\ entangled \subseteq entangled' /\ (faults' = faults \/ faults' = faults + 1)
      BY <1>5, <2>2, CrashAside
    <3>2. Active(v)' = Active(v)
      BY <3>1 DEF Active
    <3> QED BY <3>1, <3>2 DEF SessionsKept, SessionKept, TypeOK
  <2> QED BY <2>1, <2>2 DEF SessionsKept, SessionKept
<1> QED BY <1>1, <1>2, <1>3, <1>4, <1>5 DEF Next, Work, SessionsKept

\* Only the row's own steps and the commits of those who have written it change a row.
LEMMA RowSteady ==
    ASSUME TypeOK, NEW w \in Workers, NEW d \in Deliveries, Deliver(w, d) \/ Raise(w, d) \/ Crash(w),
           NEW c \in Deliveries, c \notin dirty[w] \/ ~Commit(w, d)
    PROVE  row'[c] = row[c]
<1>1. CASE Crash(w)
  BY <1>1, CrashEffect
<1>2. CASE Commit(w, d)
  BY <1>2, CommitEffect
<1>3. CASE Post(w, d) \/ Succeed(w, d) \/ Exhaust(w, d) \/ ScheduleRetry(w, d) \/ CheckAutoDisable(w, d)
  BY <1>3, PostEffect, RecordEffect, CheckEffect
<1>4. CASE RaiseExpired(w, d) \/ Raise(w, d)
  BY <1>4, RaiseExpiredEffect, RaiseEffect
<1> QED BY <1>1, <1>2, <1>3, <1>4 DEF Deliver

\* Nobody else changes a row under a coroutine, unless the row is entangled.
LEMMA FreshStep == ASSUME TypeOK, Alone, SessionsKept, RowsFresh, Next PROVE RowsFresh'
<1> SUFFICES ASSUME NEW v \in Workers, NEW c \in Deliveries, c \notin expired'[v] \cup entangled'
             PROVE  RowFresh(v, c)'
  BY DEF RowsFresh
<1>1. CASE Tenant \/ SuccessAges
  BY <1>1, TenantEffect DEF RowsFresh, RowFresh
<1>2. ASSUME NEW d \in Deliveries, CreateDelivery(d) \/ RetryDelivery(d) \/ RetryComesDue(d) PROVE RowFresh(v, c)'
  BY <1>2, RowEffect DEF RowsFresh, RowFresh
<1>3. ASSUME NEW w \in Workers, Poll(w) PROVE RowFresh(v, c)'
  <2>1. PICK S \in SUBSET Free :
          /\ \A e \in Deliveries : at[w][e] = "idle"
          /\ \A u \in Workers, e \in Deliveries :
               at'[u][e] = IF u = w /\ e \in S THEN "send" ELSE at[u][e]
          /\ \A u \in Workers, e \in Deliveries :
               mem'[u][e] = IF u = w THEN IF e \in S THEN row[e] ELSE NoRow ELSE mem[u][e]
          /\ entangled \subseteq entangled'
          /\ \A e \in S \ entangled', u \in Workers : at[u][e] = "idle"
          /\ UNCHANGED <<row, dirty, expired>>
    BY <1>3, PollEffect
  <2>2. CASE v # w
    BY <2>1, <2>2 DEF RowsFresh, RowFresh
  <2>3. CASE v = w
    <3>1. c \notin dirty'[v]
      BY <2>1, <2>3 DEF SessionsKept, SessionKept
    <3>2. at'[v][c] \in Unwritten => c \in S
      BY <2>1, <2>3 DEF Unwritten
    <3> QED BY <2>1, <2>3, <3>1, <3>2 DEF RowFresh, Free
  <2> QED BY <2>2, <2>3
<1>4. ASSUME NEW w \in Workers, NEW d \in Deliveries, Deliver(w, d) \/ Raise(w, d), v # w PROVE RowFresh(v, c)'
  <2>1. /\ at'[v][c] = at[v][c] /\ mem'[v][c] = mem[v][c] /\ dirty'[v] = dirty[v]
        /\ c \notin expired[v] \cup entangled
    BY <1>4, Aside
  <2>2. at'[v][c] \in Unwritten \/ c \in dirty'[v] => c \in Active(v)
    BY <2>1 DEF Unwritten, Active, SessionsKept, SessionKept
  <2>3. c \in dirty[w] => c \in Active(w)
    BY DEF Active, SessionsKept, SessionKept
  <2>4. at'[v][c] \in Unwritten \/ c \in dirty'[v] => row'[c] = row[c]
    BY <1>4, <2>1, <2>2, <2>3, RowSteady DEF Alone
  <2> QED BY <2>1, <2>4 DEF RowsFresh, RowFresh
<1>5. ASSUME NEW d \in Deliveries, Deliver(v, d) \/ Raise(v, d) PROVE RowFresh(v, c)'
  <2>1. CASE Post(v, d)
    <3>1. at[v][d] = "send" /\ UNCHANGED <<row, mem, dirty, expired, entangled>>
      BY <2>1, PostEffect
    <3>2. PICK l : MovedTo(v, d, l)
      BY <2>1, PostEffect
    <3>3. at'[v][c] \in Unwritten => at[v][c] \in Unwritten
      BY <3>1, <3>2 DEF MovedTo, Unwritten
    <3> QED BY <3>1, <3>3 DEF RowsFresh, RowFresh
  <2>2. CASE Succeed(v, d) \/ Exhaust(v, d) \/ ScheduleRetry(v, d)
    <3>1. PICK l \in {"disable", "commit"} : MovedTo(v, d, l)
      BY <2>2, RecordEffect
    <3>2. PICK r \in Rows : Keeps(v, d, r)
      BY <2>2, RecordEffect
    <3>3. at[v][d] \in Unwritten /\ dirty'[v] = dirty[v] \cup {d} /\ UNCHANGED <<row, expired, entangled>>
      <4>1. at[v][d] \in {"answered", "refused"} /\ Wrote(v, dirty[v] \cup {d}) /\ UNCHANGED <<row, expired, entangled>>
        BY <2>2, RecordEffect
      <4> QED BY <4>1 DEF Wrote, Unwritten
    <3>4. CASE c = d
      <4>1. at'[v][c] \notin Unwritten
        BY <3>1, <3>4 DEF MovedTo, Unwritten
      <4>2. row[d].st = "pending" /\ mem[v][d].att = row[d].att
        BY <3>3, <3>4 DEF RowsFresh, RowFresh
      <4>3. mem'[v][d].att = mem[v][d].att + 1
        BY <2>2, RecordEffect
      <4> QED BY <3>3, <3>4, <4>1, <4>2, <4>3 DEF RowFresh
    <3>5. CASE c # d
      <4>1. at'[v][c] = at[v][c] /\ mem'[v][c] = mem[v][c]
        BY <3>1, <3>2, <3>5 DEF MovedTo, Keeps
      <4> QED BY <3>3, <3>5, <4>1 DEF RowsFresh, RowFresh
    <3> QED BY <3>4, <3>5
  <2>3. CASE CheckAutoDisable(v, d)
    <3>1. UNCHANGED <<row, mem, dirty, expired, entangled>>
      BY <2>3, CheckEffect
    <3>2. at'[v][c] \in Unwritten => at[v][c] \in Unwritten
      BY <2>3, CheckEffect DEF MovedTo, Unwritten
    <3> QED BY <3>1, <3>2 DEF RowsFresh, RowFresh
  <2>4. CASE Commit(v, d)
    <3>1. dirty'[v] = {} /\ UNCHANGED <<expired, entangled>>
      BY <2>4, CommitEffect DEF Wrote
    <3>2. at'[v][c] \in Unwritten => at[v][c] \in Unwritten /\ mem'[v][c] = mem[v][c]
      BY <2>4, CommitEffect DEF MovedTo, Keeps, Unwritten
    <3>3. at[v][c] \in Unwritten => row'[c] = row[c]
      <4>1. at[v][c] \in Unwritten => c \notin dirty[v]
        BY DEF SessionsKept, SessionKept, Unwritten
      <4> QED BY <2>4, <4>1, CommitEffect
    <3> QED BY <3>1, <3>2, <3>3 DEF RowsFresh, RowFresh
  <2>5. CASE Raise(v, d) \/ RaiseExpired(v, d)
    <3>1. dirty'[v] = {} /\ MovedTo(v, d, "idle")
      BY <2>5, RaiseEffect, RaiseExpiredEffect DEF Wrote
    <3>2. expired'[v] = Active(v) \ {d}
      <4>1. d \in expired[v] => expired[v] = Active(v)
        BY DEF SessionsKept, SessionKept
      <4> QED BY <2>5, <4>1, RaiseEffect, RaiseExpiredEffect DEF Expires
    <3>3. at'[v][c] \notin Unwritten
      BY <3>1, <3>2 DEF MovedTo, Active, Unwritten
    <3> QED BY <3>1, <3>3 DEF RowFresh
  <2> QED BY <1>5, <2>1, <2>2, <2>3, <2>4, <2>5 DEF Deliver
<1>6. ASSUME NEW w \in Workers, Crash(w) PROVE RowFresh(v, c)'
  <2>1. CASE v # w
    <3>1. at'[v][c] = at[v][c] /\ mem'[v][c] = mem[v][c] /\ dirty'[v] = dirty[v] /\ c \notin expired[v] \cup entangled
      BY <1>6, <2>1, CrashAside
    <3>2. row' = row
      BY <1>6, CrashEffect
    <3> QED BY <3>1, <3>2 DEF RowsFresh, RowFresh
  <2>2. CASE v = w
    BY <1>6, <2>2, CrashEffect DEF Wrote, RowFresh, Unwritten
  <2> QED BY <2>1, <2>2
<1> QED BY <1>1, <1>2, <1>3, <1>4, <1>5, <1>6 DEF Next, Work

LEMMA Numbers ==
    ASSUME TypeOK
    PROVE  /\ manual \in Nat /\ faults \in Nat
           /\ \A d \in Deliveries : row[d].att \in Nat /\ posts[d] \in Nat
           /\ \A w \in Workers, d \in Deliveries : mem[w][d].att \in Nat
<1>1. ASSUME NEW d \in Deliveries PROVE row[d].att \in Nat /\ posts[d] \in Nat
  <2>1. row[d] \in Rows /\ posts[d] \in Nat
    BY DEF TypeOK
  <2> QED BY <2>1 DEF Rows
<1>2. ASSUME NEW w \in Workers, NEW d \in Deliveries PROVE mem[w][d].att \in Nat
  <2>1. mem[w][d] \in Rows
    BY DEF TypeOK
  <2> QED BY <2>1 DEF Rows
<1> QED BY <1>1, <1>2 DEF TypeOK

\* A worker records an attempt only if one is left, whoever else has worked on the row.
LEMMA AttemptStep ==
    ASSUME TypeOK, SessionsKept, AttemptsBounded, AttemptLeft, Next
    PROVE  AttemptsBounded' /\ AttemptLeft'
<1> DEFINE RowBound(c) == /\ row[c].att <= MaxAttempts + manual
                          /\ row[c].st = "pending" => row[c].att < MaxAttempts + manual
           Bound(v, c) ==
             /\ at[v][c] \in Unwritten => mem[v][c].st = "pending" /\ mem[v][c].att < MaxAttempts + manual
             /\ c \in dirty[v] => /\ mem[v][c].st # "none" /\ mem[v][c].att <= MaxAttempts + manual
                                  /\ mem[v][c].st = "pending" => mem[v][c].att < MaxAttempts
<1>1. \A c \in Deliveries : RowBound(c)
  BY DEF AttemptsBounded, AttemptLeft
<1>2. \A v \in Workers, c \in Deliveries : Bound(v, c)
  BY DEF AttemptLeft
<1>3. ASSUME NEW c \in Deliveries PROVE RowBound(c)'
  <2>1. CASE Tenant \/ SuccessAges
    BY <1>1, <2>1, TenantEffect
  <2>2. ASSUME NEW d \in Deliveries, CreateDelivery(d) \/ RetryDelivery(d) \/ RetryComesDue(d) PROVE RowBound(c)'
    BY <1>1, <2>2, RowEffect, Numbers
  <2>3. ASSUME NEW w \in Workers, Poll(w) \/ Crash(w) PROVE RowBound(c)'
    BY <1>1, <2>3, PollEffect, CrashEffect
  <2>4. ASSUME NEW w \in Workers, NEW d \in Deliveries, Deliver(w, d) \/ Raise(w, d) PROVE RowBound(c)'
    <3>1. manual' = manual
      BY <2>4, PostEffect, RecordEffect, CheckEffect, CommitEffect, RaiseEffect, RaiseExpiredEffect DEF Deliver
    <3>2. CASE c \notin dirty[w] \/ ~Commit(w, d)
      BY <1>1, <2>4, <3>1, <3>2, RowSteady
    <3>3. CASE c \in dirty[w] /\ Commit(w, d)
      BY <1>1, <1>2, <3>1, <3>3, CommitEffect, Numbers
    <3> QED BY <3>2, <3>3
  <2> QED BY <2>1, <2>2, <2>3, <2>4 DEF Next, Work
<1>4. ASSUME NEW v \in Workers, NEW c \in Deliveries PROVE Bound(v, c)'
  <2>1. CASE Tenant \/ SuccessAges
    BY <1>2, <2>1, TenantEffect
  <2>2. ASSUME NEW d \in Deliveries, CreateDelivery(d) \/ RetryDelivery(d) \/ RetryComesDue(d) PROVE Bound(v, c)'
    BY <1>2, <2>2, RowEffect, Numbers
  <2>3. ASSUME NEW w \in Workers, Poll(w) PROVE Bound(v, c)'
    <3>1. CASE v # w
      BY <1>2, <2>3, <3>1, PollEffect
    <3>2. CASE v = w
      <4>1. c \notin dirty'[v]
        BY <2>3, <3>2, PollEffect DEF SessionsKept, SessionKept
      <4>2. at'[v][c] \in Unwritten => mem'[v][c] = row[c] /\ row[c].st = "pending" /\ manual' = manual
        BY <2>3, <3>2, PollEffect DEF Unwritten, Free
      <4> QED BY <1>1, <4>1, <4>2
    <3> QED BY <3>1, <3>2
  <2>4. ASSUME NEW w \in Workers, NEW d \in Deliveries, Deliver(w, d) \/ Raise(w, d) PROVE manual' = manual
    BY <2>4, PostEffect, RecordEffect, CheckEffect, CommitEffect, RaiseEffect, RaiseExpiredEffect DEF Deliver
  <2>5. ASSUME NEW w \in Workers, NEW d \in Deliveries, Deliver(w, d) \/ Raise(w, d), v # w PROVE Bound(v, c)'
    BY <1>2, <2>4, <2>5, Aside
  <2>6. ASSUME NEW w \in Workers, Crash(w) PROVE Bound(v, c)'
    <3>1. manual' = manual
      BY <2>6, CrashEffect
    <3>2. CASE v # w
      BY <1>2, <2>6, <3>1, <3>2, CrashAside
    <3>3. CASE v = w
      BY <2>6, <3>3, CrashEffect DEF Unwritten, Wrote
    <3> QED BY <3>2, <3>3
  <2>7. ASSUME NEW d \in Deliveries, Post(v, d) \/ CheckAutoDisable(v, d) PROVE Bound(v, c)'
    <3>1. /\ at'[v][c] \in Unwritten => at[v][c] \in Unwritten
          /\ UNCHANGED <<mem, dirty, manual>>
      BY <2>7, PostEffect, CheckEffect DEF MovedTo, Unwritten
    <3> QED BY <1>2, <3>1
  <2>8. ASSUME NEW d \in Deliveries, Succeed(v, d) \/ Exhaust(v, d) \/ ScheduleRetry(v, d) PROVE Bound(v, c)'
    <3>1. PICK l \in {"disable", "commit"} : MovedTo(v, d, l)
      BY <2>8, RecordEffect
    <3>2. PICK r \in Rows : Keeps(v, d, r)
      BY <2>8, RecordEffect
    <3>3. at[v][d] \in {"answered", "refused"} /\ Wrote(v, dirty[v] \cup {d}) /\ UNCHANGED manual
      BY <2>8, RecordEffect
    <3>4. CASE c = d
      <4>1. at'[v][c] \notin Unwritten
        BY <3>1, <3>4 DEF MovedTo, Unwritten
      <4>2. mem[v][d].st = "pending" /\ mem[v][d].att < MaxAttempts + manual
        BY <1>2, <3>3 DEF Unwritten
      <4>3. /\ mem'[v][d].att = mem[v][d].att + 1
            /\ mem'[v][d].st = "pending" => mem'[v][d].att < MaxAttempts
            /\ mem'[v][d].st \in {"success", "failed", mem[v][d].st}
        BY <2>8, RecordEffect
      <4> QED BY <3>3, <3>4, <4>1, <4>2, <4>3, Numbers
    <3>5. CASE c # d
      <4>1. at'[v][c] = at[v][c] /\ mem'[v][c] = mem[v][c]
        BY <3>1, <3>2, <3>5 DEF MovedTo, Keeps
      <4>2. c \in dirty'[v] <=> c \in dirty[v]
        BY <3>3, <3>5 DEF Wrote
      <4> QED BY <1>2, <3>3, <4>1, <4>2
    <3> QED BY <3>4, <3>5
  <2>9. ASSUME NEW d \in Deliveries, Commit(v, d) \/ Raise(v, d) \/ RaiseExpired(v, d) PROVE Bound(v, c)'
    <3>1. MovedTo(v, d, "idle") /\ Keeps(v, d, NoRow) /\ Wrote(v, {}) /\ UNCHANGED manual
      BY <2>9, CommitEffect, RaiseEffect, RaiseExpiredEffect
    <3>2. at'[v][c] \in Unwritten => at[v][c] \in Unwritten /\ mem'[v][c] = mem[v][c]
      BY <3>1 DEF MovedTo, Keeps, Unwritten
    <3> QED BY <1>2, <3>1, <3>2 DEF Wrote
  <2> QED BY <2>1, <2>2, <2>3, <2>5, <2>6, <2>7, <2>8, <2>9 DEF Next, Work, Deliver
<1> QED BY <1>3, <1>4 DEF AttemptsBounded, AttemptLeft

\* One coroutine's account over one step of its worker.
LEMMA Account ==
    ASSUME TypeOK, SessionsKept, RowsFresh, NEW w \in Workers, NEW d \in Deliveries, Deliver(w, d) \/ Raise(w, d),
           NEW c \in Deliveries, c \notin entangled', at[w][c] # "idle",
           posts[c] <= row[c].att + faults + Owed(w, c)
    PROVE  /\ at'[w][c] = "idle" => posts'[c] <= row'[c].att + faults'
           /\ at'[w][c] # "idle" => posts'[c] <= row'[c].att + faults' + Owed(w, c)'
<1>1. c \in dirty[w] => at[w][c] \in {"disable", "commit"} /\ c \notin expired[w]
  BY DEF SessionsKept, SessionKept
<1>2. CASE Post(w, d)
  <2>1. PICK l \in {"answered", "refused"} : MovedTo(w, d, l)
    BY <1>2, PostEffect
  <2>2. /\ at[w][d] = "send" /\ UNCHANGED <<row, dirty, expired, entangled, faults>>
        /\ posts'[c] = IF c = d /\ d \notin entangled THEN posts[c] + 1 ELSE posts[c]
    BY <1>2, PostEffect
  <2>3. CASE c = d
    <3>1. at'[w][c] = l
      BY <2>1, <2>3 DEF MovedTo
    <3>2. Owed(w, c)' = Owed(w, c) + 1
      BY <1>1, <2>2, <2>3, <3>1 DEF Owed
    <3>3. Owed(w, c) \in {-1, 0, 1}
      BY DEF Owed
    <3> QED BY <2>2, <2>3, <3>1, <3>2, <3>3, Numbers
  <2>4. CASE c # d
    <3>1. at'[w][c] = at[w][c]
      BY <2>1, <2>4 DEF MovedTo
    <3> QED BY <2>2, <2>4, <3>1 DEF Owed
  <2> QED BY <2>3, <2>4
<1>3. CASE Succeed(w, d) \/ Exhaust(w, d) \/ ScheduleRetry(w, d)
  <2>1. PICK l \in {"disable", "commit"} : MovedTo(w, d, l)
    BY <1>3, RecordEffect
  <2>2. /\ at[w][d] \in {"answered", "refused"} /\ d \notin expired[w] /\ Wrote(w, dirty[w] \cup {d})
        /\ UNCHANGED <<row, expired, posts, faults>>
    BY <1>3, RecordEffect
  <2>3. Owed(w, c)' = Owed(w, c) /\ at'[w][c] # "idle"
    <3>1. CASE c = d
      BY <2>1, <2>2, <3>1 DEF Owed, MovedTo, Wrote
    <3>2. CASE c # d
      <4>1. at'[w][c] = at[w][c] /\ (c \in dirty'[w] <=> c \in dirty[w])
        BY <2>1, <2>2, <3>2 DEF MovedTo, Wrote
      <4> QED BY <2>2, <4>1 DEF Owed
    <3> QED BY <3>1, <3>2
  <2> QED BY <2>2, <2>3
<1>4. CASE CheckAutoDisable(w, d)
  <2>1. at[w][d] = "disable" /\ MovedTo(w, d, "commit") /\ UNCHANGED <<row, dirty, expired, posts, faults>>
    BY <1>4, CheckEffect
  <2>2. Owed(w, c)' = Owed(w, c) /\ at'[w][c] # "idle"
    <3>1. CASE c = d
      BY <2>1, <3>1 DEF Owed, MovedTo
    <3>2. CASE c # d
      <4>1. at'[w][c] = at[w][c]
        BY <2>1, <3>2 DEF MovedTo
      <4> QED BY <2>1, <4>1 DEF Owed
    <3> QED BY <3>1, <3>2
  <2> QED BY <2>1, <2>2
<1>5. CASE Commit(w, d)
  <2>1. /\ at[w][d] = "commit" /\ d \notin expired[w] /\ MovedTo(w, d, "idle") /\ dirty'[w] = {}
        /\ UNCHANGED <<expired, posts, entangled, faults>>
    BY <1>5, CommitEffect DEF Wrote
  <2>2. at'[w][c] = IF c = d THEN "idle" ELSE at[w][c]
    BY <2>1 DEF MovedTo
  <2>3. CASE c \in dirty[w]
    <3>1. row'[c].att = row[c].att + 1
      BY <1>1, <1>5, <2>1, <2>3, CommitEffect DEF RowsFresh, RowFresh
    <3>2. Owed(w, c) = 1
      BY <1>1, <2>3 DEF Owed
    <3>3. at'[w][c] # "idle" => Owed(w, c)' = 0
      BY <1>1, <2>1, <2>2, <2>3 DEF Owed
    <3> QED BY <2>1, <3>1, <3>2, <3>3, Numbers
  <2>4. CASE c \notin dirty[w]
    <3>1. row'[c] = row[c]
      BY <1>5, <2>4, CommitEffect
    <3>2. CASE c = d
      <4>1. Owed(w, c) = 0
        BY <2>1, <2>4, <3>2 DEF Owed
      <4> QED BY <2>1, <2>2, <3>1, <3>2, <4>1, Numbers
    <3>3. CASE c # d
      <4>1. Owed(w, c)' = Owed(w, c)
        BY <2>1, <2>2, <2>4, <3>3 DEF Owed
      <4> QED BY <2>1, <2>2, <3>1, <3>3, <4>1
    <3> QED BY <3>2, <3>3
  <2> QED BY <2>3, <2>4
<1>6. CASE RaiseExpired(w, d)
  <2>1. /\ at[w][d] # "send" /\ d \in expired[w] /\ MovedTo(w, d, "idle") /\ expired'[w] = expired[w] \ {d}
        /\ UNCHANGED <<row, posts, faults>>
    BY <1>6, RaiseExpiredEffect DEF Expires
  <2>2. at'[w][c] = IF c = d THEN "idle" ELSE at[w][c]
    BY <2>1 DEF MovedTo
  <2>3. c \in expired[w]
    BY <2>1 DEF SessionsKept, SessionKept, Active
  <2>4. CASE c = d
    <3>1. Owed(w, c) = 0
      BY <2>1, <2>4 DEF Owed
    <3> QED BY <2>1, <2>2, <2>4, <3>1, Numbers
  <2>5. CASE c # d
    <3>1. Owed(w, c)' = Owed(w, c)
      BY <2>1, <2>2, <2>3, <2>5 DEF Owed
    <3> QED BY <2>1, <2>2, <2>5, <3>1
  <2> QED BY <2>4, <2>5
<1>7. CASE Raise(w, d)
  <2>1. /\ d \notin expired[w] /\ at[w][d] # "idle" /\ MovedTo(w, d, "idle") /\ expired'[w] = Active(w) \ {d}
        /\ UNCHANGED <<row, posts>>
        /\ faults' = faults + 1 \/ entangled' = entangled \cup Active(w)
    BY <1>7, RaiseEffect DEF Expires
  <2>2. at'[w][c] = IF c = d THEN "idle" ELSE at[w][c]
    BY <2>1 DEF MovedTo
  <2>3. faults' = faults + 1
    BY <2>1 DEF Active
  <2>4. c \notin expired[w]
    BY <2>1 DEF SessionsKept, SessionKept, Active
  <2>5. CASE c = d
    <3>1. Owed(w, c) \in {0, 1}
      BY <2>4 DEF Owed
    <3> QED BY <2>1, <2>2, <2>3, <2>5, <3>1, Numbers
  <2>6. CASE c # d
    <3>1. c \in expired'[w]
      BY <2>1, <2>6 DEF Active
    <3>2. Owed(w, c) \in {0, 1} /\ (at[w][c] = "send" => Owed(w, c) = 0)
      BY <1>1, <2>4 DEF Owed
    <3>3. Owed(w, c)' = IF at[w][c] = "send" THEN -1 ELSE 0
      BY <2>2, <2>6, <3>1 DEF Owed
    <3> QED BY <2>1, <2>2, <2>3, <2>6, <3>2, <3>3, Numbers
  <2> QED BY <2>5, <2>6
<1> QED BY <1>2, <1>3, <1>4, <1>5, <1>6, <1>7 DEF Deliver

\* Requests, attempts and faults balance.
LEMMA BooksStep ==
    ASSUME TypeOK, Alone, SessionsKept, RowsCreated, RowsFresh, Books, Next
    PROVE  Books'
<1> DEFINE Shut(c)    == posts[c] <= row[c].att + faults
           Open(v, c) == posts[c] <= row[c].att + faults + Owed(v, c)
<1> SUFFICES ASSUME NEW c \in Deliveries, c \notin entangled'
             PROVE  /\ (\A v \in Workers : at'[v][c] = "idle") => Shut(c)'
                    /\ \A v \in Workers : at'[v][c] # "idle" => Open(v, c)'
  BY DEF Books, Active
<1>1. c \notin entangled => /\ (\A v \in Workers : at[v][c] = "idle") => Shut(c)
                            /\ \A v \in Workers : at[v][c] # "idle" => Open(v, c)
  BY DEF Books, Active
<1>2. \A v \in Workers : Owed(v, c) \in {-1, 0, 1} /\ Owed(v, c)' \in {-1, 0, 1}
  BY DEF Owed
<1>3. c \notin entangled => \A v, w \in Workers : at[v][c] # "idle" /\ at[w][c] # "idle" => v = w
  BY DEF Alone, Active
<1>4. \A w \in Workers : c \in dirty[w] => at[w][c] \in {"disable", "commit"} /\ c \notin expired[w]
  BY DEF SessionsKept, SessionKept
<1> HIDE DEF Shut, Open
<1>5. CASE Tenant \/ SuccessAges
  BY <1>1, <1>5, TenantEffect DEF Shut, Open, Owed
<1>6. ASSUME NEW d \in Deliveries, CreateDelivery(d) \/ RetryDelivery(d) \/ RetryComesDue(d)
      PROVE  /\ (\A v \in Workers : at'[v][c] = "idle") => Shut(c)'
             /\ \A v \in Workers : at'[v][c] # "idle" => Open(v, c)'
  <2>1. row'[c].att = row[c].att
    BY <1>6, RowEffect DEF RowsCreated
  <2>2. UNCHANGED <<at, dirty, expired, posts, entangled, faults>>
    BY <1>6, RowEffect
  <2> QED BY <1>1, <2>1, <2>2 DEF Shut, Open, Owed
<1>7. ASSUME NEW w \in Workers, Poll(w)
      PROVE  /\ (\A v \in Workers : at'[v][c] = "idle") => Shut(c)'
             /\ \A v \in Workers : at'[v][c] # "idle" => Open(v, c)'
  <2>1. PICK S \in SUBSET Free :
          /\ \A e \in Deliveries : at[w][e] = "idle"
          /\ \A u \in Workers, e \in Deliveries :
               at'[u][e] = IF u = w /\ e \in S THEN "send" ELSE at[u][e]
          /\ \A u \in Workers, e \in Deliveries :
               mem'[u][e] = IF u = w THEN IF e \in S THEN row[e] ELSE NoRow ELSE mem[u][e]
          /\ entangled \subseteq entangled'
          /\ \A e \in S \ entangled', u \in Workers : at[u][e] = "idle"
          /\ \A e \in Deliveries \ entangled' : posts'[e] = posts[e]
          /\ UNCHANGED <<row, dirty, expired, faults>>
    BY <1>7, PollEffect
  <2>2. c \notin entangled /\ posts'[c] = posts[c] /\ Shut(c)' = Shut(c)
    BY <2>1 DEF Shut
  <2>3. \A v \in Workers : v # w => at'[v][c] = at[v][c] /\ Open(v, c)' = Open(v, c)
    BY <2>1, <2>2 DEF Open, Owed
  <2>4. at'[w][c] # "idle" => c \in S /\ at'[w][c] = "send"
    BY <2>1
  <2>5. c \notin expired[w]
    <3>1. Active(w) = {}
      BY <2>1 DEF Active
    <3> QED BY <3>1 DEF SessionsKept, SessionKept
  <2>6. c \in S => Shut(c) /\ Open(w, c)'
    <3>1. ASSUME c \in S PROVE Shut(c)
      BY <1>1, <2>1, <2>2, <3>1
    <3>2. ASSUME c \in S PROVE Owed(w, c)' = 0
      BY <1>4, <2>1, <2>5, <3>2 DEF Owed
    <3> QED BY <2>1, <2>2, <3>1, <3>2, Numbers DEF Shut, Open
  <2> QED BY <1>1, <2>1, <2>2, <2>3, <2>4, <2>6
<1>8. ASSUME NEW w \in Workers, Quiet,
             \A v \in Workers \ {w} :
               at'[v][c] = at[v][c] /\ dirty'[v] = dirty[v] /\ expired'[v] = expired[v],
             faults' = faults \/ faults' = faults + 1,
             at[w][c] = "idle" => row'[c] = row[c] /\ posts'[c] = posts[c],
             at[w][c] # "idle" /\ Open(w, c) =>
               /\ at'[w][c] = "idle" => posts'[c] <= row'[c].att + faults'
               /\ at'[w][c] # "idle" => posts'[c] <= row'[c].att + faults' + Owed(w, c)'
      PROVE  /\ (\A v \in Workers : at'[v][c] = "idle") => Shut(c)'
             /\ \A v \in Workers : at'[v][c] # "idle" => Open(v, c)'
  <2>1. c \notin entangled /\ (at[w][c] = "idle" => at'[w][c] = "idle")
    BY <1>8 DEF Quiet
  <2>2. CASE at[w][c] # "idle"
    <3>1. \A v \in Workers : v # w => at'[v][c] = "idle"
      BY <1>3, <1>8, <2>1, <2>2
    <3>2. /\ at'[w][c] = "idle" => Shut(c)'
          /\ at'[w][c] # "idle" => Open(w, c)'
      BY <1>1, <1>8, <2>1, <2>2 DEF Shut, Open
    <3> QED BY <3>1, <3>2
  <2>3. CASE at[w][c] = "idle"
    <3>1. Shut(c) => Shut(c)'
      BY <1>8, <2>3, Numbers DEF Shut
    <3>2. ASSUME NEW v \in Workers, at'[v][c] # "idle" PROVE v # w /\ at[v][c] # "idle" /\ Owed(v, c)' = Owed(v, c)
      BY <1>8, <2>1, <2>3, <3>2 DEF Owed
    <3>3. ASSUME NEW v \in Workers, at'[v][c] # "idle" PROVE Open(v, c)'
      <4>1. Open(v, c) /\ Owed(v, c) \in {-1, 0, 1}
        BY <1>1, <1>2, <2>1, <3>2, <3>3
      <4> QED BY <1>8, <2>3, <3>2, <3>3, <4>1, Numbers DEF Open
    <3>4. (\A v \in Workers : at'[v][c] = "idle") => \A v \in Workers : at[v][c] = "idle"
      BY <1>8, <2>3
    <3> QED BY <1>1, <2>1, <3>1, <3>3, <3>4
  <2> QED BY <2>2, <2>3
<1>9. ASSUME NEW w \in Workers, NEW d \in Deliveries, Deliver(w, d) \/ Raise(w, d)
      PROVE  /\ (\A v \in Workers : at'[v][c] = "idle") => Shut(c)'
             /\ \A v \in Workers : at'[v][c] # "idle" => Open(v, c)'
  <2>1. Quiet
    BY <1>9, QuietStep
  <2>2. \A v \in Workers \ {w} : at'[v][c] = at[v][c] /\ dirty'[v] = dirty[v] /\ expired'[v] = expired[v]
    BY <1>9, Aside
  <2>3. faults' = faults \/ faults' = faults + 1
    BY <1>9, PostEffect, RecordEffect, CheckEffect, CommitEffect, RaiseEffect, RaiseExpiredEffect DEF Deliver
  <2>4. at[w][c] = "idle" => row'[c] = row[c] /\ posts'[c] = posts[c]
    <3>1. at[w][c] = "idle" => row'[c] = row[c]
      BY <1>4, <1>9, RowSteady
    <3>2. CASE Post(w, d)
      BY <3>1, <3>2, PostEffect
    <3>3. CASE ~Post(w, d)
      <4>1. posts' = posts
        BY <1>9, <3>3, RecordEffect, CheckEffect, CommitEffect, RaiseEffect, RaiseExpiredEffect DEF Deliver
      <4> QED BY <3>1, <4>1
    <3> QED BY <3>2, <3>3
  <2>5. at[w][c] # "idle" /\ Open(w, c) =>
          /\ at'[w][c] = "idle" => posts'[c] <= row'[c].att + faults'
          /\ at'[w][c] # "idle" => posts'[c] <= row'[c].att + faults' + Owed(w, c)'
    BY <1>9, Account DEF Open
  <2> QED BY <1>8, <2>1, <2>2, <2>3, <2>4, <2>5
<1>10. ASSUME NEW w \in Workers, Crash(w)
       PROVE  /\ (\A v \in Workers : at'[v][c] = "idle") => Shut(c)'
              /\ \A v \in Workers : at'[v][c] # "idle" => Open(v, c)'
  <2>1. \A v \in Workers \ {w} : at'[v][c] = at[v][c] /\ dirty'[v] = dirty[v] /\ expired'[v] = expired[v]
    BY <1>10, CrashAside
  <2>2. at'[w][c] = "idle" /\ faults' = faults + 1 /\ UNCHANGED <<row, posts>>
    BY <1>10, CrashEffect
  <2>3. Open(w, c) => posts'[c] <= row'[c].att + faults'
    BY <1>2, <2>2, Numbers DEF Open
  <2>4. Quiet
    BY <1>10, CrashQuiet
  <2> QED BY <1>8, <2>1, <2>2, <2>3, <2>4
<1> QED BY <1>5, <1>6, <1>7, <1>9, <1>10 DEF Next, Work

\* An answer stays in a coroutine's hands until it is committed.
LEMMA AnswerStep ==
    ASSUME TypeOK, Alone, SessionsKept, RowsFresh, AnswerHeld, Next
    PROVE  AnswerHeld'
<1> SUFFICES ASSUME NEW c \in Deliveries, c \in acked', c \notin entangled', faults' = 0
             PROVE  \/ row'[c].st = "success"
                    \/ \E v \in Workers : at'[v][c] = "answered" \/ (c \in dirty'[v] /\ mem'[v][c].st = "success")
  BY TypeStep DEF AnswerHeld, TypeOK
<1> DEFINE Held(v) == at[v][c] = "answered" \/ (c \in dirty[v] /\ mem[v][c].st = "success")
           Good    == row[c].st = "success" \/ \E v \in Workers : Held(v)
<1> SUFFICES Good'
  OBVIOUS
<1>1. c \in acked /\ c \notin entangled /\ faults = 0 => Good
  BY DEF AnswerHeld
<1>2. ASSUME NEW v \in Workers, Held(v) PROVE c \in Active(v)
  BY <1>2 DEF SessionsKept, SessionKept, Active
<1>3. CASE Tenant \/ SuccessAges
  BY <1>1, <1>3, TenantEffect
<1>4. ASSUME NEW d \in Deliveries, CreateDelivery(d) \/ RetryDelivery(d) \/ RetryComesDue(d) PROVE Good'
  <2>1. UNCHANGED <<at, mem, dirty, acked, entangled, faults>>
    BY <1>4, RowEffect
  <2>2. row[c].st = "success" => row'[c].st = "success"
    BY <1>4, RowEffect
  <2> QED BY <1>1, <2>1, <2>2
<1>5. ASSUME NEW w \in Workers, Poll(w) PROVE Good'
  <2>1. \A v \in Workers : v # w => at'[v][c] = at[v][c] /\ mem'[v][c] = mem[v][c]
    BY <1>5, PollEffect
  <2>2. at[w][c] = "idle" /\ entangled \subseteq entangled' /\ acked' \subseteq acked /\ UNCHANGED <<row, dirty, faults>>
    BY <1>5, PollEffect
  <2>3. ~Held(w)
    BY <1>2, <2>2 DEF Active
  <2> QED BY <1>1, <2>1, <2>2, <2>3
<1>6. ASSUME NEW w \in Workers, Crash(w) PROVE Good'
  BY <1>6, CrashEffect, Numbers
<1>7. ASSUME NEW w \in Workers, NEW d \in Deliveries, Deliver(w, d) \/ Raise(w, d) PROVE Good'
  <2>1. c \notin entangled /\ faults = 0
    <3>1. c \notin entangled
      BY <1>7, QuietStep DEF Quiet
    <3>2. faults' = faults \/ faults' = faults + 1
      BY <1>7, PostEffect, RecordEffect, CheckEffect, CommitEffect, RaiseEffect, RaiseExpiredEffect DEF Deliver
    <3> QED BY <3>1, <3>2, Numbers
  <2>2. \A v \in Workers : v # w /\ Held(v) => Held(v)'
    BY <1>7, Aside
  <2>3. row[c].st = "success" => row'[c].st = "success"
    <3>1. c \in dirty[w] => row[c].st = "pending"
      BY <2>1 DEF SessionsKept, SessionKept, RowsFresh, RowFresh
    <3> QED BY <1>7, <3>1, RowSteady
  <2>4. CASE Post(w, d)
    <3>1. ASSUME NEW l \in {"answered", "refused"}, MovedTo(w, d, l) PROVE Held(w) => Held(w)'
      <4>1. ~(c = d /\ Held(w))
        BY <2>4, PostEffect DEF SessionsKept, SessionKept
      <4>2. c # d => at'[w][c] = at[w][c]
        BY <3>1 DEF MovedTo
      <4>3. UNCHANGED <<mem, dirty>>
        BY <2>4, PostEffect
      <4> QED BY <4>1, <4>2, <4>3
    <3>2. Held(w) => Held(w)'
      BY <2>4, <3>1, PostEffect
    <3>3. CASE c \in acked
      BY <1>1, <2>1, <2>2, <2>3, <3>2, <3>3
    <3>4. CASE c \notin acked
      <4>1. c = d /\ MovedTo(w, d, "answered")
        BY <2>4, <3>4, PostEffect
      <4> QED BY <4>1 DEF MovedTo
    <3> QED BY <3>3, <3>4
  <2>5. ASSUME c \in acked, Held(w) => Held(w)' \/ row'[c].st = "success" PROVE Good'
    BY <1>1, <2>1, <2>2, <2>3, <2>5
  <2>6. CASE Succeed(w, d)
    <3> DEFINE r == [st |-> "success", att |-> mem[w][d].att + 1, due |-> FALSE]
    <3>1. r.st = "success" /\ Written(w, d, r, "commit")
      BY <2>6 DEF Succeed
    <3> HIDE DEF r
    <3>2. MovedTo(w, d, "commit") /\ Keeps(w, d, r) /\ Wrote(w, dirty[w] \cup {d}) /\ acked' = acked
      BY <3>1, WrittenEffect
    <3>3. c = d => Held(w)'
      BY <3>1, <3>2 DEF Keeps, Wrote
    <3>4. c # d => at'[w][c] = at[w][c] /\ mem'[w][c] = mem[w][c] /\ (c \in dirty'[w] <=> c \in dirty[w])
      BY <3>2 DEF MovedTo, Keeps, Wrote
    <3>5. Held(w) => Held(w)'
      BY <3>3, <3>4
    <3> QED BY <2>5, <3>2, <3>5
  <2>7. CASE Exhaust(w, d) \/ ScheduleRetry(w, d)
    <3>1. at[w][d] = "refused"
      BY <2>7 DEF Exhaust, ScheduleRetry
    <3>2. ~(c = d /\ Held(w))
      BY <3>1 DEF SessionsKept, SessionKept
    <3>3. PICK l \in {"disable", "commit"} : MovedTo(w, d, l)
      BY <2>7, RecordEffect
    <3>4. PICK r \in Rows : Keeps(w, d, r)
      BY <2>7, RecordEffect
    <3>5. Wrote(w, dirty[w] \cup {d}) /\ c \in acked
      BY <2>7, RecordEffect
    <3>6. c # d => at'[w][c] = at[w][c] /\ mem'[w][c] = mem[w][c] /\ (c \in dirty'[w] <=> c \in dirty[w])
      BY <3>3, <3>4, <3>5 DEF MovedTo, Keeps, Wrote
    <3> QED BY <2>5, <3>2, <3>5, <3>6
  <2>8. CASE CheckAutoDisable(w, d)
    <3>1. at[w][d] = "disable" /\ MovedTo(w, d, "commit") /\ UNCHANGED <<mem, dirty, acked>>
      BY <2>8, CheckEffect
    <3>2. at[w][c] = "answered" => at'[w][c] = "answered"
      BY <3>1 DEF MovedTo
    <3> QED BY <2>5, <3>1, <3>2
  <2>9. CASE Commit(w, d)
    <3>1. c \in dirty[w] /\ mem[w][c].st = "success" => row'[c].st = "success"
      BY <2>9, CommitEffect
    <3>2. at[w][c] = "answered" => at'[w][c] = "answered"
      BY <2>9, CommitEffect DEF MovedTo
    <3>3. acked' = acked
      BY <2>9, CommitEffect
    <3> QED BY <2>5, <3>1, <3>2, <3>3
  <2>10. CASE RaiseExpired(w, d)
    <3>1. d \in expired[w] /\ acked' = acked
      BY <2>10, RaiseExpiredEffect
    <3>2. c \notin Active(w)
      BY <2>1, <3>1 DEF SessionsKept, SessionKept
    <3> QED BY <1>2, <2>5, <3>1, <3>2
  <2>11. CASE Raise(w, d)
    <3>1. /\ faults' = faults + 1 \/ entangled' = entangled \cup Active(w)
          /\ acked' = acked
      BY <2>11, RaiseEffect
    <3>2. c \notin Active(w)
      BY <2>1, <3>1
    <3> QED BY <1>2, <2>5, <3>1, <3>2
  <2> QED BY <1>7, <2>4, <2>6, <2>7, <2>8, <2>9, <2>10, <2>11 DEF Deliver
<1> QED BY <1>3, <1>4, <1>5, <1>6, <1>7 DEF Next, Work

\* Counting the failed deliveries.
LEMMA Larger ==
    ASSUME NEW F, NEW G, F \subseteq G, G \subseteq Deliveries
    PROVE  Cardinality(F) \in Nat /\ Cardinality(G) \in Nat /\ Cardinality(F) <= Cardinality(G)
<1>1. IsFiniteSet(G) /\ IsFiniteSet(F)
  BY FS_Subset
<1> QED BY <1>1, FS_Subset, FS_CardinalityType

LEMMA OneMore ==
    ASSUME NEW F, F \subseteq Deliveries, NEW d \in Deliveries
    PROVE  /\ Cardinality(F) <= Cardinality(F \ {d}) + 1
           /\ d \notin F => Cardinality(F \cup {d}) = Cardinality(F) + 1
           /\ Cardinality(F) \in Nat /\ Cardinality(F \ {d}) \in Nat
<1>1. IsFiniteSet(F)
  BY FS_Subset
<1>2. Cardinality(F) \in Nat
  BY <1>1, FS_CardinalityType
<1>3. d \notin F => Cardinality(F \cup {d}) = Cardinality(F) + 1
  BY <1>1, FS_AddElement
<1>4. IsFiniteSet(F \ {d}) /\ Cardinality(F \ {d}) \in Nat
  BY <1>1, FS_Subset, FS_CardinalityType
<1>5. CASE d \in F
  <2>1. Cardinality(F \ {d}) = Cardinality(F) - 1
    BY <1>1, <1>5, FS_RemoveElement
  <2> QED BY <1>2, <1>3, <1>4, <2>1
<1>6. CASE d \notin F
  <2>1. F \ {d} = F
    BY <1>6
  <2> QED BY <1>2, <1>3, <1>4, <2>1
<1> QED BY <1>5, <1>6

\* The failures of an endpoint are accounted for in a larger set of failed deliveries, with
\* more retries of the tenant.
LEMMA CausedMore ==
    ASSUME TypeOK, NEW e \in Points, NEW F, NEW G, F \subseteq G, G \subseteq Deliveries, Caused(e, F)
    PROVE  Caused(e, G)
<1>1. Cardinality(F) \in Nat /\ Cardinality(G) \in Nat /\ Cardinality(F) <= Cardinality(G)
  BY Larger
<1>2. e.fails \in Nat
  BY DEF Points
<1> QED BY <1>1, <1>2, Numbers DEF Caused

LEMMA SeenCaused ==
    ASSUME TypeOK, FailuresCounted, entangled = {}, NEW w \in Workers
    PROVE  Caused(Seen(w), FailedIn(w)) /\ FailedIn(w) \subseteq Deliveries /\ Failed \subseteq FailedIn(w)
<1>1. FailedIn(w) \subseteq Deliveries /\ Failed \subseteq FailedIn(w)
  BY DEF FailedIn, Failed, TypeOK
<1>2. CASE epTx[w] = Nobody
  <2>1. Caused(ep, Failed) /\ ep \in Points
    BY DEF FailuresCounted, TypeOK
  <2> QED BY <1>1, <1>2, <2>1, CausedMore DEF Seen
<1>3. CASE epTx[w] # Nobody
  BY <1>1, <1>3 DEF Seen, FailuresCounted
<1> QED BY <1>1, <1>2, <1>3

\* An attempt that fails for good is one failure of the endpoint.
LEMMA FailuresStep ==
    ASSUME TypeOK, SessionsKept, RowsFresh, FailuresCounted, Next
    PROVE  FailuresCounted'
<1> SUFFICES ASSUME entangled' = {}
             PROVE  Caused(ep, Failed)' /\ \A v \in Workers : epTx'[v] # Nobody => Caused(epTx[v], FailedIn(v))'
  BY DEF FailuresCounted
<1> DEFINE Good == Caused(ep, Failed) /\ \A v \in Workers : epTx[v] # Nobody => Caused(epTx[v], FailedIn(v))
<1> SUFFICES Good'
  OBVIOUS
<1>1. entangled = {}
  BY OnlyPollStarts, PollEffect DEF Quiet
<1>2. Good
  BY <1>1 DEF FailuresCounted
<1> HIDE DEF Good
<1>3. CASE Tenant \/ SuccessAges
  <2>1. (ep'.fails = ep.fails \/ ep'.fails = 0) /\ (ep'.st = "auto" => ep.st = "auto")
    <3>1. ep \in Points
      BY DEF TypeOK
    <3> QED BY <1>3, <3>1 DEF Tenant, CreateEndpoint, UpdateEndpoint, DeleteEndpoint, SuccessAges, Points
  <2>2. UNCHANGED <<row, mem, dirty, epTx, manual>>
    BY <1>3, TenantEffect
  <2>3. Failed' = Failed /\ \A v \in Workers : FailedIn(v)' = FailedIn(v)
    BY <2>2 DEF Failed, FailedIn
  <2>4. Cardinality(Failed) \in Nat
    BY Larger DEF Failed
  <2>5. Caused(ep, Failed)'
    BY <1>2, <2>1, <2>2, <2>3, <2>4, Numbers DEF Good, Caused
  <2> QED BY <1>2, <2>2, <2>3, <2>5 DEF Good, Caused
<1>4. ASSUME NEW d \in Deliveries, CreateDelivery(d) \/ RetryDelivery(d) \/ RetryComesDue(d) PROVE Good'
  <2>1. UNCHANGED <<ep, mem, dirty, epTx>>
    BY <1>4, RowEffect
  <2>2. CASE manual' = manual
    <3>1. Failed' = Failed /\ \A v \in Workers : FailedIn(v)' = FailedIn(v)
      <4>1. \A c \in Deliveries : row'[c].st = "failed" <=> row[c].st = "failed"
        BY <1>4, <2>2, RowEffect, Numbers
      <4> QED BY <2>1, <4>1 DEF Failed, FailedIn
    <3> QED BY <1>2, <2>1, <2>2, <3>1 DEF Good, Caused
  <2>3. CASE manual' = manual + 1
    <3>1. Failed \ {d} \subseteq Failed'
      BY <1>4, RowEffect DEF Failed
    <3>2. ASSUME NEW e \in Points, NEW F, NEW G, F \subseteq Deliveries, G \subseteq Deliveries,
                 F \ {d} \subseteq G, Caused(e, F)
          PROVE  e.fails <= Cardinality(G) + manual' /\ (e.st = "auto" => Cardinality(G) + manual' >= Threshold)
      <4>1. Cardinality(F) <= Cardinality(F \ {d}) + 1 /\ Cardinality(F) \in Nat /\ Cardinality(F \ {d}) \in Nat
        BY <3>2, OneMore
      <4>2. Cardinality(F \ {d}) <= Cardinality(G) /\ Cardinality(G) \in Nat
        BY <3>2, Larger
      <4>3. e.fails \in Nat
        BY DEF Points
      <4> QED BY <2>3, <3>2, <4>1, <4>2, <4>3, Numbers DEF Caused
    <3>3. Caused(ep, Failed)'
      <4>1. Failed' \subseteq Deliveries /\ Failed \subseteq Deliveries /\ ep \in Points
        BY DEF Failed, TypeOK
      <4> QED BY <1>2, <2>1, <3>1, <3>2, <4>1 DEF Good, Caused
    <3>4. ASSUME NEW v \in Workers, epTx'[v] # Nobody PROVE Caused(epTx[v], FailedIn(v))'
      <4>1. FailedIn(v)' \subseteq Deliveries /\ FailedIn(v) \subseteq Deliveries /\ FailedIn(v) \ {d} \subseteq FailedIn(v)'
        BY <2>1, <3>1 DEF FailedIn, Failed, TypeOK
      <4>2. epTx[v] \in Points /\ Caused(epTx[v], FailedIn(v))
        BY <1>2, <2>1, <3>4 DEF Good, TypeOK
      <4> QED BY <2>1, <3>2, <4>1, <4>2 DEF Caused
    <3> QED BY <3>3, <3>4 DEF Good
  <2>4. manual' = manual \/ manual' = manual + 1
    BY <1>4, RowEffect
  <2> QED BY <2>2, <2>3, <2>4
<1>5. ASSUME NEW w \in Workers, UNCHANGED <<row, ep, manual>>,
             \A v \in Workers \ {w} :
               epTx'[v] = epTx[v] /\ dirty'[v] = dirty[v] /\ \A c \in Deliveries : mem'[v][c] = mem[v][c],
             epTx'[w] # Nobody => Caused(epTx[w], FailedIn(w))'
      PROVE  Good'
  <2>1. Failed' = Failed
    BY <1>5 DEF Failed
  <2>2. ASSUME NEW v \in Workers, v # w PROVE FailedIn(v)' = FailedIn(v) /\ epTx'[v] = epTx[v]
    BY <1>5, <2>1, <2>2 DEF FailedIn, TypeOK
  <2> QED BY <1>2, <1>5, <2>1, <2>2 DEF Good, Caused
<1>6. ASSUME NEW w \in Workers, Poll(w) PROVE Good'
  <2>1. /\ \A v \in Workers : v # w => \A c \in Deliveries : mem'[v][c] = mem[v][c]
        /\ at[w] \in [Deliveries -> {"idle"}] /\ UNCHANGED <<row, ep, dirty, epTx, manual>>
    <3>1. \A c \in Deliveries : at[w][c] = "idle"
      BY <1>6, PollEffect
    <3> QED BY <1>6, <3>1, PollEffect DEF TypeOK
  <2>2. dirty[w] = {}
    BY <2>1 DEF SessionsKept, SessionKept, TypeOK
  <2>3. FailedIn(w)' = FailedIn(w)
    BY <2>1, <2>2 DEF FailedIn, Failed
  <2> QED BY <1>2, <1>5, <2>1, <2>3 DEF Good, Caused
<1>7. ASSUME NEW w \in Workers, Crash(w) PROVE Good'
  <2>1. epTx'[w] = Nobody /\ UNCHANGED <<row, ep, manual>>
    BY <1>7, CrashEffect DEF Endpoint
  <2> QED BY <1>5, <1>7, <2>1, CrashAside
<1>8. ASSUME NEW w \in Workers, NEW d \in Deliveries, Raise(w, d) \/ RaiseExpired(w, d) PROVE Good'
  <2>1. epTx'[w] = Nobody /\ UNCHANGED <<row, ep, manual>>
    BY <1>8, RaiseEffect, RaiseExpiredEffect DEF Endpoint
  <2> QED BY <1>5, <1>8, <2>1, Aside DEF Deliver
<1>9. ASSUME NEW w \in Workers, NEW d \in Deliveries, Post(w, d) \/ CheckAutoDisable(w, d) PROVE Good'
  <2>1. UNCHANGED <<row, ep, mem, dirty, manual>>
    BY <1>9, PostEffect, CheckEffect
  <2>2. FailedIn(w)' = FailedIn(w)
    BY <2>1 DEF FailedIn, Failed
  <2>3. CASE epTx' = epTx
    BY <1>2, <1>5, <2>1, <2>2, <2>3 DEF Good, Caused
  <2>4. CASE epTx' = [epTx EXCEPT ![w] = [Seen(w) EXCEPT !.st = "auto"]] /\ ~(Seen(w).fails < Threshold)
    <3>1. Caused(Seen(w), FailedIn(w)) /\ Seen(w) \in Points /\ Cardinality(FailedIn(w)) \in Nat
      BY <1>1, SeenCaused, SeenPoint, Larger
    <3>2. epTx'[w].fails = Seen(w).fails /\ Seen(w).fails \in Nat
      BY <2>4, <3>1 DEF TypeOK, Points
    <3>3. Caused(epTx[w], FailedIn(w))'
      BY <2>1, <2>2, <2>4, <3>1, <3>2, Numbers DEF Caused
    <3>4. \A v \in Workers \ {w} : epTx'[v] = epTx[v]
      BY <2>4 DEF TypeOK
    <3> QED BY <1>5, <2>1, <3>3, <3>4
  <2>5. epTx' = epTx \/ (epTx' = [epTx EXCEPT ![w] = [Seen(w) EXCEPT !.st = "auto"]] /\ ~(Seen(w).fails < Threshold))
    BY <1>9 DEF Post, CheckAutoDisable
  <2> QED BY <2>3, <2>4, <2>5
<1>10. ASSUME NEW w \in Workers, NEW d \in Deliveries, Succeed(w, d) \/ Exhaust(w, d) \/ ScheduleRetry(w, d)
       PROVE  Good'
  <2>1. UNCHANGED <<row, ep, manual>> /\ Wrote(w, dirty[w] \cup {d}) /\ at[w][d] \in {"answered", "refused"}
    BY <1>10, RecordEffect
  <2>2. PICK r \in Rows : Keeps(w, d, r)
    BY <1>10, RecordEffect
  <2>3. d \notin dirty[w] /\ d \notin expired[w]
    BY <1>10, <2>1, RecordEffect DEF SessionsKept, SessionKept
  <2>4. FailedIn(w) \subseteq FailedIn(w)' /\ FailedIn(w)' \subseteq Deliveries
    BY <2>1, <2>2, <2>3 DEF FailedIn, Failed, TypeOK, Wrote, Keeps
  <2>5. Caused(Seen(w), FailedIn(w)) /\ Seen(w) \in Points /\ FailedIn(w) \subseteq Deliveries
    BY <1>1, SeenCaused, SeenPoint
  <2>6. Cardinality(FailedIn(w)) <= Cardinality(FailedIn(w)') /\ Cardinality(FailedIn(w)') \in Nat
        /\ Cardinality(FailedIn(w)) \in Nat
    BY <2>4, Larger
  <2>7. epTx'[w] # Nobody => Caused(epTx[w], FailedIn(w))'
    <3>1. CASE Succeed(w, d)
      <4>1. epTx'[w] = [Seen(w) EXCEPT !.fails = 0, !.recent = TRUE]
        BY <3>1 DEF Succeed, TypeOK
      <4>2. epTx'[w].fails = 0 /\ epTx'[w].st = Seen(w).st
        BY <2>5, <4>1 DEF Points
      <4> QED BY <2>1, <2>5, <2>6, <4>2, Numbers DEF Caused
    <3>2. CASE Exhaust(w, d)
      <4>1. epTx'[w] = [Seen(w) EXCEPT !.fails = @ + 1]
        BY <3>2 DEF Exhaust, TypeOK
      <4>2. epTx'[w].fails = Seen(w).fails + 1 /\ epTx'[w].st = Seen(w).st /\ Seen(w).fails \in Nat
        BY <2>5, <4>1 DEF Points
      <4>3. FailedIn(w)' = FailedIn(w) \cup {d}
        <5> DEFINE e == [st |-> "failed", att |-> mem[w][d].att + 1, due |-> FALSE]
        <5>1. Written(w, d, e, "disable") /\ e.st = "failed"
          BY <3>2 DEF Exhaust
        <5> HIDE DEF e
        <5>2. mem'[w][d].st = "failed" /\ dirty'[w] = dirty[w] \cup {d}
          <6>1. Keeps(w, d, e) /\ Wrote(w, dirty[w] \cup {d})
            BY <5>1, WrittenEffect
          <6> QED BY <5>1, <6>1 DEF Keeps, Wrote
        <5>3. \A c \in Deliveries : c # d => mem'[w][c] = mem[w][c]
          BY <2>2 DEF Keeps
        <5> QED BY <2>1, <5>2, <5>3 DEF FailedIn, Failed, TypeOK
      <4>4. d \notin FailedIn(w)
        <5>1. row[d].st = "pending"
          BY <1>1, <2>1, <2>3 DEF RowsFresh, RowFresh, Unwritten
        <5> QED BY <2>3, <5>1 DEF FailedIn, Failed
      <4>5. Cardinality(FailedIn(w)') = Cardinality(FailedIn(w)) + 1
        BY <2>5, <4>3, <4>4, OneMore
      <4> QED BY <2>1, <2>5, <2>6, <4>2, <4>5, Numbers DEF Caused
    <3>3. CASE ScheduleRetry(w, d)
      <4>1. epTx'[w] # Nobody => Seen(w) = epTx'[w]
        BY <3>3 DEF ScheduleRetry, Seen
      <4>2. Seen(w).fails \in Nat
        BY <2>5 DEF Points
      <4> QED BY <2>1, <2>5, <2>6, <4>1, <4>2, Numbers DEF Caused
    <3> QED BY <1>10, <3>1, <3>2, <3>3
  <2> QED BY <1>5, <1>10, <2>1, <2>7, Aside DEF Deliver
<1>11. ASSUME NEW w \in Workers, NEW d \in Deliveries, Commit(w, d) PROVE Good'
  <2>1. Caused(Seen(w), FailedIn(w)) /\ Seen(w) \in Points
    BY <1>1, SeenCaused, SeenPoint
  <2>2. FailedIn(w) \subseteq Failed'
    <3>1. ASSUME NEW c \in Deliveries, row[c].st = "failed" PROVE row'[c].st = "failed"
      <4>1. c \notin dirty[w]
        BY <1>1, <3>1 DEF SessionsKept, SessionKept, RowsFresh, RowFresh
      <4> QED BY <1>11, <3>1, <4>1, CommitEffect
    <3>2. ASSUME NEW c \in dirty[w], mem[w][c].st = "failed" PROVE row'[c].st = "failed"
      BY <1>11, <3>2, CommitEffect DEF TypeOK
    <3> QED BY <3>1, <3>2 DEF FailedIn, Failed, TypeOK
  <2>3. ep' = Seen(w) /\ manual' = manual /\ epTx'[w] = Nobody
    BY <1>11, CommitEffect DEF Endpoint
  <2>4. Failed' \subseteq Deliveries
    BY DEF Failed
  <2>5. Caused(ep, Failed)'
    <3>1. Caused(Seen(w), Failed')
      BY <2>1, <2>2, <2>4, CausedMore
    <3> QED BY <2>3, <3>1 DEF Caused
  <2>6. ASSUME NEW v \in Workers, epTx'[v] # Nobody PROVE Caused(epTx[v], FailedIn(v))'
    <3>1. /\ v # w /\ epTx'[v] = epTx[v] /\ dirty'[v] = dirty[v]
          /\ \A c \in Deliveries : mem'[v][c] = mem[v][c]
      BY <1>11, <2>3, <2>6, Aside DEF Deliver
    <3>2. FailedIn(v) \subseteq FailedIn(v)' /\ FailedIn(v)' \subseteq Deliveries
      BY <2>2, <3>1 DEF FailedIn, Failed, TypeOK
    <3>3. epTx[v] \in Points /\ Caused(epTx[v], FailedIn(v))
      BY <1>2, <2>6, <3>1 DEF Good, TypeOK
    <3>4. Caused(epTx[v], FailedIn(v)')
      BY <3>2, <3>3, CausedMore
    <3> QED BY <2>3, <3>1, <3>4 DEF Caused
  <2> QED BY <2>5, <2>6 DEF Good
<1> QED BY <1>3, <1>4, <1>6, <1>7, <1>8, <1>9, <1>10, <1>11 DEF Next, Work, Deliver


\* What a reader asks of the books follows from them.
LEMMA Consequences ==
    ASSUME TypeOK, SessionsKept, Books, AnswerHeld, FailuresCounted
    PROVE  AttemptsCounted /\ AnswerKept /\ DisabledForCause
<1>1. ASSUME NEW d \in Deliveries \ entangled PROVE posts[d] <= row[d].att + InFlight(d) + faults
  <2> DEFINE F == {w \in Workers : at[w][d] \notin {"idle", "send"}}
  <2>1. IsFiniteSet(F) /\ Cardinality(F) \in Nat
    BY FS_Subset, FS_CardinalityType
  <2>2. F # {} => Cardinality(F) # 0
    BY <2>1, FS_EmptySet
  <2>3. CASE \A w \in Workers : d \notin Active(w)
    <3>1. posts[d] <= row[d].att + faults
      BY <2>3 DEF Books
    <3> QED BY <2>1, <3>1, Numbers DEF InFlight
  <2>4. ASSUME NEW w \in Workers, d \in Active(w) PROVE posts[d] <= row[d].att + InFlight(d) + faults
    <3>1. posts[d] <= row[d].att + faults + Owed(w, d)
      BY <2>4 DEF Books
    <3>2. CASE Owed(w, d) = 1
      <4>1. w \in F
        BY <3>2 DEF Owed, SessionsKept, SessionKept
      <4> QED BY <2>1, <2>2, <3>1, <3>2, <4>1, Numbers DEF InFlight
    <3>3. CASE Owed(w, d) # 1
      <4>1. Owed(w, d) \in {-1, 0}
        BY <3>3 DEF Owed
      <4> QED BY <2>1, <3>1, <4>1, Numbers DEF InFlight
    <3> QED BY <3>2, <3>3
  <2> QED BY <2>3, <2>4
<1>2. AnswerKept
  <2>1. ASSUME NEW d \in acked \ entangled, faults = 0, \A w \in Workers : at[w][d] = "idle"
        PROVE  row[d].st = "success"
    BY <2>1 DEF AnswerHeld, SessionsKept, SessionKept
  <2> QED BY <2>1 DEF AnswerKept
<1>3. DisabledForCause
  BY DEF FailuresCounted, Caused, DisabledForCause
<1> QED BY <1>1, <1>2, <1>3 DEF AttemptsCounted

\* The inductive invariant.
Accounts ==
    /\ TypeOK /\ Alone /\ SessionsKept /\ RowsCreated /\ RowsFresh /\ Books
    /\ AttemptsBounded /\ AttemptLeft /\ AnswerHeld /\ FailuresCounted

LEMMA AccountsInit == Init => Accounts
<1> SUFFICES ASSUME Init PROVE Accounts
  OBVIOUS
<1> USE DEF Init, NoRow
<1>1. TypeOK
  BY DEF TypeOK, Rows, Points
<1>2. Alone /\ SessionsKept /\ RowsCreated /\ RowsFresh /\ Books /\ AnswerHeld
  BY DEF Alone, Active, SessionsKept, SessionKept, RowsCreated, RowsFresh, RowFresh, Unwritten, Books, AnswerHeld
<1>3. AttemptLeft /\ AttemptsBounded
  BY DEF AttemptLeft, AttemptsBounded, Unwritten
<1>4. FailuresCounted
  <2>1. Cardinality(Failed) \in Nat
    BY Larger DEF Failed
  <2> QED BY <2>1 DEF FailuresCounted, Caused
<1> QED BY <1>1, <1>2, <1>3, <1>4 DEF Accounts

LEMMA AccountsStep == Accounts /\ [Next]_vars => Accounts'
<1>1. ASSUME Accounts, Next PROVE Accounts'
  <2>1. TypeOK' /\ Alone' /\ SessionsKept' /\ RowsCreated' /\ RowsFresh' /\ Books'
    BY <1>1, TypeStep, AloneStep, SessionsStep, CreatedStep, FreshStep, BooksStep DEF Accounts
  <2>2. AttemptsBounded' /\ AttemptLeft' /\ AnswerHeld' /\ FailuresCounted'
    BY <1>1, AttemptStep, AnswerStep, FailuresStep DEF Accounts
  <2> QED BY <2>1, <2>2 DEF Accounts
<1>2. ASSUME Accounts, UNCHANGED vars PROVE Accounts'
  <2>1. UNCHANGED <<row, ep, lock, at, mem, dirty, epTx, expired, manual, posts, acked, entangled, faults>>
    BY <1>2 DEF vars, session, ghosts
  <2> QED BY <1>2, <2>1 DEF Accounts, TypeOK, AttemptsBounded, Failed, Alone, Active, SessionsKept, SessionKept,
          RowsCreated, RowsFresh, RowFresh, Books, Owed, AttemptLeft, AnswerHeld, FailuresCounted, Caused, FailedIn
<1> QED BY <1>1, <1>2

\* Requests and attempts balance but for the faults, no row exceeds its attempts, an answer
\* is not lost, and an endpoint is disabled for failures that happened (delivery.py).
THEOREM DeliveryInvariant == Spec => []DeliveryInv
<1>1. Accounts => DeliveryInv
  BY Consequences DEF Accounts, DeliveryInv
<1> QED BY <1>1, AccountsInit, AccountsStep, PTL DEF Spec

=============================================================================
