------------------------------ MODULE Settings ------------------------------
(***************************************************************************)
(* Settings that an administrator changes while the service runs           *)
(* (gateway/services/settings.py): rows in the database, a short-lived     *)
(* cache in every gateway, an optimistic check of changes, and for the     *)
(* autoscaler, which has no database, a copy in Redis that every gateway   *)
(* rewrites (gateway/services/autoscale_overrides_mirror.py).              *)
(*                                                                         *)
(* One namespace.  A request does not outlast a unit of time.              *)
(***************************************************************************)
EXTENDS Integers, FiniteSets

CONSTANTS
    Keys,       \* the settings of the namespace
    Unset,      \* no value: inherit
    Gateways,   \* gateway processes
    Admins,     \* requests that change settings
    Home,       \* Home[a]: the gateway that serves request a
    CacheTtl,   \* _CACHE_TTL_SECONDS
    Interval,   \* RECONCILE_INTERVAL_S
    Horizon     \* bound: the time explored

ASSUME SettingsAssumption ==
    /\ CacheTtl \in Nat \ {0} /\ Interval \in Nat /\ Horizon \in Nat
    /\ Home \in [Admins -> Gateways] /\ Gateways # {}

VARIABLES
    rows,       \* rows of the settings table: [key, val, at, by]
    cache,      \* cache[g]: _SettingsCache of a gateway
    hash,       \* AUTOSCALE_OVERRIDES_KEY
    desk,       \* desk[a]: a request of an administrator
    loop,       \* loop[g]: the reconcile loop of a gateway
    time,       \* the clock
    upsets,     \* how often Redis may still fail
    changedAt   \* history: when rows last changed or Redis last failed

settingsVars == <<rows, cache, hash, desk, loop, time, upsets, changedAt>>

NoEntry == [kind |-> "none"]
Snapshot(vals, stamp) == [kind |-> "rows", vals |-> vals, stamp |-> stamp, at |-> 0]

Of(k) == {r \in rows : r.key = k}
Stamps == {0} \cup {r.at : r \in rows}
LatestStamp == CHOOSE t \in Stamps : \A u \in Stamps : u <= t

\* What a query may find: of several rows of a key the last one counts, in no
\* particular order.
Contents == {v \in [Keys -> {Unset} \cup {r.val : r \in rows}] :
                \A k \in Keys : IF Of(k) = {} THEN v[k] = Unset
                                ELSE \E r \in Of(k) : r.val = v[k]}

-----------------------------------------------------------------------------
(* _fetch_namespace_rows: the cache, or a query and then the cache. *)

\* Mutant: an entry is good until it is dropped.
FreshForever(g) == cache[g].kind = "rows"

Fresh(g) == cache[g].kind = "rows" /\ time - cache[g].at < CacheTtl
\* held: what the query of an actor on gateway g has brought, if any.
Known(g, held) == held.kind = "rows" \/ Fresh(g)
Result(g, held) == IF held.kind = "rows" THEN held ELSE cache[g]
\* Mutant: an entry that is used lives longer.
CachedAnew(g, held) == [cache EXCEPT ![g] = [Result(g, held) EXCEPT !.at = time]]

Cached(g, held) == IF held.kind = "rows" THEN [cache EXCEPT ![g] = [held EXCEPT !.at = time]]
                   ELSE cache

QueryAdmin(a) ==
    /\ desk[a].at \in {"check", "reset", "respond", "sync"}
    /\ ~Known(Home[a], desk[a].held)
    /\ \E v \in Contents : desk' = [desk EXCEPT ![a].held = Snapshot(v, LatestStamp)]
    /\ UNCHANGED <<rows, cache, hash, loop, time, upsets, changedAt>>

QueryLoop(g) ==
    /\ loop[g].due <= time /\ ~Known(g, loop[g].held)
    /\ \E v \in Contents : loop' = [loop EXCEPT ![g].held = Snapshot(v, LatestStamp)]
    /\ UNCHANGED <<rows, cache, hash, desk, time, upsets, changedAt>>

-----------------------------------------------------------------------------
(* update_namespace and reset_namespace, and the handlers around them. *)

SettingsInit(s) ==
    /\ rows = s.rows /\ upsets = s.upsets
    /\ cache = [g \in Gateways |-> NoEntry]
    /\ hash \in Contents
    /\ desk = [a \in Admins |-> [at |-> s.asks[a].at, key |-> s.asks[a].key, val |-> s.asks[a].val,
                                 expected |-> s.asks[a].expected, held |-> NoEntry,
                                 found |-> NoEntry]]
    /\ loop \in [Gateways -> [due : s.phases, held : {NoEntry}]]
    /\ time = s.clock /\ changedAt = s.clock

\* A request arrives: first the optimistic check, if it is asked for.
Ask(a) ==
    /\ desk[a].at = "todo"
    /\ desk' = [desk EXCEPT ![a].at = IF desk[a].key = Unset THEN "reset"
                                      ELSE IF desk[a].expected = Unset THEN "select" ELSE "check"]
    /\ UNCHANGED <<rows, cache, hash, loop, time, upsets, changedAt>>

CheckConflict(a) ==
    LET g == Home[a]
    IN  /\ desk[a].at = "check" /\ Known(g, desk[a].held)
        /\ cache' = Cached(g, desk[a].held)
        /\ desk' = [desk EXCEPT ![a].held = NoEntry,
                      ![a].at = IF Result(g, desk[a].held).stamp > desk[a].expected
                                THEN "refused" ELSE "select"]
        /\ UNCHANGED <<rows, hash, loop, time, upsets, changedAt>>

\* scalar_one_or_none: it fails when there are two.
SelectRow(a) ==
    LET mine == Of(desk[a].key)
    IN  /\ desk[a].at = "select"
        /\ desk' = IF Cardinality(mine) > 1 THEN [desk EXCEPT ![a].at = "refused"]
                   ELSE [desk EXCEPT ![a].at = "commit",
                           ![a].found = IF mine = {} THEN NoEntry
                                        ELSE [kind |-> "row", row |-> CHOOSE r \in mine : TRUE]]
        /\ UNCHANGED <<rows, cache, hash, loop, time, upsets, changedAt>>

\* Insert, update or delete the row, commit, and drop the cache entry.  The
\* table's constraint does not tell two rows without a tenant apart, and a
\* row that is gone by now cannot be updated.
CommitRow(a) ==
    LET d == desk[a]
        new == [key |-> d.key, val |-> d.val, at |-> time, by |-> a]
        old == IF d.found.kind = "row" THEN {r \in rows : r.key = d.key /\ r.by = d.found.row.by}
               ELSE {}
        lost == d.found.kind = "row" /\ old = {}
    IN  /\ d.at = "commit"
        /\ IF lost
           THEN /\ desk' = [desk EXCEPT ![a].at = "refused"]
                /\ UNCHANGED <<rows, cache, changedAt>>
           ELSE /\ rows' = (rows \ old) \cup
                           (IF d.val = Unset THEN {}
                            ELSE {[new EXCEPT !.by = IF old = {} THEN a ELSE d.found.row.by]})
                /\ changedAt' = time
                /\ cache' = [cache EXCEPT ![Home[a]] = NoEntry]
                /\ desk' = [desk EXCEPT ![a].at = "respond"]
        /\ UNCHANGED <<hash, loop, time, upsets>>

\* reset_namespace: the old values, for the audit log; then no rows at all.
ResetRows(a) ==
    LET g == Home[a]
    IN  /\ desk[a].at = "reset" /\ Known(g, desk[a].held)
        /\ rows' = {} /\ changedAt' = time
        /\ cache' = [cache EXCEPT ![g] = NoEntry]
        /\ desk' = [desk EXCEPT ![a].at = "respond", ![a].held = NoEntry]
        /\ UNCHANGED <<hash, loop, time, upsets>>

\* The response is read back, and Redis told.
ReadBack(a) ==
    /\ desk[a].at = "respond" /\ Known(Home[a], desk[a].held)
    /\ cache' = Cached(Home[a], desk[a].held)
    /\ desk' = [desk EXCEPT ![a].at = "sync", ![a].held = NoEntry]
    /\ UNCHANGED <<rows, hash, loop, time, upsets, changedAt>>

\* _rewrite_hash: all of it at once, or not at all when Redis fails.
RewriteHash(vals, ok) ==
    /\ ok \/ upsets > 0
    /\ hash' = IF ok THEN vals ELSE hash
    /\ upsets' = IF ok THEN upsets ELSE upsets - 1
    /\ changedAt' = IF ok THEN changedAt ELSE time

SyncFromSession(a, ok) ==
    LET g == Home[a]
    IN  /\ desk[a].at = "sync" /\ Known(g, desk[a].held)
        /\ RewriteHash(Result(g, desk[a].held).vals, ok)
        /\ cache' = Cached(g, desk[a].held)
        /\ desk' = [desk EXCEPT ![a].at = "done", ![a].held = NoEntry]
        /\ UNCHANGED <<rows, loop, time>>

\* sync_once, every Interval.
ReconcileHash(g, ok) ==
    /\ loop[g].due <= time /\ Known(g, loop[g].held)
    /\ RewriteHash(Result(g, loop[g].held).vals, ok)
    /\ cache' = Cached(g, loop[g].held)
    /\ loop' = [loop EXCEPT ![g] = [due |-> time + Interval, held |-> NoEntry]]
    /\ UNCHANGED <<rows, desk, time>>

\* Redis comes back empty.
FlushRedis ==
    /\ upsets > 0
    /\ upsets' = upsets - 1 /\ changedAt' = time
    /\ hash' = [k \in Keys |-> Unset]
    /\ UNCHANGED <<rows, cache, desk, loop, time>>

\* Time passes when nobody is in the middle of something.
Wait ==
    /\ time < Horizon
    /\ \A a \in Admins : desk[a].at \in {"todo", "refused", "done"}
    /\ \A g \in Gateways : loop[g].due > time
    /\ time' = time + 1
    /\ UNCHANGED <<rows, cache, hash, desk, loop, upsets, changedAt>>

SettingsNext ==
    \/ \E a \in Admins : \/ Ask(a) \/ QueryAdmin(a) \/ CheckConflict(a) \/ SelectRow(a)
                         \/ CommitRow(a) \/ ResetRows(a) \/ ReadBack(a)
                         \/ \E ok \in BOOLEAN : SyncFromSession(a, ok)
    \/ \E g \in Gateways : QueryLoop(g) \/ \E ok \in BOOLEAN : ReconcileHash(g, ok)
    \/ FlushRedis \/ Wait

-----------------------------------------------------------------------------
Value   == Nat \cup {Unset}
Rows    == [key : Keys, val : Nat, at : 0..Horizon, by : Admins]
Entries == {NoEntry} \cup [kind : {"rows"}, vals : [Keys -> Value], stamp : Nat, at : 0..Horizon]
Asking  == {"check", "reset", "respond", "sync"}
Desks   == [at : Asking \cup {"todo", "select", "commit", "done", "refused"},
            key : Keys \cup {Unset}, val : Value, expected : Value, held : Entries,
            found : {NoEntry} \cup [kind : {"row"}, row : Rows]]

\* Types of all variables.
SettingsTypeOK ==
    /\ rows \subseteq Rows
    /\ cache \in [Gateways -> Entries] /\ hash \in [Keys -> Value]
    /\ desk \in [Admins -> Desks]
    /\ loop \in [Gateways -> [due : Nat, held : Entries]]
    /\ time \in 0..Horizon /\ changedAt \in 0..time /\ upsets \in Nat

Matches(vals) == vals \in Contents

\* Redis holds what the database holds, at most a reconciliation and the life
\* of a cache entry after the last change or failure, whichever gateway wrote
\* last and whatever its cache held.
MirrorFresh == time - changedAt > Interval + CacheTtl => Matches(hash)

\* A gateway answers with what the database held no longer ago than a cache
\* entry lives, though a query may be answered before a change and cached
\* after it.
CacheHonest ==
    \A g \in Gateways : (Fresh(g) /\ changedAt < cache[g].at) => Matches(cache[g].vals)

\* A change that the administrator has not seen is refused, if it is still
\* there and older than a cache entry lives.
ConflictSeen ==
    [][\A a \in Admins :
         (desk[a].at = "check" /\ desk'[a].at = "select") =>
            \A r \in rows : r.at > desk[a].expected => r.at > time - CacheTtl]_settingsVars

\* What a query brought at t: the rows of then, unless they changed in that very unit of
\* time, and a stamp that only rows of that unit or later exceed.
ReadAt(entry, t) ==
    entry.kind = "rows" => /\ changedAt < t => Matches(entry.vals)
                           /\ \A r \in rows : r.at <= entry.stamp \/ r.at >= t

\* A result is held no longer than a unit of time, by a request or a loop that needs it.
HeldIsNow ==
    /\ \A a \in Admins : /\ ReadAt(desk[a].held, time)
                         /\ desk[a].held.kind = "rows" => desk[a].at \in Asking
    /\ \A g \in Gateways : /\ ReadAt(loop[g].held, time)
                           /\ loop[g].held.kind = "rows" => loop[g].due <= time

\* A cache entry is a result of the time it carries.
CachesAged ==
    \A g \in Gateways : /\ ReadAt(cache[g], cache[g].at)
                        /\ cache[g].kind = "rows" => cache[g].at <= time

\* A request that is checked says what it expects, one that changes a row which.
RequestsPlain ==
    \A a \in Admins : /\ desk[a].at = "check" => desk[a].expected # Unset
                      /\ desk[a].at \in {"check", "select", "commit"} => desk[a].key # Unset

\* No loop is late, and none sleeps longer than the interval.
LoopsTimely == \A g \in Gateways : time <= loop[g].due /\ loop[g].due <= time + Interval

\* Redis holds the rows, or no loop has run since the caches were too old to be wrong.
MirrorKept ==
    Matches(hash) \/ \A g \in Gateways : loop[g].due < changedAt + CacheTtl + Interval

\* What gateways answer and what the autoscaler reads is the database's
\* content, no older than the caches and the reconciliation allow.
SettingsInv ==
    /\ SettingsTypeOK /\ MirrorFresh /\ CacheHonest
    /\ HeldIsNow /\ CachesAged /\ RequestsPlain /\ LoopsTimely /\ MirrorKept

=============================================================================
