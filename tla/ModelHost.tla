----------------------------- MODULE ModelHost -----------------------------
(***************************************************************************)
(* One engine process that serves batch tasks and realtime sessions from    *)
(* shared models: the admission controller (admission.py), the model        *)
(* manager with its reference counts (model_manager.py), the model storage  *)
(* that downloads to the local disk (model_storage.py) and the evictor that *)
(* frees the disk (disk_cache.py).                                          *)
(*                                                                          *)
(* The manager's lock is held while a model is downloaded and loaded.  The  *)
(* evictor takes it for each single question whether a model is loaded, and *)
(* deletes without it.                                                      *)
(***************************************************************************)
EXTENDS Integers, Sequences, FiniteSets, Filtering

CONSTANTS
    Batch,      \* threads that execute batch tasks
    Realtime,   \* realtime sessions
    Models,     \* model ids
    MaxLoaded,  \* DALSTON_MAX_LOADED_MODELS
    MaxDisk,    \* models that DALSTON_MODEL_CACHE_MAX_GB has room for
    Configs,    \* admission limits that the process may be given
    Passes,     \* eviction passes that may run at a time
    MaxCrashes, \* bound on restarts of the process
    Nobody

Workers == Batch \cup Realtime

ASSUME HostAssumption ==
    /\ IsFiniteSet(Workers) /\ Batch \cap Realtime = {}
    /\ MaxLoaded \in Nat \ {0} /\ MaxDisk \in Nat /\ MaxCrashes \in Nat
    /\ Configs # {} /\ Configs \subseteq [cap : Nat, res : Nat, max : Nat]
    /\ Nobody \notin Workers \cup Models

VARIABLES
    config,    \* the admission limits
    active,    \* the admitted batch tasks and realtime sessions
    inherited, \* ghost: the batch tasks that were active when the limits changed
    loaded,    \* the models in memory, least recently used first
    cold,      \* those that were last acquired longer than the TTL ago
    refs,      \* reference counts
    lock,      \* holder of the manager's lock
    pc,        \* the step of each worker
    want,      \* the model it asks for
    stopped,   \* shutdown was called
    disk,      \* per model: absent, whole, or torn (the marker is there, files are not)
    order,     \* the models with a marker on disk, least recently accessed first
    pass,      \* per eviction pass: its step, the entries ahead and those not loaded
    crashes

admission == <<config, active, inherited>>
manager   == <<loaded, cold, refs, lock>>
storage   == <<disk, order>>
vars == <<admission, manager, pc, want, stopped, storage, pass, crashes>>

Resting == [at |-> "idle", list |-> <<>>, ok |-> <<>>, n |-> 0]

Init ==
    /\ config \in Configs /\ active = [batch |-> 0, rt |-> 0] /\ inherited = 0
    /\ loaded = <<>> /\ cold = {} /\ refs = [m \in Models |-> 0] /\ lock = Nobody
    /\ pc = [w \in Workers |-> "out"] /\ want = [w \in Workers |-> Nobody]
    /\ stopped = FALSE
    /\ disk = [m \in Models |-> "absent"] /\ order = <<>>
    /\ pass = [p \in Passes |-> Resting]
    /\ crashes = 0

-----------------------------------------------------------------------------
(* Admission control *)

CanAcceptBatch ==
    /\ active.batch < config.max
    /\ LET available == config.cap - (active.batch + active.rt) IN
       available > 0 /\ (active.rt >= config.res \/ available > config.res - active.rt)

CanAcceptRt == active.batch + active.rt < config.cap

\* A task that is not admitted is deferred, a session refused.  Nothing is admitted after
\* the adapters were stopped.
Admit(w) ==
    /\ pc[w] = "out" /\ ~stopped
    /\ \/ w \in Batch /\ CanAcceptBatch /\ active' = [active EXCEPT !.batch = @ + 1]
       \/ w \in Realtime /\ CanAcceptRt /\ active' = [active EXCEPT !.rt = @ + 1]
    /\ pc' = [pc EXCEPT ![w] = "in"]
    /\ want' \in {[want EXCEPT ![w] = m] : m \in Models}
    /\ UNCHANGED <<config, inherited, manager, stopped, storage, pass, crashes>>

\* release_batch and release_rt, in a finally.
Leave(w) ==
    /\ pc[w] \in {"done", "failed"} /\ pc' = [pc EXCEPT ![w] = "out"]
    /\ active' = IF w \in Batch THEN [active EXCEPT !.batch = IF @ > 0 THEN @ - 1 ELSE 0]
                                ELSE [active EXCEPT !.rt = IF @ > 0 THEN @ - 1 ELSE 0]
    /\ want' = [want EXCEPT ![w] = Nobody]
    /\ UNCHANGED <<config, inherited, manager, stopped, storage, pass, crashes>>

\* reconfigure, after a model with another profile was loaded: the counters stay.
Reconfigure ==
    /\ config' \in Configs \ {config}
    /\ inherited' = active.batch
    /\ UNCHANGED <<active, manager, pc, want, stopped, storage, pass, crashes>>

-----------------------------------------------------------------------------
(* The model manager *)

\* Mutant: a model that is in use may be evicted for another.
IdleUnasked == ToSet(loaded)

\* Models without a reference.
Idle == {m \in ToSet(loaded) : refs[m] = 0}

Full == Len(loaded) >= MaxLoaded

\* The least recently used model without a reference.
Victims ==
    {loaded[i] : i \in {j \in DOMAIN loaded : loaded[j] \in Idle /\ \A k \in 1 .. j - 1 : loaded[k] \notin Idle}}

\* acquire: a loaded model is referenced; ...
Acquire(w) ==
    /\ pc[w] = "in" /\ lock = Nobody
    /\ LET m == want[w] IN
       /\ m \in ToSet(loaded)
       /\ refs' = [refs EXCEPT ![m] = @ + 1]
       /\ loaded' = Append(Without(loaded, {m}), m) /\ cold' = cold \ {m}
    /\ pc' = [pc EXCEPT ![w] = "use"]
    /\ UNCHANGED <<admission, lock, want, stopped, storage, pass, crashes>>

\* ... for another one room is made, ...
MakeRoom(w) ==
    /\ pc[w] = "in" /\ lock = Nobody
    /\ want[w] \notin ToSet(loaded) /\ (Full => Victims # {})
    /\ LET gone == IF Full THEN Victims ELSE {} IN
       loaded' = Without(loaded, gone) /\ cold' = cold \ gone
    /\ lock' = w /\ pc' = [pc EXCEPT ![w] = "fetch"]
    /\ UNCHANGED <<admission, refs, want, stopped, storage, pass, crashes>>

\* ... or the request fails because every model is in use.
NoRoom(w) ==
    /\ pc[w] = "in" /\ lock = Nobody
    /\ want[w] \notin ToSet(loaded) /\ Full /\ Victims = {}
    /\ pc' = [pc EXCEPT ![w] = "failed"]
    /\ UNCHANGED <<admission, manager, want, stopped, storage, pass, crashes>>

\* Mutant: the lock is kept when loading raises.
FailKeepingLock(w) ==
    /\ pc' = [pc EXCEPT ![w] = "failed"]
    /\ UNCHANGED <<loaded, cold, refs, lock>>

\* Loading raises: the lock is left.
Fail(w) ==
    /\ pc' = [pc EXCEPT ![w] = "failed"] /\ lock' = Nobody
    /\ UNCHANGED <<loaded, cold, refs>>

\* ensure_local: the marker decides, and the access time is noted.
FetchCached(w) ==
    /\ pc[w] = "fetch" /\ disk[want[w]] # "absent"
    /\ order' = Append(Without(order, {want[w]}), want[w])
    /\ pc' = [pc EXCEPT ![w] = "load"]
    /\ UNCHANGED <<admission, manager, want, stopped, disk, pass, crashes>>

\* _download_from_s3: a temporary directory gets files and marker and is moved into place.
Downloaded(m) ==
    /\ disk' = [disk EXCEPT ![m] = "whole"]
    /\ order' = Append(Without(order, {m}), m)

\* A download starts an eviction pass in a thread of its own.
Download(w) ==
    /\ pc[w] = "fetch" /\ disk[want[w]] = "absent"
    /\ Downloaded(want[w])
    /\ \/ \E p \in Passes : pass[p].at = "idle" /\ pass' = [pass EXCEPT ![p].at = "scan"]
       \/ (\A p \in Passes : pass[p].at # "idle") /\ UNCHANGED pass
    /\ pc' = [pc EXCEPT ![w] = "load"]
    /\ UNCHANGED <<admission, manager, want, stopped, crashes>>

DownloadFails(w) ==
    /\ pc[w] = "fetch" /\ disk[want[w]] = "absent" /\ Fail(w)
    /\ UNCHANGED <<admission, want, stopped, storage, pass, crashes>>

\* The files are read, and the model is registered with its first reference.
Load(w) ==
    /\ pc[w] = "load" /\ disk[want[w]] = "whole"
    /\ loaded' = Append(loaded, want[w]) /\ refs' = [refs EXCEPT ![want[w]] = 1]
    /\ cold' = cold /\ lock' = Nobody
    /\ pc' = [pc EXCEPT ![w] = "use"]
    /\ UNCHANGED <<admission, want, stopped, storage, pass, crashes>>

\* Files are missing, or the device refuses the model.
LoadFails(w) ==
    /\ pc[w] = "load" /\ Fail(w)
    /\ UNCHANGED <<admission, want, stopped, storage, pass, crashes>>

Release(w) ==
    /\ pc[w] = "use" /\ lock = Nobody
    /\ refs' = [refs EXCEPT ![want[w]] = IF want[w] \in ToSet(loaded) /\ @ > 0 THEN @ - 1 ELSE @]
    /\ pc' = [pc EXCEPT ![w] = "done"]
    /\ UNCHANGED <<admission, loaded, cold, lock, want, stopped, storage, pass, crashes>>

\* The models that were acquired longest ago reach their TTL.
Age ==
    /\ \E n \in DOMAIN loaded : cold' = {loaded[i] : i \in 1 .. n}
    /\ UNCHANGED <<admission, loaded, refs, lock, pc, want, stopped, storage, pass, crashes>>

\* _evict_expired, in the background.
EvictExpired ==
    /\ lock = Nobody /\ cold \cap Idle # {}
    /\ loaded' = Without(loaded, cold \cap Idle) /\ cold' = cold \ Idle
    /\ UNCHANGED <<admission, refs, lock, pc, want, stopped, storage, pass, crashes>>

\* shutdown unloads every model, the ones in use as well.
Shutdown ==
    /\ ~stopped /\ stopped' = TRUE
    /\ lock = Nobody
    /\ loaded' = <<>> /\ cold' = {} /\ refs' = [m \in Models |-> 0]
    /\ UNCHANGED <<admission, lock, pc, want, storage, pass, crashes>>

-----------------------------------------------------------------------------
(* The disk cache evictor *)

Step(p, r) == pass' = [pass EXCEPT ![p] = r]
Host       == <<admission, manager, pc, want, stopped, crashes>>

\* The timer, unless a download has started the pass.
Wake(p) ==
    /\ pass[p].at = "idle" /\ order # <<>>
    /\ Step(p, [Resting EXCEPT !.at = "scan"]) /\ UNCHANGED <<Host, storage>>

\* _scan_entries: the directories that have a marker, with their access times.
ScanEntries(p) ==
    /\ pass[p].at = "scan"
    /\ Step(p, [at |-> "check", list |-> order, ok |-> <<>>, n |-> Len(order)])
    /\ UNCHANGED <<Host, storage>>

\* is_loaded, under the manager's lock.
Check(p) ==
    /\ pass[p].at = "check" /\ pass[p].list # <<>> /\ lock = Nobody
    /\ LET m == Head(pass[p].list) IN
       Step(p, [pass[p] EXCEPT !.list = Tail(@),
                               !.ok = IF m \in ToSet(loaded) THEN @ ELSE Append(@, m)])
    /\ UNCHANGED <<Host, storage>>

\* Entries older than the TTL go, then the oldest until the others fit.
Choose(p) ==
    /\ pass[p].at = "check" /\ pass[p].list = <<>>
    /\ \E k \in 0 .. Len(pass[p].ok) :
         /\ pass[p].n - k <= MaxDisk \/ k = Len(pass[p].ok)
         /\ Step(p, [pass[p] EXCEPT !.at = "remove", !.list = SubSeq(pass[p].ok, 1, k)])
    /\ UNCHANGED <<Host, storage>>

\* rmtree takes the marker first, and the model is absent, or takes other files first.
RemoveEntry(p) ==
    /\ pass[p].at = "remove" /\ pass[p].list # <<>>
    /\ LET m == Head(pass[p].list) IN
       \/ /\ disk[m] # "absent" /\ disk' = [disk EXCEPT ![m] = "torn"]
          /\ Step(p, [pass[p] EXCEPT !.at = "removing"]) /\ UNCHANGED order
       \/ /\ disk' = [disk EXCEPT ![m] = "absent"] /\ order' = Without(order, {m})
          /\ Step(p, [pass[p] EXCEPT !.list = Tail(@)])
    /\ UNCHANGED Host

EntryRemoved(p) ==
    /\ pass[p].at = "removing"
    /\ LET m == Head(pass[p].list) IN
       IF disk[m] = "torn"
       THEN disk' = [disk EXCEPT ![m] = "absent"] /\ order' = Without(order, {m})
       ELSE UNCHANGED storage
    /\ Step(p, [pass[p] EXCEPT !.at = "remove", !.list = Tail(@)])
    /\ UNCHANGED Host

EndPass(p) ==
    /\ pass[p].at = "remove" /\ pass[p].list = <<>>
    /\ Step(p, Resting) /\ UNCHANGED <<Host, storage>>

Evict(p) == ScanEntries(p) \/ Check(p) \/ Choose(p) \/ RemoveEntry(p) \/ EntryRemoved(p) \/ EndPass(p)

\* The process dies and is started again; what is on disk stays.
Crash ==
    /\ crashes < MaxCrashes /\ crashes' = crashes + 1
    /\ active' = [batch |-> 0, rt |-> 0] /\ inherited' = 0
    /\ loaded' = <<>> /\ cold' = {} /\ refs' = [m \in Models |-> 0] /\ lock' = Nobody
    /\ pc' = [w \in Workers |-> "out"] /\ want' = [w \in Workers |-> Nobody] /\ stopped' = FALSE
    /\ pass' = [p \in Passes |-> Resting]
    /\ UNCHANGED <<config, storage>>

-----------------------------------------------------------------------------
(* Specification *)

Serve(w) ==
    \/ Acquire(w) \/ MakeRoom(w) \/ NoRoom(w) \/ FetchCached(w) \/ Download(w) \/ DownloadFails(w)
    \/ Load(w) \/ LoadFails(w) \/ Release(w) \/ Leave(w)

Next ==
    \/ \E w \in Workers : Admit(w) \/ Serve(w)
    \/ \E p \in Passes : Wake(p) \/ Evict(p)
    \/ Age \/ EvictExpired \/ Reconfigure \/ Shutdown \/ Crash

\* Workers that have work go on, and get the lock when it is free again and again.
Fairness == \A w \in Workers : SF_vars(Serve(w))

Spec     == Init /\ [][Next]_vars
FairSpec == Spec /\ Fairness

-----------------------------------------------------------------------------
(* Properties *)

PassSteps == {"idle", "scan", "check", "remove", "removing"}

AdmissionOK == config \in Configs /\ active \in [batch : Nat, rt : Nat] /\ inherited \in Nat

ManagerOK ==
    /\ loaded \in Seq(Models) /\ cold \subseteq ToSet(loaded) /\ refs \in [Models -> Nat]
    /\ lock \in Workers \cup {Nobody}

WorkersOK ==
    /\ pc \in [Workers -> {"out", "in", "fetch", "load", "use", "done", "failed"}]
    /\ want \in [Workers -> Models \cup {Nobody}]

StorageOK ==
    /\ disk \in [Models -> {"absent", "whole", "torn"}]
    /\ order \in Seq(Models) /\ ToSet(order) = {m \in Models : disk[m] # "absent"}

PassesOK == pass \in [Passes -> [at : PassSteps, list : Seq(Models), ok : Seq(Models), n : Nat]]

\* Counters, references, models and passes are in their ranges; the cache's order lists
\* what has a marker on disk.
TypeOK ==
    /\ AdmissionOK /\ ManagerOK /\ WorkersOK /\ StorageOK /\ PassesOK
    /\ stopped \in BOOLEAN /\ crashes \in 0 .. MaxCrashes

\* Whoever downloads or loads holds the manager's lock, its model is not in memory, and
\* there is room for it: nobody else can load in between.
LoaderAlone ==
    \A w \in Workers :
        /\ pc[w] # "out" => want[w] \in Models
        /\ pc[w] \in {"fetch", "load"} <=> lock = w
        /\ lock = w => want[w] \notin ToSet(loaded) /\ Len(loaded) < MaxLoaded

\* The counters of the admission controller are the tasks and sessions in the process: no
\* error path loses a slot or gives one back twice.
SlotsCounted ==
    /\ active.batch = Cardinality({w \in Batch : pc[w] # "out"})
    /\ active.rt = Cardinality({w \in Realtime : pc[w] # "out"})

\* Realtime sessions are not starved: batch tasks never occupy the reserved slots, but for
\* tasks that were running when the limits became tighter.
RtReserved == active.batch <= inherited \/ active.batch <= config.cap - config.res

\* No more models are in memory than allowed, none of them twice.
Capacity == Len(loaded) <= MaxLoaded /\ \A i, j \in DOMAIN loaded : loaded[i] = loaded[j] => i = j

Users(m) == {w \in Workers : pc[w] = "use" /\ want[w] = m}

\* Reference counts are the numbers of workers that use the models, and what is used is
\* loaded.
RefsExact ==
    \A m \in Models : refs[m] = Cardinality(Users(m)) /\ (refs[m] > 0 => m \in ToSet(loaded))

\* Until shutdown, a reference count is the number of workers that use the model, and a
\* model that is used is loaded: neither the TTL nor the need for room evicts it.
UsedStaysLoaded == ~stopped => RefsExact

\* A pass that is deleting a directory has it at the head of its list.
RemovesEntry == \A p \in Passes : pass[p].at = "removing" => pass[p].list # <<>>

\* A directory that has its marker and lacks files is one that an eviction pass is
\* deleting, or was deleting when the process died: downloads appear as a whole.
TornTraced ==
    \A m \in Models : disk[m] = "torn" =>
        crashes > 0 \/ \E p \in Passes : pass[p].at = "removing" /\ Head(pass[p].list) = m

\* Every task and session that was admitted gets through, whatever fails on its way: the
\* lock and the slot come back.
Served == \A w \in Workers : pc[w] # "out" ~> pc[w] = "out"

\* What an engine process shares stays consistent: slots and references are exact, the
\* reservation and the limits hold, and nobody reads half a model but after a deletion.
HostInv ==
    /\ TypeOK /\ LoaderAlone /\ SlotsCounted /\ RtReserved /\ Capacity /\ UsedStaysLoaded
    /\ RemovesEntry /\ TornTraced

=============================================================================
