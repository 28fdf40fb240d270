----------------------------- MODULE ModelStore -----------------------------
(***************************************************************************)
(* The gateway's model registry: a database row per model and its files in *)
(* the object store (model_registry.py, api/v1/models.py).  A pull runs in *)
(* the background for as long as the download takes; meanwhile the model   *)
(* can be pulled again, removed, or synchronised from the store.           *)
(***************************************************************************)
EXTENDS Planning

CONSTANTS
    Files,      \* files of a model
    Marker,     \* .complete
    Pulls       \* background pull tasks

ASSUME StoreAssumption == Marker \notin Files /\ None \notin Models

VARIABLES
    status,     \* status[m] of the row, or "absent"
    path,       \* path[m]: download_path is set
    objects,    \* objects[m]: what the store holds of it
    pull,       \* pull[b]: a background pull
    removal,    \* the removal in progress
    sync,       \* the synchronisation in progress
    budget,     \* bounds: operations and crashes still to come, and on what
    entangled   \* history: models two operations worked on at once, or
                \* whose removal was cut short

storeVars == <<status, path, objects, pull, removal, sync, budget, entangled>>

NoPull    == [pc |-> "idle", model |-> None, force |-> FALSE, todo |-> {}]
NoRemoval == [pc |-> "idle", model |-> None, purge |-> FALSE, found |-> {}]
NoSync    == [pc |-> "idle", seen |-> [m \in Models |-> "absent"], inS3 |-> {}, todo |-> {}]

Ready == {m \in Models : status[m] = "ready"}
Whole(m) == objects[m] = Files \cup {Marker}

StoreInit(s) ==
    /\ status = [m \in Models |-> IF m \in s.ready THEN "ready" ELSE "not_downloaded"]
    /\ path = [m \in Models |-> m \in s.ready]
    /\ objects = [m \in Models |-> IF m \in s.ready THEN Files \cup {Marker} ELSE {}]
    /\ pull = [b \in Pulls |-> NoPull]
    /\ removal = NoRemoval
    /\ sync = NoSync
    /\ budget = [ops |-> s.ops, pool |-> s.pool, crash |-> s.crashes, stopped |-> FALSE]
    /\ entangled = {}

\* Operations under way that concern the model.
Pulling(m)  == {b \in Pulls : pull[b].model = m}
Removing(m) == removal.model = m
Syncing     == sync.pc # "idle"
Busy(m)     == Pulling(m) # {} \/ Removing(m) \/ Syncing

Spend == budget.ops > 0 /\ budget' = [budget EXCEPT !.ops = @ - 1]
Entangle(ms) == entangled' = entangled \cup {m \in ms : Busy(m)}

-----------------------------------------------------------------------------
\* POST /models/{id}/pull.  A forced pull of a model that is "downloading"
\* first resets the row, which forgets the path.
RequestPull(b, m, force) ==
    /\ pull[b].pc = "idle"
    /\ Spend
    /\ status[m] # "absent"
    /\ status[m] \in {"ready", "downloading"} => force
    /\ status' = [status EXCEPT ![m] = "downloading"]
    /\ path' = [path EXCEPT ![m] = @ /\ status[m] # "downloading"]
    /\ pull' = [pull EXCEPT ![b] = [pc |-> "begin", model |-> m, force |-> force, todo |-> {}]]
    /\ Entangle({m})
    /\ UNCHANGED <<objects, removal, sync>>

\* pull_model: the row is read again by the background task.
BeginPull(b) ==
    LET m == pull[b].model
        over == status[m] = "absent" \/ (status[m] = "ready" /\ ~pull[b].force)
    IN  /\ pull[b].pc = "begin"
        /\ pull' = [pull EXCEPT ![b] = IF over THEN NoPull ELSE [@ EXCEPT !.pc = "download"]]
        /\ status' = [status EXCEPT ![m] = IF over THEN @ ELSE "downloading"]
        /\ UNCHANGED <<path, objects, removal, sync, budget, entangled>>

\* snapshot_download into a temporary directory.
Download(b) ==
    /\ pull[b].pc = "download"
    /\ pull' = [pull EXCEPT ![b].pc = "upload", ![b].todo = Files]
    /\ UNCHANGED <<status, path, objects, removal, sync, budget, entangled>>

\* Mutant: the marker goes first.
UploadMarkerFirst(b) ==
    LET m == pull[b].model
    IN  /\ pull[b].pc = "upload"
        /\ objects' = [objects EXCEPT ![m] = @ \cup {Marker} \cup (Files \ pull[b].todo)]
        /\ IF pull[b].todo = {} THEN pull' = [pull EXCEPT ![b].pc = "commit"]
           ELSE \E f \in pull[b].todo : pull' = [pull EXCEPT ![b].todo = @ \ {f}]
        /\ UNCHANGED <<status, path, removal, sync, budget, entangled>>

\* _upload_model_to_s3: the files one by one, the marker last.
Upload(b) ==
    LET m == pull[b].model
    IN  /\ pull[b].pc = "upload"
        /\ IF pull[b].todo = {}
           THEN /\ objects' = [objects EXCEPT ![m] = @ \cup {Marker}]
                /\ pull' = [pull EXCEPT ![b].pc = "commit"]
           ELSE \E f \in pull[b].todo :
                /\ objects' = [objects EXCEPT ![m] = @ \cup {f}]
                /\ pull' = [pull EXCEPT ![b].todo = @ \ {f}]
        /\ UNCHANGED <<status, path, removal, sync, budget, entangled>>

\* The success and the failure update; a purged row is not there to update.
FinishPull(b) ==
    LET m == pull[b].model
        kept == status[m] # "absent"
    IN  /\ pull[b].pc = "commit"
        /\ status' = [status EXCEPT ![m] = IF kept THEN "ready" ELSE @]
        /\ path' = [path EXCEPT ![m] = kept]
        /\ pull' = [pull EXCEPT ![b] = NoPull]
        /\ UNCHANGED <<objects, removal, sync, budget, entangled>>

FailPull(b) ==
    LET m == pull[b].model
    IN  /\ pull[b].pc \in {"download", "upload"}
        /\ budget.crash > 0
        /\ budget' = [budget EXCEPT !.crash = @ - 1]
        /\ status' = [status EXCEPT ![m] = IF @ = "absent" THEN @ ELSE "failed"]
        /\ pull' = [pull EXCEPT ![b] = NoPull]
        /\ UNCHANGED <<path, objects, removal, sync, entangled>>

\* The gateway process ends, and every background task of it.
GatewayStops ==
    /\ budget.crash > 0
    /\ \/ \E b \in Pulls : pull[b].pc # "idle"
       \/ removal.pc # "idle" \/ sync.pc # "idle"
    /\ budget' = [budget EXCEPT !.crash = @ - 1, !.stopped = TRUE]
    /\ entangled' = entangled \cup {m \in Models : Removing(m)}
    /\ pull' = [b \in Pulls |-> NoPull]
    /\ removal' = NoRemoval
    /\ sync' = NoSync
    /\ UNCHANGED <<status, path, objects>>

-----------------------------------------------------------------------------
\* DELETE /models/{id}: refused while a pending job names the model.
RequestRemoval(m, purge, inUse) ==
    /\ removal.pc = "idle"
    /\ Spend
    /\ status[m] # "absent" /\ ~inUse
    /\ removal' = [pc |-> IF path[m] THEN "list" ELSE "row", model |-> m,
                   purge |-> purge, found |-> {}]
    /\ Entangle({m})
    /\ UNCHANGED <<status, path, objects, pull, sync>>

\* _delete_model_from_s3: list what is there, then delete that.
ListObjects ==
    /\ removal.pc = "list"
    /\ removal' = [removal EXCEPT !.pc = "delete", !.found = objects[removal.model]]
    /\ UNCHANGED <<status, path, objects, pull, sync, budget, entangled>>

DeleteObjects ==
    /\ removal.pc = "delete"
    /\ objects' = [objects EXCEPT ![removal.model] = @ \ removal.found]
    /\ removal' = [removal EXCEPT !.pc = "row"]
    /\ UNCHANGED <<status, path, pull, sync, budget, entangled>>

FinishRemoval ==
    LET m == removal.model
    IN  /\ removal.pc = "row"
        /\ status' = [status EXCEPT ![m] = IF removal.purge \/ @ = "absent" THEN "absent"
                                           ELSE "not_downloaded"]
        /\ path' = [path EXCEPT ![m] = FALSE]
        /\ removal' = NoRemoval
        /\ UNCHANGED <<objects, pull, sync, budget, entangled>>

-----------------------------------------------------------------------------
\* sync_from_s3: all rows are read first, then the markers one by one; the
\* updates are committed together at the end.
BeginSync ==
    /\ sync.pc = "idle"
    /\ Spend
    /\ sync' = [pc |-> "look", seen |-> status, inS3 |-> {},
                todo |-> {m \in budget.pool : status[m] # "absent"}]
    /\ entangled' = entangled \cup {m \in Models : Pulling(m) # {} \/ Removing(m)}
    /\ UNCHANGED <<status, path, objects, pull, removal>>

LookForMarker ==
    /\ sync.pc = "look"
    /\ \E m \in sync.todo :
          sync' = [sync EXCEPT !.todo = @ \ {m},
                               !.inS3 = IF Marker \in objects[m] THEN @ \cup {m} ELSE @]
    /\ UNCHANGED <<status, path, objects, pull, removal, budget, entangled>>

FinishSync ==
    LET found(m) == m \in sync.inS3 /\ sync.seen[m] \notin {"ready", "absent"}
        gone(m)  == m \in budget.pool \ sync.inS3 /\ sync.seen[m] = "ready"
    IN  /\ sync.pc = "look" /\ sync.todo = {}
        /\ status' = [m \in Models |-> IF status[m] = "absent" THEN "absent"
                                       ELSE IF found(m) THEN "ready"
                                       ELSE IF gone(m) THEN "not_downloaded" ELSE status[m]]
        /\ path' = [m \in Models |-> (path[m] \/ (found(m) /\ status[m] # "absent")) /\ ~gone(m)]
        /\ sync' = NoSync
        /\ UNCHANGED <<objects, pull, removal, budget, entangled>>

-----------------------------------------------------------------------------
PullStep(b) == BeginPull(b) \/ Download(b) \/ Upload(b) \/ FinishPull(b)
RemovalStep == ListObjects \/ DeleteObjects \/ FinishRemoval
SyncStep    == LookForMarker \/ FinishSync

StoreNext(InUse(_)) ==
    \/ \E b \in Pulls : PullStep(b) \/ FailPull(b)
    \/ \E b \in Pulls, m \in budget.pool, force \in BOOLEAN : RequestPull(b, m, force)
    \/ \E m \in budget.pool, purge \in BOOLEAN : RequestRemoval(m, purge, InUse(m))
    \/ RemovalStep \/ BeginSync \/ SyncStep \/ GatewayStops

-----------------------------------------------------------------------------
Statuses == {"absent", "not_downloaded", "downloading", "ready", "failed"}

\* Types of all variables.
StoreTypeOK ==
    /\ status \in [Models -> Statuses] /\ path \in [Models -> BOOLEAN]
    /\ objects \in [Models -> SUBSET (Files \cup {Marker})]
    /\ pull \in [Pulls -> [pc : {"idle", "begin", "download", "upload", "commit"}, model : Models \cup {None},
                          force : BOOLEAN, todo : SUBSET Files]]
    /\ removal \in [pc : {"idle", "list", "delete", "row"}, model : Models \cup {None}, purge : BOOLEAN,
                    found : SUBSET (Files \cup {Marker})]
    /\ sync \in [pc : {"idle", "look"}, seen : [Models -> Statuses], inS3 : SUBSET Models, todo : SUBSET Models]
    /\ budget \in [ops : Nat, pool : SUBSET Models, crash : Nat, stopped : BOOLEAN]
    /\ entangled \subseteq Models

\* The marker is in the store only with all of the files, however often a
\* pull fails or the gateway stops: the marker is what sync_from_s3 and the
\* engines go by.  Operations on one model at the same time break this.
MarkerIsWhole ==
    \A m \in Models \ entangled : Marker \in objects[m] => Files \subseteq objects[m]

\* A row says "ready" only of a model that can be loaded, except while an
\* operation on it is under way.
ReadyIsWhole ==
    \A m \in Models \ entangled : (status[m] = "ready" /\ ~Busy(m)) => Whole(m)

\* While the gateway lives, "downloading" means that a pull is under way,
\* whatever else happens to the model: no row is stuck in it.
DownloadingIsLive ==
    \A m \in Models : (status[m] = "downloading" /\ ~budget.stopped) => Pulling(m) # {}

\* An operation names its models as long as it runs.
OperationsNamed ==
    /\ \A b \in Pulls : pull[b].model = None <=> pull[b].pc = "idle"
    /\ removal.model = None <=> removal.pc = "idle"
    /\ sync.inS3 # {} => Syncing

\* Operations that overlap are known as such.
OneAtATime ==
    \A m \in Models \ entangled :
        /\ \A b, c \in Pulling(m) : b = c
        /\ Pulling(m) # {} => ~Removing(m) /\ ~Syncing
        /\ Removing(m) => ~Syncing

\* What a pull that nobody disturbs has uploaded is there; when it ends all is.
PullsKept ==
    \A b \in Pulls : pull[b].model \in Models \ entangled =>
        LET m == pull[b].model
        IN  /\ status[m] = "downloading"
            /\ pull[b].pc = "upload" => Files \ pull[b].todo \subseteq objects[m]
            /\ pull[b].pc = "commit" => Whole(m)

\* Nothing is added to what a removal has listed, nor taken from what a synchronisation
\* has seen; a model that is neither pulled nor removed can be loaded if its row says so.
StoreKept ==
    /\ removal.model \in Models \ entangled /\ removal.pc = "delete" => objects[removal.model] = removal.found
    /\ \A m \in sync.inS3 \ entangled : Marker \in objects[m]
    /\ \A m \in Models \ entangled :
          status[m] = "ready" /\ Pulling(m) = {} /\ ~Removing(m) => Whole(m)

\* Pulls, removals and synchronisations that overlap, fail or are cut short
\* leave rows that tell the truth about the store.
StoreInv ==
    /\ StoreTypeOK /\ MarkerIsWhole /\ ReadyIsWhole /\ DownloadingIsLive
    /\ OperationsNamed /\ OneAtATime /\ PullsKept /\ StoreKept

=============================================================================
