------------------------------ MODULE Retention ------------------------------
(***************************************************************************)
(* What becomes of the files of jobs and realtime sessions: written by an  *)
(* engine or a session worker, given a purge time when the session is      *)
(* finalised, purged by the cleanup workers under a Redis lock             *)
(* (cleanup.py), or deleted on request (jobs.py, realtime_sessions.py,     *)
(* transcription.py, console.py).                                          *)
(***************************************************************************)
EXTENDS Planning

CONSTANTS
    Recordings,  \* jobs and sessions, as owners of files
    IsSession,   \* [Recordings -> BOOLEAN]
    Keep,        \* [Recordings -> {"transient", "days", "permanent"}]
    Sweepers     \* cleanup workers

ASSUME RetentionAssumption ==
    /\ IsSession \in [Recordings -> BOOLEAN]
    /\ Keep \in [Recordings -> {"transient", "days", "permanent"}]
    /\ None \notin Recordings \cup Sweepers

VARIABLES
    file,        \* file[o]: its row and its files
    lock,        \* lock[o]: the worker that set dalston:purge_lock, or None
    sweep,       \* sweep[w]: a cleanup worker
    erase,       \* erase[o]: a delete request for o
    slack,       \* bounds: what may still go wrong
    kept         \* history: recordings whose files the cleanup removed

retentionVars == <<file, lock, sweep, erase, slack, kept>>

Parts  == {"audio", "transcript"}
Resting == [pc |-> "idle", todo |-> {}, at |-> None]

\* row: "active", "ended", "deleted"; due: purge_after is "unset", "set" or
\* in the "past"; late: a file was written after the row had ended.
RetentionInit(s) ==
    /\ file = [o \in Recordings |->
                 [row |-> IF o \in s.kept THEN "active" ELSE "deleted", due |-> "unset",
                  purged |-> FALSE, parts |-> {}, writing |-> o \in s.kept, late |-> FALSE]]
    /\ lock = [o \in Recordings |-> None]
    /\ sweep = [w \in Sweepers |-> Resting]
    /\ erase = [o \in Recordings |-> "no"]
    /\ slack = s.slack
    /\ kept = {}

-----------------------------------------------------------------------------
\* The engine or worker uploads a part.
Write(o, part) ==
    /\ file[o].writing /\ part \notin file[o].parts
    /\ file' = [file EXCEPT ![o].parts = @ \cup {part},
                            ![o].late = @ \/ file[o].row # "active"]
    /\ UNCHANGED <<lock, sweep, erase, slack, kept>>

\* It has written all it will write.
StopWriting(o) ==
    /\ file[o].writing
    /\ file' = [file EXCEPT ![o].writing = FALSE]
    /\ UNCHANGED <<lock, sweep, erase, slack, kept>>

\* finalize_session, with _compute_purge_after.  The job's end
\* (_check_job_completion) computes no purge_after for the job.
PurgeTime(o) == IF ~IsSession[o] THEN "unset"
                ELSE CASE Keep[o] = "transient" -> "past"
                       [] Keep[o] = "days"      -> "set"
                       [] Keep[o] = "permanent" -> "unset"

EndRow(o) ==
    /\ file[o].row = "active"
    /\ file' = [file EXCEPT ![o].row = "ended", ![o].due = PurgeTime(o)]
    /\ UNCHANGED <<lock, sweep, erase, slack, kept>>

TimePasses(o) ==
    /\ file[o].due = "set"
    /\ file' = [file EXCEPT ![o].due = "past"]
    /\ UNCHANGED <<lock, sweep, erase, slack, kept>>

-----------------------------------------------------------------------------
(* _purge_expired_jobs and _purge_expired_sessions. *)

Expired == {o \in Recordings : /\ file[o].row # "deleted"
                               /\ file[o].due = "past" /\ ~file[o].purged}

Sweep(w) ==
    /\ sweep[w].pc = "idle" /\ Expired # {}
    /\ sweep' = [sweep EXCEPT ![w] = [pc |-> "lock", todo |-> Expired, at |-> None]]
    /\ UNCHANGED <<file, lock, erase, slack, kept>>

\* SET NX EX: a recording that is locked is skipped.
AcquireLock(w) ==
    /\ sweep[w].pc = "lock"
    /\ IF sweep[w].todo = {}
       THEN sweep' = [sweep EXCEPT ![w] = Resting] /\ UNCHANGED lock
       ELSE \E o \in sweep[w].todo :
            IF lock[o] = None
            THEN /\ lock' = [lock EXCEPT ![o] = w]
                 /\ sweep' = [sweep EXCEPT ![w] = [pc |-> "delete", todo |-> @.todo \ {o}, at |-> o]]
            ELSE /\ sweep' = [sweep EXCEPT ![w].todo = @ \ {o}]
                 /\ UNCHANGED lock
    /\ UNCHANGED <<file, erase, slack, kept>>

DeleteArtifacts(w) ==
    LET o == sweep[w].at
    IN  /\ sweep[w].pc = "delete"
        /\ file' = [file EXCEPT ![o].parts = {}]
        /\ kept' = kept \cup {o}
        /\ sweep' = [sweep EXCEPT ![w].pc = "mark"]
        /\ UNCHANGED <<lock, erase, slack>>

\* The row is read anew; it may have been deleted or marked meanwhile.
MarkPurged(w) ==
    LET o == sweep[w].at
    IN  /\ sweep[w].pc = "mark"
        /\ file' = [file EXCEPT ![o].purged = @ \/ file[o].row # "deleted"]
        /\ sweep' = [sweep EXCEPT ![w].pc = "release"]
        /\ UNCHANGED <<lock, erase, slack, kept>>

\* The finally block deletes the key, whoever set it.
ReleaseLock(w) ==
    /\ sweep[w].pc = "release"
    /\ lock' = [lock EXCEPT ![sweep[w].at] = None]
    /\ sweep' = [sweep EXCEPT ![w] = [@ EXCEPT !.pc = "lock", !.at = None]]
    /\ UNCHANGED <<file, erase, slack, kept>>

Slip == slack > 0 /\ slack' = slack - 1

\* Mutant: the row is marked although the deletion raised.
PurgeFailsMarked(w) ==
    /\ sweep[w].pc = "delete"
    /\ Slip
    /\ sweep' = [sweep EXCEPT ![w].pc = "mark"]
    /\ UNCHANGED <<file, lock, erase, kept>>

\* The deletion or the update raises.
PurgeFails(w) ==
    /\ sweep[w].pc \in {"delete", "mark"}
    /\ Slip
    /\ sweep' = [sweep EXCEPT ![w].pc = "release"]
    /\ UNCHANGED <<file, lock, erase, kept>>

SweeperDies(w) ==
    /\ sweep[w].pc # "idle"
    /\ Slip
    /\ sweep' = [sweep EXCEPT ![w] = Resting]
    /\ UNCHANGED <<file, lock, erase, kept>>

\* PURGE_LOCK_TTL_SECONDS: the key of a dead worker goes in the end; that of
\* a slow one may go too early.
Abandoned(o) == lock[o] # None /\ sweep[lock[o]].at # o
\* Mutant: SET NX without EX.
LockStays(o) == lock[o] # None /\ FALSE /\ UNCHANGED retentionVars

LockExpires(o) ==
    /\ lock[o] # None
    /\ IF Abandoned(o) THEN UNCHANGED slack ELSE Slip
    /\ lock' = [lock EXCEPT ![o] = None]
    /\ UNCHANGED <<file, sweep, erase, kept>>

-----------------------------------------------------------------------------
(* Deletion on request: the row first, then a job's files, best effort. *)

DeleteRow(o) ==
    /\ file[o].row = "ended" /\ erase[o] = "no"
    /\ file' = [file EXCEPT ![o].row = "deleted"]
    /\ erase' = [erase EXCEPT ![o] = IF IsSession[o] THEN "done" ELSE "files"]
    /\ UNCHANGED <<lock, sweep, slack, kept>>

DeleteFiles(o) ==
    /\ erase[o] = "files"
    /\ file' = [file EXCEPT ![o].parts = {}]
    /\ erase' = [erase EXCEPT ![o] = "done"]
    /\ UNCHANGED <<lock, sweep, slack, kept>>

\* The gateway stops, or the store fails: the files stay, without a row.
DeleteFilesFails(o) ==
    /\ erase[o] = "files"
    /\ Slip
    /\ erase' = [erase EXCEPT ![o] = "failed"]
    /\ UNCHANGED <<file, lock, sweep, kept>>

\* DELETE .../audio keeps the transcript.
DeleteAudio(o) ==
    /\ ~IsSession[o] /\ file[o].row = "ended" /\ "audio" \in file[o].parts
    /\ file' = [file EXCEPT ![o].parts = @ \ {"audio"}]
    /\ UNCHANGED <<lock, sweep, erase, slack, kept>>

-----------------------------------------------------------------------------
SweeperStep(w) == \/ Sweep(w) \/ AcquireLock(w) \/ DeleteArtifacts(w)
                  \/ MarkPurged(w) \/ ReleaseLock(w)

RetentionNext ==
    \/ \E o \in Recordings : \/ \E part \in Parts : Write(o, part)
                             \/ StopWriting(o) \/ EndRow(o) \/ TimePasses(o)
                             \/ LockExpires(o) \/ DeleteRow(o) \/ DeleteFiles(o)
                             \/ DeleteFilesFails(o) \/ DeleteAudio(o)
    \/ \E w \in Sweepers : SweeperStep(w) \/ PurgeFails(w) \/ SweeperDies(w)

\* Every orchestrator sweeps periodically and Redis drops keys at their TTL.
\* Nobody has to end a session or to delete anything.
RetentionFairness ==
    /\ \A w \in Sweepers : WF_retentionVars(SweeperStep(w))
    /\ WF_retentionVars(\E o \in Recordings : Abandoned(o) /\ LockExpires(o))

-----------------------------------------------------------------------------
\* Types of all variables.
RetentionTypeOK ==
    /\ file \in [Recordings -> [row : {"active", "ended", "deleted"}, due : {"unset", "set", "past"},
                               purged : BOOLEAN, parts : SUBSET Parts, writing : BOOLEAN, late : BOOLEAN]]
    /\ lock \in [Recordings -> Sweepers \cup {None}]
    /\ sweep \in [Sweepers -> [pc : {"idle", "lock", "delete", "mark", "release"},
                               todo : SUBSET Recordings, at : Recordings \cup {None}]]
    /\ erase \in [Recordings -> {"no", "files", "failed", "done"}]
    /\ kept \subseteq Recordings

\* What is marked as purged has no files, unless one was uploaded after the
\* session had been finalised: also when two workers purge at the same time,
\* because the lock of one expired, and one of them fails half way.
PurgedIsEmpty ==
    \A o \in Recordings : (file[o].purged /\ ~file[o].late) => file[o].parts = {}

\* The cleanup removes files only of sessions that ended with a retention
\* that is over, never of permanent ones, never before the time.
Due(o) == /\ IsSession[o] /\ Keep[o] # "permanent"
          /\ file[o].row # "active" /\ file[o].due = "past"

PurgedWhenDue == \A o \in kept : Due(o)

\* A job deleted on request leaves no files, unless the deletion of the files
\* failed or an engine was still writing.
DeletedLeavesNothing ==
    \A o \in Recordings : (erase[o] = "done" /\ ~IsSession[o] /\ ~file[o].late)
                             => file[o].parts = {}

\* What is due (sessions only: no job is ever given a time) is purged, or
\* deleted by its owner: a worker that dies with the lock does not keep it,
\* because the key has a TTL.
ExpiredIsPurged ==
    \A o \in {r \in Recordings : IsSession[r] /\ Keep[r] # "permanent"} :
       (file[o].due = "past" /\ file[o].row = "ended")
          ~> (file[o].purged \/ file[o].row = "deleted")

\* A time is set only for sessions that ended, and a row is given up before its files.
TimesKept ==
    \A o \in Recordings :
        /\ file[o].due # "unset" => IsSession[o] /\ Keep[o] # "permanent" /\ file[o].row # "active"
        /\ file[o].purged => file[o].row # "active"
        /\ erase[o] # "no" => file[o].row = "deleted"

\* Whatever a worker has found was due and stays so, and what it is about to mark is empty.
SweepsKept ==
    \A w \in Sweepers :
        /\ \A o \in sweep[w].todo : Due(o)
        /\ sweep[w].at # None => Due(sweep[w].at)
        /\ sweep[w].pc \in {"delete", "mark", "release"} => sweep[w].at # None
        /\ sweep[w].pc = "mark" => file[sweep[w].at].parts = {} \/ file[sweep[w].at].late

\* Files go when they are due or deleted, not before, and what is marked as
\* gone is gone, also with two workers and failures half way.
RetentionInv ==
    /\ RetentionTypeOK /\ PurgedIsEmpty /\ PurgedWhenDue /\ DeletedLeavesNothing
    /\ TimesKept /\ SweepsKept

=============================================================================
