---------------------------- MODULE ServiceProofs ----------------------------
(***************************************************************************)
(* The control plane around the pipeline, for any sets of recordings and    *)
(* cleanup workers, and any scenario.                                       *)
(***************************************************************************)
EXTENDS Service, FiniteSetTheorems, WellFoundedInduction, TLAPS

-----------------------------------------------------------------------------
(* Retention *)

\* How the actions change a recording.
FileChange(o) ==
    \/ file'[o] = file[o]
    \/ \E part \in Parts : file'[o] = [file[o] EXCEPT !.parts = @ \cup {part}, !.late = @ \/ file[o].row # "active"]
    \/ file'[o] = [file[o] EXCEPT !.writing = FALSE]
    \/ file[o].row = "active" /\ file'[o] = [file[o] EXCEPT !.row = "ended", !.due = PurgeTime(o)]
    \/ file[o].due = "set" /\ file'[o] = [file[o] EXCEPT !.due = "past"]
    \/ file'[o] = [file[o] EXCEPT !.parts = {}]
    \/ file'[o] = [file[o] EXCEPT !.parts = @ \ {"audio"}]
    \/ file[o].row = "ended" /\ file'[o] = [file[o] EXCEPT !.row = "deleted"]
    \/ /\ \E w \in Sweepers : sweep[w].pc = "mark" /\ sweep[w].at = o
       /\ file'[o] = [file[o] EXCEPT !.purged = @ \/ file[o].row # "deleted"]

\* Every step of the cleanup and of the requests changes recordings in one of these ways.
LEMMA FilesChange ==
    ASSUME RetentionTypeOK, SweepsKept, RetentionNext, NEW o \in Recordings
    PROVE  FileChange(o)
<1> USE DEF RetentionTypeOK, FileChange
<1>1. ASSUME NEW r \in Recordings, NEW part \in Parts, Write(r, part) PROVE FileChange(o)
  BY <1>1 DEF Write
<1>2. ASSUME NEW r \in Recordings, StopWriting(r) PROVE FileChange(o)
  BY <1>2 DEF StopWriting
<1>3. ASSUME NEW r \in Recordings, EndRow(r) PROVE FileChange(o)
  BY <1>3 DEF EndRow
<1>4. ASSUME NEW r \in Recordings, TimePasses(r) PROVE FileChange(o)
  BY <1>4 DEF TimePasses
<1>5. ASSUME NEW r \in Recordings, LockExpires(r) \/ DeleteFilesFails(r) PROVE FileChange(o)
  BY <1>5 DEF LockExpires, DeleteFilesFails
<1>6. ASSUME NEW r \in Recordings, DeleteRow(r) PROVE FileChange(o)
  BY <1>6 DEF DeleteRow
<1>7. ASSUME NEW r \in Recordings, DeleteFiles(r) PROVE FileChange(o)
  BY <1>7 DEF DeleteFiles
<1>7a. ASSUME NEW r \in Recordings, DeleteAudio(r) PROVE FileChange(o)
  BY <1>7a DEF DeleteAudio
<1>8. ASSUME NEW w \in Sweepers, DeleteArtifacts(w) PROVE FileChange(o)
  BY <1>8 DEF DeleteArtifacts
<1>9. ASSUME NEW w \in Sweepers, MarkPurged(w) PROVE FileChange(o)
  BY <1>9 DEF MarkPurged
<1>10. ASSUME NEW w \in Sweepers, Sweep(w) \/ AcquireLock(w) \/ ReleaseLock(w) \/ PurgeFails(w) \/ SweeperDies(w)
       PROVE  FileChange(o)
  BY <1>10 DEF Sweep, AcquireLock, ReleaseLock, PurgeFails, SweeperDies
<1> QED BY <1>1, <1>2, <1>3, <1>4, <1>5, <1>6, <1>7, <1>7a, <1>8, <1>9, <1>10 DEF RetentionNext, SweeperStep

\* What every such change keeps: rows do not come back, times stay past, and what was
\* written after the end is known to be late.
LEMMA FileKept ==
    ASSUME RetentionInv, NEW o \in Recordings, FileChange(o)
    PROVE  /\ Due(o) => Due(o)'
           /\ file[o].row = "deleted" => file'[o].row = "deleted"
           /\ file[o].row # "active" => file'[o].row # "active"
           /\ file[o].row # "active" /\ (file[o].parts = {} \/ file[o].late) => file'[o].parts = {} \/ file'[o].late
           /\ file'[o].purged /\ ~file'[o].late => file'[o].parts = {}
           /\ file'[o].due # "unset" => IsSession[o] /\ Keep[o] # "permanent" /\ file'[o].row # "active"
           /\ file'[o].purged => file'[o].row # "active"
           /\ file'[o] \in [row : {"active", "ended", "deleted"}, due : {"unset", "set", "past"},
                            purged : BOOLEAN, parts : SUBSET Parts, writing : BOOLEAN, late : BOOLEAN]
<1> DEFINE f == file[o]
           g == file'[o]
<1>0. f \in [row : {"active", "ended", "deleted"}, due : {"unset", "set", "past"},
             purged : BOOLEAN, parts : SUBSET Parts, writing : BOOLEAN, late : BOOLEAN]
  BY DEF RetentionInv, RetentionTypeOK
<1>1. /\ f.purged /\ ~f.late => f.parts = {}
      /\ f.due # "unset" => IsSession[o] /\ Keep[o] # "permanent" /\ f.row # "active"
      /\ f.purged => f.row # "active"
  BY DEF RetentionInv, PurgedIsEmpty, TimesKept
<1>2. Due(o) <=> IsSession[o] /\ Keep[o] # "permanent" /\ f.row # "active" /\ f.due = "past"
  BY DEF Due
<1>3. Due(o)' <=> IsSession[o] /\ Keep[o] # "permanent" /\ g.row # "active" /\ g.due = "past"
  BY DEF Due
<1>4. IsSession[o] \in BOOLEAN /\ Keep[o] \in {"transient", "days", "permanent"}
  BY RetentionAssumption
<1>5. (\E w \in Sweepers : sweep[w].pc = "mark" /\ sweep[w].at = o) => Due(o) /\ (f.parts = {} \/ f.late)
  BY RetentionAssumption DEF RetentionInv, SweepsKept
<1>6. PurgeTime(o) \in {"unset", "set", "past"} /\ (PurgeTime(o) # "unset" => IsSession[o] /\ Keep[o] # "permanent")
  BY <1>4 DEF PurgeTime
<1>a. \/ g = f
      \/ \E part \in Parts : g = [f EXCEPT !.parts = @ \cup {part}, !.late = @ \/ f.row # "active"]
      \/ g = [f EXCEPT !.writing = FALSE]
      \/ f.row = "active" /\ g = [f EXCEPT !.row = "ended", !.due = PurgeTime(o)]
      \/ f.due = "set" /\ g = [f EXCEPT !.due = "past"]
      \/ g = [f EXCEPT !.parts = {}]
      \/ g = [f EXCEPT !.parts = @ \ {"audio"}]
      \/ f.row = "ended" /\ g = [f EXCEPT !.row = "deleted"]
      \/ /\ \E w \in Sweepers : sweep[w].pc = "mark" /\ sweep[w].at = o
         /\ g = [f EXCEPT !.purged = @ \/ f.row # "deleted"]
  BY DEF FileChange
<1> HIDE DEF f, g
<1> DEFINE Goal == /\ Due(o) => Due(o)'
                   /\ f.row = "deleted" => g.row = "deleted"
                   /\ f.row # "active" => g.row # "active"
                   /\ f.row # "active" /\ (f.parts = {} \/ f.late) => g.parts = {} \/ g.late
                   /\ g.purged /\ ~g.late => g.parts = {}
                   /\ g.due # "unset" => IsSession[o] /\ Keep[o] # "permanent" /\ g.row # "active"
                   /\ g.purged => g.row # "active"
                   /\ g \in [row : {"active", "ended", "deleted"}, due : {"unset", "set", "past"},
                             purged : BOOLEAN, parts : SUBSET Parts, writing : BOOLEAN, late : BOOLEAN]
<1> USE <1>0, <1>1, <1>2, <1>3
<1>b. ASSUME g = f PROVE Goal
  BY <1>b
<1>c. ASSUME NEW part \in Parts, g = [f EXCEPT !.parts = @ \cup {part}, !.late = @ \/ f.row # "active"] PROVE Goal
  BY <1>c
<1>d. ASSUME g = [f EXCEPT !.writing = FALSE] PROVE Goal
  BY <1>d
<1>e. ASSUME f.row = "active", g = [f EXCEPT !.row = "ended", !.due = PurgeTime(o)] PROVE Goal
  BY <1>e, <1>6
<1>f. ASSUME f.due = "set", g = [f EXCEPT !.due = "past"] PROVE Goal
  BY <1>f
<1>g. ASSUME g = [f EXCEPT !.parts = {}] PROVE Goal
  BY <1>g
<1>h. ASSUME g = [f EXCEPT !.parts = @ \ {"audio"}] PROVE Goal
  BY <1>h
<1>i. ASSUME f.row = "ended", g = [f EXCEPT !.row = "deleted"] PROVE Goal
  BY <1>i
<1>j. ASSUME \E w \in Sweepers : sweep[w].pc = "mark" /\ sweep[w].at = o,
             g = [f EXCEPT !.purged = @ \/ f.row # "deleted"]
      PROVE  Goal
  BY <1>j, <1>5
<1> QED BY <1>a, <1>b, <1>c, <1>d, <1>e, <1>f, <1>g, <1>h, <1>i, <1>j DEF f, g
\* The functions stay functions, and the other variables keep their types.
LEMMA RetentionTypes ==
    ASSUME RetentionInv, RetentionNext
    PROVE  /\ file' = [o \in Recordings |-> file'[o]]
           /\ lock' \in [Recordings -> Sweepers \cup {None}]
           /\ erase' \in [Recordings -> {"no", "files", "failed", "done"}]
           /\ sweep' \in [Sweepers -> [pc : {"idle", "lock", "delete", "mark", "release"},
                                       todo : SUBSET Recordings, at : Recordings \cup {None}]]
           /\ kept' \subseteq Recordings
<1> USE DEF RetentionTypeOK
<1>0. RetentionTypeOK /\ SweepsKept
  BY DEF RetentionInv
<1> DEFINE Kept == /\ file' = [o \in Recordings |-> file'[o]]
                   /\ lock' \in [Recordings -> Sweepers \cup {None}]
                   /\ erase' \in [Recordings -> {"no", "files", "failed", "done"}]
                   /\ sweep' \in [Sweepers -> [pc : {"idle", "lock", "delete", "mark", "release"},
                                               todo : SUBSET Recordings, at : Recordings \cup {None}]]
                   /\ kept' \subseteq Recordings
<1>1. ASSUME NEW r \in Recordings, NEW part \in Parts, Write(r, part) PROVE Kept
  BY <1>0, <1>1 DEF Write
<1>2. ASSUME NEW r \in Recordings, StopWriting(r) \/ EndRow(r) \/ TimePasses(r) PROVE Kept
  BY <1>0, <1>2 DEF StopWriting, EndRow, TimePasses
<1>3. ASSUME NEW r \in Recordings, LockExpires(r) \/ DeleteFilesFails(r) PROVE Kept
  BY <1>0, <1>3 DEF LockExpires, DeleteFilesFails
<1>4. ASSUME NEW r \in Recordings, DeleteRow(r) \/ DeleteFiles(r) \/ DeleteAudio(r) PROVE Kept
  BY <1>0, <1>4 DEF DeleteRow, DeleteFiles, DeleteAudio
<1>5. ASSUME NEW w \in Sweepers, Sweep(w) PROVE Kept
  BY <1>0, <1>5 DEF Sweep, Expired
<1>6. ASSUME NEW w \in Sweepers, AcquireLock(w) PROVE Kept
  <2>0. UNCHANGED <<file, erase, kept>>
    BY <1>6 DEF AcquireLock
  <2>1. CASE sweep' = [sweep EXCEPT ![w] = Resting] /\ UNCHANGED lock
    BY <1>0, <2>0, <2>1 DEF Resting
  <2>2. ASSUME NEW o \in sweep[w].todo, lock' = [lock EXCEPT ![o] = w],
               sweep' = [sweep EXCEPT ![w] = [pc |-> "delete", todo |-> @.todo \ {o}, at |-> o]]
        PROVE  Kept
    BY <1>0, <2>0, <2>2
  <2>3. ASSUME NEW o \in sweep[w].todo, sweep' = [sweep EXCEPT ![w].todo = @ \ {o}], UNCHANGED lock PROVE Kept
    BY <1>0, <2>0, <2>3
  <2> QED BY <1>6, <2>1, <2>2, <2>3 DEF AcquireLock
<1>7. ASSUME NEW w \in Sweepers, DeleteArtifacts(w) PROVE Kept
  <2>1. sweep[w].at \in Recordings
    BY <1>0, <1>7 DEF DeleteArtifacts, SweepsKept
  <2>2. kept' \subseteq Recordings /\ UNCHANGED <<lock, erase>>
    BY <1>0, <1>7, <2>1 DEF DeleteArtifacts
  <2>3. file' = [o \in Recordings |-> file'[o]]
    BY <1>0, <1>7 DEF DeleteArtifacts
  <2>4. sweep' = [sweep EXCEPT ![w].pc = "mark"]
    BY <1>7 DEF DeleteArtifacts
  <2> QED BY SMTT(30), <1>0, <2>2, <2>3, <2>4
<1>8. ASSUME NEW w \in Sweepers, MarkPurged(w) PROVE Kept
  BY <1>0, <1>8 DEF MarkPurged
<1>9. ASSUME NEW w \in Sweepers, ReleaseLock(w) PROVE Kept
  BY ZenonT(30), <1>0, <1>9 DEF ReleaseLock
<1>10. ASSUME NEW w \in Sweepers, PurgeFails(w) PROVE Kept
  BY <1>0, <1>10 DEF PurgeFails
<1>11. ASSUME NEW w \in Sweepers, SweeperDies(w) PROVE Kept
  BY <1>0, <1>11 DEF SweeperDies, Resting
<1> QED BY <1>1, <1>2, <1>3, <1>4, <1>5, <1>6, <1>7, <1>8, <1>9, <1>10, <1>11 DEF RetentionNext, SweeperStep

\* A worker goes on with what it found to be due.
LEMMA SweepStep ==
    ASSUME RetentionInv, RetentionNext, NEW w \in Sweepers
    PROVE  /\ \A o \in sweep'[w].todo : Due(o)
           /\ sweep'[w].at # None => Due(sweep'[w].at)
           /\ sweep'[w].pc \in {"delete", "mark", "release"} => sweep'[w].at # None
           /\ sweep'[w].pc = "mark" =>
                \/ sweep[w].pc = "mark" /\ sweep'[w].at = sweep[w].at
                \/ file'[sweep'[w].at].parts = {}
<1> DEFINE Kept == /\ \A o \in sweep'[w].todo : Due(o)
                   /\ sweep'[w].at # None => Due(sweep'[w].at)
                   /\ sweep'[w].pc \in {"delete", "mark", "release"} => sweep'[w].at # None
                   /\ sweep'[w].pc = "mark" =>
                        \/ sweep[w].pc = "mark" /\ sweep'[w].at = sweep[w].at
                        \/ file'[sweep'[w].at].parts = {}
<1>0. RetentionTypeOK /\ SweepsKept /\ TimesKept
  BY DEF RetentionInv
<1>a. /\ \A o \in sweep[w].todo : Due(o)
      /\ sweep[w].at # None => Due(sweep[w].at)
      /\ sweep[w].pc \in {"delete", "mark", "release"} => sweep[w].at # None
  BY <1>0 DEF SweepsKept
<1>b. /\ sweep \in [Sweepers -> [pc : {"idle", "lock", "delete", "mark", "release"},
                                 todo : SUBSET Recordings, at : Recordings \cup {None}]]
      /\ None \notin Recordings
  BY <1>0, RetentionAssumption DEF RetentionTypeOK
<1>1. CASE sweep'[w] = sweep[w]
  BY <1>1, <1>a
<1>2. ASSUME NEW v \in Sweepers, Sweep(v) PROVE Kept
  <2>1. \A o \in Expired : Due(o)
    BY <1>0 DEF Expired, TimesKept, Due
  <2> QED BY <1>2, <1>a, <1>b, <2>1 DEF Sweep
<1>3. ASSUME NEW v \in Sweepers, AcquireLock(v) PROVE Kept
  BY <1>3, <1>a, <1>b DEF AcquireLock, Resting
<1>4. ASSUME NEW v \in Sweepers, DeleteArtifacts(v) PROVE Kept
  <2>1. sweep' = [sweep EXCEPT ![v].pc = "mark"] /\ file' = [file EXCEPT ![sweep[v].at].parts = {}]
        /\ sweep[v].pc = "delete"
    BY <1>4 DEF DeleteArtifacts
  <2>2. sweep[v].at \in Recordings /\ file'[sweep[v].at].parts = {}
    BY <1>0, <1>b, <2>1 DEF SweepsKept, RetentionTypeOK
  <2> QED BY <1>a, <1>b, <2>1, <2>2
<1>5. ASSUME NEW v \in Sweepers, MarkPurged(v) \/ ReleaseLock(v) PROVE Kept
  <2>1. CASE v # w
    BY <1>1, <1>5, <1>b, <2>1 DEF MarkPurged, ReleaseLock
  <2>2. CASE v = w /\ MarkPurged(w)
    BY <1>a, <1>b, <2>2 DEF MarkPurged
  <2>3. CASE v = w /\ ReleaseLock(w)
    BY <1>a, <1>b, <2>3 DEF ReleaseLock
  <2> QED BY <1>5, <2>1, <2>2, <2>3
<1>6. ASSUME NEW v \in Sweepers, PurgeFails(v) \/ SweeperDies(v) PROVE Kept
  BY <1>6, <1>a, <1>b DEF PurgeFails, SweeperDies, Resting
<1>7. ASSUME NEW r \in Recordings,
             (\E part \in Parts : Write(r, part)) \/ StopWriting(r) \/ EndRow(r) \/ TimePasses(r)
             \/ LockExpires(r) \/ DeleteRow(r) \/ DeleteFiles(r) \/ DeleteFilesFails(r) \/ DeleteAudio(r)
      PROVE  sweep'[w] = sweep[w]
  BY <1>7 DEF Write, StopWriting, EndRow, TimePasses, LockExpires, DeleteRow, DeleteFiles, DeleteFilesFails, DeleteAudio
<1> QED BY <1>1, <1>2, <1>3, <1>4, <1>5, <1>6, <1>7 DEF RetentionNext, SweeperStep

\* Deletion on request: the row goes first, and the files are reported as gone only when
\* they are.
LEMMA EraseStep ==
    ASSUME RetentionInv, RetentionNext, NEW o \in Recordings
    PROVE  /\ erase'[o] # "no" => erase[o] # "no" \/ file'[o].row = "deleted"
           /\ erase'[o] = "done" /\ ~IsSession[o] => erase[o] = "done" \/ file'[o].parts = {}
<1> DEFINE Kept == /\ erase'[o] # "no" => erase[o] # "no" \/ file'[o].row = "deleted"
                   /\ erase'[o] = "done" /\ ~IsSession[o] => erase[o] = "done" \/ file'[o].parts = {}
<1>0. RetentionTypeOK
  BY DEF RetentionInv
<1>1. CASE erase' = erase
  BY <1>1
<1>2. ASSUME NEW r \in Recordings, DeleteRow(r) PROVE Kept
  BY <1>0, <1>2, RetentionAssumption DEF DeleteRow, RetentionTypeOK
<1>3. ASSUME NEW r \in Recordings, DeleteFiles(r) PROVE Kept
  BY <1>0, <1>3 DEF DeleteFiles, RetentionTypeOK
<1>4. ASSUME NEW r \in Recordings, DeleteFilesFails(r) PROVE Kept
  BY <1>0, <1>4 DEF DeleteFilesFails, RetentionTypeOK
<1>5. ASSUME NEW r \in Recordings,
             (\E part \in Parts : Write(r, part)) \/ StopWriting(r) \/ EndRow(r) \/ TimePasses(r)
             \/ LockExpires(r) \/ DeleteAudio(r)
      PROVE  erase' = erase
  BY <1>5 DEF Write, StopWriting, EndRow, TimePasses, LockExpires, DeleteAudio
<1>6. ASSUME NEW w \in Sweepers, SweeperStep(w) \/ PurgeFails(w) \/ SweeperDies(w) PROVE erase' = erase
  BY <1>6 DEF SweeperStep, Sweep, AcquireLock, DeleteArtifacts, MarkPurged, ReleaseLock, PurgeFails, SweeperDies
<1> QED BY <1>1, <1>2, <1>3, <1>4, <1>5, <1>6 DEF RetentionNext

\* The cleanup removes files of what it has found.
LEMMA KeptStep ==
    ASSUME RetentionInv, RetentionNext PROVE \A o \in kept' : Due(o)
<1>0. RetentionTypeOK /\ SweepsKept /\ PurgedWhenDue
  BY DEF RetentionInv
<1>1. CASE kept' = kept
  BY <1>0, <1>1 DEF PurgedWhenDue
<1>2. ASSUME NEW w \in Sweepers, DeleteArtifacts(w) PROVE \A o \in kept' : Due(o)
  BY <1>0, <1>2 DEF DeleteArtifacts, PurgedWhenDue, SweepsKept
<1>3. ASSUME NEW r \in Recordings,
             (\E part \in Parts : Write(r, part)) \/ StopWriting(r) \/ EndRow(r) \/ TimePasses(r)
             \/ LockExpires(r) \/ DeleteRow(r) \/ DeleteFiles(r) \/ DeleteFilesFails(r) \/ DeleteAudio(r)
      PROVE  kept' = kept
  BY <1>3 DEF Write, StopWriting, EndRow, TimePasses, LockExpires, DeleteRow, DeleteFiles, DeleteFilesFails, DeleteAudio
<1>4. ASSUME NEW w \in Sweepers,
             Sweep(w) \/ AcquireLock(w) \/ MarkPurged(w) \/ ReleaseLock(w) \/ PurgeFails(w) \/ SweeperDies(w)
      PROVE  kept' = kept
  BY <1>4 DEF Sweep, AcquireLock, MarkPurged, ReleaseLock, PurgeFails, SweeperDies
<1> QED BY <1>1, <1>2, <1>3, <1>4 DEF RetentionNext, SweeperStep

\* The parts of the invariant, from what the steps keep.
LEMMA RetentionStep == ASSUME RetentionInv, RetentionNext PROVE RetentionInv'
<1>0. RetentionTypeOK /\ SweepsKept /\ TimesKept /\ DeletedLeavesNothing /\ PurgedWhenDue
  BY DEF RetentionInv
<1>1. \A o \in Recordings : FileChange(o)
  BY <1>0, FilesChange
<1>2. \A o \in Recordings :
        /\ Due(o) => Due(o)'
        /\ file[o].row = "deleted" => file'[o].row = "deleted"
        /\ file[o].row # "active" /\ (file[o].parts = {} \/ file[o].late) => file'[o].parts = {} \/ file'[o].late
        /\ file'[o].purged /\ ~file'[o].late => file'[o].parts = {}
        /\ file'[o].due # "unset" => IsSession[o] /\ Keep[o] # "permanent" /\ file'[o].row # "active"
        /\ file'[o].purged => file'[o].row # "active"
        /\ file'[o] \in [row : {"active", "ended", "deleted"}, due : {"unset", "set", "past"},
                         purged : BOOLEAN, parts : SUBSET Parts, writing : BOOLEAN, late : BOOLEAN]
  BY <1>1, FileKept
<1>3. RetentionTypeOK'
  BY <1>2, RetentionTypes DEF RetentionTypeOK
<1>4. PurgedIsEmpty'
  BY <1>2 DEF PurgedIsEmpty
<1>5. PurgedWhenDue'
  BY <1>2, <1>3, KeptStep DEF PurgedWhenDue, RetentionTypeOK
<1>6. TimesKept'
  BY <1>0, <1>2, EraseStep DEF TimesKept
<1>7. DeletedLeavesNothing'
  <2>1. ASSUME NEW o \in Recordings, erase'[o] = "done", ~IsSession[o], ~file'[o].late PROVE file'[o].parts = {}
    <3>1. CASE erase[o] = "done"
      <4>1. file[o].row = "deleted" /\ (file[o].parts = {} \/ file[o].late)
        BY <1>0, <2>1, <3>1 DEF TimesKept, DeletedLeavesNothing
      <4> QED BY <1>2, <2>1, <4>1
    <3>2. CASE file'[o].parts = {}
      BY <3>2
    <3> QED BY <2>1, <3>1, <3>2, EraseStep
  <2> QED BY <2>1 DEF DeletedLeavesNothing
<1>8. SweepsKept'
  <2> SUFFICES ASSUME NEW w \in Sweepers
               PROVE  /\ \A o \in sweep'[w].todo : Due(o)'
                      /\ sweep'[w].at # None => Due(sweep[w].at)'
                      /\ sweep'[w].pc \in {"delete", "mark", "release"} => sweep'[w].at # None
                      /\ sweep'[w].pc = "mark" => file'[sweep'[w].at].parts = {} \/ file'[sweep'[w].at].late
    BY DEF SweepsKept
  <2>1. /\ \A o \in sweep'[w].todo : Due(o)
        /\ sweep'[w].at # None => Due(sweep'[w].at)
        /\ sweep'[w].pc \in {"delete", "mark", "release"} => sweep'[w].at # None
        /\ sweep'[w].pc = "mark" =>
             \/ sweep[w].pc = "mark" /\ sweep'[w].at = sweep[w].at
             \/ file'[sweep'[w].at].parts = {}
    BY SweepStep
  <2>2. sweep'[w].todo \subseteq Recordings /\ sweep'[w].at \in Recordings \cup {None}
    BY <1>3 DEF RetentionTypeOK
  <2>3. \A o \in sweep'[w].todo : Due(o)'
    BY <1>2, <2>1, <2>2
  <2>4. sweep'[w].at # None => Due(sweep[w].at)'
    BY <1>2, <2>1, <2>2 DEF Due
  <2>5. sweep'[w].pc = "mark" => file'[sweep'[w].at].parts = {} \/ file'[sweep'[w].at].late
    <3>1. ASSUME sweep[w].pc = "mark"
          PROVE  file[sweep[w].at].row # "active" /\ (file[sweep[w].at].parts = {} \/ file[sweep[w].at].late)
      BY <1>0, <3>1 DEF SweepsKept, Due
    <3> QED BY <1>2, <2>1, <2>2, <3>1
  <2> QED BY <2>1, <2>3, <2>4, <2>5
<1> QED BY <1>3, <1>4, <1>5, <1>6, <1>7, <1>8 DEF RetentionInv

\* Nothing is written, locked or found at the start.
LEMMA RetentionStart == ASSUME NEW s, RetentionInit(s) PROVE RetentionInv
<1>1. RetentionTypeOK
  BY DEF RetentionInit, RetentionTypeOK, Resting
<1>2. PurgedIsEmpty /\ PurgedWhenDue /\ DeletedLeavesNothing /\ TimesKept
  BY DEF RetentionInit, PurgedIsEmpty, PurgedWhenDue, DeletedLeavesNothing, TimesKept
<1>3. SweepsKept
  BY DEF RetentionInit, SweepsKept, Resting
<1> QED BY <1>1, <1>2, <1>3 DEF RetentionInv

\* What another part of the service does leaves the files alone.
LEMMA RetentionAlone == ASSUME RetentionInv, UNCHANGED retentionVars PROVE RetentionInv'
BY DEF retentionVars, RetentionInv, RetentionTypeOK, PurgedIsEmpty, PurgedWhenDue, DeletedLeavesNothing,
       TimesKept, SweepsKept, Due

\* Files go when they are due or deleted, not before, and what is marked as gone is gone,
\* however many cleanup workers sweep, fail, die, or lose their locks.
THEOREM RetentionInvariant == Spec => []RetentionInv
<1>1. Init => RetentionInv
  BY RetentionStart DEF Init
<1>2. RetentionInv /\ [Next]_vars => RetentionInv'
  <2>1. RetentionInv /\ RetentionNext => RetentionInv'
    BY RetentionStep
  <2>2. [Next]_vars => RetentionNext \/ UNCHANGED retentionVars
    BY DEF Next, vars
  <2> QED BY <2>1, <2>2, RetentionAlone
<1> QED BY <1>1, <1>2, PTL DEF Spec

-----------------------------------------------------------------------------
(* The model registry *)

\* What the steps of the registry are, whatever InUse says.
StoreSteps ==
    \/ \E b \in Pulls : PullStep(b) \/ FailPull(b)
    \/ \E b \in Pulls, m \in budget.pool, force \in BOOLEAN : RequestPull(b, m, force)
    \/ \E m \in budget.pool, purge \in BOOLEAN : RequestRemoval(m, purge, FALSE)
    \/ RemovalStep \/ BeginSync \/ SyncStep \/ GatewayStops

\* Operations and their rows keep their types, and name their models.
LEMMA StoreTypes ==
    ASSUME StoreTypeOK, OperationsNamed, StoreSteps PROVE StoreTypeOK' /\ OperationsNamed'
<1> USE StoreAssumption DEF StoreTypeOK, Statuses, Syncing
<1> DEFINE Kept == StoreTypeOK' /\ OperationsNamed'
<1>1. ASSUME NEW b \in Pulls, BeginPull(b) PROVE Kept
  <2>0. pull[b].model \in Models
    BY <1>1 DEF BeginPull, OperationsNamed
  <2>1. StoreTypeOK'
    BY <1>1, <2>0 DEF BeginPull, NoPull
  <2>2. OperationsNamed'
    BY <1>1, <2>0 DEF BeginPull, NoPull, OperationsNamed
  <2> QED BY <2>1, <2>2
<1>2. ASSUME NEW b \in Pulls, Download(b) PROVE Kept
  <2>0. pull' = [pull EXCEPT ![b] = [pull[b] EXCEPT !.pc = "upload", !.todo = Files]]
    BY <1>2 DEF Download
  <2>1. StoreTypeOK'
    <3>1. [pull[b] EXCEPT !.pc = "upload", !.todo = Files]
             \in [pc : {"idle", "begin", "download", "upload", "commit"}, model : Models \cup {None},
                  force : BOOLEAN, todo : SUBSET Files]
      <4>1. pull[b] \in [pc : {"idle", "begin", "download", "upload", "commit"}, model : Models \cup {None},
                         force : BOOLEAN, todo : SUBSET Files]
        OBVIOUS
      <4> QED BY ONLY <4>1
    <3> QED BY <1>2, <2>0, <3>1 DEF Download
  <2>2. OperationsNamed'
    BY <1>2 DEF Download, OperationsNamed
  <2> QED BY <2>1, <2>2
<1>3. ASSUME NEW b \in Pulls, Upload(b) PROVE Kept
  <2>0. pull[b].model \in Models
    BY <1>3 DEF Upload, OperationsNamed
  <2>1. CASE pull[b].todo = {}
    <3>1. StoreTypeOK'
      BY SMTT(30), <1>3, <2>0, <2>1 DEF Upload
    <3>2. OperationsNamed'
      BY <1>3, <2>0, <2>1 DEF Upload, OperationsNamed
    <3> QED BY <3>1, <3>2
  <2>2. ASSUME NEW f \in pull[b].todo, objects' = [objects EXCEPT ![pull[b].model] = @ \cup {f}],
               pull' = [pull EXCEPT ![b].todo = @ \ {f}]
        PROVE  Kept
    <3>1. StoreTypeOK'
      BY <1>3, <2>0, <2>2 DEF Upload
    <3>2. OperationsNamed'
      BY <1>3, <2>0, <2>2 DEF Upload, OperationsNamed
    <3> QED BY <3>1, <3>2
  <2> QED BY <1>3, <2>1, <2>2 DEF Upload
<1>4. ASSUME NEW b \in Pulls, FinishPull(b) PROVE Kept
  <2>0. pull[b].model \in Models
    BY <1>4 DEF FinishPull, OperationsNamed
  <2>1. StoreTypeOK'
    BY <1>4, <2>0 DEF FinishPull, NoPull
  <2>2. OperationsNamed'
    BY <1>4, <2>0 DEF FinishPull, NoPull, OperationsNamed
  <2> QED BY <2>1, <2>2
<1>5. ASSUME NEW b \in Pulls, FailPull(b) PROVE Kept
  <2>0. pull[b].model \in Models
    BY <1>5 DEF FailPull, OperationsNamed
  <2>1. StoreTypeOK'
    BY <1>5, <2>0 DEF FailPull, NoPull
  <2>2. OperationsNamed'
    BY <1>5, <2>0 DEF FailPull, NoPull, OperationsNamed
  <2> QED BY <2>1, <2>2
<1>6. ASSUME NEW b \in Pulls, NEW m \in budget.pool, NEW force \in BOOLEAN, RequestPull(b, m, force) PROVE Kept
  <2>0. m \in Models /\ entangled' \subseteq Models /\ budget' \in [ops : Nat, pool : SUBSET Models, crash : Nat, stopped : BOOLEAN]
    BY <1>6 DEF RequestPull, Entangle, Spend
  <2>1. StoreTypeOK'
    BY <1>6, <2>0 DEF RequestPull
  <2>2. OperationsNamed'
    BY <1>6, <2>0 DEF RequestPull, OperationsNamed
  <2> QED BY <2>1, <2>2
<1>7. ASSUME NEW m \in budget.pool, NEW purge \in BOOLEAN, RequestRemoval(m, purge, FALSE) PROVE Kept
  <2>0. m \in Models /\ entangled' \subseteq Models /\ budget' \in [ops : Nat, pool : SUBSET Models, crash : Nat, stopped : BOOLEAN]
    BY <1>7 DEF RequestRemoval, Entangle, Spend
  <2>1. StoreTypeOK'
    BY <1>7, <2>0 DEF RequestRemoval
  <2>2. OperationsNamed'
    BY <1>7, <2>0 DEF RequestRemoval, OperationsNamed
  <2> QED BY <2>1, <2>2
<1>8. ASSUME RemovalStep PROVE Kept
  <2>0. removal.model \in Models
    BY <1>8 DEF RemovalStep, ListObjects, DeleteObjects, FinishRemoval, OperationsNamed
  <2>1. ASSUME ListObjects PROVE Kept
    <3>1. StoreTypeOK'
      BY <2>0, <2>1 DEF ListObjects
    <3>2. OperationsNamed'
      BY <2>0, <2>1 DEF ListObjects, OperationsNamed
    <3> QED BY <3>1, <3>2
  <2>2. ASSUME DeleteObjects PROVE Kept
    <3>1. StoreTypeOK'
      BY <2>0, <2>2 DEF DeleteObjects
    <3>2. OperationsNamed'
      BY <2>0, <2>2 DEF DeleteObjects, OperationsNamed
    <3> QED BY <3>1, <3>2
  <2>3. ASSUME FinishRemoval PROVE Kept
    <3>1. StoreTypeOK'
      BY <2>0, <2>3 DEF FinishRemoval, NoRemoval
    <3>2. OperationsNamed'
      BY <2>0, <2>3 DEF FinishRemoval, NoRemoval, OperationsNamed
    <3> QED BY <3>1, <3>2
  <2> QED BY <1>8, <2>1, <2>2, <2>3 DEF RemovalStep
<1>9. ASSUME BeginSync PROVE Kept
  <2>0. budget' \in [ops : Nat, pool : SUBSET Models, crash : Nat, stopped : BOOLEAN]
    BY <1>9 DEF BeginSync, Spend
  <2>1. StoreTypeOK'
    BY <1>9, <2>0 DEF BeginSync
  <2>2. OperationsNamed'
    BY <1>9 DEF BeginSync, OperationsNamed
  <2> QED BY <2>1, <2>2
<1>10. ASSUME SyncStep PROVE Kept
  <2>1. CASE LookForMarker
    <3>1. PICK m \in sync.todo :
             sync' = [sync EXCEPT !.todo = @ \ {m}, !.inS3 = IF Marker \in objects[m] THEN @ \cup {m} ELSE @]
      BY <2>1 DEF LookForMarker
    <3>2. sync' \in [pc : {"idle", "look"}, seen : [Models -> Statuses], inS3 : SUBSET Models, todo : SUBSET Models]
      BY ZenonT(30), <3>1
    <3> QED BY <2>1, <3>2 DEF LookForMarker, OperationsNamed
  <2>2. CASE FinishSync
    BY <2>2 DEF FinishSync, NoSync, OperationsNamed
  <2> QED BY <1>10, <2>1, <2>2 DEF SyncStep
<1>11. ASSUME GatewayStops PROVE Kept
  <2>0. budget' \in [ops : Nat, pool : SUBSET Models, crash : Nat, stopped : BOOLEAN]
    <3>1. budget.crash - 1 \in Nat
      BY <1>11 DEF GatewayStops
    <3> QED BY <1>11, <3>1 DEF GatewayStops
  <2>1. StoreTypeOK'
    BY <1>11, <2>0 DEF GatewayStops, NoPull, NoRemoval, NoSync
  <2>2. OperationsNamed'
    BY <1>11 DEF GatewayStops, NoPull, NoRemoval, NoSync, OperationsNamed
  <2> QED BY <2>1, <2>2
<1>12. Kept
  <2> HIDE DEF Kept, StoreTypeOK
  <2> QED BY <1>1, <1>2, <1>3, <1>4, <1>5, <1>6, <1>7, <1>8, <1>9, <1>10, <1>11 DEF StoreSteps, PullStep
<1> QED BY <1>12


\* Each step keeps what is known of every model that no two operations work on, and of the
\* rows that say "downloading".
LEMMA StoreStep == ASSUME StoreInv, StoreSteps PROVE StoreInv'
<1> DEFINE Held == OneAtATime' /\ PullsKept' /\ StoreKept' /\ MarkerIsWhole' /\ DownloadingIsLive'
<1> USE StoreAssumption DEF StoreInv, StoreTypeOK, OperationsNamed, Statuses, Pulling, Removing, Syncing, Whole,
        OneAtATime, PullsKept, StoreKept, MarkerIsWhole, DownloadingIsLive
<1>1. ASSUME NEW b \in Pulls, BeginPull(b) PROVE Held
  <2>1. OneAtATime'
    BY <1>1 DEF BeginPull, NoPull
  <2>2. PullsKept'
    BY <1>1 DEF BeginPull, NoPull
  <2>3. StoreKept'
    BY <1>1 DEF BeginPull, NoPull
  <2>4. MarkerIsWhole'
    BY <1>1 DEF BeginPull, NoPull
  <2>5. DownloadingIsLive'
    BY <1>1 DEF BeginPull, NoPull
  <2> QED BY <2>1, <2>2, <2>3, <2>4, <2>5
<1>2. ASSUME NEW b \in Pulls, Download(b) PROVE Held
  <2>1. OneAtATime'
    BY <1>2 DEF Download
  <2>2. PullsKept'
    BY <1>2 DEF Download
  <2>3. StoreKept'
    BY <1>2 DEF Download
  <2>4. MarkerIsWhole'
    BY <1>2 DEF Download
  <2>5. DownloadingIsLive'
    BY <1>2 DEF Download
  <2> QED BY <2>1, <2>2, <2>3, <2>4, <2>5
<1>3. ASSUME NEW b \in Pulls, Upload(b) PROVE Held
  <2>0. /\ UNCHANGED <<status, removal, sync, budget, entangled>>
        /\ \A c \in Pulls : pull'[c].model = pull[c].model
    <3>1. CASE pull[b].todo = {}
      BY <1>3, <3>1 DEF Upload
    <3>2. ASSUME NEW f, pull' = [pull EXCEPT ![b].todo = @ \ {f}]
          PROVE  \A c \in Pulls : pull'[c].model = pull[c].model
      BY <3>2
    <3> QED BY <1>3, <3>1, <3>2 DEF Upload
  <2>1. OneAtATime'
    BY <2>0
  <2>2. PullsKept'
    BY SMTT(30), <1>3 DEF Upload
  <2>3. StoreKept'
    BY SMTT(30), <1>3 DEF Upload
  <2>4. MarkerIsWhole'
    BY <1>3 DEF Upload
  <2>5. DownloadingIsLive'
    BY <2>0
  <2> QED BY <2>1, <2>2, <2>3, <2>4, <2>5
<1>4. ASSUME NEW b \in Pulls, FinishPull(b) PROVE Held
  <2>1. OneAtATime'
    BY <1>4 DEF FinishPull, NoPull
  <2>2. PullsKept'
    BY <1>4 DEF FinishPull, NoPull
  <2>3. StoreKept'
    BY <1>4 DEF FinishPull, NoPull
  <2>4. MarkerIsWhole'
    BY <1>4 DEF FinishPull, NoPull
  <2>5. DownloadingIsLive'
    BY <1>4 DEF FinishPull, NoPull
  <2> QED BY <2>1, <2>2, <2>3, <2>4, <2>5
<1>5. ASSUME NEW b \in Pulls, FailPull(b) PROVE Held
  <2>1. OneAtATime'
    BY <1>5 DEF FailPull, NoPull
  <2>2. PullsKept'
    BY <1>5 DEF FailPull, NoPull
  <2>3. StoreKept'
    BY <1>5 DEF FailPull, NoPull
  <2>4. MarkerIsWhole'
    BY <1>5 DEF FailPull, NoPull
  <2>5. DownloadingIsLive'
    BY <1>5 DEF FailPull, NoPull
  <2> QED BY <2>1, <2>2, <2>3, <2>4, <2>5
<1>6. ASSUME NEW b \in Pulls, NEW m \in budget.pool, NEW force \in BOOLEAN, RequestPull(b, m, force) PROVE Held
  <2>1. OneAtATime'
    BY <1>6 DEF RequestPull, Spend, Entangle, Busy
  <2>2. PullsKept'
    BY <1>6 DEF RequestPull, Spend, Entangle, Busy
  <2>3. StoreKept'
    BY <1>6 DEF RequestPull, Spend, Entangle, Busy
  <2>4. MarkerIsWhole'
    BY <1>6 DEF RequestPull, Spend, Entangle, Busy
  <2>5. DownloadingIsLive'
    BY <1>6 DEF RequestPull, Spend, Entangle, Busy
  <2> QED BY <2>1, <2>2, <2>3, <2>4, <2>5
<1>7. ASSUME NEW m \in budget.pool, NEW purge \in BOOLEAN, RequestRemoval(m, purge, FALSE) PROVE Held
  <2>1. OneAtATime'
    BY <1>7 DEF RequestRemoval, Spend, Entangle, Busy
  <2>2. PullsKept'
    BY <1>7 DEF RequestRemoval, Spend, Entangle, Busy
  <2>3. StoreKept'
    BY <1>7 DEF RequestRemoval, Spend, Entangle, Busy
  <2>4. MarkerIsWhole'
    BY <1>7 DEF RequestRemoval, Spend, Entangle, Busy
  <2>5. DownloadingIsLive'
    BY <1>7 DEF RequestRemoval, Spend, Entangle, Busy
  <2> QED BY <2>1, <2>2, <2>3, <2>4, <2>5
<1>8. ASSUME ListObjects PROVE Held
  <2>1. OneAtATime'
    BY <1>8 DEF ListObjects
  <2>2. PullsKept'
    BY <1>8 DEF ListObjects
  <2>3. StoreKept'
    BY <1>8 DEF ListObjects
  <2>4. MarkerIsWhole'
    BY <1>8 DEF ListObjects
  <2>5. DownloadingIsLive'
    BY <1>8 DEF ListObjects
  <2> QED BY <2>1, <2>2, <2>3, <2>4, <2>5
<1>9. ASSUME DeleteObjects PROVE Held
  <2>1. OneAtATime'
    BY <1>9 DEF DeleteObjects
  <2>2. PullsKept'
    BY <1>9 DEF DeleteObjects
  <2>3. StoreKept'
    <3>0. removal.model \in Models /\ removal'.model = removal.model /\ removal'.pc = "row"
      BY <1>9 DEF DeleteObjects
    <3>1. \A m \in Models : m # removal.model => objects'[m] = objects[m]
      BY <1>9 DEF DeleteObjects
    <3>2. \A m \in sync'.inS3 \ entangled' : m # removal.model /\ Marker \in objects'[m]
      BY <1>9, <3>0, <3>1 DEF DeleteObjects
    <3>3. \A m \in Models \ entangled' : ~Removing(m)' => m # removal.model
      BY <3>0
    <3> QED BY <1>9, <3>0, <3>1, <3>2, <3>3 DEF DeleteObjects
  <2>4. MarkerIsWhole'
    BY <1>9 DEF DeleteObjects
  <2>5. DownloadingIsLive'
    BY <1>9 DEF DeleteObjects
  <2> QED BY <2>1, <2>2, <2>3, <2>4, <2>5
<1>10. ASSUME FinishRemoval PROVE Held
  <2>1. OneAtATime'
    BY <1>10 DEF FinishRemoval, NoRemoval
  <2>2. PullsKept'
    BY <1>10 DEF FinishRemoval, NoRemoval
  <2>3. StoreKept'
    BY <1>10 DEF FinishRemoval, NoRemoval
  <2>4. MarkerIsWhole'
    BY <1>10 DEF FinishRemoval, NoRemoval
  <2>5. DownloadingIsLive'
    BY <1>10 DEF FinishRemoval, NoRemoval
  <2> QED BY <2>1, <2>2, <2>3, <2>4, <2>5
<1>11. ASSUME BeginSync PROVE Held
  <2>1. OneAtATime'
    BY <1>11 DEF BeginSync, Spend
  <2>2. PullsKept'
    BY <1>11 DEF BeginSync, Spend
  <2>3. StoreKept'
    BY <1>11 DEF BeginSync, Spend
  <2>4. MarkerIsWhole'
    BY <1>11 DEF BeginSync, Spend
  <2>5. DownloadingIsLive'
    BY <1>11 DEF BeginSync, Spend
  <2> QED BY <2>1, <2>2, <2>3, <2>4, <2>5
<1>12. ASSUME LookForMarker PROVE Held
  <2>1. OneAtATime'
    BY <1>12 DEF LookForMarker
  <2>2. PullsKept'
    BY <1>12 DEF LookForMarker
  <2>3. StoreKept'
    BY <1>12 DEF LookForMarker
  <2>4. MarkerIsWhole'
    BY <1>12 DEF LookForMarker
  <2>5. DownloadingIsLive'
    BY <1>12 DEF LookForMarker
  <2> QED BY <2>1, <2>2, <2>3, <2>4, <2>5
<1>13. ASSUME FinishSync PROVE Held
  <2>1. OneAtATime'
    BY <1>13 DEF FinishSync, NoSync
  <2>2. PullsKept'
    BY <1>13 DEF FinishSync, NoSync
  <2>3. StoreKept'
    BY <1>13 DEF FinishSync, NoSync
  <2>4. MarkerIsWhole'
    BY <1>13 DEF FinishSync, NoSync
  <2>5. DownloadingIsLive'
    BY <1>13 DEF FinishSync, NoSync
  <2> QED BY <2>1, <2>2, <2>3, <2>4, <2>5
<1>14. ASSUME GatewayStops PROVE Held
  <2>1. OneAtATime'
    BY <1>14 DEF GatewayStops, NoPull, NoRemoval, NoSync
  <2>2. PullsKept'
    BY <1>14 DEF GatewayStops, NoPull, NoRemoval, NoSync
  <2>3. StoreKept'
    BY <1>14 DEF GatewayStops, NoPull, NoRemoval, NoSync
  <2>4. MarkerIsWhole'
    BY <1>14 DEF GatewayStops, NoPull, NoRemoval, NoSync
  <2>5. DownloadingIsLive'
    BY <1>14 DEF GatewayStops, NoPull, NoRemoval, NoSync
  <2> QED BY <2>1, <2>2, <2>3, <2>4, <2>5
<1>15. Held
  <2> HIDE DEF Held, StoreTypeOK, OperationsNamed, OneAtATime, PullsKept, StoreKept, MarkerIsWhole, DownloadingIsLive
  <2> QED BY <1>1, <1>2, <1>3, <1>4, <1>5, <1>6, <1>7, <1>8, <1>9, <1>10, <1>11, <1>12, <1>13, <1>14 DEF StoreSteps, PullStep, RemovalStep, SyncStep
<1>16. StoreTypeOK' /\ OperationsNamed'
  <2> HIDE DEF StoreTypeOK, OperationsNamed
  <2> QED BY StoreTypes
<1>17. ReadyIsWhole'
  BY <1>15 DEF ReadyIsWhole, Busy
<1> QED
  <2> HIDE DEF StoreTypeOK, OperationsNamed, OneAtATime, PullsKept, StoreKept, MarkerIsWhole, DownloadingIsLive
  <2> QED BY <1>15, <1>16, <1>17

\* Models are loadable or not downloaded at the start, and nothing is under way.
LEMMA StoreStart == ASSUME NEW s \in Scenarios, StoreInit(s) PROVE StoreInv
<1>0. s.ops \in Nat /\ s.crashes \in Nat /\ s.pool \subseteq Models
  BY ScenariosAssumption
<1> USE StoreAssumption
<1>1. StoreTypeOK
  BY <1>0 DEF StoreInit, StoreTypeOK, Statuses, NoPull, NoRemoval, NoSync
<1>2. MarkerIsWhole /\ ReadyIsWhole /\ DownloadingIsLive
  BY DEF StoreInit, MarkerIsWhole, ReadyIsWhole, DownloadingIsLive, Whole
<1>3. OperationsNamed
  BY DEF StoreInit, OperationsNamed, NoPull, NoRemoval, NoSync
<1>4. OneAtATime /\ PullsKept /\ StoreKept
  BY DEF StoreInit, OneAtATime, PullsKept, StoreKept, Pulling, Removing, Syncing, Whole, NoPull, NoRemoval, NoSync
<1> QED BY <1>1, <1>2, <1>3, <1>4 DEF StoreInv

\* What another part of the service does leaves the registry alone.
LEMMA StoreAlone == ASSUME StoreInv, UNCHANGED storeVars PROVE StoreInv'
BY DEF storeVars, StoreInv, StoreTypeOK, MarkerIsWhole, ReadyIsWhole, DownloadingIsLive, OperationsNamed,
       OneAtATime, PullsKept, StoreKept, Whole, Busy, Pulling, Removing, Syncing

\* The marker is uploaded last and a model whose row says "ready" can be loaded, as long as
\* one operation at a time works on it; "downloading" means that a pull is under way as long
\* as the gateway lives, even when operations overlap: for any number of models, files,
\* pulls, failures and restarts.
THEOREM StoreInvariant == Spec => []StoreInv
<1>1. Init => StoreInv
  BY StoreStart DEF Init
<1>2. StoreInv /\ [Next]_vars => StoreInv'
  <2>1. StoreNext(InUse) => StoreSteps
    BY DEF StoreNext, StoreSteps, RequestRemoval
  <2>2. [Next]_vars => StoreNext(InUse) \/ UNCHANGED storeVars
    BY DEF Next, vars
  <2> QED BY <2>1, <2>2, StoreStep, StoreAlone
<1> QED BY <1>1, <1>2, PTL DEF Spec

-----------------------------------------------------------------------------
(* Settings *)

\* Of numbers below a bound there is a largest one.
LEMMA LargestNumber ==
    ASSUME NEW n \in Nat, NEW N, N \subseteq 0 .. n, N # {}
    PROVE  \E x \in N : \A y \in N : y <= x
<1> DEFINE R == OpToRel(<, Nat)
           M == {n - x : x \in N}
<1>1. IsWellFoundedOn(R, Nat)
  BY NatLessThanWellFounded
<1>2. M \subseteq Nat /\ M # {}
  <2>1. \A x \in N : n - x \in Nat
    OBVIOUS
  <2> QED BY <2>1
<1>3. PICK m \in M : \A k \in M : ~(<<k, m>> \in R)
  <2> HIDE DEF R, M
  <2> QED BY <1>1, <1>2, WFMin
<1>4. PICK x \in N : m = n - x
  OBVIOUS
<1>5. \A k \in M : ~(k < m)
  BY <1>2, <1>3 DEF OpToRel
<1>6. ASSUME NEW y \in N PROVE y <= x
  <2>1. n - y \in M
    OBVIOUS
  <2>2. ~(n - y < n - x) /\ x \in Nat /\ y \in Nat
    BY <2>1, <1>4, <1>5
  <2> QED BY <2>2
<1> QED BY <1>6

\* LatestStamp is the latest stamp of all rows.
LEMMA LatestStampIsLatest ==
    ASSUME SettingsTypeOK
    PROVE  LatestStamp \in Nat /\ \A r \in rows : r.at <= LatestStamp
<1>1. Stamps \subseteq 0 .. Horizon /\ Stamps # {}
  BY SettingsAssumption DEF SettingsTypeOK, Rows, Stamps
<1>2. \E t \in Stamps : \A u \in Stamps : u <= t
  BY <1>1, LargestNumber, SettingsAssumption
<1>3. LatestStamp \in Stamps /\ \A u \in Stamps : u <= LatestStamp
  BY <1>2 DEF LatestStamp
<1>4. ASSUME NEW r \in rows PROVE r.at <= LatestStamp
  <2>1. r.at \in Stamps
    BY DEF Stamps
  <2> QED BY <1>3, <2>1
<1>5. LatestStamp \in Nat
  BY <1>1, <1>3, SettingsAssumption
<1> QED BY <1>4, <1>5

\* A query brings entries of the right form.
LEMMA SnapshotRead ==
    ASSUME SettingsTypeOK, NEW v \in Contents
    PROVE  /\ Snapshot(v, LatestStamp) \in Entries
           /\ ReadAt(Snapshot(v, LatestStamp), time)
<1>1. v \in [Keys -> Value]
  BY DEF Contents, SettingsTypeOK, Rows, Value
<1>2. LatestStamp \in Nat /\ \A r \in rows : r.at <= LatestStamp
  BY LatestStampIsLatest
<1>3. Snapshot(v, LatestStamp) \in Entries
  BY <1>1, <1>2, SettingsAssumption DEF Snapshot, Entries
<1>4. ReadAt(Snapshot(v, LatestStamp), time)
  BY <1>2 DEF ReadAt, Snapshot, Matches
<1> QED BY <1>3, <1>4
\* What an actor on gateway g acts by is a recent result, and caching it keeps the caches.
LEMMA ResultRead ==
    ASSUME SettingsInv, NEW g \in Gateways, NEW held \in Entries, ReadAt(held, time), Known(g, held)
    PROVE  /\ Result(g, held).stamp \in Nat /\ Result(g, held).vals \in [Keys -> Value]
           /\ \A r \in rows : r.at <= Result(g, held).stamp \/ r.at > time - CacheTtl
           /\ changedAt + CacheTtl <= time => Matches(Result(g, held).vals)
<1> USE SettingsAssumption
<1>0. cache[g] \in Entries /\ time \in Nat /\ changedAt \in Nat /\ \A r \in rows : r.at \in Nat
  BY DEF SettingsInv, SettingsTypeOK, Rows
<1>1. CASE held.kind = "rows"
  <2>1. Result(g, held) = held /\ held.stamp \in Nat /\ held.vals \in [Keys -> Value]
    BY <1>1 DEF Result, Entries, NoEntry
  <2>2. /\ changedAt < time => Matches(held.vals)
        /\ \A r \in rows : r.at <= held.stamp \/ r.at >= time
    BY <1>1 DEF ReadAt
  <2> QED BY <1>0, <2>1, <2>2
<1>2. CASE held.kind # "rows"
  <2>1. /\ Result(g, held) = cache[g] /\ cache[g].kind = "rows" /\ time - cache[g].at < CacheTtl
    BY <1>2 DEF Result, Known, Fresh
  <2>2. cache[g].stamp \in Nat /\ cache[g].vals \in [Keys -> Value] /\ cache[g].at \in Nat
    BY <1>0, <2>1 DEF Entries, NoEntry
  <2>3. /\ changedAt < cache[g].at => Matches(cache[g].vals)
        /\ \A r \in rows : r.at <= cache[g].stamp \/ r.at >= cache[g].at
    BY <2>1 DEF ReadAt, SettingsInv, CachesAged
  <2> QED BY <1>0, <2>1, <2>2, <2>3
<1> QED BY <1>1, <1>2

LEMMA CachedRead ==
    ASSUME SettingsInv, NEW g \in Gateways, NEW held \in Entries, ReadAt(held, time),
           NEW c, c = Cached(g, held)
    PROVE  /\ c \in [Gateways -> Entries]
           /\ \A k \in Gateways : ReadAt(c[k], c[k].at) /\ (c[k].kind = "rows" => c[k].at <= time)
<1> USE SettingsAssumption
<1>0. /\ cache \in [Gateways -> Entries] /\ time \in 0 .. Horizon
      /\ \A k \in Gateways : ReadAt(cache[k], cache[k].at) /\ (cache[k].kind = "rows" => cache[k].at <= time)
  BY DEF SettingsInv, SettingsTypeOK, CachesAged
<1>1. CASE held.kind # "rows"
  BY <1>0, <1>1 DEF Cached
<1>2. CASE held.kind = "rows"
  <2> DEFINE e == [held EXCEPT !.at = time]
  <2>1. held \in [kind : {"rows"}, vals : [Keys -> Value], stamp : Nat, at : 0..Horizon]
    BY <1>2 DEF Entries, NoEntry
  <2>2. e \in Entries /\ e.at = time /\ e.vals = held.vals /\ e.stamp = held.stamp
    BY <1>0, <2>1 DEF Entries
  <2>3. ReadAt(e, time)
    BY <1>2, <2>2 DEF ReadAt
  <2>4. c = [cache EXCEPT ![g] = e]
    BY <1>2 DEF Cached
  <2> HIDE DEF e
  <2>5. c[g] = e /\ \A k \in Gateways \ {g} : c[k] = cache[k]
    BY <1>0, <2>4
  <2>6. c \in [Gateways -> Entries]
    BY <1>0, <2>2, <2>4
  <2>7. ASSUME NEW k \in Gateways PROVE ReadAt(c[k], c[k].at) /\ (c[k].kind = "rows" => c[k].at <= time)
    <3>1. CASE k = g
      BY <1>0, <2>2, <2>3, <2>5, <3>1
    <3>2. CASE k # g
      BY <1>0, <2>5, <3>2
    <3> QED BY <3>1, <3>2
  <2> QED BY <2>6, <2>7
<1> QED BY <1>1, <1>2

\* What is promised follows from what is kept.
LEMMA SettingsImplied ==
    SettingsTypeOK /\ HeldIsNow /\ CachesAged /\ RequestsPlain /\ LoopsTimely /\ MirrorKept => SettingsInv
<1> SUFFICES ASSUME SettingsTypeOK, HeldIsNow, CachesAged, RequestsPlain, LoopsTimely, MirrorKept
             PROVE  SettingsInv
  OBVIOUS
<1> USE SettingsAssumption
<1>1. CacheHonest
  BY DEF CachesAged, CacheHonest, ReadAt, Fresh
<1>2. MirrorFresh
  <2> SUFFICES ASSUME time - changedAt > Interval + CacheTtl, ~Matches(hash) PROVE FALSE
    BY DEF MirrorFresh
  <2>1. PICK g \in Gateways : TRUE
    OBVIOUS
  <2>2. time \in Nat /\ changedAt \in Nat /\ loop[g].due \in Nat
    BY DEF SettingsTypeOK
  <2>3. time <= loop[g].due /\ loop[g].due < changedAt + CacheTtl + Interval
    BY DEF LoopsTimely, MirrorKept
  <2> QED BY <2>2, <2>3
<1> QED BY <1>1, <1>2 DEF SettingsInv

\* A step of the settings, as far as the invariant goes: which rows are new, what the
\* actors hold and the caches have, and when Redis may be wrong afterwards.
SettingsChange ==
    /\ time' = time
    /\ \/ rows' = rows /\ changedAt' = changedAt
       \/ changedAt' = time /\ \A r \in rows' : r \in rows \/ r.at = time
    /\ \A a \in Admins : ReadAt(desk'[a].held, time) /\ (desk'[a].held.kind = "rows" => desk'[a].at \in Asking)
    /\ \A g \in Gateways : ReadAt(loop'[g].held, time) /\ (loop'[g].held.kind = "rows" => loop'[g].due <= time)
    /\ \A g \in Gateways : ReadAt(cache'[g], cache'[g].at) /\ (cache'[g].kind = "rows" => cache'[g].at <= time)
    /\ \A g \in Gateways : loop'[g].due \in {loop[g].due, time + Interval}
    /\ \/ changedAt' = time
       \/ hash' = hash /\ \A g \in Gateways : loop'[g].due = loop[g].due
       \/ changedAt + CacheTtl <= time => Matches(hash')

\* One request moves, or one loop.
LEMMA DeskMoves ==
    ASSUME SettingsInv, NEW a \in Admins, NEW d \in Desks, desk' = [desk EXCEPT ![a] = d],
           ReadAt(d.held, time), d.held.kind = "rows" => d.at \in Asking,
           d.at = "check" => d.expected # Unset, d.at \in {"check", "select", "commit"} => d.key # Unset
    PROVE  /\ desk' \in [Admins -> Desks] /\ RequestsPlain'
           /\ \A b \in Admins : ReadAt(desk'[b].held, time) /\ (desk'[b].held.kind = "rows" => desk'[b].at \in Asking)
<1>0. desk \in [Admins -> Desks]
  BY DEF SettingsInv, SettingsTypeOK
<1>1. desk' \in [Admins -> Desks] /\ desk'[a] = d /\ \A b \in Admins \ {a} : desk'[b] = desk[b]
  BY <1>0
<1>2. RequestsPlain'
  BY <1>1 DEF SettingsInv, RequestsPlain
<1>3. ASSUME NEW b \in Admins
      PROVE  ReadAt(desk'[b].held, time) /\ (desk'[b].held.kind = "rows" => desk'[b].at \in Asking)
  <2>1. CASE b = a
    BY <1>1, <2>1
  <2>2. CASE b # a
    BY <1>1, <2>2 DEF SettingsInv, HeldIsNow
  <2> QED BY <2>1, <2>2
<1> QED BY <1>1, <1>2, <1>3

LEMMA LoopMoves ==
    ASSUME SettingsInv, NEW g \in Gateways, NEW l \in [due : Nat, held : Entries], loop' = [loop EXCEPT ![g] = l],
           ReadAt(l.held, time), l.held.kind = "rows" => l.due <= time, l.due \in {loop[g].due, time + Interval}
    PROVE  /\ loop' \in [Gateways -> [due : Nat, held : Entries]]
           /\ \A k \in Gateways : ReadAt(loop'[k].held, time) /\ (loop'[k].held.kind = "rows" => loop'[k].due <= time)
           /\ \A k \in Gateways : loop'[k].due \in {loop[k].due, time + Interval}
<1>0. loop \in [Gateways -> [due : Nat, held : Entries]]
  BY DEF SettingsInv, SettingsTypeOK
<1>1. /\ loop' \in [Gateways -> [due : Nat, held : Entries]]
      /\ loop'[g] = l /\ \A k \in Gateways \ {g} : loop'[k] = loop[k]
  BY <1>0
<1>2. ASSUME NEW k \in Gateways
      PROVE  /\ ReadAt(loop'[k].held, time) /\ (loop'[k].held.kind = "rows" => loop'[k].due <= time)
             /\ loop'[k].due \in {loop[k].due, time + Interval}
  <2>1. CASE k = g
    BY <1>1, <2>1
  <2>2. CASE k # g
    BY <1>1, <2>2 DEF SettingsInv, HeldIsNow
  <2> QED BY <2>1, <2>2
<1> QED BY <1>1, <1>2

\* Who does nothing holds what it held.
LEMMA NobodyMoves ==
    ASSUME SettingsInv
    PROVE  /\ desk' = desk => RequestsPlain' /\ \A a \in Admins : ReadAt(desk'[a].held, time) /\ (desk'[a].held.kind = "rows" => desk'[a].at \in Asking)
           /\ loop' = loop => \A g \in Gateways : ReadAt(loop'[g].held, time) /\ (loop'[g].held.kind = "rows" => loop'[g].due <= time)
           /\ cache' = cache => \A g \in Gateways : ReadAt(cache'[g], cache'[g].at) /\ (cache'[g].kind = "rows" => cache'[g].at <= time)
BY DEF SettingsInv, HeldIsNow, CachesAged, RequestsPlain

\* From the changes to the invariant.
LEMMA SettingsKept ==
    ASSUME SettingsInv, SettingsTypeOK', RequestsPlain', SettingsChange PROVE SettingsInv'
<1> USE SettingsAssumption
<1>0. /\ time \in Nat /\ changedAt \in Nat /\ changedAt <= time /\ \A g \in Gateways : loop[g].due \in Nat
      /\ \A r \in rows : r.at \in Nat
  BY DEF SettingsInv, SettingsTypeOK, Rows
<1>1. ASSUME NEW e, NEW t \in Nat, t <= time, ReadAt(e, t)
      PROVE  e.kind = "rows" => /\ changedAt' < t => e.vals \in Contents'
                                /\ \A r \in rows' : r.at <= e.stamp \/ r.at >= t
  <2>1. CASE rows' = rows /\ changedAt' = changedAt
    <3>1. Contents' = Contents
      BY <2>1 DEF Contents, Of
    <3> QED BY <1>1, <2>1, <3>1 DEF ReadAt, Matches
  <2>2. CASE changedAt' = time /\ \A r \in rows' : r \in rows \/ r.at = time
    BY <1>0, <1>1, <2>2 DEF ReadAt
  <2> QED BY <2>1, <2>2 DEF SettingsChange
<1>2. HeldIsNow'
  <2>1. ASSUME NEW a \in Admins
        PROVE  ReadAt(desk[a].held, time)' /\ (desk'[a].held.kind = "rows" => desk'[a].at \in Asking)
    <3>1. ReadAt(desk'[a].held, time) /\ time' = time /\ (desk'[a].held.kind = "rows" => desk'[a].at \in Asking)
      BY DEF SettingsChange
    <3> QED BY <1>0, <1>1, <3>1 DEF ReadAt, Matches
  <2>2. ASSUME NEW g \in Gateways
        PROVE  ReadAt(loop[g].held, time)' /\ (loop'[g].held.kind = "rows" => loop'[g].due <= time')
    <3>1. ReadAt(loop'[g].held, time) /\ time' = time /\ (loop'[g].held.kind = "rows" => loop'[g].due <= time)
      BY DEF SettingsChange
    <3> QED BY <1>0, <1>1, <3>1 DEF ReadAt, Matches
  <2> QED BY <2>1, <2>2 DEF HeldIsNow
<1>3. CachesAged'
  <2> SUFFICES ASSUME NEW g \in Gateways
               PROVE  ReadAt(cache[g], cache[g].at)' /\ (cache'[g].kind = "rows" => cache'[g].at <= time')
    BY DEF CachesAged
  <2>1. ReadAt(cache'[g], cache'[g].at) /\ (cache'[g].kind = "rows" => cache'[g].at <= time) /\ time' = time
    BY DEF SettingsChange
  <2>2. cache'[g].kind = "rows" => cache'[g].at \in Nat
    BY DEF SettingsTypeOK, Entries, NoEntry
  <2> QED BY <1>1, <2>1, <2>2 DEF ReadAt, Matches
<1>4. LoopsTimely'
  <2>1. \A g \in Gateways : loop'[g].due \in {loop[g].due, time + Interval} /\ time' = time
    BY DEF SettingsChange
  <2> QED BY <1>0, <2>1 DEF SettingsInv, LoopsTimely
<1>5. MirrorKept'
  <2>0. changedAt' \in Nat /\ time' = time /\ \A g \in Gateways : loop'[g].due <= time + Interval /\ loop'[g].due \in Nat
    BY <1>4 DEF LoopsTimely, SettingsChange, SettingsTypeOK
  <2>1. CASE changedAt' = time
    BY <1>0, <2>0, <2>1 DEF MirrorKept
  <2>2. CASE changedAt' # time
    <3>1. rows' = rows /\ changedAt' = changedAt
      BY <2>2 DEF SettingsChange
    <3>2. Contents' = Contents
      BY <3>1 DEF Contents, Of
    <3>3. CASE hash' = hash /\ \A g \in Gateways : loop'[g].due = loop[g].due
      BY <3>1, <3>2, <3>3 DEF SettingsInv, MirrorKept, Matches
    <3>4. CASE changedAt + CacheTtl <= time => Matches(hash')
      <4>1. CASE changedAt + CacheTtl <= time
        BY <3>2, <3>4, <4>1 DEF MirrorKept, Matches
      <4>2. CASE ~(changedAt + CacheTtl <= time)
        BY <1>0, <2>0, <3>1, <4>2 DEF MirrorKept
      <4> QED BY <4>1, <4>2
    <3> QED BY <2>2, <3>3, <3>4 DEF SettingsChange
  <2> QED BY <2>1, <2>2
<1> QED BY <1>2, <1>3, <1>4, <1>5, SettingsImplied, PTL

\* A step of a request, or of a loop: the rest of its change, to be shown for each.
LEMMA AdminStep ==
    ASSUME SettingsInv, NEW a \in Admins, NEW d \in Desks, desk' = [desk EXCEPT ![a] = d],
           ReadAt(d.held, time), d.held.kind = "rows" => d.at \in Asking,
           d.at = "check" => d.expected # Unset, d.at \in {"check", "select", "commit"} => d.key # Unset,
           UNCHANGED <<loop, time>>, rows' \subseteq Rows, hash' \in [Keys -> Value], upsets' \in Nat,
           cache' \in [Gateways -> Entries], changedAt' \in {changedAt, time},
           \A g \in Gateways : ReadAt(cache'[g], cache'[g].at) /\ (cache'[g].kind = "rows" => cache'[g].at <= time),
           \/ rows' = rows /\ changedAt' = changedAt
           \/ changedAt' = time /\ \A r \in rows' : r \in rows \/ r.at = time,
           changedAt' = time \/ hash' = hash \/ (changedAt + CacheTtl <= time => Matches(hash'))
    PROVE  SettingsTypeOK' /\ RequestsPlain' /\ SettingsChange
<1>0. SettingsTypeOK
  BY DEF SettingsInv
<1>1. /\ desk' \in [Admins -> Desks] /\ RequestsPlain'
      /\ \A b \in Admins : ReadAt(desk'[b].held, time) /\ (desk'[b].held.kind = "rows" => desk'[b].at \in Asking)
  BY DeskMoves
<1>2. SettingsTypeOK'
  BY <1>0, <1>1 DEF SettingsTypeOK
<1>3. SettingsChange
  BY <1>1, NobodyMoves DEF SettingsChange
<1> QED BY <1>1, <1>2, <1>3

LEMMA LoopStep ==
    ASSUME SettingsInv, NEW g \in Gateways, NEW l \in [due : Nat, held : Entries], loop' = [loop EXCEPT ![g] = l],
           ReadAt(l.held, time), l.held.kind = "rows" => l.due <= time, l.due \in {loop[g].due, time + Interval},
           UNCHANGED <<desk, time, rows>>, hash' \in [Keys -> Value], upsets' \in Nat,
           cache' \in [Gateways -> Entries], changedAt' \in {changedAt, time},
           \A k \in Gateways : ReadAt(cache'[k], cache'[k].at) /\ (cache'[k].kind = "rows" => cache'[k].at <= time),
           \/ changedAt' = time
           \/ hash' = hash /\ l.due = loop[g].due
           \/ changedAt + CacheTtl <= time => Matches(hash')
    PROVE  SettingsTypeOK' /\ RequestsPlain' /\ SettingsChange
<1>0. SettingsTypeOK
  BY DEF SettingsInv
<1>1. /\ loop' \in [Gateways -> [due : Nat, held : Entries]]
      /\ \A k \in Gateways : ReadAt(loop'[k].held, time) /\ (loop'[k].held.kind = "rows" => loop'[k].due <= time)
      /\ \A k \in Gateways : loop'[k].due \in {loop[k].due, time + Interval}
  BY LoopMoves
<1>2. l.due = loop[g].due => \A k \in Gateways : loop'[k].due = loop[k].due
  BY <1>0 DEF SettingsTypeOK
<1>3. SettingsTypeOK'
  BY <1>0, <1>1 DEF SettingsTypeOK
<1>4. SettingsChange
  BY <1>1, <1>2, NobodyMoves DEF SettingsChange
<1> QED BY <1>3, <1>4, NobodyMoves

\* Which of the fields a move of a request changes.
LEMMA DeskFields ==
    ASSUME NEW d \in Desks, NEW x \in Asking \cup {"todo", "select", "commit", "done", "refused"},
           NEW h \in Entries, NEW f \in {NoEntry} \cup [kind : {"row"}, row : Rows]
    PROVE  /\ [d EXCEPT !.at = x] \in Desks /\ [d EXCEPT !.held = h] \in Desks
           /\ [d EXCEPT !.at = x, !.held = h] \in Desks /\ [d EXCEPT !.held = h, !.at = x] \in Desks
           /\ [d EXCEPT !.at = x, !.found = f] \in Desks
BY DEF Desks

\* A rewrite of the hash brings the rows to Redis, if it comes late enough, or notes the failure.
LEMMA HashRewritten ==
    ASSUME SettingsInv, NEW g \in Gateways, NEW held \in Entries, ReadAt(held, time), Known(g, held),
           NEW ok \in BOOLEAN, RewriteHash(Result(g, held).vals, ok)
    PROVE  /\ hash' \in [Keys -> Value] /\ upsets' \in Nat /\ changedAt' \in {changedAt, time}
           /\ changedAt' = time \/ (changedAt + CacheTtl <= time => Matches(hash'))
<1>0. upsets \in Nat /\ hash \in [Keys -> Value]
  BY DEF SettingsInv, SettingsTypeOK
<1>1. /\ Result(g, held).vals \in [Keys -> Value]
      /\ changedAt + CacheTtl <= time => Matches(Result(g, held).vals)
  BY ResultRead
<1>2. CASE ok
  BY <1>0, <1>1, <1>2 DEF RewriteHash
<1>3. CASE ~ok
  BY <1>0, <1>3 DEF RewriteHash
<1> QED BY <1>2, <1>3

\* Each step but the passing of time, one by one.
LEMMA SettingsSteps ==
    ASSUME SettingsInv, SettingsNext, ~Wait PROVE SettingsTypeOK' /\ RequestsPlain' /\ SettingsChange
<1> USE SettingsAssumption
<1> DEFINE Goal == SettingsTypeOK' /\ RequestsPlain' /\ SettingsChange
<1>0. /\ rows \subseteq Rows /\ hash \in [Keys -> Value] /\ upsets \in Nat /\ cache \in [Gateways -> Entries]
      /\ time \in 0 .. Horizon /\ changedAt \in 0 .. time /\ desk \in [Admins -> Desks]
      /\ loop \in [Gateways -> [due : Nat, held : Entries]]
      /\ NoEntry \in Entries /\ NoEntry.kind # "rows" /\ ReadAt(NoEntry, time)
      /\ \A a \in Admins : /\ desk[a] \in Desks /\ desk[a].held \in Entries /\ ReadAt(desk[a].held, time)
                           /\ desk[a].held.kind = "rows" => desk[a].at \in Asking
      /\ \A g \in Gateways : /\ loop[g].held \in Entries /\ ReadAt(loop[g].held, time) /\ loop[g].due \in Nat
                             /\ loop[g].held.kind = "rows" => loop[g].due <= time
      /\ \A g \in Gateways : ReadAt(cache[g], cache[g].at) /\ (cache[g].kind = "rows" => cache[g].at <= time)
      /\ \A a \in Admins : Home[a] \in Gateways
  BY DEF SettingsInv, SettingsTypeOK, Desks, Entries, NoEntry, ReadAt, HeldIsNow, CachesAged
<1>1. ASSUME NEW a \in Admins, Ask(a) PROVE Goal
  <2> DEFINE x == IF desk[a].key = Unset THEN "reset" ELSE IF desk[a].expected = Unset THEN "select" ELSE "check"
             d == [desk[a] EXCEPT !.at = x]
  <2>1. /\ desk' = [desk EXCEPT ![a] = d] /\ UNCHANGED <<rows, cache, hash, loop, time, upsets, changedAt>>
        /\ desk[a].at = "todo"
    BY <1>1 DEF Ask
  <2>2. d \in Desks
    BY <1>0, DeskFields DEF Asking
  <2>3. /\ d.held = desk[a].held /\ d.held.kind # "rows" /\ (d.at = "check" => d.expected # Unset)
        /\ (d.at \in {"check", "select", "commit"} => d.key # Unset)
    BY <1>0, <2>1 DEF Desks, Asking
  <2> HIDE DEF d
  <2> QED BY <1>0, <2>1, <2>2, <2>3, AdminStep
<1>2. ASSUME NEW a \in Admins, QueryAdmin(a) PROVE Goal
  <2>1. PICK v \in Contents : desk' = [desk EXCEPT ![a].held = Snapshot(v, LatestStamp)]
    BY <1>2 DEF QueryAdmin
  <2>2. Snapshot(v, LatestStamp) \in Entries /\ ReadAt(Snapshot(v, LatestStamp), time)
    BY SnapshotRead DEF SettingsInv
  <2> DEFINE h == Snapshot(v, LatestStamp)
             d == [desk[a] EXCEPT !.held = h]
  <2> HIDE DEF h
  <2>3. /\ desk' = [desk EXCEPT ![a] = d] /\ UNCHANGED <<rows, cache, hash, loop, time, upsets, changedAt>>
        /\ desk[a].at \in Asking
    BY <1>2, <2>1 DEF QueryAdmin, Asking, h
  <2>4. d \in Desks
    BY <1>0, <2>2, DeskFields DEF Asking, h
  <2>5. /\ d.held = h /\ d.at = desk[a].at /\ d.key = desk[a].key /\ d.expected = desk[a].expected
    BY <1>0 DEF Desks
  <2>6. /\ ReadAt(d.held, time) /\ (d.at = "check" => d.expected # Unset)
        /\ (d.at \in {"check", "select", "commit"} => d.key # Unset)
    BY <2>2, <2>5 DEF SettingsInv, RequestsPlain, h
  <2> HIDE DEF d
  <2> QED BY <1>0, <2>3, <2>4, <2>5, <2>6, AdminStep
<1>3. ASSUME NEW a \in Admins, CheckConflict(a) PROVE Goal
  <2> DEFINE x == IF Result(Home[a], desk[a].held).stamp > desk[a].expected THEN "refused" ELSE "select"
             d == [desk[a] EXCEPT !.held = NoEntry, !.at = x]
  <2>1. /\ desk' = [desk EXCEPT ![a] = d] /\ UNCHANGED <<rows, hash, loop, time, upsets, changedAt>>
        /\ desk[a].at = "check" /\ cache' = Cached(Home[a], desk[a].held)
    BY <1>3 DEF CheckConflict
  <2>2. d \in Desks
    BY <1>0, DeskFields
  <2>3. /\ d.held = NoEntry /\ d.at # "check" /\ d.key = desk[a].key /\ desk[a].key # Unset
    BY <1>0, <2>1 DEF Desks, SettingsInv, RequestsPlain
  <2>4. /\ cache' \in [Gateways -> Entries]
        /\ \A g \in Gateways : ReadAt(cache'[g], cache'[g].at) /\ (cache'[g].kind = "rows" => cache'[g].at <= time)
    BY <1>0, <2>1, CachedRead
  <2> HIDE DEF d
  <2> QED BY <1>0, <2>1, <2>2, <2>3, <2>4, AdminStep
<1>4. ASSUME NEW a \in Admins, SelectRow(a) PROVE Goal
  <2> DEFINE mine == Of(desk[a].key)
             f == IF mine = {} THEN NoEntry ELSE [kind |-> "row", row |-> CHOOSE r \in mine : TRUE]
             d == IF Cardinality(mine) > 1 THEN [desk[a] EXCEPT !.at = "refused"]
                  ELSE [desk[a] EXCEPT !.at = "commit", !.found = f]
  <2>1. f \in {NoEntry} \cup [kind : {"row"}, row : Rows]
    <3>1. mine # {} => (CHOOSE r \in mine : TRUE) \in Rows
      BY <1>0 DEF Of
    <3> QED BY <3>1
  <2> HIDE DEF mine, f
  <2>2. /\ desk' = [desk EXCEPT ![a] = d] /\ UNCHANGED <<rows, cache, hash, loop, time, upsets, changedAt>>
        /\ desk[a].at = "select"
    BY <1>4 DEF SelectRow, mine, f
  <2>3. d \in Desks
    BY <1>0, <2>1, DeskFields
  <2>4. /\ d.held = desk[a].held /\ d.held.kind # "rows" /\ d.at # "check" /\ d.key = desk[a].key /\ d.key # Unset
    BY <1>0, <2>2 DEF Desks, Asking, SettingsInv, RequestsPlain
  <2> HIDE DEF d
  <2> QED BY <1>0, <2>2, <2>3, <2>4, AdminStep
<1>5. ASSUME NEW a \in Admins, CommitRow(a) PROVE Goal
  <2>0. desk[a].at = "commit" /\ UNCHANGED <<hash, loop, time, upsets>>
    BY <1>5 DEF CommitRow
  <2>1. desk[a].held.kind # "rows" /\ desk[a].key \in Keys /\ desk[a].key # Unset
    BY <1>0, <2>0 DEF Asking, SettingsInv, RequestsPlain, Desks
  <2> DEFINE d(x) == [desk[a] EXCEPT !.at = x]
  <2>2. \A x \in {"refused", "respond"} :
           /\ d(x) \in Desks /\ d(x).held = desk[a].held /\ d(x).at = x
           /\ d(x).key = desk[a].key
    <3>1. \A x \in {"refused", "respond"} : d(x) \in Desks
      BY <1>0, DeskFields DEF Asking
    <3> QED BY <1>0, <3>1 DEF Desks
  <2>3. ASSUME desk' = [desk EXCEPT ![a] = d("refused")], UNCHANGED <<rows, cache, changedAt>> PROVE Goal
    <3> HIDE DEF d
    <3> QED BY <1>0, <2>0, <2>1, <2>2, <2>3, AdminStep
  <2>4. ASSUME desk' = [desk EXCEPT ![a] = d("respond")], changedAt' = time,
               cache' = [cache EXCEPT ![Home[a]] = NoEntry],
               NEW old, NEW who \in Admins,
               rows' = (rows \ old) \cup (IF desk[a].val = Unset THEN {}
                        ELSE {[key |-> desk[a].key, val |-> desk[a].val, at |-> time, by |-> who]})
        PROVE  Goal
    <3>1. desk[a].val # Unset => desk[a].val \in Nat
      BY <1>0 DEF Desks, Value
    <3>2. rows' \subseteq Rows /\ \A r \in rows' : r \in rows \/ r.at = time
      BY <1>0, <2>1, <2>4, <3>1 DEF Rows
    <3>3. /\ cache' \in [Gateways -> Entries]
          /\ \A g \in Gateways : ReadAt(cache'[g], cache'[g].at) /\ (cache'[g].kind = "rows" => cache'[g].at <= time)
      <4>1. cache' \in [Gateways -> Entries] /\ \A g \in Gateways : cache'[g] = cache[g] \/ cache'[g] = NoEntry
        BY <1>0, <2>4
      <4>2. ASSUME NEW t PROVE ReadAt(NoEntry, t)
        BY <1>0 DEF ReadAt
      <4> QED BY <1>0, <4>1, <4>2
    <3> HIDE DEF d
    <3> QED BY ZenonT(30), <1>0, <2>0, <2>1, <2>2, <2>4, <3>2, <3>3, AdminStep
  <2> DEFINE new == [key |-> desk[a].key, val |-> desk[a].val, at |-> time, by |-> a]
             old == IF desk[a].found.kind = "row" THEN {r \in rows : r.key = desk[a].key /\ r.by = desk[a].found.row.by}
                    ELSE {}
             who == IF old = {} THEN a ELSE desk[a].found.row.by
  <2>5. who \in Admins /\ [new EXCEPT !.by = who] = [key |-> desk[a].key, val |-> desk[a].val, at |-> time, by |-> who]
    <3>1. desk[a].found.kind = "row" => desk[a].found.row.by \in Admins
      BY <1>0 DEF Desks, NoEntry, Rows
    <3> QED BY <3>1
  <2>6. \/ desk' = [desk EXCEPT ![a] = d("refused")] /\ UNCHANGED <<rows, cache, changedAt>>
        \/ /\ desk' = [desk EXCEPT ![a] = d("respond")] /\ changedAt' = time
           /\ cache' = [cache EXCEPT ![Home[a]] = NoEntry]
           /\ rows' = (rows \ old) \cup (IF desk[a].val = Unset THEN {} ELSE {[new EXCEPT !.by = who]})
    BY <1>5 DEF CommitRow
  <2> HIDE DEF d, old, new, who
  <2> QED BY <2>3, <2>4, <2>5, <2>6
<1>6. ASSUME NEW a \in Admins, ResetRows(a) PROVE Goal
  <2> DEFINE d == [desk[a] EXCEPT !.at = "respond", !.held = NoEntry]
  <2>1. /\ desk' = [desk EXCEPT ![a] = d] /\ UNCHANGED <<hash, loop, time, upsets>>
        /\ rows' = {} /\ changedAt' = time /\ cache' = [cache EXCEPT ![Home[a]] = NoEntry]
    BY <1>6 DEF ResetRows
  <2>2. d \in Desks
    BY <1>0, DeskFields DEF Asking
  <2>3. d.held = NoEntry /\ d.at = "respond"
    BY <1>0 DEF Desks
  <2>4. /\ cache' \in [Gateways -> Entries]
        /\ \A g \in Gateways : ReadAt(cache'[g], cache'[g].at) /\ (cache'[g].kind = "rows" => cache'[g].at <= time)
    <3>1. cache' \in [Gateways -> Entries] /\ \A g \in Gateways : cache'[g] = cache[g] \/ cache'[g] = NoEntry
      BY <1>0, <2>1
    <3>2. ASSUME NEW t PROVE ReadAt(NoEntry, t)
      BY <1>0 DEF ReadAt
    <3> QED BY <1>0, <3>1, <3>2
  <2> HIDE DEF d
  <2> QED BY <1>0, <2>1, <2>2, <2>3, <2>4, AdminStep
<1>7. ASSUME NEW a \in Admins, ReadBack(a) PROVE Goal
  <2> DEFINE d == [desk[a] EXCEPT !.at = "sync", !.held = NoEntry]
  <2>1. /\ desk' = [desk EXCEPT ![a] = d] /\ UNCHANGED <<rows, hash, loop, time, upsets, changedAt>>
        /\ cache' = Cached(Home[a], desk[a].held)
    BY <1>7 DEF ReadBack
  <2>2. d \in Desks
    BY <1>0, DeskFields DEF Asking
  <2>3. d.held = NoEntry /\ d.at = "sync"
    BY <1>0 DEF Desks
  <2>4. /\ cache' \in [Gateways -> Entries]
        /\ \A g \in Gateways : ReadAt(cache'[g], cache'[g].at) /\ (cache'[g].kind = "rows" => cache'[g].at <= time)
    BY <1>0, <2>1, CachedRead
  <2> HIDE DEF d
  <2> QED BY <1>0, <2>1, <2>2, <2>3, <2>4, AdminStep
<1>8. ASSUME NEW a \in Admins, NEW ok \in BOOLEAN, SyncFromSession(a, ok) PROVE Goal
  <2> DEFINE d == [desk[a] EXCEPT !.at = "done", !.held = NoEntry]
  <2>1. /\ desk' = [desk EXCEPT ![a] = d] /\ UNCHANGED <<rows, loop, time>>
        /\ cache' = Cached(Home[a], desk[a].held) /\ Known(Home[a], desk[a].held)
        /\ RewriteHash(Result(Home[a], desk[a].held).vals, ok)
    BY <1>8 DEF SyncFromSession
  <2>2. d \in Desks
    BY <1>0, DeskFields DEF Asking
  <2>3. d.held = NoEntry /\ d.at = "done"
    BY <1>0 DEF Desks
  <2>4. /\ cache' \in [Gateways -> Entries]
        /\ \A g \in Gateways : ReadAt(cache'[g], cache'[g].at) /\ (cache'[g].kind = "rows" => cache'[g].at <= time)
    BY <1>0, <2>1, CachedRead
  <2>5. /\ hash' \in [Keys -> Value] /\ upsets' \in Nat /\ changedAt' \in {changedAt, time}
        /\ changedAt' = time \/ (changedAt + CacheTtl <= time => Matches(hash'))
    BY <1>0, <2>1, HashRewritten
  <2> HIDE DEF d
  <2> QED BY <1>0, <2>1, <2>2, <2>3, <2>4, <2>5, AdminStep
<1>9. ASSUME NEW g \in Gateways, QueryLoop(g) PROVE Goal
  <2>1. PICK v \in Contents : loop' = [loop EXCEPT ![g].held = Snapshot(v, LatestStamp)]
    BY <1>9 DEF QueryLoop
  <2>2. Snapshot(v, LatestStamp) \in Entries /\ ReadAt(Snapshot(v, LatestStamp), time)
    BY SnapshotRead DEF SettingsInv
  <2> DEFINE h == Snapshot(v, LatestStamp)
             l == [loop[g] EXCEPT !.held = h]
  <2> HIDE DEF h
  <2>3. /\ loop' = [loop EXCEPT ![g] = l] /\ UNCHANGED <<rows, cache, hash, desk, time, upsets, changedAt>>
        /\ loop[g].due <= time
    BY <1>9, <2>1 DEF QueryLoop, h
  <2>4. l \in [due : Nat, held : Entries] /\ l.held = h /\ l.due = loop[g].due
    BY <1>0, <2>2 DEF h
  <2>5. ReadAt(l.held, time)
    BY <2>2, <2>4 DEF h
  <2> HIDE DEF l
  <2> QED BY <1>0, <2>3, <2>4, <2>5, LoopStep
<1>10. ASSUME NEW g \in Gateways, NEW ok \in BOOLEAN, ReconcileHash(g, ok) PROVE Goal
  <2> DEFINE l == [due |-> time + Interval, held |-> NoEntry]
  <2>1. /\ loop' = [loop EXCEPT ![g] = l] /\ UNCHANGED <<rows, desk, time>>
        /\ cache' = Cached(g, loop[g].held) /\ Known(g, loop[g].held)
        /\ RewriteHash(Result(g, loop[g].held).vals, ok)
    BY <1>10 DEF ReconcileHash
  <2>2. l \in [due : Nat, held : Entries] /\ l.held = NoEntry /\ l.due = time + Interval
    BY <1>0
  <2>3. /\ cache' \in [Gateways -> Entries]
        /\ \A k \in Gateways : ReadAt(cache'[k], cache'[k].at) /\ (cache'[k].kind = "rows" => cache'[k].at <= time)
    BY <1>0, <2>1, CachedRead
  <2>4. /\ hash' \in [Keys -> Value] /\ upsets' \in Nat /\ changedAt' \in {changedAt, time}
        /\ changedAt' = time \/ (changedAt + CacheTtl <= time => Matches(hash'))
    BY <1>0, <2>1, HashRewritten
  <2> HIDE DEF l
  <2> QED BY <1>0, <2>1, <2>2, <2>3, <2>4, LoopStep
<1>11. ASSUME FlushRedis PROVE Goal
  <2>1. UNCHANGED <<rows, cache, desk, loop, time>> /\ changedAt' = time
    BY <1>11 DEF FlushRedis
  <2>2. hash' \in [Keys -> Value] /\ upsets' \in Nat
    BY <1>0, <1>11 DEF FlushRedis, Value
  <2>3. SettingsTypeOK'
    BY <1>0, <2>1, <2>2 DEF SettingsTypeOK
  <2>4. SettingsChange
    BY <1>0, <2>1, NobodyMoves DEF SettingsChange
  <2> QED BY <2>1, <2>3, <2>4, NobodyMoves
<1>12. Goal
  <2> HIDE DEF Goal
  <2> QED BY <1>1, <1>2, <1>3, <1>4, <1>5, <1>6, <1>7, <1>8, <1>9, <1>10, <1>11 DEF SettingsNext
<1> QED BY <1>12

\* Time passes when nothing is held and no loop is due.
LEMMA TimeGoesOn == ASSUME SettingsInv, Wait PROVE SettingsInv'
<1> USE SettingsAssumption
<1>0. /\ time' = time + 1 /\ time < Horizon /\ UNCHANGED <<rows, cache, hash, desk, loop, upsets, changedAt>>
      /\ \A a \in Admins : desk[a].at \in {"todo", "refused", "done"}
      /\ \A g \in Gateways : loop[g].due > time
  BY DEF Wait
<1>1. Contents' = Contents
  BY <1>0 DEF Contents, Of
<1>2. time \in Nat /\ Horizon \in Nat /\ \A g \in Gateways : loop[g].due \in Nat
  BY DEF SettingsInv, SettingsTypeOK
<1>3. SettingsTypeOK'
  BY <1>0, <1>2 DEF SettingsInv, SettingsTypeOK
<1>4. HeldIsNow'
  <2>1. /\ \A a \in Admins : desk[a].held.kind # "rows"
        /\ \A g \in Gateways : loop[g].held.kind # "rows"
    BY <1>0, <1>2 DEF SettingsInv, HeldIsNow, Asking
  <2> QED BY <1>0, <2>1 DEF HeldIsNow, ReadAt
<1>5. CachesAged'
  <2>1. \A g \in Gateways : cache[g].kind = "rows" => cache[g].at \in Nat
    BY DEF SettingsInv, SettingsTypeOK, Entries, NoEntry
  <2> QED BY <1>0, <1>1, <1>2, <2>1 DEF SettingsInv, CachesAged, ReadAt, Matches
<1>6. RequestsPlain' /\ MirrorKept'
  BY <1>0, <1>1 DEF SettingsInv, RequestsPlain, MirrorKept, Matches
<1>7. LoopsTimely'
  BY <1>0, <1>2 DEF SettingsInv, LoopsTimely
<1> QED BY <1>3, <1>4, <1>5, <1>6, <1>7, SettingsImplied, PTL

\* At the start nothing is held or cached, and Redis holds the rows.
LEMMA SettingsStart == ASSUME NEW s \in Scenarios, SettingsInit(s) PROVE SettingsInv
<1>0. /\ s.rows \subseteq Rows /\ s.upsets \in Nat /\ s.clock \in 0..Horizon
      /\ s.phases \subseteq s.clock..(s.clock + Interval)
      /\ s.asks \in [Admins -> [at : {"todo", "done"}, key : Keys \cup {Unset}, val : Value, expected : Value]]
  BY ScenariosAssumption
<1>a. loop \in [Gateways -> [due : s.phases, held : {NoEntry}]] /\ time = s.clock
  BY DEF SettingsInit
<1>b. \A g \in Gateways : loop[g].due \in s.clock..(s.clock + Interval) /\ loop[g].held = NoEntry
  BY <1>0, <1>a
<1> USE SettingsAssumption
<1>1. SettingsTypeOK
  <2>1. rows \subseteq Rows /\ time \in 0 .. Horizon /\ changedAt = time /\ upsets \in Nat
    BY <1>0 DEF SettingsInit
  <2>2. cache \in [Gateways -> Entries]
    BY DEF SettingsInit, Entries
  <2>3. hash \in [Keys -> Value]
    BY <2>1 DEF SettingsInit, Contents, Rows, Value
  <2>4. desk \in [Admins -> Desks]
    <3>1. ASSUME NEW a \in Admins
          PROVE  [at |-> s.asks[a].at, key |-> s.asks[a].key, val |-> s.asks[a].val,
                  expected |-> s.asks[a].expected, held |-> NoEntry, found |-> NoEntry] \in Desks
      BY <1>0 DEF Desks, Entries
    <3> QED BY <3>1 DEF SettingsInit
  <2>5. loop \in [Gateways -> [due : Nat, held : Entries]]
    <3>1. NoEntry \in Entries
      BY DEF Entries
    <3>2. s.phases \subseteq Nat
      BY <1>0
    <3> QED BY <1>a, <3>1, <3>2
  <2> QED BY <2>1, <2>2, <2>3, <2>4, <2>5 DEF SettingsTypeOK
<1>2. HeldIsNow /\ CachesAged
  BY <1>b DEF SettingsInit, HeldIsNow, CachesAged, ReadAt, NoEntry
<1>3. RequestsPlain
  BY <1>0 DEF SettingsInit, RequestsPlain
<1>4. LoopsTimely
  BY <1>0, <1>a, <1>b DEF LoopsTimely
<1>5. MirrorKept
  BY DEF SettingsInit, MirrorKept, Matches
<1> QED BY <1>1, <1>2, <1>3, <1>4, <1>5, SettingsImplied

\* What another part of the service does leaves the settings alone.
LEMMA SettingsAlone == ASSUME SettingsInv, UNCHANGED settingsVars PROVE SettingsInv'
<1>1. Contents' = Contents
  BY DEF settingsVars, Contents, Of
<1>2. SettingsTypeOK'
  BY DEF settingsVars, SettingsInv, SettingsTypeOK
<1>3. /\ HeldIsNow' /\ CachesAged' /\ RequestsPlain' /\ LoopsTimely' /\ MirrorKept'
  BY <1>1 DEF settingsVars, SettingsInv, HeldIsNow, CachesAged, RequestsPlain, LoopsTimely, MirrorKept, ReadAt, Matches
<1> QED BY <1>2, <1>3, SettingsImplied, PTL

\* Redis holds what the database holds a reconciliation and the life of a cache entry after
\* the last change or failure, and no gateway answers with older content than a cache entry
\* may live: for any number of gateways, requests and settings.
THEOREM SettingsInvariant == Spec => []SettingsInv
<1>1. Init => SettingsInv
  BY SettingsStart DEF Init
<1>2. SettingsInv /\ [Next]_vars => SettingsInv'
  <2>1. SettingsInv /\ SettingsNext => SettingsInv'
    <3>1. ASSUME SettingsInv, SettingsNext, ~Wait PROVE SettingsInv'
      <4>1. SettingsTypeOK' /\ RequestsPlain' /\ SettingsChange
        BY <3>1, SettingsSteps
      <4> QED BY <3>1, <4>1, SettingsKept
    <3>2. ASSUME SettingsInv, Wait PROVE SettingsInv'
      BY <3>2, TimeGoesOn
    <3> QED BY <3>1, <3>2
  <2>2. [Next]_vars => SettingsNext \/ UNCHANGED settingsVars
    BY DEF Next, vars
  <2> QED BY <2>1, <2>2, SettingsAlone
<1> QED BY <1>1, <1>2, PTL DEF Spec

\* A change the administrator has not seen is refused, unless it is younger than a cache
\* entry may be: the optimistic check reads the cache.
THEOREM ConflictsAreSeen == Spec => ConflictSeen
<1> USE SettingsAssumption
<1> DEFINE Seen == \A a \in Admins : (desk[a].at = "check" /\ desk'[a].at = "select") =>
                      \A r \in rows : r.at > desk[a].expected => r.at > time - CacheTtl
<1>1. SettingsInv /\ [Next]_vars => [Seen]_settingsVars
  <2> SUFFICES ASSUME SettingsInv, SettingsNext, NEW a \in Admins, desk[a].at = "check", desk'[a].at = "select",
                      NEW r \in rows, r.at > desk[a].expected
               PROVE  r.at > time - CacheTtl
    BY DEF Next, vars
  <2>0. desk \in [Admins -> Desks] /\ r.at \in Nat /\ time \in Nat
    BY DEF SettingsInv, SettingsTypeOK, Rows
  <2>1. CheckConflict(a)
    <3>1. ASSUME NEW b \in Admins, QueryAdmin(b) PROVE FALSE
      BY <2>0, <3>1 DEF QueryAdmin, Desks
    <3>2. ASSUME NEW b \in Admins, Ask(b) \/ SelectRow(b) \/ CommitRow(b) \/ ResetRows(b) \/ ReadBack(b) PROVE FALSE
      <4>1. desk[b].at # "check"
        BY <3>2 DEF Ask, SelectRow, CommitRow, ResetRows, ReadBack
      <4>2. \E x : desk' = [desk EXCEPT ![b] = x]
        BY <3>2 DEF Ask, SelectRow, CommitRow, ResetRows, ReadBack
      <4> QED BY <2>0, <4>1, <4>2
    <3>3. ASSUME NEW b \in Admins, NEW ok \in BOOLEAN, SyncFromSession(b, ok) PROVE FALSE
      BY <2>0, <3>3 DEF SyncFromSession
    <3>4. ASSUME NEW b \in Admins, CheckConflict(b) PROVE b = a
      BY <2>0, <3>4 DEF CheckConflict
    <3>5. ASSUME desk' = desk PROVE FALSE
      BY <3>5
    <3>6. ASSUME NEW g \in Gateways, QueryLoop(g) \/ \E ok \in BOOLEAN : ReconcileHash(g, ok) PROVE FALSE
      BY <3>5, <3>6 DEF QueryLoop, ReconcileHash
    <3>7. ~FlushRedis /\ ~Wait
      BY <3>5 DEF FlushRedis, Wait
    <3> QED BY <3>1, <3>2, <3>3, <3>4, <3>6, <3>7 DEF SettingsNext
  <2>2. /\ Known(Home[a], desk[a].held) /\ ~(Result(Home[a], desk[a].held).stamp > desk[a].expected)
    BY <2>0, <2>1 DEF CheckConflict, Desks
  <2>3. desk[a].expected \in Nat
    BY <2>0 DEF Desks, Value, SettingsInv, RequestsPlain
  <2>4. desk[a].held \in Entries /\ ReadAt(desk[a].held, time) /\ Home[a] \in Gateways
    BY <2>0 DEF Desks, SettingsInv, HeldIsNow
  <2>5. /\ Result(Home[a], desk[a].held).stamp \in Nat
        /\ r.at <= Result(Home[a], desk[a].held).stamp \/ r.at > time - CacheTtl
    BY <2>2, <2>4, ResultRead
  <2> QED BY <2>0, <2>2, <2>3, <2>5
<1> QED BY <1>1, SettingsInvariant, PTL DEF Spec, ConflictSeen

-----------------------------------------------------------------------------
(* Submissions *)

\* One place of a function changes; one handler moves, or none.
At(new, old, j, v) == new[j] = v /\ \A k \in Jobs \ {j} : new[k] = old[k]
HandlerAt(h, pc, j) ==
    /\ hand'[h].pc = pc /\ hand'[h].job = j
    /\ \A k \in Handlers \ {h} : hand'[k].pc = hand[k].pc /\ hand'[k].job = hand[k].job
HandlersRest == \A k \in Handlers : hand'[k].pc = hand[k].pc /\ hand'[k].job = hand[k].job
Calm == ~left.died /\ ~left.slow
FaultsSame == left'.died = left.died /\ left'.slow = left.slow /\ left'.lost = left.lost
PlansSame  == \A k \in Jobs : plan'[k].tasks = plan[k].tasks

\* What the steps do to requests, rows, events, handlers, slots and faults.
Untouched == HandlersRest /\ PlansSame /\ UNCHANGED <<queued, guard, released, early>>
Checks(j) ==
    /\ Untouched /\ FaultsSame /\ UNCHANGED <<row, inbox, counter, counted>> /\ req[j] = "new"
    /\ (At(req', req, j, "checked") /\ counter < Limit) \/ At(req', req, j, "refused")
    /\ overlap' = (overlap \/ \E k \in Jobs \ {j} : req[k] \in InWindow)
Creates(j) ==
    /\ Untouched /\ FaultsSame /\ UNCHANGED <<inbox, counter, counted, overlap>> /\ req[j] = "checked"
    /\ At(req', req, j, "created") /\ At(row', row, j, "PENDING")
Publishes(j) ==
    /\ Untouched /\ FaultsSame /\ UNCHANGED <<row, counter, counted, overlap>> /\ req[j] = "created"
    /\ At(req', req, j, "published") /\ At(inbox', inbox, j, inbox[j] + 1)
Counts(j) ==
    /\ Untouched /\ FaultsSame /\ UNCHANGED <<row, inbox, overlap>> /\ req[j] = "published"
    /\ At(req', req, j, "waiting") \/ At(req', req, j, "accepted")
    /\ counter' = counter + 1 /\ counted' = counted \cup {j}
Replies(j) ==
    /\ Untouched /\ FaultsSame /\ UNCHANGED <<row, inbox, counter, counted, overlap>> /\ req[j] = "waiting"
    /\ At(req', req, j, "answered") \/ At(req', req, j, "expired")
Loses(j) ==
    /\ Untouched /\ UNCHANGED <<row, inbox, counter, counted, overlap>> /\ req[j] \in InWindow
    /\ At(req', req, j, "lost") /\ left'.lost /\ left'.died = left.died /\ left'.slow = left.slow

\* h is the handler that works, j the job it works on.
Outside == UNCHANGED <<req, guard, released, early, counter, counted, overlap>>
Redelivers(h, j) ==
    /\ Outside /\ UNCHANGED <<row, queued>> /\ PlansSame /\ HandlersRest
    /\ left'.slow /\ left'.died = left.died /\ left'.lost = left.lost
    /\ At(inbox', inbox, j, inbox[j] + 1) /\ hand[h].pc # "idle" /\ hand[h].job = j
Perishes(h, j) ==
    /\ Outside /\ UNCHANGED <<row, queued>> /\ PlansSame /\ HandlerAt(h, "idle", None)
    /\ left'.died /\ left'.slow = left.slow /\ left'.lost = left.lost
    /\ At(inbox', inbox, j, inbox[j] + 1) /\ hand[h].pc # "idle" /\ hand[h].job = j
Claims(h, j) ==
    /\ Outside /\ UNCHANGED <<row, queued>> /\ PlansSame /\ FaultsSame
    /\ hand[h].pc = "idle" /\ inbox[j] > 0 /\ At(inbox', inbox, j, inbox[j] - 1)
    /\ (Settled(j) /\ HandlersRest) \/ (~Settled(j) /\ HandlerAt(h, "select", j))
Selects(h, j) ==
    /\ Outside /\ UNCHANGED <<row, queued, inbox>> /\ PlansSame /\ FaultsSame
    /\ hand[h].pc = "select" /\ hand[h].job = j
    /\ \/ HandlerAt(h, "select", j) \/ HandlerAt(h, "refuse", j)
       \/ HandlerAt(h, "ack", j) /\ plan[j].tasks # {}
Inserts(h, j) ==
    /\ Outside /\ UNCHANGED <<queued, inbox>> /\ FaultsSame
    /\ hand[h].pc = "select" /\ hand[h].job = j /\ HandlerAt(h, "queue", j) /\ At(row', row, j, "RUNNING")
    /\ \A k \in Jobs \ {j} : plan'[k].tasks = plan[k].tasks
Queues(h, j) ==
    /\ Outside /\ UNCHANGED <<row, inbox>> /\ PlansSame /\ FaultsSame
    /\ hand[h].pc = "queue" /\ hand[h].job = j /\ HandlerAt(h, "ack", j) /\ queued' = queued \cup {j}
Refuses(h, j) ==
    /\ Outside /\ UNCHANGED <<queued, inbox>> /\ PlansSame /\ FaultsSame
    /\ hand[h].pc \in {"queue", "refuse"} /\ hand[h].job = j /\ HandlerAt(h, "guard", j)
    /\ At(row', row, j, "FAILED")
Ends(h, j) ==
    /\ Outside /\ UNCHANGED <<queued, inbox>> /\ PlansSame /\ FaultsSame
    /\ hand[h].pc = "idle" /\ row[j] = "RUNNING" /\ j \in queued /\ HandlerAt(h, "guard", j)
    /\ At(row', row, j, "COMPLETED") \/ At(row', row, j, "FAILED")

WithinSlots == PlansSame /\ FaultsSame /\ UNCHANGED <<req, row, inbox, queued, counted, overlap>>
Guards(h, j) ==
    /\ WithinSlots /\ UNCHANGED <<released, early, counter>> /\ hand[h].pc = "guard" /\ hand[h].job = j
    /\ guard' = guard \cup {j}
    /\ (j \in guard /\ HandlerAt(h, "ack", j)) \/ (j \notin guard /\ HandlerAt(h, "decr", j))
Releases(h, j) ==
    /\ WithinSlots /\ UNCHANGED guard /\ hand[h].pc = "decr" /\ hand[h].job = j
    /\ counter' = counter - 1 /\ released' = released \cup {j}
    /\ early' = IF j \in counted THEN early ELSE early \cup {j}
    /\ HandlerAt(h, "ack", j) \/ (HandlerAt(h, "clamp", j) /\ counter' < 0)
Clamps(h, j) ==
    /\ WithinSlots /\ UNCHANGED <<guard, released, early>> /\ hand[h].pc = "clamp" /\ hand[h].job = j
    /\ counter' = 0 /\ HandlerAt(h, "ack", j)
Returns(h, j) ==
    /\ WithinSlots /\ UNCHANGED <<guard, released, early, counter>> /\ hand[h].pc = "ack" /\ hand[h].job = j
    /\ HandlerAt(h, "idle", None)

Rests == Untouched /\ FaultsSame /\ UNCHANGED <<req, row, inbox, counter, counted, overlap>>

SubEffect ==
    \/ \E j \in Jobs : Checks(j) \/ Creates(j) \/ Publishes(j) \/ Counts(j) \/ Replies(j) \/ Loses(j)
    \/ \E h \in Handlers, j \in Jobs : 
        \/ Redelivers(h, j) \/ Perishes(h, j) \/ Claims(h, j) \/ Selects(h, j) \/ Inserts(h, j) \/ Queues(h, j)
        \/ Refuses(h, j) \/ Ends(h, j) \/ Guards(h, j) \/ Releases(h, j) \/ Clamps(h, j) \/ Returns(h, j)
    \/ Rests

\* What the effects are about, of the types.
SubPlain ==
    /\ \A h \in Handlers : hand[h].pc \in HandStates /\ hand[h].job \in Jobs \cup {None}
    /\ \A j \in Jobs : /\ req[j] \in ReqStates /\ row[j] \in {None, "PENDING", "RUNNING"} \cup Terminal
                       /\ inbox[j] \in Nat
    /\ guard \subseteq Jobs /\ released \subseteq Jobs /\ counted \subseteq Jobs /\ queued \subseteq Jobs

\* The slots taken and not given back are finitely many, and who gives one back has taken it.
LEMMA SlotsCounted ==
    ASSUME SubmissionInv, NEW h \in Handlers, hand[h].pc = "decr", early = {}, hand[h].job \in counted
    PROVE  counter \in Nat /\ counter > 0 /\ counter - 1 = Cardinality(counted \ (released \cup {hand[h].job}))
<1> DEFINE j == hand[h].job
           taken == counted \ released
<1>1. j \in taken
  BY DEF SubmissionInv, HandlersKept
<1>2. IsFiniteSet(taken)
  BY SubmissionAssumption, FS_Subset DEF SubmissionInv, SubTypeOK
<1>3. Cardinality(taken) \in Nat /\ Cardinality(taken \ {j}) = Cardinality(taken) - 1 /\ Cardinality(taken \ {j}) \in Nat
  BY <1>1, <1>2, FS_RemoveElement, FS_CardinalityType, FS_Subset
<1>4. counter = Cardinality(taken)
  BY DEF SubmissionInv, CounterExact
<1>5. taken \ {j} = counted \ (released \cup {j})
  OBVIOUS
<1> QED BY <1>3, <1>4, <1>5

LEMMA RequestsKeptStep == ASSUME SubmissionInv, SubPlain, SubEffect PROVE RequestsKept'
<1> USE SubmissionAssumption DEF Terminal, HandlerAt, HandlersRest, At, FaultsSame, PlansSame, Untouched, Outside, WithinSlots, SubPlain,
        RequestsKept, HandlersKept, Counted, InWindow, ReqStates, HandStates, Settled
<1>0. RequestsKept /\ HandlersKept
  BY DEF SubmissionInv
<1>1. ASSUME NEW j \in Jobs, Checks(j) PROVE RequestsKept'
  BY <1>0, <1>1 DEF Checks
<1>2. ASSUME NEW j \in Jobs, Creates(j) PROVE RequestsKept'
  BY <1>0, <1>2 DEF Creates
<1>3. ASSUME NEW j \in Jobs, Publishes(j) PROVE RequestsKept'
  BY <1>0, <1>3 DEF Publishes
<1>4. ASSUME NEW j \in Jobs, Counts(j) PROVE RequestsKept'
  BY <1>0, <1>4 DEF Counts
<1>5. ASSUME NEW j \in Jobs, Replies(j) PROVE RequestsKept'
  BY <1>0, <1>5 DEF Replies
<1>6. ASSUME NEW j \in Jobs, Loses(j) PROVE RequestsKept'
  BY <1>0, <1>6 DEF Loses
<1>7. ASSUME NEW h \in Handlers, NEW j \in Jobs, Redelivers(h, j) PROVE RequestsKept'
  BY <1>0, <1>7 DEF Redelivers
<1>8. ASSUME NEW h \in Handlers, NEW j \in Jobs, Perishes(h, j) PROVE RequestsKept'
  BY <1>0, <1>8 DEF Perishes
<1>9. ASSUME NEW h \in Handlers, NEW j \in Jobs, Claims(h, j) PROVE RequestsKept'
  BY <1>0, <1>9 DEF Claims
<1>10. ASSUME NEW h \in Handlers, NEW j \in Jobs, Selects(h, j) PROVE RequestsKept'
  BY <1>0, <1>10 DEF Selects
<1>11. ASSUME NEW h \in Handlers, NEW j \in Jobs, Inserts(h, j) PROVE RequestsKept'
  BY <1>0, <1>11 DEF Inserts
<1>12. ASSUME NEW h \in Handlers, NEW j \in Jobs, Queues(h, j) PROVE RequestsKept'
  BY <1>0, <1>12 DEF Queues
<1>13. ASSUME NEW h \in Handlers, NEW j \in Jobs, Refuses(h, j) PROVE RequestsKept'
  BY <1>0, <1>13 DEF Refuses
<1>14. ASSUME NEW h \in Handlers, NEW j \in Jobs, Ends(h, j) PROVE RequestsKept'
  BY <1>0, <1>14 DEF Ends
<1>15. ASSUME NEW h \in Handlers, NEW j \in Jobs, Guards(h, j) PROVE RequestsKept'
  BY <1>0, <1>15 DEF Guards
<1>16. ASSUME NEW h \in Handlers, NEW j \in Jobs, Releases(h, j) PROVE RequestsKept'
  BY <1>0, <1>16 DEF Releases
<1>17. ASSUME NEW h \in Handlers, NEW j \in Jobs, Clamps(h, j) PROVE RequestsKept'
  BY <1>0, <1>17 DEF Clamps
<1>18. ASSUME NEW h \in Handlers, NEW j \in Jobs, Returns(h, j) PROVE RequestsKept'
  BY <1>0, <1>18 DEF Returns
<1>19. ASSUME Rests PROVE RequestsKept'
  BY <1>0, <1>19 DEF Rests
<1> QED BY <1>1, <1>2, <1>3, <1>4, <1>5, <1>6, <1>7, <1>8, <1>9, <1>10, <1>11, <1>12, <1>13, <1>14, <1>15, <1>16, <1>17, <1>18, <1>19 DEF SubEffect

LEMMA HandlersKeptStep == ASSUME SubmissionInv, SubPlain, SubEffect PROVE HandlersKept'
<1> USE SubmissionAssumption DEF Terminal, HandlerAt, HandlersRest, At, FaultsSame, PlansSame, Untouched, Outside, WithinSlots, SubPlain,
        HandlersKept, RequestsKept, HandStates
<1>0. HandlersKept /\ RequestsKept
  BY DEF SubmissionInv
<1>1. ASSUME NEW j \in Jobs, Checks(j) PROVE HandlersKept'
  BY <1>0, <1>1 DEF Checks
<1>2. ASSUME NEW j \in Jobs, Creates(j) PROVE HandlersKept'
  BY <1>0, <1>2 DEF Creates
<1>3. ASSUME NEW j \in Jobs, Publishes(j) PROVE HandlersKept'
  BY <1>0, <1>3 DEF Publishes
<1>4. ASSUME NEW j \in Jobs, Counts(j) PROVE HandlersKept'
  BY <1>0, <1>4 DEF Counts
<1>5. ASSUME NEW j \in Jobs, Replies(j) PROVE HandlersKept'
  BY <1>0, <1>5 DEF Replies
<1>6. ASSUME NEW j \in Jobs, Loses(j) PROVE HandlersKept'
  BY <1>0, <1>6 DEF Loses
<1>7. ASSUME NEW h \in Handlers, NEW j \in Jobs, Redelivers(h, j) PROVE HandlersKept'
  BY <1>0, <1>7 DEF Redelivers
<1>8. ASSUME NEW h \in Handlers, NEW j \in Jobs, Perishes(h, j) PROVE HandlersKept'
  BY <1>0, <1>8 DEF Perishes
<1>9. ASSUME NEW h \in Handlers, NEW j \in Jobs, Claims(h, j) PROVE HandlersKept'
  BY <1>0, <1>9 DEF Claims
<1>10. ASSUME NEW h \in Handlers, NEW j \in Jobs, Selects(h, j) PROVE HandlersKept'
  BY <1>0, <1>10 DEF Selects
<1>11. ASSUME NEW h \in Handlers, NEW j \in Jobs, Inserts(h, j) PROVE HandlersKept'
  BY <1>0, <1>11 DEF Inserts
<1>12. ASSUME NEW h \in Handlers, NEW j \in Jobs, Queues(h, j) PROVE HandlersKept'
  BY <1>0, <1>12 DEF Queues
<1>13. ASSUME NEW h \in Handlers, NEW j \in Jobs, Refuses(h, j) PROVE HandlersKept'
  BY <1>0, <1>13 DEF Refuses
<1>14. ASSUME NEW h \in Handlers, NEW j \in Jobs, Ends(h, j) PROVE HandlersKept'
  BY <1>0, <1>14 DEF Ends
<1>15. ASSUME NEW h \in Handlers, NEW j \in Jobs, Guards(h, j) PROVE HandlersKept'
  BY <1>0, <1>15 DEF Guards
<1>16. ASSUME NEW h \in Handlers, NEW j \in Jobs, Releases(h, j) PROVE HandlersKept'
  <2>1. early' # {} \/ counter' >= 0
    <3>1. CASE early # {} \/ j \notin counted
      BY <1>16, <3>1 DEF Releases
    <3>2. CASE early = {} /\ j \in counted
      <4>1. hand[h].pc = "decr" /\ hand[h].job \in counted
        BY <1>16, <3>2 DEF Releases
      <4>2. counter \in Nat /\ counter > 0
        BY <3>2, <4>1, SlotsCounted
      <4> QED BY <1>16, <4>2 DEF Releases
    <3> QED BY <3>1, <3>2
  <2>2. \A k \in Handlers : hand'[k].pc = "clamp" => early' # {}
    <3>1. early \subseteq early' /\ (hand'[h].pc = "clamp" => counter' < 0 /\ counter' \in Int)
      BY <1>0, <1>16 DEF Releases
    <3>2. \A k \in Handlers \ {h} : hand'[k].pc = hand[k].pc
      BY <1>16 DEF Releases
    <3> QED BY <1>0, <2>1, <3>1, <3>2
  <2> QED BY <1>0, <1>16, <2>2 DEF Releases
<1>17. ASSUME NEW h \in Handlers, NEW j \in Jobs, Clamps(h, j) PROVE HandlersKept'
  BY <1>0, <1>17 DEF Clamps
<1>18. ASSUME NEW h \in Handlers, NEW j \in Jobs, Returns(h, j) PROVE HandlersKept'
  BY <1>0, <1>18 DEF Returns
<1>19. ASSUME Rests PROVE HandlersKept'
  BY <1>0, <1>19 DEF Rests
<1> QED BY <1>1, <1>2, <1>3, <1>4, <1>5, <1>6, <1>7, <1>8, <1>9, <1>10, <1>11, <1>12, <1>13, <1>14, <1>15, <1>16, <1>17, <1>18, <1>19 DEF SubEffect

LEMMA SlotsKeptStep == ASSUME SubmissionInv, SubPlain, SubEffect PROVE SlotsKept'
<1> USE SubmissionAssumption DEF Terminal, HandlerAt, HandlersRest, At, FaultsSame, PlansSame, Untouched, Outside, WithinSlots, SubPlain,
        SlotsKept, HandlersKept, RequestsKept, HandStates
<1>0. SlotsKept /\ HandlersKept /\ RequestsKept
  BY DEF SubmissionInv
<1>1. ASSUME NEW j \in Jobs, Checks(j) PROVE SlotsKept'
  BY <1>0, <1>1 DEF Checks
<1>2. ASSUME NEW j \in Jobs, Creates(j) PROVE SlotsKept'
  BY <1>0, <1>2 DEF Creates
<1>3. ASSUME NEW j \in Jobs, Publishes(j) PROVE SlotsKept'
  BY <1>0, <1>3 DEF Publishes
<1>4. ASSUME NEW j \in Jobs, Counts(j) PROVE SlotsKept'
  BY <1>0, <1>4 DEF Counts
<1>5. ASSUME NEW j \in Jobs, Replies(j) PROVE SlotsKept'
  BY <1>0, <1>5 DEF Replies
<1>6. ASSUME NEW j \in Jobs, Loses(j) PROVE SlotsKept'
  BY <1>0, <1>6 DEF Loses
<1>7. ASSUME NEW h \in Handlers, NEW j \in Jobs, Redelivers(h, j) PROVE SlotsKept'
  BY <1>0, <1>7 DEF Redelivers
<1>8. ASSUME NEW h \in Handlers, NEW j \in Jobs, Perishes(h, j) PROVE SlotsKept'
  BY <1>0, <1>8 DEF Perishes
<1>9. ASSUME NEW h \in Handlers, NEW j \in Jobs, Claims(h, j) PROVE SlotsKept'
  BY <1>0, <1>9 DEF Claims
<1>10. ASSUME NEW h \in Handlers, NEW j \in Jobs, Selects(h, j) PROVE SlotsKept'
  BY <1>0, <1>10 DEF Selects
<1>11. ASSUME NEW h \in Handlers, NEW j \in Jobs, Inserts(h, j) PROVE SlotsKept'
  BY <1>0, <1>11 DEF Inserts
<1>12. ASSUME NEW h \in Handlers, NEW j \in Jobs, Queues(h, j) PROVE SlotsKept'
  BY <1>0, <1>12 DEF Queues
<1>13. ASSUME NEW h \in Handlers, NEW j \in Jobs, Refuses(h, j) PROVE SlotsKept'
  BY <1>0, <1>13 DEF Refuses
<1>14. ASSUME NEW h \in Handlers, NEW j \in Jobs, Ends(h, j) PROVE SlotsKept'
  BY <1>0, <1>14 DEF Ends
<1>15. ASSUME NEW h \in Handlers, NEW j \in Jobs, Guards(h, j) PROVE SlotsKept'
  BY <1>0, <1>15 DEF Guards
<1>16. ASSUME NEW h \in Handlers, NEW j \in Jobs, Releases(h, j) PROVE SlotsKept'
  BY <1>0, <1>16 DEF Releases
<1>17. ASSUME NEW h \in Handlers, NEW j \in Jobs, Clamps(h, j) PROVE SlotsKept'
  BY <1>0, <1>17 DEF Clamps
<1>18. ASSUME NEW h \in Handlers, NEW j \in Jobs, Returns(h, j) PROVE SlotsKept'
  BY <1>0, <1>18 DEF Returns
<1>19. ASSUME Rests PROVE SlotsKept'
  BY <1>0, <1>19 DEF Rests
<1> QED BY <1>1, <1>2, <1>3, <1>4, <1>5, <1>6, <1>7, <1>8, <1>9, <1>10, <1>11, <1>12, <1>13, <1>14, <1>15, <1>16, <1>17, <1>18, <1>19 DEF SubEffect

LEMMA OneDeliveryStep == ASSUME SubmissionInv, SubPlain, SubEffect PROVE OneDelivery'
<1> USE SubmissionAssumption DEF Terminal, HandlerAt, HandlersRest, At, FaultsSame, PlansSame, Untouched, Outside, WithinSlots, SubPlain,
        OneDelivery, RequestsKept, HandlersKept, HandStates, Settled
<1>0. OneDelivery /\ RequestsKept /\ HandlersKept
  BY DEF SubmissionInv
<1>1. ASSUME NEW j \in Jobs, Checks(j) PROVE OneDelivery'
  BY <1>0, <1>1 DEF Checks
<1>2. ASSUME NEW j \in Jobs, Creates(j) PROVE OneDelivery'
  BY <1>0, <1>2 DEF Creates
<1>3. ASSUME NEW j \in Jobs, Publishes(j) PROVE OneDelivery'
  BY <1>0, <1>3 DEF Publishes
<1>4. ASSUME NEW j \in Jobs, Counts(j) PROVE OneDelivery'
  BY <1>0, <1>4 DEF Counts
<1>5. ASSUME NEW j \in Jobs, Replies(j) PROVE OneDelivery'
  BY <1>0, <1>5 DEF Replies
<1>6. ASSUME NEW j \in Jobs, Loses(j) PROVE OneDelivery'
  BY <1>0, <1>6 DEF Loses
<1>7. ASSUME NEW h \in Handlers, NEW j \in Jobs, Redelivers(h, j) PROVE OneDelivery'
  BY <1>0, <1>7 DEF Redelivers
<1>8. ASSUME NEW h \in Handlers, NEW j \in Jobs, Perishes(h, j) PROVE OneDelivery'
  BY <1>0, <1>8 DEF Perishes
<1>9. ASSUME NEW h \in Handlers, NEW j \in Jobs, Claims(h, j) PROVE OneDelivery'
  BY <1>0, <1>9 DEF Claims
<1>10. ASSUME NEW h \in Handlers, NEW j \in Jobs, Selects(h, j) PROVE OneDelivery'
  BY <1>0, <1>10 DEF Selects
<1>11. ASSUME NEW h \in Handlers, NEW j \in Jobs, Inserts(h, j) PROVE OneDelivery'
  BY <1>0, <1>11 DEF Inserts
<1>12. ASSUME NEW h \in Handlers, NEW j \in Jobs, Queues(h, j) PROVE OneDelivery'
  BY <1>0, <1>12 DEF Queues
<1>13. ASSUME NEW h \in Handlers, NEW j \in Jobs, Refuses(h, j) PROVE OneDelivery'
  BY <1>0, <1>13 DEF Refuses
<1>14. ASSUME NEW h \in Handlers, NEW j \in Jobs, Ends(h, j) PROVE OneDelivery'
  BY <1>0, <1>14 DEF Ends
<1>15. ASSUME NEW h \in Handlers, NEW j \in Jobs, Guards(h, j) PROVE OneDelivery'
  BY <1>0, <1>15 DEF Guards
<1>16. ASSUME NEW h \in Handlers, NEW j \in Jobs, Releases(h, j) PROVE OneDelivery'
  BY <1>0, <1>16 DEF Releases
<1>17. ASSUME NEW h \in Handlers, NEW j \in Jobs, Clamps(h, j) PROVE OneDelivery'
  BY <1>0, <1>17 DEF Clamps
<1>18. ASSUME NEW h \in Handlers, NEW j \in Jobs, Returns(h, j) PROVE OneDelivery'
  BY <1>0, <1>18 DEF Returns
<1>19. ASSUME Rests PROVE OneDelivery'
  BY <1>0, <1>19 DEF Rests
<1> QED BY <1>1, <1>2, <1>3, <1>4, <1>5, <1>6, <1>7, <1>8, <1>9, <1>10, <1>11, <1>12, <1>13, <1>14, <1>15, <1>16, <1>17, <1>18, <1>19 DEF SubEffect

LEMMA NeverForgottenStep == ASSUME SubmissionInv, SubPlain, SubEffect PROVE NeverForgotten'
<1> USE SubmissionAssumption DEF Terminal, HandlerAt, HandlersRest, At, FaultsSame, PlansSame, Untouched, Outside, WithinSlots, SubPlain,
        NeverForgotten, RequestsKept, HandlersKept, HandStates, Settled
<1>0. NeverForgotten /\ RequestsKept /\ HandlersKept
  BY DEF SubmissionInv
<1>1. ASSUME NEW j \in Jobs, Checks(j) PROVE NeverForgotten'
  BY <1>0, <1>1 DEF Checks
<1>2. ASSUME NEW j \in Jobs, Creates(j) PROVE NeverForgotten'
  BY <1>0, <1>2 DEF Creates
<1>3. ASSUME NEW j \in Jobs, Publishes(j) PROVE NeverForgotten'
  BY <1>0, <1>3 DEF Publishes
<1>4. ASSUME NEW j \in Jobs, Counts(j) PROVE NeverForgotten'
  BY <1>0, <1>4 DEF Counts
<1>5. ASSUME NEW j \in Jobs, Replies(j) PROVE NeverForgotten'
  BY <1>0, <1>5 DEF Replies
<1>6. ASSUME NEW j \in Jobs, Loses(j) PROVE NeverForgotten'
  BY <1>0, <1>6 DEF Loses
<1>7. ASSUME NEW h \in Handlers, NEW j \in Jobs, Redelivers(h, j) PROVE NeverForgotten'
  BY <1>0, <1>7 DEF Redelivers
<1>8. ASSUME NEW h \in Handlers, NEW j \in Jobs, Perishes(h, j) PROVE NeverForgotten'
  BY <1>0, <1>8 DEF Perishes
<1>9. ASSUME NEW h \in Handlers, NEW j \in Jobs, Claims(h, j) PROVE NeverForgotten'
  BY <1>0, <1>9 DEF Claims
<1>10. ASSUME NEW h \in Handlers, NEW j \in Jobs, Selects(h, j) PROVE NeverForgotten'
  BY <1>0, <1>10 DEF Selects
<1>11. ASSUME NEW h \in Handlers, NEW j \in Jobs, Inserts(h, j) PROVE NeverForgotten'
  BY <1>0, <1>11 DEF Inserts
<1>12. ASSUME NEW h \in Handlers, NEW j \in Jobs, Queues(h, j) PROVE NeverForgotten'
  BY <1>0, <1>12 DEF Queues
<1>13. ASSUME NEW h \in Handlers, NEW j \in Jobs, Refuses(h, j) PROVE NeverForgotten'
  BY <1>0, <1>13 DEF Refuses
<1>14. ASSUME NEW h \in Handlers, NEW j \in Jobs, Ends(h, j) PROVE NeverForgotten'
  BY <1>0, <1>14 DEF Ends
<1>15. ASSUME NEW h \in Handlers, NEW j \in Jobs, Guards(h, j) PROVE NeverForgotten'
  BY <1>0, <1>15 DEF Guards
<1>16. ASSUME NEW h \in Handlers, NEW j \in Jobs, Releases(h, j) PROVE NeverForgotten'
  BY <1>0, <1>16 DEF Releases
<1>17. ASSUME NEW h \in Handlers, NEW j \in Jobs, Clamps(h, j) PROVE NeverForgotten'
  BY <1>0, <1>17 DEF Clamps
<1>18. ASSUME NEW h \in Handlers, NEW j \in Jobs, Returns(h, j) PROVE NeverForgotten'
  BY <1>0, <1>18 DEF Returns
<1>19. ASSUME Rests PROVE NeverForgotten'
  BY <1>0, <1>19 DEF Rests
<1> QED BY <1>1, <1>2, <1>3, <1>4, <1>5, <1>6, <1>7, <1>8, <1>9, <1>10, <1>11, <1>12, <1>13, <1>14, <1>15, <1>16, <1>17, <1>18, <1>19 DEF SubEffect

LEMMA CounterExactStep == ASSUME SubmissionInv, SubPlain, SubEffect PROVE CounterExact'
<1> USE DEF SubPlain
<1>0. RequestsKept /\ HandlersKept /\ CounterExact /\ counter \in Int
  BY DEF SubmissionInv, SubTypeOK
<1>1. ASSUME NEW j \in Jobs, Counts(j) PROVE CounterExact'
  <2> SUFFICES ASSUME early' = {} PROVE counter' = Cardinality(counted' \ released')
    BY DEF CounterExact
  <2>1. early = {} /\ released' = released /\ counter' = counter + 1 /\ counted' = counted \cup {j} /\ j \notin counted
    BY <1>0, <1>1 DEF Counts, Untouched, RequestsKept, Counted
  <2>2. j \notin released
    BY <1>0, <2>1 DEF HandlersKept
  <2>3. IsFiniteSet(counted \ released)
    BY SubmissionAssumption, FS_Subset
  <2>4. Cardinality((counted \ released) \cup {j}) = Cardinality(counted \ released) + 1
    BY <2>1, <2>3, FS_AddElement
  <2>5. counted' \ released' = (counted \ released) \cup {j}
    BY <2>1, <2>2
  <2> QED BY <1>0, <2>1, <2>4, <2>5 DEF CounterExact
<1>2. ASSUME NEW h \in Handlers, NEW j \in Jobs, Releases(h, j) PROVE CounterExact'
  <2> SUFFICES ASSUME early' = {} PROVE counter' = Cardinality(counted' \ released')
    BY DEF CounterExact
  <2>1. /\ early = {} /\ j \in counted /\ hand[h].pc = "decr" /\ hand[h].job = j
        /\ counter' = counter - 1 /\ counted' = counted /\ released' = released \cup {j}
    BY <1>2 DEF Releases, WithinSlots
  <2> QED BY <2>1, SlotsCounted
<1>3. ASSUME NEW h \in Handlers, NEW j \in Jobs, Clamps(h, j) PROVE CounterExact'
  BY <1>0, <1>3 DEF Clamps, WithinSlots, HandlersKept, CounterExact
<1>4. ASSUME UNCHANGED <<counter, counted, released, early>> PROVE CounterExact'
  BY <1>0, <1>4 DEF CounterExact
<1> QED BY <1>1, <1>2, <1>3, <1>4 DEF SubEffect, Untouched, Outside, WithinSlots, Checks, Creates, Publishes, Replies, Loses,
          Redelivers, Perishes, Claims, Selects, Inserts, Queues, Refuses, Ends, Guards, Returns, Rests

\* Requests come one after the other, and nobody dies or is slow.
Orderly == early = {} /\ ~overlap /\ ~left.died /\ ~left.lost /\ ~left.slow

\* Only a check that lets a request in adds to what the limit is about.
Shrinks ==
    Orderly' => /\ Orderly /\ Counting' \subseteq Counting
                /\ \A k \in Jobs : req'[k] \in InWindow => req[k] \in InWindow

LEMMA OrderlyShrinks ==
    ASSUME SubmissionInv, SubPlain, SubEffect, \A j \in Jobs : ~(Checks(j) /\ req'[j] = "checked")
    PROVE  Shrinks
<1> USE DEF SubPlain, Shrinks, Orderly, Counting, InWindow, At
<1>0. RequestsKept /\ HandlersKept
  BY DEF SubmissionInv
<1>1. ASSUME NEW j \in Jobs, Checks(j) PROVE Shrinks
  BY <1>1 DEF Checks, Untouched, FaultsSame
<1>2. ASSUME NEW j \in Jobs, Creates(j) PROVE Shrinks
  BY <1>2 DEF Creates, Untouched, FaultsSame
<1>3. ASSUME NEW j \in Jobs, Publishes(j) PROVE Shrinks
  BY <1>3 DEF Publishes, Untouched, FaultsSame
<1>4. ASSUME NEW j \in Jobs, Counts(j) PROVE Shrinks
  BY <1>0, <1>4 DEF Counts, Untouched, FaultsSame, RequestsKept, HandlersKept
<1>5. ASSUME NEW j \in Jobs, Replies(j) PROVE Shrinks
  BY <1>5 DEF Replies, Untouched, FaultsSame
<1>6. ASSUME NEW j \in Jobs, Loses(j) PROVE Shrinks
  BY <1>6 DEF Loses
<1>7. ASSUME UNCHANGED <<req, counted, overlap>>, released \subseteq released', early \subseteq early',
             left'.died \/ left'.slow \/ FaultsSame
      PROVE  Shrinks
  BY <1>7 DEF FaultsSame
<1>8. ASSUME left'.slow PROVE Shrinks
  BY <1>8
<1>9. ASSUME left'.died PROVE Shrinks
  BY <1>9
<1>10. ASSUME NEW h \in Handlers, NEW j \in Jobs, Releases(h, j) PROVE Shrinks
  <2>1. released \subseteq released' /\ early \subseteq early'
    BY <1>10 DEF Releases
  <2> QED BY <1>7, <1>10, <2>1 DEF Releases, WithinSlots
<1>11. ASSUME NEW h \in Handlers, NEW j \in Jobs, Outside \/ (WithinSlots /\ UNCHANGED <<released, early>>), left'.died \/ left'.slow \/ FaultsSame
       PROVE  Shrinks
  BY <1>7, <1>11 DEF Outside, WithinSlots
<1>12. ASSUME Rests PROVE Shrinks
  BY <1>7, <1>12 DEF Rests, Untouched
<1> QED
  <2> HIDE DEF Shrinks
  <2> QED BY <1>1, <1>2, <1>3, <1>4, <1>5, <1>6, <1>10, <1>11, <1>12
        DEF SubEffect, WithinSlots, Redelivers, Perishes, Claims, Selects, Inserts, Queues, Refuses, Ends, Guards, Clamps, Returns

LEMMA WindowKeptStep == ASSUME SubmissionInv, SubPlain, SubEffect PROVE WindowKept'
<1> SUFFICES ASSUME Orderly'
             PROVE  /\ Cardinality(Counting') <= Limit
                    /\ \A j, k \in Jobs : req'[j] \in InWindow /\ req'[k] \in InWindow => j = k
  BY DEF WindowKept, Orderly
<1>1. IsFiniteSet(Counting) /\ Counting \subseteq Jobs
  BY SubmissionAssumption, FS_Subset DEF Counting, SubPlain
<1>2. Cardinality(Counting) \in Nat /\ Limit \in Nat
  BY <1>1, FS_CardinalityType, SubmissionAssumption
<1>3. Orderly => /\ Cardinality(Counting) <= Limit
                 /\ \A j, k \in Jobs : req[j] \in InWindow /\ req[k] \in InWindow => j = k
  BY DEF SubmissionInv, WindowKept, Orderly
<1>4. CASE \A j \in Jobs : ~(Checks(j) /\ req'[j] = "checked")
  <2>1. /\ Orderly /\ Counting' \subseteq Counting
        /\ \A k \in Jobs : req'[k] \in InWindow => req[k] \in InWindow
    BY <1>4, OrderlyShrinks DEF Shrinks
  <2>2. Cardinality(Counting') <= Cardinality(Counting) /\ Cardinality(Counting') \in Nat
    BY <1>1, <2>1, FS_Subset, FS_CardinalityType
  <2> QED BY <1>2, <1>3, <2>1, <2>2
<1>5. ASSUME NEW j \in Jobs, Checks(j), req'[j] = "checked"
      PROVE  /\ Cardinality(Counting') <= Limit
             /\ \A i, k \in Jobs : req'[i] \in InWindow /\ req'[k] \in InWindow => i = k
  <2>1. /\ Orderly /\ counter < Limit /\ req[j] = "new" /\ UNCHANGED <<counted, released>>
        /\ \A k \in Jobs \ {j} : req'[k] = req[k] /\ req[k] \notin InWindow
    BY <1>5 DEF Checks, Untouched, FaultsSame, Orderly, At
  <2>2. \A k \in Jobs : req[k] \notin InWindow
    BY <2>1 DEF InWindow
  <2>3. Counting = counted \ released /\ Counting' = Counting \cup {j}
    BY <1>5, <2>1, <2>2 DEF Counting, InWindow
  <2>4. j \notin Counting
    BY <2>1, <2>3 DEF SubmissionInv, RequestsKept, Counted
  <2>5. Cardinality(Counting') = Cardinality(Counting) + 1
    BY <1>1, <2>3, <2>4, FS_AddElement
  <2>6. Cardinality(Counting) = counter
    BY <2>1, <2>3 DEF SubmissionInv, CounterExact, Orderly
  <2> QED BY <1>2, <2>1, <2>5, <2>6
<1> QED BY <1>4, <1>5

\* A job that waits or runs takes part in the limit.
LEMMA ActiveIsCounting ==
    SubPlain /\ RequestsKept /\ HandlersKept /\ OneDelivery /\ WindowKept => LimitHeld
<1> SUFFICES ASSUME SubPlain, RequestsKept, HandlersKept, OneDelivery, WindowKept, Orderly
             PROVE  Cardinality({j \in Jobs : row[j] \in {"PENDING", "RUNNING"}}) <= Limit
  BY DEF LimitHeld, Orderly
<1> DEFINE active == {j \in Jobs : row[j] \in {"PENDING", "RUNNING"}}
<1>1. IsFiniteSet(Counting) /\ Cardinality(Counting) \in Nat /\ Limit \in Nat
  BY SubmissionAssumption, FS_Subset, FS_CardinalityType DEF Counting, SubPlain
<1>2. Cardinality(Counting) <= Limit
  BY DEF WindowKept, Orderly
<1>3. active \subseteq Counting
  <2> SUFFICES ASSUME NEW j \in Jobs, row[j] \in {"PENDING", "RUNNING"} PROVE j \in Counting
    OBVIOUS
  <2>1. j \notin guard /\ j \notin released
    BY DEF OneDelivery, HandlersKept, Orderly, Terminal
  <2>2. row[j] # None /\ req[j] # "lost"
    BY SubmissionAssumption DEF RequestsKept, Orderly
  <2>3. req[j] \in InWindow \cup Counted
    BY <2>2 DEF RequestsKept, SubPlain, ReqStates, InWindow
  <2> QED BY <2>1, <2>3 DEF Counting, RequestsKept
<1>4. Cardinality(active) <= Cardinality(Counting) /\ Cardinality(active) \in Nat
  BY <1>1, <1>3, FS_Subset, FS_CardinalityType
<1> QED BY <1>1, <1>2, <1>4

\* A job that ended and that no handler is at has given its slot back.
LEMMA EndedHasReturned == SlotsKept => SlotReturned
  BY DEF SlotsKept, SlotReturned

-----------------------------------------------------------------------------
(* Plans *)

\* The tasks a task waits for, by its stage and channel.
DepsOf(stage, c) == IF stage = "prepare" THEN {}
                    ELSE IF stage = "align" THEN {<<"transcribe", c>>} ELSE {<<"prepare", None>>}

\* What the row of a task says of it.
Faithful(t, sel, h) ==
    /\ t.by = h /\ t.deps = DepsOf(t.stage, t.channel)
    /\ t.engine = sel[t.stage].engine /\ t.model = sel[t.stage].model
    /\ t = RowFor(Task(t.stage, t.channel, DepsOf(t.stage, t.channel), sel), h)

LEMMA RowsFaithful ==
    ASSUME NEW stage, NEW c, NEW sel, NEW h, NEW t, t = RowFor(Task(stage, c, DepsOf(stage, c), sel), h)
    PROVE  t.stage = stage /\ t.channel = c /\ Faithful(t, sel, h)
<1>1. /\ t.stage = stage /\ t.channel = c /\ t.by = h /\ t.deps = DepsOf(stage, c)
      /\ t.engine = sel[stage].engine /\ t.model = sel[stage].model
  BY DEF Task, RowFor
<1> QED BY <1>1 DEF Faithful

\* The rows a plan is made of.
DagRows(p, words, sel, h) == {RowFor(t, h) : t \in BuildDag(p, words, sel)}

LEMMA DagShape ==
    ASSUME NEW p, NEW words, NEW sel, NEW h, NEW made, made = DagRows(p, words, sel, h)
    PROVE  /\ \A t \in made : Faithful(t, sel, h) /\ t.stage \in {"prepare", "transcribe", "align", "diarize"}
           /\ \E t \in made : t.stage = "prepare" /\ t.channel = None
           /\ \A c \in Channels(p) : \E t \in made : t.stage = "transcribe" /\ t.channel = c
           /\ words /\ "align" \in DOMAIN sel =>
                 \A c \in Channels(p) : \E t \in made : t.stage = "align" /\ t.channel = c
           /\ p.speakers = "diarize" /\ "diarize" \in DOMAIN sel =>
                 \E t \in made : t.stage = "diarize" /\ t.channel = None
           /\ \A t \in made : /\ t.stage = "align" => t.channel \in Channels(p)
                              /\ t.stage \in {"align", "diarize"} => t.stage \in DOMAIN sel
<1> DEFINE Is(t, stage, c) == t.stage = stage /\ t.channel = c /\ Faithful(t, sel, h)
           T(stage, c) == Task(stage, c, DepsOf(stage, c), sel)
<1>1. \A stage, c : Is(RowFor(T(stage, c), h), stage, c)
  BY RowsFaithful
<1>2. \A d \in BuildDag(p, words, sel) :
         \/ d = T("prepare", None)
         \/ \E c \in Channels(p) : d = T("transcribe", c)
         \/ \E c \in Channels(p) : d = T("align", c) /\ words /\ "align" \in DOMAIN sel
         \/ d = T("diarize", None) /\ p.speakers = "diarize" /\ "diarize" \in DOMAIN sel
  BY DEF BuildDag, ChannelTasks, DepsOf
<1>3. /\ T("prepare", None) \in BuildDag(p, words, sel)
      /\ \A c \in Channels(p) : T("transcribe", c) \in BuildDag(p, words, sel)
      /\ words /\ "align" \in DOMAIN sel => \A c \in Channels(p) : T("align", c) \in BuildDag(p, words, sel)
      /\ p.speakers = "diarize" /\ "diarize" \in DOMAIN sel => T("diarize", None) \in BuildDag(p, words, sel)
  BY DEF BuildDag, ChannelTasks, DepsOf
<1> HIDE DEF Is, T
<1>4. \A t \in made :
         \/ Is(t, "prepare", None)
         \/ \E c \in Channels(p) : Is(t, "transcribe", c)
         \/ \E c \in Channels(p) : Is(t, "align", c) /\ "align" \in DOMAIN sel
         \/ Is(t, "diarize", None) /\ "diarize" \in DOMAIN sel
  <2> SUFFICES ASSUME NEW d \in BuildDag(p, words, sel), NEW t, t = RowFor(d, h)
               PROVE  \/ Is(t, "prepare", None)
                      \/ \E c \in Channels(p) : Is(t, "transcribe", c)
                      \/ \E c \in Channels(p) : Is(t, "align", c) /\ "align" \in DOMAIN sel
                      \/ Is(t, "diarize", None) /\ "diarize" \in DOMAIN sel
    BY DEF DagRows
  <2> QED BY <1>1, <1>2
<1>5. /\ \E t \in made : Is(t, "prepare", None)
      /\ \A c \in Channels(p) : \E t \in made : Is(t, "transcribe", c)
      /\ words /\ "align" \in DOMAIN sel => \A c \in Channels(p) : \E t \in made : Is(t, "align", c)
      /\ p.speakers = "diarize" /\ "diarize" \in DOMAIN sel => \E t \in made : Is(t, "diarize", None)
  BY <1>1, <1>3 DEF DagRows
<1> QED BY <1>4, <1>5 DEF Is

\* What InsertTasks puts into the plan of a job that it does not conflict with.
PlannedBy(h, j) ==
    /\ hand[h].pc = "select" /\ hand[h].job = j /\ plan[j].tasks = {}
    /\ NextStages(params[j], hand[h].words, hand[h].sel) = {}
    /\ plan'[j].tasks = DagRows(params[j], hand[h].words, hand[h].sel, h)
    /\ plan'[j].words = hand[h].words /\ params' = params
    /\ \A k \in Jobs \ {j} : plan'[k] = plan[k]

LEMMA InsertPlans ==
    ASSUME SubTypeOK, HandlersKept, PlansRooted, NEW h \in Handlers, InsertTasks(h)
    PROVE  \/ PlannedBy(h, hand[h].job)
           \/ UNCHANGED <<params, plan>> /\ plan[hand[h].job].tasks # {}
<1> DEFINE j == hand[h].job
           tasks == DagRows(params[j], hand[h].words, hand[h].sel, h)
<1>1. j \in Jobs
  BY DEF HandlersKept, SubTypeOK, InsertTasks
<1>2. PICK t \in tasks : t.stage = "prepare" /\ t.channel = None
  BY DagShape
<1> HIDE DEF tasks
<1>3. CASE Conflicts(j, tasks)
  BY <1>3 DEF InsertTasks, tasks, DagRows, gatewayVars, Conflicts
<1>4. CASE ~Conflicts(j, tasks)
  <2>1. plan[j].tasks = {}
    BY <1>1, <1>2, <1>4 DEF Conflicts, PlansRooted
  <2>2. plan' = [plan EXCEPT ![j] = [tasks |-> plan[j].tasks \cup tasks, words |-> hand[h].words]]
    BY <1>4 DEF InsertTasks, tasks, DagRows
  <2>3. DOMAIN plan = Jobs
    BY DEF SubTypeOK
  <2> QED BY <1>1, <2>1, <2>2, <2>3 DEF InsertTasks, PlannedBy, tasks, gatewayVars, DagRows
<1> QED BY <1>3, <1>4

\* A stored plan is rooted and of one handler.
LEMMA PlansStep ==
    ASSUME OnePlan, PlansRooted, NEW h \in Handlers, NEW j \in Jobs, PlannedBy(h, j)
    PROVE  OnePlan' /\ PlansRooted'
<1> DEFINE sel == hand[h].sel
<1>1. /\ \A t \in plan'[j].tasks : Faithful(t, sel, h)
      /\ \E t \in plan'[j].tasks : t.stage = "prepare" /\ t.channel = None
  BY DagShape DEF PlannedBy
<1>2. \A t, u \in plan'[j].tasks : t.by = u.by /\ (<<t.stage, t.channel>> = <<u.stage, u.channel>> => t = u)
  <2> SUFFICES ASSUME NEW t \in plan'[j].tasks, NEW u \in plan'[j].tasks
               PROVE  t.by = u.by /\ (t.stage = u.stage /\ t.channel = u.channel => t = u)
    OBVIOUS
  <2>1. /\ t.by = h /\ t = RowFor(Task(t.stage, t.channel, DepsOf(t.stage, t.channel), sel), h)
        /\ u.by = h /\ u = RowFor(Task(u.stage, u.channel, DepsOf(u.stage, u.channel), sel), h)
    BY <1>1 DEF Faithful
  <2> QED BY <2>1
<1>3. \A k \in Jobs \ {j} : plan'[k] = plan[k]
  BY DEF PlannedBy
<1> HIDE DEF sel
<1> QED BY <1>1, <1>2, <1>3 DEF OnePlan, PlansRooted

-----------------------------------------------------------------------------
(* Selections *)

\* An engine selected for a stage, as SelectionKept wants it.
Fits(p, stage, o) ==
    /\ o.words => Profile[o.engine].words
    /\ o.diarizes => Profile[o.engine].diarizes
    /\ ModelFits(p, stage, o.engine, o.model)

LEMMA Picked ==
    ASSUME NEW e, NEW m, NEW cold, NEW full, NEW o, o = Pick(e, m, cold, full)
    PROVE  /\ o.ok /\ o.engine = e /\ o.model = m
           /\ o.words => Profile[e].words
           /\ o.diarizes => Profile[e].diarizes
  BY DEF Pick, Words, Diarizes

LEMMA NotPicked == ASSUME NEW why, NEW o, o = Fail(why) PROVE ~o.ok
  BY DEF Fail

\* What select_engine returns for a stage fits the request, whatever is registered and ready.
LEMMA SelectionFits ==
    ASSUME NEW stage, NEW p, NEW r, NEW ready, NEW o \in SelectEngine(stage, p, r, ready), o.ok
    PROVE  Fits(p, stage, o)
<1> DEFINE want == Preference(p, stage)
           lang == IF stage \in {"transcribe", "align"} THEN p.lang ELSE None
           IsPick(x, e, m) == \E cold, full : x = Pick(e, m, cold, full)
           IsFail(x) == \E why : x = Fail(why)
<1>1. \A x, e, m : IsPick(x, e, m) => /\ x.ok /\ x.engine = e /\ x.model = m
                                      /\ x.words => Profile[e].words
                                      /\ x.diarizes => Profile[e].diarizes
  BY Picked
<1>2. \A x : IsFail(x) => ~x.ok
  BY NotPicked
<1>3. \A among : \A x \in OnDemandFallback(among) : IsFail(x) \/ \E e : IsPick(x, e, None)
  BY DEF OnDemandFallback
<1>4. CASE want = None
  <2>1. o \in SelectAuto(stage, lang, r, ready) /\ want \notin Models
    BY <1>4, SubmissionAssumption DEF SelectEngine
  <2>2. \/ IsFail(o)
        \/ \E e : IsPick(o, e, None)
        \/ \E e : \E m \in BestModels(e, stage, lang, ready) : IsPick(o, e, m)
    <3> DEFINE models(i) == IF stage \in ModelBacked
                            THEN BestModels(EngineOf[i], stage, lang, ready) ELSE {None}
               all    == {e \in Engines : Profile[e].stage = stage}
               capable == {i \in Instances : Profile[EngineOf[i]].stage = stage /\ Healthy(r, i)}
               usable == {i \in capable : models(i) # {}}
               first  == {i \in usable : \A j \in usable : ~RankedBefore(r, j, i)}
               picks(i) == {Pick(EngineOf[i], m, FALSE, r[i].full) : m \in models(i)}
    <3>0. o \in IF capable = {} THEN OnDemandFallback(all)
                ELSE IF usable = {} THEN {Fail("no_downloaded_model")}
                ELSE UNION {picks(i) : i \in first}
      BY <2>1 DEF SelectAuto
    <3>1. \/ \E among : o \in OnDemandFallback(among)
          \/ o = Fail("no_downloaded_model")
          \/ \E i : \E m \in models(i) : o = Pick(EngineOf[i], m, FALSE, r[i].full)
      <4>1. CASE o \in UNION {picks(i) : i \in first}
        <5> HIDE DEF first, models
        <5>1. PICK i \in first : o \in picks(i)
          <6> HIDE DEF picks
          <6> QED BY <4>1
        <5> QED BY <5>1
      <4> HIDE DEF first, usable, capable, models, picks
      <4> QED BY <3>0, <4>1
    <3>2. ASSUME NEW i, NEW m \in models(i), o = Pick(EngineOf[i], m, FALSE, r[i].full)
          PROVE  IsPick(o, EngineOf[i], m) /\ (m = None \/ m \in BestModels(EngineOf[i], stage, lang, ready))
      BY <3>2
    <3> HIDE DEF IsPick, models
    <3>3. CASE \E among : o \in OnDemandFallback(among)
      BY <1>3, <3>3
    <3>4. CASE o = Fail("no_downloaded_model")
      BY <3>4
    <3>5. CASE \E i : \E m \in models(i) : o = Pick(EngineOf[i], m, FALSE, r[i].full)
      BY <3>2, <3>5
    <3> QED BY <3>1, <3>3, <3>4, <3>5
  <2>3. \A e : \A m \in BestModels(e, stage, lang, ready) :
           About[m].engine = e /\ About[m].stage = stage /\ Speaks(m, lang)
    BY DEF BestModels
  <2> HIDE DEF IsPick, IsFail
  <2> QED BY <1>1, <1>2, <2>1, <2>2, <2>3 DEF Fits, ModelFits
<1>5. CASE want # None /\ want \in Models
  <2>1. o \in SelectModel(stage, want, lang, r, ready)
    BY <1>5 DEF SelectEngine
  <2>2. IsFail(o) \/ (/\ About[want].stage = stage /\ Speaks(want, lang)
                      /\ IsPick(o, About[want].engine, want))
    <3> DEFINE e    == About[want].engine
               seen == GetEngine(r, e)
               live == {i \in seen : Healthy(r, i)}
               cold == IF seen = live /\ seen # {} THEN {}
                       ELSE IF Profile[e].onDemand THEN {Pick(e, want, TRUE, TRUE)}
                       ELSE {Fail("runtime_unavailable")}
               found == cold \cup {Pick(e, want, FALSE, r[i].full) : i \in live}
    <3>1. \A x \in found : IsFail(x) \/ IsPick(x, e, want)
      OBVIOUS
    <3>2. \/ o \in {Fail("model_stage_mismatch"), Fail("model_not_ready")}
          \/ /\ About[want].stage = stage
             /\ \E x \in found : o = IF x.ok /\ ~Speaks(want, lang) THEN Fail("no_capable_engine") ELSE x
      BY <2>1 DEF SelectModel
    <3> HIDE DEF found
    <3> QED BY <1>1, <3>1, <3>2
  <2> HIDE DEF IsPick, IsFail
  <2> QED BY <1>1, <1>2, <1>5, <2>2 DEF Fits, ModelFits
<1>6. CASE want # None /\ want \notin Models
  <2>1. o \in {Fail("model_not_found")} \cup SelectDirect(stage, want, r)
    BY <1>6 DEF SelectEngine
  <2>2. IsFail(o) \/ \E e : IsPick(o, e, None)
    <3>1. \/ o = Fail("model_not_found")
          \/ \E among : o \in OnDemandFallback(among)
          \/ \E i : o = Pick(want, None, FALSE, r[i].full)
      BY <2>1 DEF SelectDirect
    <3>2. CASE o = Fail("model_not_found")
      BY <3>2
    <3>3. CASE \E among : o \in OnDemandFallback(among)
      <4> HIDE DEF IsPick, IsFail
      <4> QED BY <1>3, <3>3
    <3>4. CASE \E i : o = Pick(want, None, FALSE, r[i].full)
      BY <3>4
    <3> QED BY <3>1, <3>2, <3>3, <3>4
  <2> HIDE DEF IsPick, IsFail
  <2> QED BY <1>1, <1>2, <1>6, <2>2 DEF Fits, ModelFits
<1> QED BY <1>4, <1>5, <1>6

\* The loop over the stages ends when every stage that is wanted is selected.
LEMMA AllSelected ==
    ASSUME NEW p, NEW words, NEW sel, NextStages(p, words, sel) = {}
    PROVE  Wanted(p, words, sel) \subseteq DOMAIN sel
<1> DEFINE open == {n \in 1..6 : StageOrder[n] \in Wanted(p, words, sel) \ DOMAIN sel}
<1>1. DOMAIN StageOrder = 1..6
  BY DEF StageOrder
<1>2. \A w \in Wanted(p, words, sel) : \E n \in 1..6 : StageOrder[n] = w
  <2>1. Wanted(p, words, sel) \subseteq {"prepare", "transcribe", "align", "diarize", "pii_detect", "audio_redact"}
    BY DEF Wanted
  <2>2. /\ StageOrder[1] = "prepare" /\ StageOrder[2] = "transcribe" /\ StageOrder[3] = "align"
        /\ StageOrder[4] = "diarize" /\ StageOrder[5] = "pii_detect" /\ StageOrder[6] = "audio_redact"
    BY DEF StageOrder
  <2>3. 1 \in 1..6 /\ 2 \in 1..6 /\ 3 \in 1..6 /\ 4 \in 1..6 /\ 5 \in 1..6 /\ 6 \in 1..6
    OBVIOUS
  <2> QED BY <2>1, <2>2, <2>3
<1>3. NextStages(p, words, sel) = {StageOrder[n] : n \in {k \in open : \A l \in open : k <= l}}
  BY <1>1 DEF NextStages
<1> SUFFICES ASSUME open # {} PROVE FALSE
  BY <1>2
<1>4. \E k \in open : \A l \in open : k <= l
  <2>1. open \subseteq 1..6
    OBVIOUS
  <2> HIDE DEF open
  <2>2. CASE 1 \in open
    BY <2>1, <2>2
  <2>3. CASE 1 \notin open /\ 2 \in open
    BY <2>1, <2>3
  <2>4. CASE 1 \notin open /\ 2 \notin open /\ 3 \in open
    BY <2>1, <2>4
  <2>5. CASE 1 \notin open /\ 2 \notin open /\ 3 \notin open /\ 4 \in open
    BY <2>1, <2>5
  <2>6. CASE 1 \notin open /\ 2 \notin open /\ 3 \notin open /\ 4 \notin open /\ 5 \in open
    BY <2>1, <2>6
  <2>7. CASE 1 \notin open /\ 2 \notin open /\ 3 \notin open /\ 4 \notin open /\ 5 \notin open
    <3>1. open \subseteq {6}
      BY <2>1, <2>7
    <3>2. 6 \in open /\ \A l \in open : l = 6
      BY <3>1
    <3> QED BY <3>2
  <2> QED BY <2>2, <2>3, <2>4, <2>5, <2>6, <2>7
<1> QED BY <1>3, <1>4

\* A plan made of a selection serves the request, and the others stay as they are.
LEMMA PlanServesStep ==
    ASSUME SelectionKept, PlanServes, PinHonoured, NEW h \in Handlers, NEW j \in Jobs, PlannedBy(h, j)
    PROVE  PlanServes' /\ PinHonoured'
<1> DEFINE p == params[j]
           sel == hand[h].sel
           words == hand[h].words
           made == plan'[j].tasks
           has(stage, c) == \E t \in made : t.stage = stage /\ t.channel = c
<1>1. /\ \A t \in made : Faithful(t, sel, h) /\ t.stage \in {"prepare", "transcribe", "align", "diarize"}
      /\ has("prepare", None)
      /\ \A c \in Channels(p) : has("transcribe", c)
      /\ words /\ "align" \in DOMAIN sel => \A c \in Channels(p) : has("align", c)
      /\ p.speakers = "diarize" /\ "diarize" \in DOMAIN sel => has("diarize", None)
      /\ \A t \in made : /\ t.stage = "align" => t.channel \in Channels(p)
                         /\ t.stage \in {"align", "diarize"} => t.stage \in DOMAIN sel
  BY DagShape DEF PlannedBy
<1>2. Wanted(p, words, sel) \subseteq DOMAIN sel
  BY AllSelected DEF PlannedBy
<1>3. /\ (p.words /\ ~words) => Preference(p, "align") = None
      /\ \A stage \in DOMAIN sel : Fits(p, stage, sel[stage])
  BY DEF PlannedBy, SelectionKept, Fits
<1>4. /\ {"prepare", "transcribe"} \subseteq DOMAIN sel
      /\ words /\ ~sel["transcribe"].words => "align" \in DOMAIN sel
      /\ p.speakers = "diarize" /\ ~sel["transcribe"].diarizes => "diarize" \in DOMAIN sel
  BY <1>2 DEF Wanted, AddAlignment, AddDiarization
<1>5. plan'[j].words = words /\ params' = params /\ \A k \in Jobs \ {j} : plan'[k] = plan[k]
  BY DEF PlannedBy
<1>6. \A t \in made : t.deps = DepsOf(t.stage, t.channel) /\ t.engine = sel[t.stage].engine /\ t.model = sel[t.stage].model
  BY <1>1 DEF Faithful
<1> HIDE DEF p, sel, words, made
<1>7. \A t \in made : ModelFits(p, t.stage, t.engine, t.model)
  BY <1>1, <1>3, <1>4, <1>6 DEF Fits
<1>8. words => \A c \in Channels(p) :
         (\A t \in made : (t.stage = "transcribe" /\ t.channel = c) => Profile[t.engine]["words"]) \/ has("align", c)
  BY <1>1, <1>3, <1>4, <1>6 DEF Fits
<1>9. p.speakers = "diarize" =>
         (\A t \in made : (t.stage = "transcribe" /\ t.channel = None) => Profile[t.engine]["diarizes"]) \/ has("diarize", None)
  BY <1>1, <1>3, <1>4, <1>6 DEF Fits
<1>10. \A t \in made : \A d \in t.deps : has(d[1], d[2])
  <2> SUFFICES ASSUME NEW t \in made, NEW d \in DepsOf(t.stage, t.channel) PROVE has(d[1], d[2])
    BY <1>6
  <2>1. d = <<"prepare", None>> \/ (d = <<"transcribe", t.channel>> /\ t.stage = "align")
    BY DEF DepsOf
  <2>2. (d[1] = "prepare" /\ d[2] = None) \/ (d[1] = "transcribe" /\ d[2] = t.channel /\ t.stage = "align")
    BY <2>1
  <2> QED BY <1>1, <2>2
<1>11. PinHonoured'
  BY <1>5, <1>7 DEF PinHonoured, p, made
<1>12. PlanServes'
  <2> SUFFICES ASSUME NEW k \in {i \in Jobs : plan'[i].tasks # {}}
      PROVE LET q == params'[k]
                in(stage, c) == \E t \in plan'[k].tasks : t.stage = stage /\ t.channel = c
                native(c, skill) == \A t \in plan'[k].tasks :
                    (t.stage = "transcribe" /\ t.channel = c) => Profile[t.engine][skill]
            IN  /\ \A c \in Channels(q) : in("transcribe", c)
                /\ plan'[k].words => \A c \in Channels(q) : native(c, "words") \/ in("align", c)
                /\ (q.words /\ ~plan'[k].words) => Preference(q, "align") = None
                /\ q.speakers = "diarize" => native(None, "diarizes") \/ in("diarize", None)
                /\ \A t \in plan'[k].tasks : \A d \in t.deps : in(d[1], d[2])
    BY DEF PlanServes
  <2>1. CASE k = j
    BY <1>1, <1>3, <1>5, <1>8, <1>9, <1>10, <2>1 DEF p, made, words
  <2>2. CASE k # j
    <3>1. k \in {i \in Jobs : plan[i].tasks # {}} /\ plan'[k] = plan[k] /\ params'[k] = params[k]
      BY <1>5, <2>2
    <3> QED BY <3>1 DEF PlanServes
  <2> QED BY <2>1, <2>2
<1> QED BY <1>11, <1>12

-----------------------------------------------------------------------------
(* The steps of submissions, by their effects *)

\* The handlers' part of the types.
HandsOK ==
    /\ DOMAIN hand = Handlers
    /\ \A h \in Handlers :
          /\ hand[h] = [pc |-> hand[h].pc, job |-> hand[h].job, sel |-> hand[h].sel, words |-> hand[h].words]
          /\ hand[h].pc \in HandStates /\ hand[h].job \in Jobs \cup {None} /\ hand[h].words \in BOOLEAN

\* No handler goes on selecting with something new.
NothingSelected == \A k \in Handlers : hand'[k].pc = "select" => hand'[k] = hand[k]

\* One handler's state becomes r.
Becomes(h, r) ==
    /\ hand' = [hand EXCEPT ![h] = r]
    /\ r = [pc |-> r.pc, job |-> r.job, sel |-> r.sel, words |-> r.words]
    /\ r.pc \in HandStates /\ r.job \in Jobs \cup {None} /\ r.words \in BOOLEAN

LEMMA HandlerSet ==
    ASSUME HandsOK, NEW h \in Handlers, NEW r, Becomes(h, r)
    PROVE  /\ HandsOK' /\ HandlerAt(h, r.pc, r.job) /\ hand'[h] = r
           /\ \A k \in Handlers \ {h} : hand'[k] = hand[k]
           /\ r.pc # "select" => NothingSelected
<1>1. DOMAIN hand' = Handlers /\ hand'[h] = r /\ \A k \in Handlers \ {h} : hand'[k] = hand[k]
  BY DEF HandsOK, Becomes
<1>2. HandsOK'
  BY <1>1 DEF HandsOK, Becomes
<1> QED BY <1>1, <1>2 DEF HandlerAt, NothingSelected

\* A handler goes to another place.
LEMMA HandlerMoves ==
    ASSUME HandsOK, NEW h \in Handlers, NEW pc \in HandStates, hand' = [hand EXCEPT ![h].pc = pc], pc # "select"
    PROVE  HandsOK' /\ HandlerAt(h, pc, hand[h].job) /\ NothingSelected
<1> DEFINE r == [hand[h] EXCEPT !.pc = pc]
<1>1. /\ r = [pc |-> pc, job |-> hand[h].job, sel |-> hand[h].sel, words |-> hand[h].words]
      /\ hand' = [hand EXCEPT ![h] = r]
  BY DEF HandsOK
<1> HIDE DEF r
<1>2. /\ r.pc = pc /\ r.job = hand[h].job /\ r.words = hand[h].words /\ r.sel = hand[h].sel
  BY <1>1
<1>3. r = [pc |-> r.pc, job |-> r.job, sel |-> r.sel, words |-> r.words]
  BY <1>1, <1>2
<1>4. r.job \in Jobs \cup {None} /\ r.words \in BOOLEAN
  BY <1>2 DEF HandsOK
<1>5. Becomes(h, r)
  BY <1>1, <1>2, <1>3, <1>4 DEF Becomes
<1> QED BY <1>2, <1>5, HandlerSet

LEMMA HandlerReturns ==
    ASSUME HandsOK, NEW h \in Handlers, hand' = [hand EXCEPT ![h] = Idle]
    PROVE  HandsOK' /\ HandlerAt(h, "idle", None) /\ NothingSelected
<1>1. /\ Idle = [pc |-> Idle.pc, job |-> Idle.job, sel |-> Idle.sel, words |-> Idle.words]
      /\ Idle.pc = "idle" /\ Idle.job = None /\ Idle.words = FALSE /\ Idle.pc \in HandStates
  BY DEF Idle, HandStates
<1>2. Becomes(h, Idle)
  BY <1>1 DEF Becomes
<1> QED BY <1>1, <1>2, HandlerSet

\* The types, in parts.
FaultsOK == left \in [fault : Nat, churn : Nat, restless : SUBSET Instances, died : BOOLEAN,
                      lost : BOOLEAN, slow : BOOLEAN]
RegOK == reg \in [Instances -> [state : {"gone", "idle", "busy", "offline"}, full : BOOLEAN]]
PlansOK == /\ DOMAIN plan = Jobs
           /\ \A j \in Jobs : plan[j].words \in BOOLEAN /\ \A t \in plan[j].tasks : t.by \in Handlers
RowsOK == /\ req \in [Jobs -> ReqStates]
          /\ \A j \in Jobs : req[j] # "absent" => params[j].words \in BOOLEAN
          /\ row \in [Jobs -> {None, "PENDING", "RUNNING"} \cup Terminal]
          /\ queued \cup guard \cup counted \cup released \cup early \subseteq Jobs
          /\ counter \in Int /\ overlap \in BOOLEAN
          /\ inbox \in [Jobs -> Nat]

LEMMA TypeParts == SubTypeOK <=> HandsOK /\ FaultsOK /\ RegOK /\ PlansOK /\ RowsOK
  BY DEF SubTypeOK, HandsOK, FaultsOK, RegOK, PlansOK, RowsOK

LEMMA TypesPlain == SubTypeOK => SubPlain
  BY DEF SubTypeOK, SubPlain

\* A step that does not touch a part keeps it.
LEMMA PartsRest ==
    ASSUME SubTypeOK
    PROVE  /\ hand' = hand => HandsOK' /\ HandlersRest /\ NothingSelected
           /\ left' = left => FaultsOK' /\ FaultsSame
           /\ reg' = reg => RegOK'
           /\ plan' = plan => PlansOK' /\ PlansSame
<1>1. HandsOK /\ FaultsOK /\ RegOK /\ PlansOK
  BY TypeParts
<1> QED BY <1>1 DEF HandsOK, FaultsOK, RegOK, PlansOK, HandlersRest, NothingSelected, FaultsSame, PlansSame

\* What a step of the gateway does.
LEMMA GatewayEffect ==
    ASSUME SubTypeOK, NEW j \in Jobs, GatewayStep(j) \/ GatewayDies(j)
    PROVE  /\ SubTypeOK' /\ UNCHANGED <<params, plan>> /\ NothingSelected
           /\ Checks(j) \/ Creates(j) \/ Publishes(j) \/ Counts(j) \/ Replies(j) \/ Loses(j)
<1> DEFINE Goal == /\ SubTypeOK' /\ UNCHANGED <<params, plan>> /\ NothingSelected
                   /\ Checks(j) \/ Creates(j) \/ Publishes(j) \/ Counts(j) \/ Replies(j) \/ Loses(j)
<1> USE DEF gatewayVars, limitVars, jobVars
<1>0. HandsOK /\ FaultsOK /\ RegOK /\ PlansOK /\ RowsOK
  BY TypeParts
<1>1. ASSUME UNCHANGED <<params, plan, hand, reg>>, RowsOK', FaultsOK'
      PROVE  SubTypeOK' /\ NothingSelected /\ HandlersRest /\ PlansSame
  BY <1>1, PartsRest DEF SubTypeOK, HandsOK, FaultsOK, RegOK, PlansOK, RowsOK
<1>2. CASE Check(j)
  <2>1. RowsOK' /\ UNCHANGED <<params, plan, hand, reg, left>>
    BY <1>0, <1>2 DEF Check, RowsOK, ReqStates
  <2>2. FaultsOK' /\ FaultsSame
    BY <2>1, PartsRest
  <2>3. Checks(j)
    BY <1>0, <1>1, <1>2, <2>1, <2>2 DEF Check, Checks, Untouched, At, RowsOK
  <2> QED BY <1>1, <2>1, <2>2, <2>3
<1>3. CASE CreateJob(j)
  <2>1. RowsOK' /\ UNCHANGED <<params, plan, hand, reg, left>>
    BY <1>0, <1>3 DEF CreateJob, RowsOK, ReqStates
  <2>2. FaultsOK' /\ FaultsSame
    BY <2>1, PartsRest
  <2>3. Creates(j)
    BY <1>0, <1>1, <1>3, <2>1, <2>2 DEF CreateJob, Creates, Untouched, At, RowsOK
  <2> QED BY <1>1, <2>1, <2>2, <2>3
<1>4. CASE PublishJobCreated(j)
  <2>1. RowsOK' /\ UNCHANGED <<params, plan, hand, reg, left>>
    BY <1>0, <1>4 DEF PublishJobCreated, RowsOK, ReqStates
  <2>2. FaultsOK' /\ FaultsSame
    BY <2>1, PartsRest
  <2>3. Publishes(j)
    BY <1>0, <1>1, <1>4, <2>1, <2>2 DEF PublishJobCreated, Publishes, Untouched, At, RowsOK
  <2> QED BY <1>1, <2>1, <2>2, <2>3
<1>5. CASE Increment(j)
  <2>1. RowsOK' /\ UNCHANGED <<params, plan, hand, reg, left>>
    BY <1>0, <1>5 DEF Increment, RowsOK, ReqStates, Counted
  <2>2. FaultsOK' /\ FaultsSame
    BY <2>1, PartsRest
  <2>3. Counts(j)
    BY <1>0, <1>1, <1>5, <2>1, <2>2 DEF Increment, Counts, Untouched, At, RowsOK
  <2> QED BY <1>1, <2>1, <2>2, <2>3
<1>6. CASE Answer(j)
  <2>1. RowsOK' /\ UNCHANGED <<params, plan, hand, reg, left>>
    BY <1>0, <1>6 DEF Answer, RowsOK, ReqStates, Counted
  <2>2. FaultsOK' /\ FaultsSame
    BY <2>1, PartsRest
  <2>3. Replies(j)
    BY <1>0, <1>1, <1>6, <2>1, <2>2 DEF Answer, Replies, Untouched, At, RowsOK
  <2> QED BY <1>1, <2>1, <2>2, <2>3
<1>7. CASE GatewayDies(j)
  <2>1. RowsOK' /\ UNCHANGED <<params, plan, hand, reg>>
    BY <1>0, <1>7 DEF GatewayDies, RowsOK, ReqStates, InWindow
  <2>2. FaultsOK' /\ left'.lost /\ left'.died = left.died /\ left'.slow = left.slow
    <3>1. left' = [fault |-> left.fault - 1, churn |-> left.churn, restless |-> left.restless,
                   died |-> left.died, lost |-> TRUE, slow |-> left.slow]
      BY <1>0, <1>7 DEF GatewayDies, FaultsOK
    <3>2. left.fault - 1 \in Nat
      BY <1>0, <1>7 DEF GatewayDies, FaultsOK
    <3> QED BY <1>0, <3>1, <3>2 DEF FaultsOK
  <2>3. Loses(j)
    BY <1>0, <1>1, <1>7, <2>1, <2>2 DEF GatewayDies, Loses, Untouched, At, RowsOK
  <2> QED BY <1>1, <2>1, <2>2, <2>3
<1> HIDE DEF Goal
<1> QED BY <1>2, <1>3, <1>4, <1>5, <1>6, <1>7 DEF GatewayStep, Goal

\* The rows a handler's step leaves alone.
LEMMA RowsRest ==
    ASSUME SubTypeOK, UNCHANGED <<params, req, counter, guard, counted, released, early, overlap>>,
           row' = row \/ \E j \in Jobs, s \in {"PENDING", "RUNNING"} \cup Terminal : row' = [row EXCEPT ![j] = s],
           queued' \subseteq Jobs, inbox' \in [Jobs -> Nat]
    PROVE  RowsOK' /\ Outside
<1>1. RowsOK
  BY TypeParts
<1>2. row' \in [Jobs -> {None, "PENDING", "RUNNING"} \cup Terminal]
  BY <1>1 DEF RowsOK
<1> QED BY <1>1, <1>2 DEF RowsOK, Outside

LEMMA JobOf ==
    ASSUME SubTypeOK, HandlersKept, NEW h \in Handlers, hand[h].pc # "idle"
    PROVE  hand[h].job \in Jobs
  BY DEF SubTypeOK, HandlersKept

LEMMA PartsTyped == HandsOK' /\ FaultsOK' /\ RegOK' /\ PlansOK' /\ RowsOK' => SubTypeOK'
  BY DEF SubTypeOK, HandsOK, FaultsOK, RegOK, PlansOK, RowsOK

\* A handler takes an event.
LEMMA ClaimEffect ==
    ASSUME SubTypeOK, RequestsKept, NEW h \in Handlers, NEW j \in Jobs, Claim(h, j)
    PROVE  /\ SubTypeOK' /\ Claims(h, j) /\ UNCHANGED <<params, plan>>
           /\ \/ NothingSelected
              \/ /\ hand'[h].job = j /\ hand'[h].sel = <<>> /\ hand'[h].words = params[j].words
                 /\ \A k \in Handlers \ {h} : hand'[k] = hand[k]
<1> DEFINE r == [pc |-> "select", job |-> j, sel |-> <<>>, words |-> params[j].words]
<1>0. HandsOK /\ FaultsOK /\ RegOK /\ PlansOK /\ RowsOK
  BY TypeParts
<1>1. UNCHANGED <<params, req, row, plan, queued, reg, left, counter, guard, counted, released, early, overlap>>
  BY DEF Claim, gatewayVars, limitVars
<1>2. FaultsOK' /\ FaultsSame /\ RegOK' /\ PlansOK' /\ PlansSame
  BY <1>1, PartsRest
<1>3. At(inbox', inbox, j, inbox[j] - 1) /\ inbox' \in [Jobs -> Nat] /\ inbox[j] > 0 /\ hand[h].pc = "idle"
  BY <1>0 DEF Claim, RowsOK, At
<1>4. RowsOK' /\ Outside
  BY <1>0, <1>1, <1>3, RowsRest DEF RowsOK
<1>5. CASE Settled(j)
  <2>1. hand' = hand
    BY <1>5 DEF Claim
  <2>2. HandsOK' /\ HandlersRest /\ NothingSelected
    BY <2>1, PartsRest
  <2> QED BY <1>1, <1>2, <1>3, <1>4, <1>5, <2>2, PartsTyped DEF Claims
<1>6. CASE ~Settled(j)
  <2>1. hand' = [hand EXCEPT ![h] = r]
    BY <1>6 DEF Claim
  <2>2. params[j].words \in BOOLEAN
    BY <1>0, <1>3 DEF RowsOK, RequestsKept
  <2>3. Becomes(h, r) /\ r.pc = "select" /\ r.job = j /\ r.sel = <<>> /\ r.words = params[j].words
    BY <2>1, <2>2 DEF Becomes, HandStates
  <2> HIDE DEF r
  <2>4. HandsOK' /\ HandlerAt(h, "select", j) /\ hand'[h] = r /\ \A k \in Handlers \ {h} : hand'[k] = hand[k]
    BY <1>0, <2>3, HandlerSet
  <2> QED BY <1>1, <1>2, <1>3, <1>4, <1>6, <2>3, <2>4, PartsTyped DEF Claims
<1> QED BY <1>5, <1>6

IsHand(m, pc, j, sel, words) == m = [pc |-> pc, job |-> j, sel |-> sel, words |-> words]

LEMMA HandlerRecords ==
    ASSUME NEW m, NEW pc, NEW j, NEW sel, NEW words, IsHand(m, pc, j, sel, words)
    PROVE  /\ \A v : IsHand([m EXCEPT !.sel = v], pc, j, v, words)
           /\ \A v : IsHand([m EXCEPT !.words = v], pc, j, sel, v)
           /\ \A v : IsHand([m EXCEPT !.pc = v], v, j, sel, words)
           /\ \A v : IsHand([m EXCEPT !.job = v], pc, v, sel, words)
<1> USE DEF IsHand
<1> SUFFICES ASSUME NEW v
             PROVE  /\ IsHand([m EXCEPT !.sel = v], pc, j, v, words)
                    /\ IsHand([m EXCEPT !.words = v], pc, j, sel, v)
                    /\ IsHand([m EXCEPT !.pc = v], v, j, sel, words)
                    /\ IsHand([m EXCEPT !.job = v], pc, v, sel, words)
  OBVIOUS
<1>1. IsHand([m EXCEPT !.sel = v], pc, j, v, words)
  OBVIOUS
<1>2. IsHand([m EXCEPT !.words = v], pc, j, sel, v)
  OBVIOUS
<1>3. IsHand([m EXCEPT !.pc = v], v, j, sel, words)
  OBVIOUS
<1>4. IsHand([m EXCEPT !.job = v], pc, v, sel, words)
  OBVIOUS
<1> HIDE DEF IsHand
<1> QED BY <1>1, <1>2, <1>3, <1>4

\* One engine is selected, or the words are given up, or the job is refused.
Chooses(h) ==
    \/ NothingSelected
    \/ \E stage, ready : \E o \in SelectEngine(stage, params[hand[h].job], reg, ready) :
          /\ hand[h].pc = "select" /\ hand'[h].pc = "select" /\ hand'[h].job = hand[h].job
          /\ \A k \in Handlers \ {h} : hand'[k] = hand[k]
          /\ \/ /\ o.ok /\ hand'[h].words = hand[h].words
                /\ hand'[h].sel = Extended(hand[h].sel, stage, o)
             \/ /\ Degrades(params[hand[h].job], stage, o)
                /\ hand'[h].sel = hand[h].sel

LEMMA SelectEffect ==
    ASSUME SubTypeOK, HandlersKept, NEW h \in Handlers, NEW ready, Select(h, ready)
    PROVE  SubTypeOK' /\ Selects(h, hand[h].job) /\ UNCHANGED <<params, plan>> /\ Chooses(h)
<1> DEFINE me == hand[h]
           j  == hand[h].job
<1>0. HandsOK /\ FaultsOK /\ RegOK /\ PlansOK /\ RowsOK
  BY TypeParts
<1>1. /\ UNCHANGED <<params, req, row, plan, queued, inbox, reg, left>> /\ hand[h].pc = "select"
      /\ UNCHANGED <<counter, guard, counted, released, early, overlap>>
  BY DEF Select, gatewayVars, limitVars, jobVars
<1>2. FaultsOK' /\ FaultsSame /\ RegOK' /\ PlansOK' /\ PlansSame
  BY <1>1, PartsRest
<1>3. RowsOK' /\ Outside
  BY <1>0, <1>1, RowsRest DEF RowsOK
<1>4. j \in Jobs /\ me = [pc |-> "select", job |-> j, sel |-> me.sel, words |-> me.words] /\ me.words \in BOOLEAN
  <2>1. j \in Jobs
    BY <1>1, JobOf
  <2>2. /\ hand[h] = [pc |-> hand[h].pc, job |-> hand[h].job, sel |-> hand[h].sel, words |-> hand[h].words]
        /\ hand[h].words \in BOOLEAN
    BY <1>0 DEF HandsOK
  <2>3. hand[h] = [pc |-> "select", job |-> hand[h].job, sel |-> hand[h].sel, words |-> hand[h].words]
    <3>1. hand[h].pc = "select"
      BY <1>1
    <3> QED BY <2>2, <3>1, Zenon
  <2> QED BY <2>1, <2>2, <2>3
<1> DEFINE After(stage, o) ==
               IF o.ok THEN [me EXCEPT !.sel = Extended(@, stage, o)]
               ELSE IF Degrades(params[j], stage, o) THEN [me EXCEPT !.words = FALSE]
               ELSE [me EXCEPT !.pc = "refuse"]
<1>5a. PICK stage : \E o \in SelectEngine(stage, params[j], reg, ready) : hand' = [hand EXCEPT ![h] = After(stage, o)]
  BY DEF Select
<1>5. PICK o \in SelectEngine(stage, params[j], reg, ready) : hand' = [hand EXCEPT ![h] = After(stage, o)]
  BY <1>5a
<1> DEFINE r == After(stage, o)
<1>6. \/ /\ o.ok
         /\ r = [pc |-> "select", job |-> j, sel |-> Extended(me.sel, stage, o), words |-> me.words]
      \/ /\ Degrades(params[j], stage, o)
         /\ r = [pc |-> "select", job |-> j, sel |-> me.sel, words |-> FALSE]
      \/ r = [pc |-> "refuse", job |-> j, sel |-> me.sel, words |-> me.words]
  <2>1. IsHand(me, "select", j, me.sel, me.words)
    BY <1>4 DEF IsHand
  <2>2. /\ IsHand([me EXCEPT !.sel = Extended(me.sel, stage, o)], "select", j, Extended(me.sel, stage, o), me.words)
        /\ IsHand([me EXCEPT !.words = FALSE], "select", j, me.sel, FALSE)
        /\ IsHand([me EXCEPT !.pc = "refuse"], "refuse", j, me.sel, me.words)
    <3> HIDE DEF me, j
    <3> QED BY <2>1, HandlerRecords
  <2>3. \/ o.ok /\ r = [me EXCEPT !.sel = Extended(me.sel, stage, o)]
        \/ Degrades(params[j], stage, o) /\ r = [me EXCEPT !.words = FALSE]
        \/ r = [me EXCEPT !.pc = "refuse"]
    OBVIOUS
  <2> HIDE DEF r, me, j
  <2> QED BY <2>2, <2>3 DEF IsHand
<1>7. hand' = [hand EXCEPT ![h] = r]
  BY <1>5
<1> HIDE DEF r
<1>8. Becomes(h, r) /\ r.pc \in {"select", "refuse"} /\ r.job = j
  <2>1. /\ r.pc \in {"select", "refuse"} /\ r.job = j /\ r.words \in BOOLEAN
        /\ r = [pc |-> r.pc, job |-> r.job, sel |-> r.sel, words |-> r.words]
    <3>1. CASE r = [pc |-> "select", job |-> j, sel |-> Extended(me.sel, stage, o), words |-> me.words]
      <4> DEFINE v == Extended(me.sel, stage, o)
      <4> HIDE DEF v
      <4> QED BY <1>4, <3>1 DEF v
    <3>2. CASE r = [pc |-> "select", job |-> j, sel |-> me.sel, words |-> FALSE]
      BY <1>4, <3>2
    <3>3. CASE r = [pc |-> "refuse", job |-> j, sel |-> me.sel, words |-> me.words]
      BY <1>4, <3>3
    <3> QED BY <1>6, <3>1, <3>2, <3>3
  <2> QED BY <1>4, <1>7, <2>1 DEF Becomes, HandStates
<1>9. /\ HandsOK' /\ HandlerAt(h, r.pc, j) /\ hand'[h] = r /\ \A k \in Handlers \ {h} : hand'[k] = hand[k]
      /\ r.pc # "select" => NothingSelected
  BY <1>0, <1>8, HandlerSet
<1>10. Chooses(h)
  <2>1. CASE r.pc # "select"
    BY <1>9, <2>1 DEF Chooses
  <2>2. CASE r.pc = "select"
    <3>1. \/ o.ok /\ r.words = me.words /\ r.sel = Extended(me.sel, stage, o)
          \/ Degrades(params[j], stage, o) /\ r.sel = me.sel
      BY <1>6, <2>2
    <3> QED BY <1>1, <1>5, <1>8, <1>9, <2>2, <3>1 DEF Chooses
  <2> QED BY <2>1, <2>2
<1>11. Selects(h, j)
  BY <1>1, <1>2, <1>3, <1>8, <1>9 DEF Selects
<1> QED BY <1>1, <1>2, <1>3, <1>9, <1>10, <1>11, PartsTyped

\* The plan is stored, or another one is there.
LEMMA InsertEffect ==
    ASSUME SubTypeOK, HandlersKept, PlansRooted, NEW h \in Handlers, InsertTasks(h)
    PROVE  /\ SubTypeOK' /\ NothingSelected
           /\ \/ Selects(h, hand[h].job) /\ UNCHANGED <<params, plan>>
              \/ Inserts(h, hand[h].job) /\ PlannedBy(h, hand[h].job)
<1> DEFINE j == hand[h].job
           made == {RowFor(t, h) : t \in BuildDag(params[j], hand[h].words, hand[h].sel)}
<1>0. HandsOK /\ FaultsOK /\ RegOK /\ PlansOK /\ RowsOK
  BY TypeParts
<1>1. /\ UNCHANGED <<params, req, queued, inbox, reg, left>> /\ hand[h].pc = "select"
      /\ UNCHANGED <<counter, guard, counted, released, early, overlap>>
  BY DEF InsertTasks, gatewayVars, limitVars
<1>2. FaultsOK' /\ FaultsSame /\ RegOK'
  BY <1>1, PartsRest
<1>3. j \in Jobs /\ hand[h].words \in BOOLEAN
  BY <1>0, <1>1, JobOf DEF HandsOK
<1>4. CASE Conflicts(j, made)
  <2>1. hand' = [hand EXCEPT ![h].pc = "ack"] /\ UNCHANGED <<row, plan>> /\ plan[j].tasks # {}
    BY <1>4 DEF InsertTasks, Conflicts
  <2>2. HandsOK' /\ HandlerAt(h, "ack", j) /\ NothingSelected
    BY <1>0, <2>1, HandlerMoves DEF HandStates
  <2>3. PlansOK' /\ PlansSame
    BY <2>1, PartsRest
  <2>4. RowsOK' /\ Outside
    BY <1>0, <1>1, <2>1, RowsRest DEF RowsOK
  <2> QED BY <1>1, <1>2, <2>1, <2>2, <2>3, <2>4, PartsTyped DEF Selects
<1>5. CASE ~Conflicts(j, made)
  <2>1. /\ hand' = [hand EXCEPT ![h].pc = "queue"] /\ row' = [row EXCEPT ![j] = "RUNNING"]
        /\ plan' = [plan EXCEPT ![j] = [tasks |-> plan[j].tasks \cup made, words |-> hand[h].words]]
    BY <1>5 DEF InsertTasks
  <2>2. HandsOK' /\ HandlerAt(h, "queue", j) /\ NothingSelected
    BY <1>0, <2>1, HandlerMoves DEF HandStates
  <2>3. RowsOK' /\ Outside /\ At(row', row, j, "RUNNING")
    <3>1. RowsOK' /\ Outside
      BY <1>0, <1>1, <1>3, <2>1, RowsRest DEF RowsOK
    <3> QED BY <1>0, <1>3, <2>1, <3>1 DEF RowsOK, At
  <2>4. PlansOK'
    <3>1. \A t \in made : t.by = h
      BY DEF RowFor
    <3> HIDE DEF made
    <3> QED BY <1>0, <1>3, <2>1, <3>1 DEF PlansOK
  <2>5. hand'[h].pc = "queue" /\ \A k \in Jobs \ {j} : plan'[k].tasks = plan[k].tasks
    BY <1>0, <2>1, <2>2 DEF HandlerAt, PlansOK
  <2>6. Inserts(h, j)
    BY <1>1, <1>2, <2>2, <2>3, <2>5 DEF Inserts
  <2>7. PlannedBy(h, j)
    <3>1. PlannedBy(h, j) \/ (UNCHANGED plan /\ plan[j].tasks # {})
      BY InsertPlans
    <3>2. CASE UNCHANGED plan /\ plan[j].tasks # {}
      \* Then the prepare task is there already, and in the new plan.
      <4>1. \E t \in made : t.stage = "prepare" /\ t.channel = None
        <5>1. made = DagRows(params[j], hand[h].words, hand[h].sel, h)
          BY DEF DagRows
        <5> HIDE DEF made
        <5> QED BY <5>1, DagShape
      <4>2. \E t \in plan[j].tasks : t.stage = "prepare" /\ t.channel = None
        BY <1>3, <3>2 DEF PlansRooted
      <4> QED BY <1>5, <4>1, <4>2 DEF Conflicts
    <3> QED BY <3>1, <3>2
  <2> QED BY <1>2, <2>2, <2>3, <2>4, <2>6, <2>7, PartsTyped
<1> QED BY <1>4, <1>5

\* A step that moves handler h on and leaves plans, requests and faults alone.
LEMMA MoveEffect ==
    ASSUME SubTypeOK, NEW h \in Handlers, NEW pc \in HandStates \ {"select"},
           hand' = [hand EXCEPT ![h].pc = pc], UNCHANGED <<params, plan, reg, left, req, inbox, overlap, counted>>
    PROVE  /\ HandsOK' /\ HandlerAt(h, pc, hand[h].job) /\ NothingSelected
           /\ FaultsOK' /\ RegOK' /\ PlansOK' /\ PlansSame /\ FaultsSame
<1>1. HandsOK
  BY TypeParts
<1> QED BY <1>1, PartsRest, HandlerMoves

Moved(h, j) == \/ Queues(h, j) \/ Refuses(h, j) \/ Guards(h, j) \/ Releases(h, j) \/ Clamps(h, j)
               \/ Returns(h, j)

LEMMA MovedEffect ==
    ASSUME SubTypeOK, HandlersKept, NEW h \in Handlers,
           QueueInitial(h) \/ FailSelection(h) \/ SetGuard(h) \/ Decrement(h) \/ Clamp(h) \/ Acknowledge(h)
    PROVE  SubTypeOK' /\ UNCHANGED <<params, plan>> /\ NothingSelected /\ Moved(h, hand[h].job)
<1> DEFINE j == hand[h].job
<1> USE DEF gatewayVars, limitVars, jobVars, HandStates
<1>0. HandsOK /\ FaultsOK /\ RegOK /\ PlansOK /\ RowsOK
  BY TypeParts
<1>1. j \in Jobs
  BY JobOf DEF QueueInitial, FailSelection, SetGuard, Decrement, Clamp, Acknowledge
<1>2. UNCHANGED <<params, plan, reg, left, req, inbox, overlap, counted>>
  BY DEF QueueInitial, FailSelection, SetGuard, Decrement, Clamp, Acknowledge
<1>3. ASSUME NEW pc \in HandStates \ {"select"}, hand' = [hand EXCEPT ![h].pc = pc]
      PROVE  /\ HandsOK' /\ HandlerAt(h, pc, j) /\ NothingSelected
             /\ FaultsOK' /\ RegOK' /\ PlansOK' /\ PlansSame /\ FaultsSame
  BY <1>2, <1>3, MoveEffect
<1>3a. PlansSame /\ FaultsSame
  BY <1>2, PartsRest
<1>4. CASE QueueInitial(h)
  <2>1. /\ UNCHANGED <<counter, guard, released, early>> /\ hand[h].pc = "queue"
        /\ \/ /\ hand' = [hand EXCEPT ![h].pc = "ack"] /\ row' = row /\ queued' = queued \cup {j}
           \/ /\ hand' = [hand EXCEPT ![h].pc = "guard"] /\ row' = [row EXCEPT ![j] = "FAILED"] /\ queued' = queued
    BY <1>4 DEF QueueInitial
  <2>2. RowsOK' /\ Outside /\ (row' = row \/ At(row', row, j, "FAILED"))
    <3>1. RowsOK' /\ Outside
      BY <1>0, <1>1, <1>2, <2>1, RowsRest DEF RowsOK, Terminal
    <3> QED BY <1>0, <1>1, <2>1, <3>1 DEF RowsOK, At
  <2>3. CASE hand' = [hand EXCEPT ![h].pc = "ack"] /\ row' = row /\ queued' = queued \cup {j}
    BY <1>2, <1>3, <2>1, <2>2, <2>3, PartsTyped DEF Moved, Queues
  <2>4. CASE hand' = [hand EXCEPT ![h].pc = "guard"] /\ row' = [row EXCEPT ![j] = "FAILED"] /\ queued' = queued
    <3>1. At(row', row, j, "FAILED")
      BY <1>0, <1>1, <2>4 DEF RowsOK, At
    <3> QED BY <1>2, <1>3, <2>1, <2>2, <2>4, <3>1, PartsTyped DEF Moved, Refuses
  <2> QED BY <2>1, <2>3, <2>4
<1>5. CASE FailSelection(h)
  <2>1. /\ UNCHANGED <<counter, guard, released, early, queued>> /\ hand[h].pc = "refuse"
        /\ hand' = [hand EXCEPT ![h].pc = "guard"] /\ row' = [row EXCEPT ![j] = "FAILED"]
    BY <1>5 DEF FailSelection
  <2>2. RowsOK' /\ Outside
    BY <1>0, <1>1, <1>2, <2>1, RowsRest DEF RowsOK, Terminal
  <2>3. At(row', row, j, "FAILED")
    BY <1>0, <1>1, <2>1 DEF RowsOK, At
  <2> QED BY <1>2, <1>3, <2>1, <2>2, <2>3, PartsTyped DEF Moved, Refuses
<1>6. CASE SetGuard(h)
  <2>1. /\ UNCHANGED <<counter, released, early, row, queued>> /\ hand[h].pc = "guard"
        /\ guard' = guard \cup {j}
        /\ \/ j \in guard /\ hand' = [hand EXCEPT ![h].pc = "ack"]
           \/ j \notin guard /\ hand' = [hand EXCEPT ![h].pc = "decr"]
    BY <1>6 DEF SetGuard
  <2>2. RowsOK' /\ WithinSlots
    BY <1>0, <1>1, <1>2, <1>3a, <2>1 DEF RowsOK, WithinSlots
  <2> QED BY <1>2, <1>3, <2>1, <2>2, PartsTyped DEF Moved, Guards
<1>7. CASE Decrement(h)
  <2>1. /\ UNCHANGED <<guard, row, queued>> /\ hand[h].pc = "decr"
        /\ counter' = counter - 1 /\ released' = released \cup {j}
        /\ early' = IF j \in counted THEN early ELSE early \cup {j}
        /\ \/ hand' = [hand EXCEPT ![h].pc = "clamp"] /\ counter' < 0
           \/ hand' = [hand EXCEPT ![h].pc = "ack"]
    BY <1>7 DEF Decrement
  <2>2. RowsOK' /\ WithinSlots
    BY <1>0, <1>1, <1>2, <1>3a, <2>1 DEF RowsOK, WithinSlots
  <2> QED BY <1>2, <1>3, <2>1, <2>2, PartsTyped DEF Moved, Releases
<1>8. CASE Clamp(h)
  <2>1. /\ UNCHANGED <<guard, released, early, row, queued>> /\ hand[h].pc = "clamp"
        /\ counter' = 0 /\ hand' = [hand EXCEPT ![h].pc = "ack"]
    BY <1>8 DEF Clamp
  <2>2. RowsOK' /\ WithinSlots
    BY <1>0, <1>2, <1>3a, <2>1 DEF RowsOK, WithinSlots
  <2> QED BY <1>2, <1>3, <2>1, <2>2, PartsTyped DEF Moved, Clamps
<1>9. CASE Acknowledge(h)
  <2>1. /\ UNCHANGED <<guard, released, early, counter, row, queued>> /\ hand[h].pc = "ack"
        /\ hand' = [hand EXCEPT ![h] = Idle]
    BY <1>9 DEF Acknowledge
  <2>2. HandsOK' /\ HandlerAt(h, "idle", None) /\ NothingSelected
    BY <1>0, <2>1, HandlerReturns
  <2>3. FaultsOK' /\ RegOK' /\ PlansOK' /\ PlansSame /\ FaultsSame
    BY <1>2, PartsRest
  <2>4. RowsOK' /\ WithinSlots
    BY <1>0, <1>2, <2>1, <2>3 DEF RowsOK, WithinSlots
  <2> QED BY <1>2, <2>1, <2>2, <2>3, <2>4, PartsTyped DEF Moved, Returns
<1> QED BY <1>4, <1>5, <1>6, <1>7, <1>8, <1>9

\* A job ends, an orchestrator dies, an event is taken over, the registry changes.
LEMMA EndEffect ==
    ASSUME SubTypeOK, NEW h \in Handlers, NEW j \in Jobs, EndJob(h, j)
    PROVE  SubTypeOK' /\ UNCHANGED <<params, plan>> /\ NothingSelected /\ Ends(h, j)
<1> DEFINE r == [Idle EXCEPT !.pc = "guard", !.job = j]
<1>0. HandsOK /\ RowsOK
  BY TypeParts
<1>1. /\ UNCHANGED <<params, req, plan, queued, inbox, reg, left, counter, guard, counted, released, early, overlap>>
      /\ hand[h].pc = "idle" /\ row[j] = "RUNNING" /\ j \in queued /\ hand' = [hand EXCEPT ![h] = r]
  BY DEF EndJob, gatewayVars, limitVars
<1>2. r = [pc |-> "guard", job |-> j, sel |-> <<>>, words |-> FALSE]
  <2>1. IsHand(Idle, "idle", None, <<>>, FALSE)
    BY DEF Idle, IsHand
  <2> DEFINE g == [Idle EXCEPT !.pc = "guard"]
  <2>2. IsHand(g, "guard", None, <<>>, FALSE)
    BY <2>1, HandlerRecords
  <2>3. r = [g EXCEPT !.job = j]
    OBVIOUS
  <2> HIDE DEF g
  <2>4. IsHand([g EXCEPT !.job = j], "guard", j, <<>>, FALSE)
    BY <2>2, HandlerRecords
  <2> QED BY <2>3, <2>4 DEF IsHand
<1> HIDE DEF r
<1>3. Becomes(h, r) /\ r.pc = "guard" /\ r.job = j
  BY <1>1, <1>2 DEF Becomes, HandStates
<1>4. HandsOK' /\ HandlerAt(h, "guard", j) /\ NothingSelected
  BY <1>0, <1>3, HandlerSet
<1>5. FaultsOK' /\ RegOK' /\ PlansOK' /\ PlansSame /\ FaultsSame
  BY <1>1, PartsRest
<1>6. PICK v \in {"COMPLETED", "FAILED"} : row' = [row EXCEPT ![j] = v]
  BY DEF EndJob
<1>7. At(row', row, j, v)
  BY <1>0, <1>6 DEF RowsOK, At
<1>8. RowsOK' /\ Outside
  BY <1>0, <1>1, <1>6, RowsRest DEF RowsOK, Terminal
<1> QED BY <1>1, <1>4, <1>5, <1>6, <1>7, <1>8, PartsTyped DEF Ends

LEMMA FaultEffect ==
    ASSUME SubTypeOK, HandlersKept, NEW h \in Handlers, NEW j \in Jobs,
           HandlerDies(h) \/ (Redeliver(j) /\ hand[h].pc # "idle" /\ hand[h].job = j)
    PROVE  /\ SubTypeOK' /\ UNCHANGED <<params, plan>> /\ NothingSelected
           /\ Perishes(h, hand[h].job) \/ Redelivers(h, hand[h].job)
<1> DEFINE i == hand[h].job
<1> USE DEF gatewayVars, limitVars
<1>0. HandsOK /\ FaultsOK /\ RowsOK
  BY TypeParts
<1>1. i \in Jobs /\ hand[h].pc # "idle" /\ left.fault - 1 \in Nat
  BY <1>0, JobOf DEF HandlerDies, Redeliver, FaultsOK
<1>2. UNCHANGED <<params, req, row, plan, queued, reg, counter, guard, counted, released, early, overlap>>
  BY DEF HandlerDies, Redeliver
<1>3. RegOK' /\ PlansOK' /\ PlansSame
  BY <1>2, PartsRest
<1>4. inbox' = [inbox EXCEPT ![i] = @ + 1]
  BY DEF HandlerDies, Redeliver
<1>5. At(inbox', inbox, i, inbox[i] + 1) /\ inbox' \in [Jobs -> Nat]
  BY <1>0, <1>1, <1>4 DEF RowsOK, At
<1>6. RowsOK' /\ Outside
  BY <1>0, <1>2, <1>5, RowsRest DEF RowsOK
<1>7. CASE HandlerDies(h)
  <2>1. left' = [fault |-> left.fault - 1, churn |-> left.churn, restless |-> left.restless,
                 died |-> TRUE, lost |-> left.lost, slow |-> left.slow]
    BY <1>0, <1>7 DEF HandlerDies, FaultsOK
  <2>2. FaultsOK' /\ left'.died /\ left'.slow = left.slow /\ left'.lost = left.lost
    BY <1>0, <1>1, <2>1 DEF FaultsOK
  <2>3. HandsOK' /\ HandlerAt(h, "idle", None) /\ NothingSelected
    BY <1>0, <1>7, HandlerReturns DEF HandlerDies
  <2> QED BY <1>1, <1>2, <1>3, <1>5, <1>6, <2>2, <2>3, PartsTyped DEF Perishes
<1>8. CASE Redeliver(j) /\ i = j
  <2>1. left' = [fault |-> left.fault - 1, churn |-> left.churn, restless |-> left.restless,
                 died |-> left.died, lost |-> left.lost, slow |-> TRUE]
    BY <1>0, <1>8 DEF Redeliver, FaultsOK
  <2>2. FaultsOK' /\ left'.slow /\ left'.died = left.died /\ left'.lost = left.lost
    BY <1>0, <1>1, <2>1 DEF FaultsOK
  <2>3. HandsOK' /\ HandlersRest /\ NothingSelected
    BY <1>8, PartsRest DEF Redeliver
  <2> QED BY <1>1, <1>2, <1>3, <1>5, <1>6, <2>2, <2>3, PartsTyped DEF Redelivers
<1> QED BY <1>7, <1>8

LEMMA RegistryEffect ==
    ASSUME SubTypeOK, NEW i \in Instances, RegistryChanges(i)
    PROVE  SubTypeOK' /\ UNCHANGED <<params, plan>> /\ NothingSelected /\ Rests
<1>0. FaultsOK /\ RegOK /\ RowsOK
  BY TypeParts
<1>1. /\ UNCHANGED <<params, req, row, plan, queued, inbox, hand, counter, guard, counted, released, early, overlap>>
      /\ left' = [left EXCEPT !.churn = @ - 1] /\ left.churn > 0
      /\ \E r \in RecordAfter(reg[i]) : reg' = [reg EXCEPT ![i] = r]
  BY DEF RegistryChanges, gatewayVars, limitVars, jobVars
<1>2. HandsOK' /\ HandlersRest /\ NothingSelected /\ PlansOK' /\ PlansSame
  BY <1>1, PartsRest
<1>3. FaultsOK' /\ FaultsSame
  <2>1. left' = [fault |-> left.fault, churn |-> left.churn - 1, restless |-> left.restless,
                 died |-> left.died, lost |-> left.lost, slow |-> left.slow]
    BY <1>0, <1>1 DEF FaultsOK
  <2> QED BY <1>0, <1>1, <2>1 DEF FaultsOK, FaultsSame
<1>4. RegOK'
  <2>1. reg[i] \in [state : {"gone", "idle", "busy", "offline"}, full : BOOLEAN]
    BY <1>0 DEF RegOK
  <2>2. RecordAfter(reg[i]) \subseteq [state : {"gone", "idle", "busy", "offline"}, full : BOOLEAN]
    BY <2>1 DEF RecordAfter
  <2> QED BY <1>0, <1>1, <2>2 DEF RegOK
<1>5. RowsOK'
  BY <1>0, <1>1 DEF RowsOK
<1>6. Rests
  BY <1>1, <1>2, <1>3 DEF Rests, Untouched
<1> QED BY <1>1, <1>2, <1>3, <1>4, <1>5, <1>6, PartsTyped

\* What a handler has selected stays fit for the request.
LEMMA SelectionStep ==
    ASSUME SubTypeOK, SelectionKept, params' = params, NEW h \in Handlers,
           \/ Chooses(h)
           \/ \E j \in Jobs : /\ hand'[h].job = j /\ hand'[h].sel = <<>> /\ hand'[h].words = params[j].words
                              /\ \A k \in Handlers \ {h} : hand'[k] = hand[k]
    PROVE  SelectionKept'
<1> DEFINE Kept(p, words, sel) == /\ (p.words /\ ~words) => Preference(p, "align") = None
                                  /\ \A stage \in DOMAIN sel : Fits(p, stage, sel[stage])
<1>1. \A k \in Handlers : hand[k].pc = "select" => Kept(params[hand[k].job], hand[k].words, hand[k].sel)
  BY DEF SelectionKept, Fits
<1>2. (\A k \in Handlers : hand'[k].pc = "select" => Kept(params'[hand'[k].job], hand'[k].words, hand'[k].sel))
         => SelectionKept'
  BY DEF SelectionKept, Fits
<1>3. CASE NothingSelected
  <2> HIDE DEF Kept
  <2>1. \A k \in Handlers : hand'[k].pc = "select" => hand'[k] = hand[k] /\ hand[k].pc = "select"
    BY <1>3 DEF NothingSelected
  <2> QED BY <1>1, <1>2, <2>1
<1>4. CASE \E j \in Jobs : /\ hand'[h].job = j /\ hand'[h].sel = <<>> /\ hand'[h].words = params[j].words
                           /\ \A k \in Handlers \ {h} : hand'[k] = hand[k]
  <2>1. Kept(params'[hand'[h].job], hand'[h].words, hand'[h].sel)
    BY <1>4
  <2> HIDE DEF Kept
  <2> QED BY <1>1, <1>2, <1>4, <2>1
<1>5. ASSUME NEW stage, NEW ready, NEW o \in SelectEngine(stage, params[hand[h].job], reg, ready),
             hand[h].pc = "select", hand'[h].pc = "select", hand'[h].job = hand[h].job,
             \A k \in Handlers \ {h} : hand'[k] = hand[k],
             \/ /\ o.ok /\ hand'[h].words = hand[h].words
                /\ hand'[h].sel = Extended(hand[h].sel, stage, o)
             \/ /\ Degrades(params[hand[h].job], stage, o)
                /\ hand'[h].sel = hand[h].sel
      PROVE  SelectionKept'
  <2> DEFINE p == params[hand[h].job]
  <2>1. Kept(p, hand[h].words, hand[h].sel)
    BY <1>1, <1>5
  <2>2. Kept(p, hand'[h].words, hand'[h].sel)
    <3>1. CASE o.ok /\ hand'[h].words = hand[h].words /\ hand'[h].sel = Extended(hand[h].sel, stage, o)
      <4>1. Fits(p, stage, o)
        BY <3>1, SelectionFits
      <4>2. /\ DOMAIN hand'[h].sel = DOMAIN hand[h].sel \cup {stage}
            /\ \A s \in DOMAIN hand'[h].sel : hand'[h].sel[s] = IF s = stage THEN o ELSE hand[h].sel[s]
        BY <3>1 DEF Extended
      <4> QED BY <2>1, <3>1, <4>1, <4>2
    <3>2. CASE Degrades(p, stage, o) /\ hand'[h].sel = hand[h].sel
      BY <2>1, <3>2 DEF Degrades
    <3> QED BY <1>5, <3>1, <3>2
  <2>3. Kept(params'[hand'[h].job], hand'[h].words, hand'[h].sel)
    BY <1>5, <2>2
  <2> HIDE DEF Kept, p
  <2> QED BY <1>1, <1>2, <1>5, <2>3
<1> QED BY <1>3, <1>4, <1>5 DEF Chooses

\* Every step of submissions is one of the effects, and keeps types, plans and selections.
LEMMA SubSteps ==
    ASSUME SubmissionInv, PlanInv, NEW ready, SubNext(ready)
    PROVE  SubTypeOK' /\ SubEffect /\ OnePlan' /\ PlansRooted' /\ PlanInv'
<1>0. /\ SubTypeOK /\ RequestsKept /\ HandlersKept /\ OnePlan /\ PlansRooted
      /\ PlanServes /\ PinHonoured /\ SelectionKept
  BY DEF SubmissionInv, PlanInv
<1>1. UNCHANGED <<params, plan>> => OnePlan' /\ PlansRooted' /\ PlanServes' /\ PinHonoured'
  <2> SUFFICES ASSUME UNCHANGED <<params, plan>> PROVE OnePlan' /\ PlansRooted' /\ PlanServes' /\ PinHonoured'
    OBVIOUS
  <2>1. OnePlan' /\ PlansRooted'
    BY <1>0 DEF OnePlan, PlansRooted
  <2>2. PlanServes'
    BY <1>0 DEF PlanServes
  <2>3. PinHonoured'
    BY <1>0 DEF PinHonoured
  <2> QED BY <2>1, <2>2, <2>3
<1>2. ASSUME NothingSelected, params' = params PROVE SelectionKept'
  BY <1>0, <1>2 DEF SelectionKept, NothingSelected
<1>3. ASSUME UNCHANGED <<params, plan>>, SelectionKept' PROVE OnePlan' /\ PlansRooted' /\ PlanInv'
  BY <1>1, <1>3 DEF PlanInv
<1>4. ASSUME NEW j \in Jobs, GatewayStep(j) \/ GatewayDies(j)
      PROVE  SubTypeOK' /\ SubEffect /\ OnePlan' /\ PlansRooted' /\ PlanInv'
  <2>1. /\ SubTypeOK' /\ UNCHANGED <<params, plan>> /\ NothingSelected
        /\ Checks(j) \/ Creates(j) \/ Publishes(j) \/ Counts(j) \/ Replies(j) \/ Loses(j)
    BY <1>0, <1>4, GatewayEffect
  <2> QED BY <1>2, <1>3, <2>1 DEF SubEffect
<1>5. ASSUME NEW h \in Handlers, NEW j \in Jobs, HandlerDies(h) \/ (Redeliver(j) /\ hand[h].pc # "idle" /\ hand[h].job = j)
      PROVE  SubTypeOK' /\ SubEffect /\ OnePlan' /\ PlansRooted' /\ PlanInv'
  <2>1. /\ SubTypeOK' /\ UNCHANGED <<params, plan>> /\ NothingSelected
        /\ Perishes(h, hand[h].job) \/ Redelivers(h, hand[h].job)
    BY <1>0, <1>5, FaultEffect
  <2>2. hand[h].job \in Jobs
    BY <1>0, <2>1, JobOf DEF Perishes, Redelivers
  <2> QED BY <1>2, <1>3, <2>1, <2>2 DEF SubEffect
<1>6. ASSUME NEW h \in Handlers, NEW j \in Jobs, Claim(h, j)
      PROVE  SubTypeOK' /\ SubEffect /\ OnePlan' /\ PlansRooted' /\ PlanInv'
  <2>1. /\ SubTypeOK' /\ Claims(h, j) /\ UNCHANGED <<params, plan>>
        /\ \/ NothingSelected
           \/ /\ hand'[h].job = j /\ hand'[h].sel = <<>> /\ hand'[h].words = params[j].words
              /\ \A k \in Handlers \ {h} : hand'[k] = hand[k]
    BY <1>0, <1>6, ClaimEffect
  <2>2. SelectionKept'
    <3>1. CASE NothingSelected
      BY <1>2, <2>1, <3>1
    <3>2. CASE ~NothingSelected
      BY <1>0, <2>1, <3>2, SelectionStep
    <3> QED BY <3>1, <3>2
  <2> QED BY <1>3, <2>1, <2>2 DEF SubEffect
<1>7. ASSUME NEW h \in Handlers, Select(h, ready)
      PROVE  SubTypeOK' /\ SubEffect /\ OnePlan' /\ PlansRooted' /\ PlanInv'
  <2>1. SubTypeOK' /\ Selects(h, hand[h].job) /\ UNCHANGED <<params, plan>> /\ Chooses(h)
    BY <1>0, <1>7, SelectEffect
  <2>2. SelectionKept'
    BY <1>0, <2>1, SelectionStep
  <2>3. hand[h].job \in Jobs
    BY <1>0, <2>1, JobOf DEF Selects
  <2> QED BY <1>3, <2>1, <2>2, <2>3 DEF SubEffect
<1>8. ASSUME NEW h \in Handlers, InsertTasks(h)
      PROVE  SubTypeOK' /\ SubEffect /\ OnePlan' /\ PlansRooted' /\ PlanInv'
  <2>1. /\ SubTypeOK' /\ NothingSelected
        /\ \/ Selects(h, hand[h].job) /\ UNCHANGED <<params, plan>>
           \/ Inserts(h, hand[h].job) /\ PlannedBy(h, hand[h].job)
    BY <1>0, <1>8, InsertEffect
  <2>2. hand[h].job \in Jobs
    BY <1>0, <1>8, JobOf DEF InsertTasks
  <2>3. params' = params
    BY <2>1 DEF PlannedBy
  <2>4. SelectionKept'
    BY <1>2, <2>1, <2>3
  <2>5. OnePlan' /\ PlansRooted' /\ PlanInv'
    <3>1. CASE UNCHANGED <<params, plan>>
      BY <1>3, <2>4, <3>1
    <3>2. CASE PlannedBy(h, hand[h].job)
      BY <1>0, <2>2, <2>4, <3>2, PlansStep, PlanServesStep DEF PlanInv
    <3> QED BY <2>1, <3>1, <3>2
  <2> QED BY <2>1, <2>2, <2>5 DEF SubEffect
<1>9. ASSUME NEW h \in Handlers,
             QueueInitial(h) \/ FailSelection(h) \/ SetGuard(h) \/ Decrement(h) \/ Clamp(h) \/ Acknowledge(h)
      PROVE  SubTypeOK' /\ SubEffect /\ OnePlan' /\ PlansRooted' /\ PlanInv'
  <2>1. SubTypeOK' /\ UNCHANGED <<params, plan>> /\ NothingSelected /\ Moved(h, hand[h].job)
    BY <1>0, <1>9, MovedEffect
  <2>2. hand[h].job \in Jobs
    BY <1>0, <2>1, JobOf DEF Moved, Queues, Refuses, Guards, Releases, Clamps, Returns
  <2> QED BY <1>2, <1>3, <2>1, <2>2 DEF SubEffect, Moved
<1>10. ASSUME NEW h \in Handlers, NEW j \in Jobs, EndJob(h, j)
       PROVE  SubTypeOK' /\ SubEffect /\ OnePlan' /\ PlansRooted' /\ PlanInv'
  <2>1. SubTypeOK' /\ UNCHANGED <<params, plan>> /\ NothingSelected /\ Ends(h, j)
    BY <1>0, <1>10, EndEffect
  <2> QED BY <1>2, <1>3, <2>1 DEF SubEffect
<1>11. ASSUME NEW i \in Instances, RegistryChanges(i)
       PROVE  SubTypeOK' /\ SubEffect /\ OnePlan' /\ PlansRooted' /\ PlanInv'
  <2>1. SubTypeOK' /\ UNCHANGED <<params, plan>> /\ NothingSelected /\ Rests
    BY <1>0, <1>11, RegistryEffect
  <2> QED BY <1>2, <1>3, <2>1 DEF SubEffect
<1>12. ASSUME NEW j \in Jobs, Redeliver(j)
       PROVE  SubTypeOK' /\ SubEffect /\ OnePlan' /\ PlansRooted' /\ PlanInv'
  <2>1. PICK h \in Handlers : hand[h].pc # "idle" /\ hand[h].job = j
    BY <1>12 DEF Redeliver
  <2> QED BY <1>5, <1>12, <2>1
<1>13. ASSUME NEW h \in Handlers, HandlerDies(h)
       PROVE  SubTypeOK' /\ SubEffect /\ OnePlan' /\ PlansRooted' /\ PlanInv'
  <2>1. hand[h].job \in Jobs
    BY <1>0, <1>13, JobOf DEF HandlerDies
  <2> QED BY <1>5, <1>13, <2>1
<1> QED BY <1>4, <1>6, <1>7, <1>8, <1>9, <1>10, <1>11, <1>12, <1>13 DEF SubNext, HandlerStep

LEMMA SubmissionStep ==
    ASSUME SubmissionInv, PlanInv, NEW ready, SubNext(ready) PROVE SubmissionInv' /\ PlanInv'
<1>1. SubTypeOK' /\ SubEffect /\ OnePlan' /\ PlansRooted' /\ PlanInv'
  BY SubSteps
<1>2. SubPlain /\ SubPlain'
  BY <1>1, TypesPlain, PTL DEF SubmissionInv
<1>3. RequestsKept' /\ HandlersKept' /\ SlotsKept' /\ OneDelivery' /\ NeverForgotten'
  BY <1>1, <1>2, RequestsKeptStep, HandlersKeptStep, SlotsKeptStep, OneDeliveryStep, NeverForgottenStep
<1>4. CounterExact' /\ WindowKept'
  BY <1>1, <1>2, CounterExactStep, WindowKeptStep
<1>5. LimitHeld' /\ SlotReturned'
  BY <1>2, <1>3, <1>4, ActiveIsCounting, EndedHasReturned, PTL
<1> QED BY <1>1, <1>3, <1>4, <1>5 DEF SubmissionInv

\* A scenario starts with no rows, no slots and idle handlers.
LEMMA SubmissionStarts == ASSUME NEW s \in Scenarios, SubInit(s) PROVE SubmissionInv /\ PlanInv
<1> USE DEF SubInit
<1>1. \A h \in Handlers : hand[h] = Idle
  OBVIOUS
<1>2. /\ Idle.pc = "idle" /\ Idle.job = None /\ Idle.sel = <<>> /\ Idle.words = FALSE
      /\ Idle = [pc |-> Idle.pc, job |-> Idle.job, sel |-> Idle.sel, words |-> Idle.words]
  BY DEF Idle
<1>3. \A j \in Jobs : /\ plan[j].tasks = {} /\ plan[j].words = FALSE /\ row[j] = None /\ inbox[j] = 0
                      /\ req[j] \in {"absent", "new"} /\ (req[j] # "absent" => params[j].words \in BOOLEAN)
  BY ScenariosAssumption DEF NoPlan
<1>4. SubTypeOK
  <2>1. HandsOK
    BY <1>1, <1>2 DEF HandsOK, HandStates
  <2>2. FaultsOK /\ RegOK
    BY ScenariosAssumption DEF FaultsOK, RegOK
  <2>3. PlansOK /\ RowsOK
    <3>1. PlansOK
      BY <1>3 DEF PlansOK
    <3>2. req \in [Jobs -> ReqStates] /\ row \in [Jobs -> {None, "PENDING", "RUNNING"} \cup Terminal]
      BY DEF ReqStates
    <3>3. inbox \in [Jobs -> Nat] /\ counter \in Int /\ overlap \in BOOLEAN
      <4>1. inbox = [j \in Jobs |-> 0] /\ counter = 0 /\ overlap = FALSE
        OBVIOUS
      <4> HIDE DEF SubInit
      <4>2. inbox \in [Jobs -> Nat]
        BY <4>1
      <4>3. counter \in Int
        BY <4>1
      <4>4. overlap \in BOOLEAN
        BY <4>1
      <4> QED BY <4>2, <4>3, <4>4
    <3>4. queued \cup guard \cup counted \cup released \cup early \subseteq Jobs
      OBVIOUS
    <3> HIDE DEF SubInit
    <3> QED BY <1>3, <3>1, <3>2, <3>3, <3>4 DEF RowsOK
  <2> QED BY <2>1, <2>2, <2>3, TypeParts
<1>5. counted = {} /\ released = {} /\ early = {} /\ guard = {} /\ queued = {} /\ counter = 0 /\ Limit \in Nat
  BY SubmissionAssumption
<1> HIDE DEF SubInit
<1>6. CounterExact
  <2>1. counted \ released = {}
    BY <1>5
  <2> QED BY <1>5, <2>1, FS_EmptySet DEF CounterExact
<1>7. Counting = {} /\ \A j \in Jobs : req[j] \notin InWindow
  BY <1>3, <1>5 DEF Counting, InWindow
<1>8. WindowKept
  BY <1>5, <1>7, FS_EmptySet DEF WindowKept
<1>9. /\ \A j \in Jobs : row[j] \notin Terminal \cup {"PENDING", "RUNNING"}
      /\ \A h \in Handlers : hand[h].pc = "idle" /\ hand[h].job = None
  BY <1>1, <1>2, <1>3, SubmissionAssumption DEF Terminal
<1>10. RequestsKept
  BY <1>3, <1>5, <1>9, SubmissionAssumption DEF RequestsKept, Counted
<1>11. HandlersKept /\ SlotsKept
  BY <1>3, <1>5, <1>9 DEF HandlersKept, SlotsKept
<1>12. OneDelivery
  BY <1>3, <1>5, <1>9, SubmissionAssumption DEF OneDelivery
<1>13. NeverForgotten /\ SlotReturned /\ OnePlan /\ PlansRooted /\ LimitHeld
  <2>1. LimitHeld
    BY <1>4, <1>8, <1>10, <1>11, <1>12, TypesPlain, ActiveIsCounting
  <2> QED BY <1>3, <1>9, <2>1 DEF NeverForgotten, SlotReturned, OnePlan, PlansRooted
<1>14. PlanInv
  BY <1>3, <1>9 DEF PlanInv, PlanServes, PinHonoured, SelectionKept
<1> QED BY <1>4, <1>6, <1>8, <1>10, <1>11, <1>12, <1>13, <1>14 DEF SubmissionInv

\* The tenant's counter, the job rows and their tasks agree (CounterExact,
\* SlotReturned, LimitHeld, OnePlan, NeverForgotten), and a stored plan serves
\* its request (PlanServes, PinHonoured), for any number of requests, handlers
\* and faults, and whatever the registry shows.
LEMMA SubmissionAlways == Spec => [](SubmissionInv /\ PlanInv)
<1>1. Init => SubmissionInv /\ PlanInv
  BY SubmissionStarts DEF Init
<1>2. SubmissionInv /\ PlanInv /\ [Next]_vars => SubmissionInv' /\ PlanInv'
  <2>1. ASSUME UNCHANGED subVars, SubmissionInv, PlanInv PROVE SubmissionInv' /\ PlanInv'
    <3> USE <2>1 DEF subVars, gatewayVars, limitVars, jobVars
    <3>1. SubTypeOK' /\ CounterExact' /\ SlotReturned' /\ LimitHeld' /\ OnePlan' /\ NeverForgotten'
      BY DEF SubmissionInv, SubTypeOK, CounterExact, SlotReturned, LimitHeld, OnePlan, NeverForgotten
    <3>2. RequestsKept' /\ HandlersKept' /\ SlotsKept' /\ OneDelivery' /\ PlansRooted'
      BY DEF SubmissionInv, RequestsKept, HandlersKept, SlotsKept, OneDelivery, PlansRooted
    <3>3. WindowKept'
      BY DEF SubmissionInv, WindowKept, Counting
    <3>4. PlanInv'
      BY DEF PlanInv, PlanServes, PinHonoured, SelectionKept
    <3> QED BY <3>1, <3>2, <3>3, <3>4 DEF SubmissionInv
  <2>2. [Next]_vars => UNCHANGED subVars \/ SubNext(Ready)
    BY DEF Next, vars
  <2> QED BY <2>1, <2>2, SubmissionStep
<1> QED BY <1>1, <1>2, PTL DEF Spec

THEOREM SubmissionInvariant == Spec => []SubmissionInv
  BY SubmissionAlways, PTL

THEOREM PlanInvariant == Spec => []PlanInv
  BY SubmissionAlways, PTL

-----------------------------------------------------------------------------
(* The autoscaler.  The inductive invariant adds to the promises what ties  *)
(* a tick to the moment it decided: what it decided still holds when it     *)
(* acts (DecisionKept), the idle time began after the last busy tick        *)
(* (IdleKept), a drain knows the streams it has passed (DrainKept), and     *)
(* workers are older than the ticks that waited for them (BootsKept).       *)

\* What is read of a tick is a tick that reads, and so on.
LEMMA TickKinds ==
    ASSUME ScaleTypeOK
    PROVE  /\ scaler.at = "rest" <=> scaler = Rest
           /\ scaler.at = "read" => scaler \in Reading
           /\ scaler.at = "reap" => scaler \in Reaping
           /\ scaler.at = "launch" => scaler \in Starting
           /\ scaler.at \in {"drain", "kill"} => scaler \in Stopping
BY DEF ScaleTypeOK, Rest, Reading, Reaping, Starting, Stopping

\* The policy of a tick makes sense, whatever the overrides say.
LEMMA PolicyMerged ==
    ASSUME NEW o, \A k \in DOMAIN o : o[k] \in Nat
    PROVE  ApplyOverrides(o) \in Policies /\ ValidPolicy(ApplyOverrides(o))
<1> DEFINE m == [k \in OverrideKeys |-> IF k \in DOMAIN o THEN o[k] ELSE Policy[k]]
<1>1. m \in Policies
  BY ScaleAssumption DEF Policies
<1>2. ApplyOverrides(o) = IF ValidPolicy(m) THEN m ELSE Policy
  BY DEF ApplyOverrides
<1> HIDE DEF m
<1> QED BY <1>1, <1>2, ScaleAssumption DEF Policies

\* No decision asks for more workers than the policy allows.
LEMMA DesiredBounded ==
    ASSUME NEW p \in Policies, ValidPolicy(p), NEW backlog \in Nat
    PROVE  /\ DesiredInstances(p, backlog) \in Int
           /\ DesiredInstances(p, backlog) <= p["max_instances"]
<1>1. /\ p["tasks_per_instance"] \in Nat \ {0} /\ p["min_instances"] \in Nat /\ p["max_instances"] \in Nat
      /\ p["min_instances"] <= p["max_instances"]
  BY DEF Policies, ValidPolicy, OverrideKeys
<1> DEFINE raw == (backlog + p["tasks_per_instance"] - 1) \div p["tasks_per_instance"]
<1>2. raw \in Int
  BY <1>1
<1> HIDE DEF raw
<1>3. DesiredInstances(p, backlog) =
        LET capped == IF raw <= p["max_instances"] THEN raw ELSE p["max_instances"]
        IN  IF capped >= p["min_instances"] THEN capped ELSE p["min_instances"]
  BY DEF DesiredInstances, raw
<1> QED BY <1>1, <1>2, <1>3

Seens == [StreamIds -> [lag : 0..Cardinality(Tasks), pending : 0..Cardinality(Tasks)]]

\* A decision is made for a reason that is there when it is made.
Reasoned(p, live, pending, idle, action) ==
    /\ action \in Actions
    /\ action \in {"launch", "launch_on_demand"} =>
         pending = {} /\ Cardinality(live) < p["max_instances"]
    /\ action = "launch_on_demand" => Cardinality({n \in live : ~nodes[n].spot}) < MaxOnDemand
    /\ action = "wait" => pending # {}
    /\ action = "terminate" => idle # Never /\ idle >= p["scale_down_after_s"]

LEMMA DecisionSound ==
    ASSUME NEW p \in Policies, ValidPolicy(p), NEW seen \in Seens, NEW live \in SUBSET Nodes,
           NEW pending \in SUBSET Nodes, NEW idle, NEW cooling
    PROVE  Reasoned(p, live, pending, idle, Decide(p, seen, live, pending, idle, cooling))
<1> DEFINE action == Decide(p, seen, live, pending, idle, cooling)
<1> DEFINE sizes == {0} \cup {seen[s].lag + seen[s].pending : s \in StreamIds}
           most == CHOOSE m \in sizes : \A k \in sizes : k <= m
           desired == DesiredInstances(p, most)
<1>1. most \in Nat
  <2> DEFINE bound == Cardinality(Tasks) + Cardinality(Tasks)
  <2>1. Cardinality(Tasks) \in Nat /\ bound \in Nat
    BY ScaleAssumption, FS_CardinalityType
  <2>2. sizes \subseteq 0 .. bound /\ sizes # {}
    BY <2>1 DEF Seens
  <2>3. \E m \in sizes : \A k \in sizes : k <= m
    <3> HIDE DEF sizes, bound
    <3> QED BY <2>1, <2>2, LargestNumber
  <2>4. most \in sizes
    <3> HIDE DEF sizes
    <3> QED BY <2>3
  <2> HIDE DEF sizes, most
  <2> QED BY <2>1, <2>2, <2>4
<1> HIDE DEF most
<1>2. desired \in Int /\ desired <= p["max_instances"]
  BY <1>1, DesiredBounded
<1> HIDE DEF desired
<1>3. p["max_instances"] \in Nat
  BY DEF Policies, OverrideKeys
<1>4. Cardinality(live \cup pending) \in Nat
  BY ScaleAssumption, FS_Subset, FS_CardinalityType
<1>5. action = LET total == Cardinality(live \cup pending)
                   paid == {n \in live \cup pending : ~nodes[n].spot}
                   allIdle == \A s \in StreamIds : seen[s].lag = 0 /\ seen[s].pending = 0
               IN  IF desired > total
                   THEN IF pending # {} THEN "wait"
                        ELSE IF /\ blocked >= BlockedTicks /\ Cardinality(paid) < MaxOnDemand
                                /\ ~cooling
                             THEN "launch_on_demand" ELSE "launch"
                   ELSE IF Cardinality(live) > desired /\ allIdle /\ idle # Never
                             /\ idle >= p["scale_down_after_s"]
                        THEN "terminate" ELSE "none"
  BY DEF Decide, desired, most
<1> HIDE DEF action
<1> SUFFICES Reasoned(p, live, pending, idle, action)
  BY DEF action
<1>6. CASE desired > Cardinality(live \cup pending)
  <2>1. CASE pending # {}
    BY <1>5, <1>6, <2>1 DEF Actions, Reasoned
  <2>2. CASE pending = {}
    <3>1. live \cup pending = live
      BY <2>2
    <3> QED BY <1>2, <1>3, <1>4, <1>5, <1>6, <2>2, <3>1 DEF Actions, Reasoned
  <2> QED BY <2>1, <2>2
<1>7. CASE ~(desired > Cardinality(live \cup pending))
  BY <1>5, <1>7 DEF Actions, Reasoned
<1> QED BY <1>6, <1>7

\* The tasks of a worker that goes are lost, and nothing else.
LEMMA LostTasks ==
    ASSUME ScaleTypeOK, NEW n, work' = Lost(n)
    PROVE  \A t \in Tasks : work'[t] = work[t] \/ (work[t].at = "taken" /\ work'[t] = [work[t] EXCEPT !.at = "lost"])
BY DEF ScaleTypeOK, Lost

Works == [at : {"later", "queued", "taken", "done", "lost"}, stream : StreamIds,
          node : Nodes \cup {Never}, late : BOOLEAN]

LEMMA LostTyped == ASSUME ScaleTypeOK, NEW n PROVE Lost(n) \in [Tasks -> Works]
<1>1. \A t \in Tasks : work[t] \in Works
  BY DEF ScaleTypeOK, Works
<1>2. \A r \in Works : [r EXCEPT !.at = "lost"] \in Works
  BY DEF Works
<1> QED BY <1>1, <1>2 DEF Lost

\* A worker that changes its state is still a worker.
LEMMA NodeTyped ==
    ASSUME ScaleTypeOK, NEW n, NEW st \in {"none", "booting", "live"}
    PROVE  [nodes EXCEPT ![n].state = st] \in [Nodes -> Machines]
<1>1. \A r \in Machines : [r EXCEPT !.state = st] \in Machines
  BY DEF Machines
<1> QED BY <1>1 DEF ScaleTypeOK

TickTypes == {Rest} \cup Reading \cup Reaping \cup Starting \cup Stopping

Others == /\ idleSince \in {Never} \cup 1..MaxTicks /\ tickNo \in 0..MaxTicks
          /\ blocked \in Nat /\ backOff \in Nat /\ woes \in Nat /\ busyAt \in Nat /\ waits \in Nat

LEMMA ScaleTypes ==
    ScaleTypeOK <=> /\ nodes \in [Nodes -> Machines] /\ work \in [Tasks -> Works]
                    /\ scaler \in TickTypes /\ Others
BY DEF ScaleTypeOK, Works, TickTypes, Others

LEMMA RestIsTick == Rest \in TickTypes
BY DEF TickTypes

\* What a tick may do with the streams' lengths.
LEMMA LengthsCounted ==
    ASSUME NEW s PROVE Cardinality(Queued(s)) \in 0..Cardinality(Tasks) /\ Cardinality(Taken(s)) \in 0..Cardinality(Tasks)
<1>1. Queued(s) \in SUBSET Tasks /\ Taken(s) \in SUBSET Tasks
  BY DEF Queued, Taken
<1>2. /\ Cardinality(Queued(s)) \in Nat /\ Cardinality(Queued(s)) <= Cardinality(Tasks)
      /\ Cardinality(Taken(s)) \in Nat /\ Cardinality(Taken(s)) <= Cardinality(Tasks)
      /\ Cardinality(Tasks) \in Nat
  BY <1>1, ScaleAssumption, FS_Subset, FS_CardinalityType
<1> QED BY <1>2

\* The parts of a tick.
LEMMA StartEffect ==
    ASSUME ScaleTypeOK, NEW o, \A k \in DOMAIN o : o[k] \in Nat, StartTick(o)
    PROVE  /\ scaler' \in Reading /\ ValidPolicy(scaler'.policy) /\ scaler = Rest
           /\ tickNo' = tickNo + 1 /\ tickNo' \in 0..MaxTicks
           /\ UNCHANGED <<nodes, work, idleSince, blocked, backOff, woes, busyAt, waits>>
<1>1. ApplyOverrides(o) \in Policies /\ ValidPolicy(ApplyOverrides(o))
  BY PolicyMerged
<1>2. 1 \in 1..Len(Streams)+1 /\ 0 \in 0..Cardinality(Tasks)
  BY ScaleAssumption, FS_CardinalityType
<1>3. scaler' = [at |-> "read", next |-> 1, policy |-> ApplyOverrides(o),
                 seen |-> [s \in StreamIds |-> [lag |-> 0, pending |-> 0]]]
  BY DEF StartTick
<1>4. scaler' \in Reading
  BY <1>1, <1>2, <1>3 DEF Reading
<1> QED BY <1>1, <1>3, <1>4, ScaleAssumption DEF StartTick, ScaleTypeOK

LEMMA ReadEffect ==
    ASSUME ScaleTypeOK, ReadBacklog
    PROVE  /\ scaler.at = "read" /\ scaler' \in Reading /\ scaler'.policy = scaler.policy
           /\ UNCHANGED <<nodes, work, idleSince, blocked, backOff, tickNo, woes, busyAt, waits>>
<1> DEFINE s == Streams[scaler.next]
           r == [lag |-> Cardinality(Queued(s)), pending |-> Cardinality(Taken(s))]
           q == [scaler.seen EXCEPT ![s] = r]
<1>1. scaler \in Reading /\ scaler.next <= Len(Streams)
  BY TickKinds DEF ReadBacklog
<1>2. r \in [lag : 0..Cardinality(Tasks), pending : 0..Cardinality(Tasks)]
  BY LengthsCounted
<1>3. q \in Seens
  <2> HIDE DEF r, s
  <2> QED BY <1>1, <1>2 DEF Reading, Seens
<1>4. scaler' = [scaler EXCEPT !.next = @ + 1, !.seen = q]
  BY <1>1 DEF ReadBacklog, Reading
<1> HIDE DEF q
<1>5. scaler.next + 1 \in 1..Len(Streams)+1
  BY <1>1, ScaleAssumption DEF Reading
<1>6. scaler' = [at |-> "read", next |-> scaler.next + 1, policy |-> scaler.policy, seen |-> q]
  BY <1>1, <1>4 DEF Reading
<1>7. scaler' \in Reading /\ scaler'.policy = scaler.policy
  BY <1>1, <1>3, <1>5, <1>6 DEF Reading, Seens
<1> QED BY <1>7 DEF ReadBacklog

LEMMA DecideEffect ==
    ASSUME ScaleTypeOK, PolicySound, TakeDecision
    PROVE  LET live == InState("live")
               pending == InState("booting")
           IN  /\ scaler \in Reading /\ scaler' \in Reaping
               /\ scaler'.live = live /\ scaler'.policy = scaler.policy
               /\ scaler'.left = {n \in pending : StuckBooting(n)}
               /\ scaler'.action \in {"launch", "launch_on_demand"} =>
                    pending = {} /\ Cardinality(live) < scaler.policy["max_instances"] /\ waits' = 0
               /\ scaler'.action = "launch_on_demand" => Cardinality({n \in live : ~nodes[n].spot}) < MaxOnDemand
               /\ scaler'.action = "terminate" =>
                    /\ idleSince # Never /\ busyAt' = busyAt
                    /\ tickNo - idleSince >= scaler.policy["scale_down_after_s"]
               /\ waits' = 0 \/ (pending # {} /\ pending \subseteq Managed /\ waits' = waits + 1)
               /\ \/ idleSince' = Never
                  \/ busyAt' = busyAt /\ idleSince' = IF idleSince = Never THEN tickNo ELSE idleSince
               /\ busyAt' \in {busyAt, tickNo}
               /\ UNCHANGED <<nodes, work, blocked, backOff, tickNo, woes>>
<1> DEFINE live == InState("live")
           pending == InState("booting")
           idleNow == /\ \A s \in StreamIds : scaler.seen[s].lag = 0 /\ scaler.seen[s].pending = 0
                      /\ live \cup pending # {}
           idle == IF idleNow /\ idleSince # Never THEN tickNo - idleSince ELSE Never
           cooling == backOff > tickNo
           action == Decide(scaler.policy, scaler.seen, live, pending, idle, cooling)
           wedged == {n \in pending : StuckBooting(n)}
<1>1. /\ scaler.at = "read" /\ idleSince' = UpdateIdleState(idleNow)
      /\ busyAt' = IF idleNow THEN busyAt ELSE tickNo
      /\ waits' = IF action = "wait" /\ pending \subseteq Managed THEN waits + 1 ELSE 0
      /\ scaler' = [at |-> "reap", action |-> action, policy |-> scaler.policy, live |-> live,
                    left |-> wedged, stuck |-> FALSE]
      /\ UNCHANGED <<nodes, work, blocked, backOff, tickNo, woes>>
  BY DEF TakeDecision
<1>2. scaler \in Reading /\ ValidPolicy(scaler.policy)
  BY <1>1, TickKinds DEF PolicySound, Rest
<1>3. scaler.policy \in Policies /\ scaler.seen \in Seens
  BY <1>2 DEF Reading, Seens
<1>4. live \in SUBSET Nodes /\ pending \in SUBSET Nodes /\ wedged \in SUBSET Nodes
  BY DEF InState
<1> HIDE DEF live, pending, wedged, idleNow, idle, cooling
<1>5. Reasoned(scaler.policy, live, pending, idle, action)
  BY <1>2, <1>3, <1>4, DecisionSound
<1> DEFINE act == action
<1> HIDE DEF action, act
<1>6. /\ act \in Actions
      /\ act \in {"launch", "launch_on_demand"} =>
           pending = {} /\ Cardinality(live) < scaler.policy["max_instances"]
      /\ act = "launch_on_demand" => Cardinality({n \in live : ~nodes[n].spot}) < MaxOnDemand
      /\ act = "wait" => pending # {}
      /\ act = "terminate" => idle # Never /\ idle >= scaler.policy["scale_down_after_s"]
  BY <1>5 DEF Reasoned, act
<1>7. scaler' \in Reaping /\ scaler'.live = live /\ scaler'.policy = scaler.policy /\ scaler'.action = act
      /\ scaler'.left = wedged
  BY <1>1, <1>3, <1>4, <1>6 DEF Reaping, act
<1>8. act = "terminate" => idleNow /\ idleSince # Never /\ tickNo - idleSince >= scaler.policy["scale_down_after_s"]
  BY <1>6 DEF idle
<1>9. act \in {"launch", "launch_on_demand"} => waits' = 0
  BY <1>1 DEF act
<1>10. waits' = 0 \/ (pending # {} /\ pending \subseteq Managed /\ waits' = waits + 1)
  BY <1>1, <1>6 DEF act
<1>11. /\ idleSince' = Never \/ (busyAt' = busyAt /\ idleSince' = IF idleSince = Never THEN tickNo ELSE idleSince)
       /\ busyAt' \in {busyAt, tickNo} /\ (idleNow => busyAt' = busyAt)
  BY <1>1 DEF UpdateIdleState
<1> QED BY <1>1, <1>2, <1>6, <1>7, <1>8, <1>9, <1>10, <1>11 DEF live, pending, wedged

LEMMA ReapEffect ==
    ASSUME ScaleTypeOK, NEW n \in Nodes, NEW ok \in BOOLEAN, ReapStuck(n, ok)
    PROVE  /\ scaler \in Reaping /\ n \in scaler.left
           /\ scaler' = [scaler EXCEPT !.left = @ \ {n}, !.stuck = TRUE] /\ scaler' \in Reaping
           /\ nodes' \in [Nodes -> Machines] /\ work' \in [Tasks -> Works]
           /\ woes' \in Nat /\ waits' \in Nat
           /\ \/ /\ \A m \in Nodes : nodes'[m] = IF m = n THEN [nodes[n] EXCEPT !.state = "none"] ELSE nodes[m]
                 /\ waits' = waits /\ work' = Lost(n)
              \/ waits' = 0 /\ UNCHANGED <<nodes, work>>
           /\ UNCHANGED <<idleSince, blocked, backOff, tickNo, busyAt>>
<1>1. scaler \in Reaping /\ n \in scaler.left
  BY TickKinds DEF ReapStuck
<1>2. scaler' = [scaler EXCEPT !.left = @ \ {n}, !.stuck = TRUE]
  BY DEF ReapStuck
<1>3. scaler' \in Reaping
  BY <1>1, <1>2 DEF Reaping
<1>4. CASE ok
  BY <1>1, <1>2, <1>3, <1>4, NodeTyped, LostTyped DEF ReapStuck, ScaleTypeOK
<1>5. CASE ~ok
  BY <1>1, <1>2, <1>3, <1>5 DEF ReapStuck, ScaleTypeOK, Works
<1> QED BY <1>4, <1>5

\* Of workers that can be stopped one is the newest.
LEMMA NewestExists ==
    ASSUME ScaleTypeOK, NEW F, F \subseteq Nodes, F # {}
    PROVE  \E n \in F : \A m \in F : nodes[m].born <= nodes[n].born
<1> DEFINE B == {nodes[n].born : n \in F}
<1>1. \A n \in F : nodes[n].born \in 0..MaxTicks
  BY DEF ScaleTypeOK, Machines
<1>2. B \subseteq 0..MaxTicks /\ B # {}
  BY <1>1
<1>3. PICK b \in B : \A c \in B : c <= b
  <2> HIDE DEF B
  <2> QED BY <1>2, LargestNumber, ScaleAssumption
<1>4. PICK n \in F : b = nodes[n].born
  BY <1>3
<1>5. \A m \in F : nodes[m].born \in B
  OBVIOUS
<1> HIDE DEF B
<1> QED BY <1>3, <1>4, <1>5

LEMMA ApplyEffect ==
    ASSUME ScaleTypeOK, ApplyDecision
    PROVE  /\ scaler \in Reaping /\ scaler.left = {}
           /\ blocked' \in Nat
           /\ \/ scaler' = Rest
              \/ /\ scaler.action = "terminate" /\ scaler' \in Stopping /\ scaler'.at = "drain"
                 /\ scaler'.policy = scaler.policy /\ scaler'.next = 1 /\ scaler'.passed = {}
              \/ /\ scaler.action \in {"launch", "launch_on_demand"} /\ scaler' \in Starting
                 /\ scaler'.policy = scaler.policy /\ scaler'.spot = (scaler.action = "launch")
           /\ UNCHANGED <<nodes, work, idleSince, backOff, tickNo, woes, busyAt, waits>>
<1> DEFINE mine == {n \in scaler.live : nodes[n].managed}
           paid == {n \in mine : ~nodes[n].spot}
           from == IF paid # {} THEN paid ELSE mine
           newest == CHOOSE n \in from : \A m \in from : nodes[m].born <= nodes[n].born
<1>1. scaler \in Reaping /\ scaler.left = {}
  BY TickKinds DEF ApplyDecision
<1>2. blocked' \in Nat
  BY DEF ApplyDecision, ScaleTypeOK
<1>3. mine \subseteq Nodes
  BY <1>1 DEF Reaping
<1>4. ASSUME mine # {} PROVE newest \in Nodes
  <2>1. from \subseteq Nodes /\ from # {}
    BY <1>3, <1>4
  <2> HIDE DEF from
  <2> QED BY <2>1, NewestExists
<1>5. scaler' = IF scaler.stuck \/ scaler.action \in {"none", "wait"} THEN Rest
                ELSE IF scaler.action = "terminate"
                THEN IF mine = {} THEN Rest
                     ELSE [at |-> "drain", node |-> newest, policy |-> scaler.policy,
                           next |-> 1, passed |-> {}]
                ELSE [at |-> "launch", spot |-> scaler.action = "launch", policy |-> scaler.policy]
  BY DEF ApplyDecision
<1> HIDE DEF mine, newest
<1>6. scaler.policy \in Policies /\ scaler.action \in Actions /\ 1 \in 1..Len(Streams)+1
  BY <1>1, ScaleAssumption DEF Reaping
<1>7. CASE scaler' = Rest
  BY <1>1, <1>2, <1>7 DEF ApplyDecision
<1>8. CASE scaler.action = "terminate" /\ mine # {} /\ ~scaler.stuck
  <2>1. scaler' = [at |-> "drain", node |-> newest, policy |-> scaler.policy, next |-> 1, passed |-> {}]
    BY <1>5, <1>8
  <2>2. scaler' \in Stopping
    BY <1>4, <1>6, <1>8, <2>1 DEF Stopping
  <2> QED BY <1>1, <1>2, <1>8, <2>1, <2>2 DEF ApplyDecision
<1>9. CASE scaler.action \in {"launch", "launch_on_demand"} /\ ~scaler.stuck
  <2>1. scaler' = [at |-> "launch", spot |-> scaler.action = "launch", policy |-> scaler.policy]
    BY <1>5, <1>9
  <2>2. scaler' \in Starting /\ scaler'.policy = scaler.policy /\ scaler'.spot = (scaler.action = "launch")
    BY <1>6, <2>1 DEF Starting
  <2> QED BY <1>1, <1>2, <1>9, <2>1, <2>2 DEF ApplyDecision
<1> QED BY <1>5, <1>6, <1>7, <1>8, <1>9 DEF Actions

LEMMA LaunchEffect ==
    ASSUME ScaleTypeOK, NEW outcome \in {"ok", "none_left", "locked"}, Launch(outcome)
    PROVE  /\ scaler \in Starting /\ scaler' = Rest
           /\ \/ UNCHANGED nodes
              \/ \E n \in Nodes :
                   /\ nodes[n].state = "none"
                   /\ nodes' = [nodes EXCEPT ![n] = [state |-> "booting", spot |-> scaler.spot,
                                                     managed |-> TRUE, born |-> tickNo]]
           /\ blocked' \in Nat /\ backOff' \in Nat /\ woes' \in Nat
           /\ UNCHANGED <<work, idleSince, tickNo, busyAt, waits>>
<1>1. scaler \in Starting /\ scaler' = Rest
  BY TickKinds DEF Launch
<1>2. CASE outcome = "ok"
  <2> DEFINE n == CHOOSE n \in Nodes : nodes[n].state = "none"
  <2>1. /\ InState("none") # {} /\ blocked' = 0 /\ UNCHANGED <<backOff, woes>>
        /\ nodes' = [nodes EXCEPT ![n] = [state |-> "booting", spot |-> scaler.spot,
                                          managed |-> TRUE, born |-> tickNo]]
    BY <1>2 DEF Launch
  <2>2. n \in Nodes /\ nodes[n].state = "none"
    BY <2>1 DEF InState
  <2> HIDE DEF n
  <2> QED BY <1>1, <2>1, <2>2 DEF Launch, ScaleTypeOK
<1>3. CASE outcome = "none_left"
  <2>1. /\ woes > 0 /\ woes' = woes - 1 /\ UNCHANGED <<nodes, work, idleSince, tickNo, busyAt, waits>>
        /\ blocked' \in {blocked, blocked + 1} /\ backOff' \in {backOff, tickNo + RetryBackoff}
    BY <1>3 DEF Launch
  <2>2. woes' \in Nat /\ blocked' \in Nat /\ backOff' \in Nat
    BY <2>1, ScaleAssumption DEF ScaleTypeOK
  <2> QED BY <1>1, <2>1, <2>2
<1>4. CASE outcome = "locked"
  BY <1>1, <1>4 DEF Launch, ScaleTypeOK
<1> QED BY <1>2, <1>3, <1>4

LEMMA DrainEffect ==
    ASSUME ScaleTypeOK, DrainKept, DrainStep
    PROVE  /\ scaler \in Stopping /\ scaler' \in Stopping /\ scaler'.policy = scaler.policy
           /\ scaler'.passed = {Streams[i] : i \in 1..scaler'.next-1}
           /\ scaler'.next = Len(Streams) + 1 <=> scaler'.at = "kill"
           /\ \/ scaler'.passed = {}
              \/ \E s \in StreamIds : Taken(s) = {} /\ scaler'.passed = scaler.passed \cup {s}
           /\ UNCHANGED <<nodes, work, idleSince, blocked, backOff, tickNo, woes, busyAt, waits>>
<1> DEFINE s == Streams[scaler.next]
<1>1. scaler \in Stopping /\ scaler.at = "drain"
  BY TickKinds DEF DrainStep
<1>2. /\ scaler.passed = {Streams[i] : i \in 1..scaler.next-1}
      /\ scaler.next # Len(Streams) + 1
  BY <1>1 DEF DrainKept
<1>3. scaler.next \in 1..Len(Streams) /\ Len(Streams) \in Nat \ {0}
  BY <1>1, <1>2, ScaleAssumption DEF Stopping
<1>4. s \in StreamIds
  BY <1>3, ScaleAssumption DEF StreamIds
<1>5. scaler' = IF Taken(s) = {}
                THEN [scaler EXCEPT !.next = @ + 1, !.passed = @ \cup {s},
                                    !.at = IF scaler.next = Len(Streams) THEN "kill" ELSE "drain"]
                ELSE [scaler EXCEPT !.next = 1, !.passed = {}]
  BY DEF DrainStep
<1>6. scaler.passed \cup {s} = {Streams[i] : i \in 1..(scaler.next + 1)-1}
  BY <1>2, <1>3
<1> HIDE DEF s
<1>7. CASE Taken(s) = {}
  <2> DEFINE l == IF scaler.next = Len(Streams) THEN "kill" ELSE "drain"
  <2>1. scaler' = [at |-> l, node |-> scaler.node, policy |-> scaler.policy,
                   next |-> scaler.next + 1, passed |-> scaler.passed \cup {s}]
    BY <1>1, <1>5, <1>7 DEF Stopping
  <2>2. /\ scaler' \in Stopping /\ scaler'.policy = scaler.policy /\ scaler'.at = l
        /\ scaler'.next = scaler.next + 1 /\ scaler'.passed = scaler.passed \cup {s}
    BY <1>1, <1>3, <1>4, <2>1 DEF Stopping
  <2>3. scaler'.next = Len(Streams) + 1 <=> scaler'.at = "kill"
    BY <1>3, <2>2
  <2> QED BY <1>1, <1>4, <1>6, <1>7, <2>2, <2>3 DEF DrainStep
<1>8. CASE Taken(s) # {}
  <2>1. scaler' = [at |-> "drain", node |-> scaler.node, policy |-> scaler.policy, next |-> 1, passed |-> {}]
    BY <1>1, <1>5, <1>8 DEF Stopping
  <2>2. /\ scaler' \in Stopping /\ scaler'.policy = scaler.policy /\ scaler'.at = "drain"
        /\ scaler'.next = 1 /\ scaler'.passed = {}
    BY <1>1, <1>3, <2>1 DEF Stopping
  <2>3. {Streams[i] : i \in 1..1-1} = {}
    OBVIOUS
  <2> QED BY <1>1, <1>3, <2>2, <2>3 DEF DrainStep
<1> QED BY <1>7, <1>8

LEMMA KillEffect ==
    ASSUME ScaleTypeOK, NEW ok \in BOOLEAN, Terminate(ok)
    PROVE  /\ scaler' = Rest
           /\ \A m \in Nodes : nodes'[m] = nodes[m] \/ nodes'[m] = [nodes[m] EXCEPT !.state = "none"]
           /\ nodes' \in [Nodes -> Machines] /\ work' \in [Tasks -> Works] /\ woes' \in Nat
           /\ \E n : work' = Lost(n)
           /\ (idleSince' = Never /\ busyAt' = tickNo) \/ UNCHANGED <<idleSince, busyAt>>
           /\ UNCHANGED <<blocked, backOff, tickNo, waits>>
<1>1. nodes' = [nodes EXCEPT ![scaler.node].state = "none"] /\ work' = Lost(scaler.node)
  BY DEF Terminate
<1>2. \A m \in Nodes : nodes'[m] = nodes[m] \/ nodes'[m] = [nodes[m] EXCEPT !.state = "none"]
  BY <1>1 DEF ScaleTypeOK
<1>3. nodes' \in [Nodes -> Machines] /\ work' \in [Tasks -> Works]
  BY <1>1, NodeTyped, LostTyped
<1>4. woes' \in Nat
  BY DEF Terminate, ScaleTypeOK
<1> QED BY <1>1, <1>2, <1>3, <1>4 DEF Terminate

\* A tick that ends before its time, or a drain that does.
LEMMA EndedEffect ==
    ASSUME ScaleTypeOK, TickDies \/ DrainTimeout
    PROVE  /\ scaler' = Rest /\ woes' \in Nat
           /\ UNCHANGED <<nodes, work, idleSince, blocked, backOff, tickNo, busyAt, waits>>
BY DEF TickDies, DrainTimeout, ScaleTypeOK

\* What the world does to the tasks.
TaskStep ==
    \/ \E t \in Tasks : FinishTask(t) \/ \E s \in StreamIds : Enqueue(t, s)
    \/ \E n \in Nodes, t \in Tasks : TakeTask(n, t)

LEMMA TaskEffect ==
    ASSUME ScaleTypeOK, TaskStep
    PROVE  /\ work' \in [Tasks -> Works]
           /\ \A t \in Tasks : work'[t].at = "taken" =>
                \/ work'[t] = work[t]
                \/ /\ work'[t].stream = work[t].stream /\ work[t].at = "queued"
                   /\ work'[t].late = (scaler.at \in {"drain", "kill"} /\ work[t].stream \in scaler.passed)
           /\ UNCHANGED <<nodes, scaler, idleSince, blocked, backOff, tickNo, woes, busyAt, waits>>
<1>0. work \in [Tasks -> Works]
  BY ScaleTypes
<1>1. ASSUME NEW t \in Tasks, FinishTask(t)
      PROVE  /\ work' \in [Tasks -> Works]
             /\ \A u \in Tasks : work'[u].at = "taken" => work'[u] = work[u]
  <2>1. [work[t] EXCEPT !.at = "done"] \in Works
    BY <1>0 DEF Works
  <2>2. work' = [work EXCEPT ![t] = [work[t] EXCEPT !.at = "done"]]
    BY <1>0, <1>1 DEF FinishTask
  <2>3. [work[t] EXCEPT !.at = "done"].at = "done"
    BY <1>0 DEF Works
  <2> DEFINE r == [work[t] EXCEPT !.at = "done"]
  <2> HIDE DEF r
  <2> QED BY <1>0, <2>1, <2>2, <2>3 DEF r
<1>2. ASSUME NEW t \in Tasks, NEW s \in StreamIds, Enqueue(t, s)
      PROVE  /\ work' \in [Tasks -> Works]
             /\ \A u \in Tasks : work'[u].at = "taken" => work'[u] = work[u]
  BY <1>0, <1>2 DEF Enqueue, Works
<1>3. ASSUME NEW n \in Nodes, NEW t \in Tasks, TakeTask(n, t)
      PROVE  /\ work' \in [Tasks -> Works]
             /\ \A u \in Tasks : u # t => work'[u] = work[u]
             /\ work'[t].stream = work[t].stream /\ work[t].at = "queued"
             /\ work'[t].late = (scaler.at \in {"drain", "kill"} /\ work[t].stream \in scaler.passed)
  <2> DEFINE b == scaler.at \in {"drain", "kill"} /\ work[t].stream \in scaler.passed
             r == [at |-> "taken", stream |-> work[t].stream, node |-> n, late |-> b]
  <2>1. work' = [work EXCEPT ![t].at = "taken", ![t].node = n, ![t].late = b]
    BY <1>3 DEF TakeTask
  <2>2. b \in BOOLEAN
    OBVIOUS
  <2> HIDE DEF b
  <2>3. work[t] \in Works
    BY <1>0
  <2>4. [[[work[t] EXCEPT !.at = "taken"] EXCEPT !.node = n] EXCEPT !.late = b] = r
    <3> DEFINE a == [work[t] EXCEPT !.at = "taken"]
               c == [a EXCEPT !.node = n]
    <3>1. a = [at |-> "taken", stream |-> work[t].stream, node |-> work[t].node, late |-> work[t].late]
      BY <2>3 DEF Works
    <3> HIDE DEF a
    <3>2. c = [at |-> "taken", stream |-> work[t].stream, node |-> n, late |-> work[t].late]
      BY <3>1
    <3> HIDE DEF c
    <3>3. [c EXCEPT !.late = b] = r
      BY <3>2
    <3> QED BY <3>3 DEF a, c
  <2>5. r \in Works
    BY <2>2, <2>3 DEF Works
  <2>6. work' = [work EXCEPT ![t] = r]
    <3>1. work' = [[[work EXCEPT ![t] = [work[t] EXCEPT !.at = "taken"]]
                     EXCEPT ![t] = [@ EXCEPT !.node = n]] EXCEPT ![t] = [@ EXCEPT !.late = b]]
      BY <1>0, <2>1
    <3> HIDE DEF r
    <3> QED BY <1>0, <2>4, <3>1
  <2> HIDE DEF r
  <2>7. work' \in [Tasks -> Works] /\ work'[t] = r /\ \A u \in Tasks : u # t => work'[u] = work[u]
    BY <1>0, <2>5, <2>6
  <2>8. r.stream = work[t].stream /\ r.late = b
    BY DEF r
  <2>9. work[t].at = "queued"
    BY <1>3 DEF TakeTask
  <2> QED BY <2>7, <2>8, <2>9 DEF b
<1>4. CASE \E t \in Tasks : FinishTask(t) \/ \E s \in StreamIds : Enqueue(t, s)
  BY <1>1, <1>2, <1>4 DEF FinishTask, Enqueue
<1>5. CASE \E n \in Nodes, t \in Tasks : TakeTask(n, t)
  <2>1. PICK n \in Nodes, t \in Tasks : TakeTask(n, t)
    BY <1>5
  <2>2. \A u \in Tasks : u # t => work'[u] = work[u]
    BY <1>3, <2>1
  <2>3. /\ work'[t].stream = work[t].stream /\ work[t].at = "queued"
        /\ work'[t].late = (scaler.at \in {"drain", "kill"} /\ work[t].stream \in scaler.passed)
    BY <1>3, <2>1
  <2>4. work' \in [Tasks -> Works]
    BY <1>3, <2>1
  <2> QED BY <2>1, <2>2, <2>3, <2>4 DEF TakeTask
<1> QED BY <1>4, <1>5 DEF TaskStep

\* What the world does to the workers.
NodeStep == \E n \in Nodes : Register(n) \/ Unregister(n) \/ Interrupt(n)

LEMMA NodeEffect ==
    ASSUME ScaleTypeOK, NodeStep
    PROVE  /\ nodes' \in [Nodes -> Machines] /\ work' \in [Tasks -> Works] /\ woes' \in Nat
           /\ \E n \in Nodes, st \in {"none", "booting", "live"} :
                /\ nodes' = [nodes EXCEPT ![n].state = st] /\ nodes[n].state # "none"
                /\ st = "booting" => waits' = 0
           /\ waits' \in {0, waits} /\ (work' = work \/ \E n : work' = Lost(n))
           /\ UNCHANGED <<scaler, idleSince, blocked, backOff, tickNo, busyAt>>
<1>0. PICK n \in Nodes : Register(n) \/ Unregister(n) \/ Interrupt(n)
  BY DEF NodeStep
<1>1. CASE Register(n)
  BY <1>1, NodeTyped, ScaleTypes DEF Register, Others
<1>2. CASE Unregister(n)
  <2>1. nodes' = [nodes EXCEPT ![n].state = "booting"] /\ nodes[n].state # "none" /\ waits' = 0
    BY <1>2 DEF Unregister
  <2>2. woes' \in Nat /\ work' \in [Tasks -> Works]
    BY <1>2, ScaleTypes DEF Unregister, Others
  <2>3. nodes' \in [Nodes -> Machines]
    BY <2>1, NodeTyped
  <2> QED BY <1>2, <2>1, <2>2, <2>3 DEF Unregister
<1>3. CASE Interrupt(n)
  <2>1. nodes' = [nodes EXCEPT ![n].state = "none"] /\ nodes[n].state # "none" /\ work' = Lost(n)
    BY <1>3 DEF Interrupt
  <2>2. woes' \in Nat
    BY <1>3, ScaleTypes DEF Interrupt, Others
  <2>3. nodes' \in [Nodes -> Machines] /\ work' \in [Tasks -> Works]
    BY <2>1, NodeTyped, LostTyped
  <2> QED BY <1>3, <2>1, <2>2, <2>3 DEF Interrupt
<1> QED BY <1>0, <1>1, <1>2, <1>3

\* The steps of the autoscaler and of the world around it.
LEMMA ScaleSteps ==
    ASSUME NEW o, ScaleNext(o)
    PROVE  \/ StartTick(o) \/ ReadBacklog \/ TakeDecision \/ TickDies \/ DrainTimeout \/ ApplyDecision \/ DrainStep
           \/ \E ok \in BOOLEAN : Terminate(ok)
           \/ \E outcome \in {"ok", "none_left", "locked"} : Launch(outcome)
           \/ \E n \in Nodes, ok \in BOOLEAN : ReapStuck(n, ok)
           \/ TaskStep \/ NodeStep
BY DEF ScaleNext, TaskStep, NodeStep

LEMMA ScaleTypeStep ==
    ASSUME ScaleTypeOK, PolicySound, DrainKept, IdleKept, NEW o, \A k \in DOMAIN o : o[k] \in Nat, ScaleNext(o)
    PROVE  ScaleTypeOK'
<1>0. /\ nodes \in [Nodes -> Machines] /\ work \in [Tasks -> Works] /\ scaler \in TickTypes /\ Others
  BY ScaleTypes
<1>a. Rest \in TickTypes /\ \A r : r \in Reading \cup Reaping \cup Starting \cup Stopping => r \in TickTypes
  BY DEF TickTypes
<1> SUFFICES nodes' \in [Nodes -> Machines] /\ work' \in [Tasks -> Works] /\ scaler' \in TickTypes /\ Others'
  BY DEF ScaleTypeOK, Works, TickTypes, Others
<1>1. CASE StartTick(o)
  BY <1>0, <1>1, <1>a, StartEffect DEF Others
<1>2. CASE ReadBacklog
  BY <1>0, <1>2, <1>a, ReadEffect DEF Others
<1>3. CASE TakeDecision
  <2>1. scaler' \in TickTypes /\ UNCHANGED <<nodes, work, blocked, backOff, tickNo, woes>>
    BY <1>3, <1>a, DecideEffect
  <2>2. scaler \in Reading
    BY <1>3, DecideEffect
  <2>3. tickNo \in 1..MaxTicks
    BY <1>0, <2>2, ScaleAssumption DEF Others, IdleKept, Reading
  <2>4. idleSince' \in {Never} \cup 1..MaxTicks /\ busyAt' \in Nat /\ waits' \in Nat
    BY <1>0, <1>3, <2>3, DecideEffect, ScaleAssumption DEF Others
  <2> QED BY <1>0, <2>1, <2>4 DEF Others
<1>4. CASE TickDies \/ DrainTimeout
  BY <1>0, <1>4, <1>a, EndedEffect DEF Others
<1>5. CASE ApplyDecision
  BY <1>0, <1>5, <1>a, ApplyEffect DEF Others
<1>6. CASE DrainStep
  BY <1>0, <1>6, <1>a, DrainEffect DEF Others
<1>7. ASSUME NEW ok \in BOOLEAN, Terminate(ok)
      PROVE  nodes' \in [Nodes -> Machines] /\ work' \in [Tasks -> Works] /\ scaler' \in TickTypes /\ Others'
  BY <1>0, <1>7, <1>a, KillEffect DEF Others
<1>8. ASSUME NEW outcome \in {"ok", "none_left", "locked"}, Launch(outcome)
      PROVE  nodes' \in [Nodes -> Machines] /\ work' \in [Tasks -> Works] /\ scaler' \in TickTypes /\ Others'
  <2>1. nodes' \in [Nodes -> Machines]
    <3>1. scaler \in Starting /\ tickNo \in 0..MaxTicks
      BY <1>0, <1>8, LaunchEffect DEF Others
    <3>2. [state |-> "booting", spot |-> scaler.spot, managed |-> TRUE, born |-> tickNo] \in Machines
      BY <3>1 DEF Starting, Machines
    <3> QED BY <1>0, <1>8, <3>2, LaunchEffect
  <2> QED BY <1>0, <1>8, <1>a, <2>1, LaunchEffect DEF Others
<1>9. ASSUME NEW n \in Nodes, NEW ok \in BOOLEAN, ReapStuck(n, ok)
      PROVE  nodes' \in [Nodes -> Machines] /\ work' \in [Tasks -> Works] /\ scaler' \in TickTypes /\ Others'
  BY <1>0, <1>9, <1>a, ReapEffect DEF Others
<1>10. CASE TaskStep
  BY <1>0, <1>10, TaskEffect DEF Others
<1>11. CASE NodeStep
  BY <1>0, <1>11, NodeEffect DEF Others
<1> QED BY <1>1, <1>2, <1>3, <1>4, <1>5, <1>6, <1>7, <1>8, <1>9, <1>10, <1>11, ScaleSteps

-----------------------------------------------------------------------------
\* No worker is there that was not, and those that are there are the same.
NoneNew ==
    \A n \in Nodes :
        /\ nodes'[n].spot = nodes[n].spot /\ nodes'[n].managed = nodes[n].managed
        /\ nodes'[n].born = nodes[n].born
        /\ nodes'[n].state # "none" => nodes[n].state # "none"

\* A worker whose state changes is the same worker.
LEMMA SameWorker ==
    ASSUME ScaleTypeOK, NEW m \in Nodes, NEW st
    PROVE  LET r == [nodes[m] EXCEPT !.state = st]
           IN  r.spot = nodes[m].spot /\ r.managed = nodes[m].managed /\ r.born = nodes[m].born /\ r.state = st
BY DEF ScaleTypeOK, Machines

LEMMA NothingNew ==
    ASSUME ScaleTypeOK, PolicySound, DrainKept, NEW o, \A k \in DOMAIN o : o[k] \in Nat, ScaleNext(o),
           ~ \E outcome \in {"ok", "none_left", "locked"} : Launch(outcome)
    PROVE  NoneNew
<1>1. ASSUME UNCHANGED nodes PROVE NoneNew
  BY <1>1 DEF NoneNew
<1>2. ASSUME \A m \in Nodes : nodes'[m] = nodes[m] \/ nodes'[m] = [nodes[m] EXCEPT !.state = "none"]
      PROVE  NoneNew
  <2> SUFFICES ASSUME NEW m \in Nodes
               PROVE  /\ nodes'[m].spot = nodes[m].spot /\ nodes'[m].managed = nodes[m].managed
                      /\ nodes'[m].born = nodes[m].born
                      /\ nodes'[m].state # "none" => nodes[m].state # "none"
    BY DEF NoneNew
  <2>1. CASE nodes'[m] = nodes[m]
    BY <2>1
  <2>2. CASE nodes'[m] = [nodes[m] EXCEPT !.state = "none"]
    <3> DEFINE r == [nodes[m] EXCEPT !.state = "none"]
    <3>1. r.spot = nodes[m].spot /\ r.managed = nodes[m].managed /\ r.born = nodes[m].born /\ r.state = "none"
      BY SameWorker
    <3> HIDE DEF r
    <3> QED BY <2>2, <3>1 DEF r
  <2> QED BY <1>2, <2>1, <2>2
<1>3. CASE StartTick(o) \/ ReadBacklog \/ TakeDecision \/ TickDies \/ DrainTimeout \/ ApplyDecision \/ DrainStep
  BY <1>1, <1>3 DEF StartTick, ReadBacklog, TakeDecision, TickDies, DrainTimeout, ApplyDecision, DrainStep
<1>4. CASE \E ok \in BOOLEAN : Terminate(ok)
  BY <1>2, <1>4, KillEffect
<1>5. CASE \E n \in Nodes, ok \in BOOLEAN : ReapStuck(n, ok)
  BY <1>1, <1>2, <1>5, ReapEffect
<1>6. CASE TaskStep
  BY <1>1, <1>6, TaskEffect
<1>7. CASE NodeStep
  <2>1. PICK n \in Nodes, st \in {"none", "booting", "live"} :
          nodes' = [nodes EXCEPT ![n].state = st] /\ nodes[n].state # "none"
    BY <1>7, NodeEffect
  <2>2. nodes' = [nodes EXCEPT ![n] = [nodes[n] EXCEPT !.state = st]]
    BY <2>1
  <2>3. \A m \in Nodes : nodes'[m] = IF m = n THEN [nodes[n] EXCEPT !.state = st] ELSE nodes[m]
    BY <2>2 DEF ScaleTypeOK
  <2> QED BY <2>1, <2>3, SameWorker DEF NoneNew
<1> QED BY <1>3, <1>4, <1>5, <1>6, <1>7, ScaleSteps

\* Then there are no more workers of any kind.
LEMMA FleetShrinks ==
    ASSUME NoneNew
    PROVE  /\ Managed' \subseteq Managed /\ Paid' \subseteq Paid
           /\ Cardinality(Managed') \in Nat /\ Cardinality(Managed) \in Nat
           /\ Cardinality(Paid') \in Nat /\ Cardinality(Paid) \in Nat
           /\ Cardinality(Managed') <= Cardinality(Managed) /\ Cardinality(Paid') <= Cardinality(Paid)
<1>1. Managed' \subseteq Managed /\ Paid' \subseteq Paid /\ Managed \subseteq Nodes /\ Paid \subseteq Nodes
  BY DEF NoneNew, Managed, Paid
<1>2. IsFiniteSet(Managed) /\ IsFiniteSet(Paid)
  BY <1>1, ScaleAssumption, FS_Subset
<1> HIDE DEF Managed, Paid
<1> QED BY <1>1, <1>2, FS_Subset, FS_CardinalityType

\* Each step leaves the scaler alone, ends the tick, or takes it further.
LEMMA PolicyStep ==
    ASSUME ScaleTypeOK, PolicySound, DrainKept, NEW o, \A k \in DOMAIN o : o[k] \in Nat, ScaleNext(o)
    PROVE  PolicySound'
<1>0. scaler \in Reading \cup Reaping \cup Starting \cup Stopping => scaler # Rest
  BY DEF Reading, Reaping, Starting, Stopping, Rest
<1>1. CASE StartTick(o)
  BY <1>1, StartEffect DEF PolicySound
<1>2. CASE ReadBacklog
  BY <1>2, <1>0, ReadEffect, TickKinds DEF PolicySound
<1>3. CASE TakeDecision
  BY <1>3, <1>0, DecideEffect DEF PolicySound
<1>4. CASE TickDies \/ DrainTimeout
  BY <1>4, EndedEffect DEF PolicySound
<1>5. CASE ApplyDecision
  BY <1>5, <1>0, ApplyEffect DEF PolicySound
<1>6. CASE DrainStep
  BY <1>6, <1>0, DrainEffect DEF PolicySound
<1>7. CASE \E ok \in BOOLEAN : Terminate(ok)
  BY <1>7, KillEffect DEF PolicySound
<1>8. CASE \E outcome \in {"ok", "none_left", "locked"} : Launch(outcome)
  BY <1>8, LaunchEffect DEF PolicySound
<1>9. CASE \E n \in Nodes, ok \in BOOLEAN : ReapStuck(n, ok)
  <2>1. scaler \in Reaping /\ scaler'.policy = scaler.policy
    BY <1>9, ReapEffect DEF Reaping
  <2> QED BY <1>0, <2>1 DEF PolicySound
<1>10. CASE TaskStep
  BY <1>10, TaskEffect DEF PolicySound
<1>11. CASE NodeStep
  BY <1>11, NodeEffect DEF PolicySound
<1> QED BY <1>1, <1>2, <1>3, <1>4, <1>5, <1>6, <1>7, <1>8, <1>9, <1>10, <1>11, ScaleSteps

\* Which tick it is tells how far it is.
LEMMA TickAt ==
    /\ Rest.at = "rest"
    /\ \A r \in Reading : r.at = "read"
    /\ \A r \in Reaping : r.at = "reap"
    /\ \A r \in Starting : r.at = "launch"
    /\ \A r \in Stopping : r.at \in {"drain", "kill"}
BY DEF Rest, Reading, Reaping, Starting, Stopping

FleetParts == FleetBounded /\ DecisionKept

\* Where nothing is to be started, only the paid workers are to be counted.
LEMMA FleetCalm ==
    ASSUME ScaleTypeOK, FleetParts, NoneNew, scaler'.at \notin {"reap", "launch"}
    PROVE  FleetParts'
<1>1. Cardinality(Paid') <= MaxOnDemand
  BY FleetShrinks, ScaleAssumption DEF FleetParts, FleetBounded
<1> QED BY <1>1 DEF FleetParts, FleetBounded, DecisionKept

\* What the world does meanwhile makes the fleet smaller only.
LEMMA FleetMeanwhile ==
    ASSUME ScaleTypeOK, FleetParts, NoneNew, scaler' = scaler, tickNo' = tickNo, busyAt' = busyAt,
           waits' \in {0, waits}
    PROVE  FleetParts'
<1>1. Cardinality(Paid') <= MaxOnDemand /\ (Cardinality(Paid) < MaxOnDemand => Cardinality(Paid') < MaxOnDemand)
  BY FleetShrinks, ScaleAssumption DEF FleetParts, FleetBounded
<1>2. ASSUME scaler.at = "launch" PROVE Cardinality(Managed') < scaler.policy["max_instances"]
  <2>1. scaler.policy["max_instances"] \in Nat
    BY <1>2, TickKinds DEF Starting, Policies, OverrideKeys
  <2> QED BY <1>2, <2>1, FleetShrinks DEF FleetParts, FleetBounded
<1>3. FleetBounded'
  BY <1>1, <1>2 DEF FleetBounded
<1>4. DecisionKept'
  BY <1>1, FleetShrinks DEF FleetParts, DecisionKept
<1> QED BY <1>3, <1>4 DEF FleetParts

LEMMA FleetDecided ==
    ASSUME ScaleTypeOK, PolicySound, IdleKept, FleetParts, NoneNew, TakeDecision
    PROVE  FleetParts'
<1> DEFINE live == InState("live")
           pending == InState("booting")
<1>1. /\ scaler \in Reading /\ scaler' \in Reaping /\ scaler'.live = live /\ scaler'.policy = scaler.policy
      /\ scaler'.action \in {"launch", "launch_on_demand"} =>
           pending = {} /\ Cardinality(live) < scaler.policy["max_instances"] /\ waits' = 0
      /\ scaler'.action = "launch_on_demand" => Cardinality({n \in live : ~nodes[n].spot}) < MaxOnDemand
      /\ scaler'.action = "terminate" =>
           /\ idleSince # Never /\ busyAt' = busyAt
           /\ tickNo - idleSince >= scaler.policy["scale_down_after_s"]
      /\ UNCHANGED <<nodes, tickNo>>
  BY DecideEffect
<1>2. scaler'.at = "reap"
  BY <1>1, TickAt
<1>3. FleetBounded'
  BY <1>2, FleetShrinks, ScaleAssumption DEF FleetParts, FleetBounded
<1>4. ASSUME pending = {} PROVE Managed' \subseteq live
  BY <1>1, <1>4 DEF Managed, InState, ScaleTypeOK, Machines
<1>5. ASSUME pending = {}, Cardinality({n \in live : ~nodes[n].spot}) < MaxOnDemand
      PROVE  Cardinality(Paid') < MaxOnDemand
  <2> DEFINE P == {n \in live : ~nodes[n].spot}
  <2>1. Paid' \subseteq P
    BY <1>1, <1>4, <1>5 DEF Paid
  <2>2. IsFiniteSet(P)
    BY ScaleAssumption, FS_Subset DEF InState
  <2>3. Cardinality(P) < MaxOnDemand
    BY <1>5
  <2> HIDE DEF P
  <2> QED BY <2>1, <2>2, <2>3, FS_Subset, FS_CardinalityType, ScaleAssumption
<1>6. scaler'.action = "terminate" => tickNo' - busyAt' > scaler'.policy["scale_down_after_s"]
  <2>1. scaler.policy["scale_down_after_s"] \in Nat
    BY <1>1 DEF Reading, Policies, OverrideKeys
  <2>2. idleSince \in Int /\ tickNo \in Nat /\ busyAt \in Nat
    BY ScaleAssumption DEF ScaleTypeOK, Never
  <2> QED BY <1>1, <2>1, <2>2 DEF IdleKept
<1> HIDE DEF live, pending
<1>7. DecisionKept'
  BY <1>1, <1>2, <1>4, <1>5, <1>6 DEF DecisionKept
<1> QED BY <1>3, <1>7 DEF FleetParts

LEMMA FleetApplied ==
    ASSUME ScaleTypeOK, FleetParts, NoneNew, ApplyDecision
    PROVE  FleetParts'
<1>1. CASE scaler' = Rest \/ scaler' \in Stopping
  BY <1>1, FleetCalm, TickAt
<1>2. CASE /\ scaler.action \in {"launch", "launch_on_demand"} /\ scaler' \in Starting
           /\ scaler'.policy = scaler.policy /\ scaler'.spot = (scaler.action = "launch")
  <2>1. scaler \in Reaping /\ UNCHANGED <<nodes, waits>>
    BY ApplyEffect
  <2>2. scaler.at = "reap" /\ scaler'.at = "launch"
    BY <1>2, <2>1, TickAt
  <2>3. /\ Managed \subseteq scaler.live /\ waits = 0
        /\ Cardinality(scaler.live) < scaler.policy["max_instances"]
        /\ scaler.action = "launch_on_demand" => Cardinality(Paid) < MaxOnDemand
    BY <1>2, <2>2 DEF FleetParts, DecisionKept
  <2>4. Managed' = Managed /\ Paid' = Paid
    BY <2>1 DEF Managed, Paid
  <2>5. Cardinality(Managed) < scaler.policy["max_instances"]
    <3>1. IsFiniteSet(scaler.live)
      BY <2>1, ScaleAssumption, FS_Subset DEF Reaping
    <3>2. scaler.policy["max_instances"] \in Nat
      BY <2>1 DEF Reaping, Policies, OverrideKeys
    <3> HIDE DEF Managed
    <3> QED BY <2>3, <3>1, <3>2, FS_Subset, FS_CardinalityType
  <2>6. Cardinality(Paid) <= MaxOnDemand
    BY DEF FleetParts, FleetBounded
  <2>7. FleetBounded'
    BY <1>2, <2>4, <2>5, <2>6 DEF FleetBounded
  <2>8. DecisionKept'
    BY <1>2, <2>1, <2>2, <2>3, <2>4 DEF DecisionKept
  <2> QED BY <2>7, <2>8 DEF FleetParts
<1> QED BY <1>1, <1>2, ApplyEffect

LEMMA FleetLaunched ==
    ASSUME ScaleTypeOK, FleetParts, NEW outcome \in {"ok", "none_left", "locked"}, Launch(outcome)
    PROVE  FleetParts'
<1>1. scaler \in Starting /\ scaler' = Rest
  BY LaunchEffect
<1>2. Cardinality(Paid) <= MaxOnDemand /\ (~scaler.spot => Cardinality(Paid) < MaxOnDemand)
  BY <1>1, TickAt DEF FleetParts, FleetBounded, DecisionKept
<1>3. IsFiniteSet(Paid) /\ Cardinality(Paid) \in Nat
  BY ScaleAssumption, FS_Subset, FS_CardinalityType DEF Paid, Managed
<1>4. Cardinality(Paid') <= MaxOnDemand
  <2>1. CASE UNCHANGED nodes
    BY <1>2, <2>1 DEF Paid, Managed
  <2>2. CASE \E n \in Nodes :
               /\ nodes[n].state = "none"
               /\ nodes' = [nodes EXCEPT ![n] = [state |-> "booting", spot |-> scaler.spot,
                                                 managed |-> TRUE, born |-> tickNo]]
    <3>1. PICK n \in Nodes :
               /\ nodes[n].state = "none"
               /\ nodes' = [nodes EXCEPT ![n] = [state |-> "booting", spot |-> scaler.spot,
                                                 managed |-> TRUE, born |-> tickNo]]
      BY <2>2
    <3>2. Paid' \subseteq IF scaler.spot THEN Paid ELSE Paid \cup {n}
      BY <3>1 DEF Paid, Managed, ScaleTypeOK
    <3>3. n \notin Paid
      BY <3>1 DEF Paid, Managed
    <3>4. IsFiniteSet(Paid \cup {n}) /\ Cardinality(Paid \cup {n}) = Cardinality(Paid) + 1
      BY <1>3, <3>3, FS_AddElement
    <3> HIDE DEF Paid
    <3>5. CASE scaler.spot
      <4>1. Cardinality(Paid') <= Cardinality(Paid) /\ Cardinality(Paid') \in Nat
        BY <1>3, <3>2, <3>5, FS_Subset, FS_CardinalityType
      <4> QED BY <1>2, <1>3, <4>1, ScaleAssumption
    <3>6. CASE ~scaler.spot
      <4>1. Cardinality(Paid') <= Cardinality(Paid \cup {n}) /\ Cardinality(Paid') \in Nat
        BY <3>2, <3>4, <3>6, FS_Subset, FS_CardinalityType
      <4> QED BY <1>2, <1>3, <3>4, <3>6, <4>1, ScaleAssumption
    <3> QED BY <3>5, <3>6
  <2> QED BY <2>1, <2>2, LaunchEffect
<1>5. scaler'.at = "rest"
  BY <1>1, TickAt
<1> QED BY <1>4, <1>5 DEF FleetParts, FleetBounded, DecisionKept

LEMMA FleetReaped ==
    ASSUME ScaleTypeOK, FleetParts, NoneNew, NEW n \in Nodes, NEW ok \in BOOLEAN, ReapStuck(n, ok)
    PROVE  FleetParts'
<1>1. /\ scaler \in Reaping /\ scaler' \in Reaping /\ scaler' = [scaler EXCEPT !.left = @ \ {n}, !.stuck = TRUE]
      /\ waits' \in {0, waits} /\ UNCHANGED <<tickNo, busyAt>>
  BY ReapEffect
<1>2. scaler'.live = scaler.live /\ scaler'.action = scaler.action /\ scaler'.policy = scaler.policy
  BY <1>1 DEF Reaping
<1>3. scaler.at = "reap" /\ scaler'.at = "reap"
  BY <1>1, TickAt
<1>4. Cardinality(Paid') <= MaxOnDemand /\ (Cardinality(Paid) < MaxOnDemand => Cardinality(Paid') < MaxOnDemand)
  BY FleetShrinks, ScaleAssumption DEF FleetParts, FleetBounded
<1>5. Managed' \subseteq Managed
  BY FleetShrinks
<1> QED BY <1>1, <1>2, <1>3, <1>4, <1>5 DEF FleetParts, FleetBounded, DecisionKept

LEMMA FleetStep ==
    ASSUME ScaleTypeOK, PolicySound, DrainKept, IdleKept, FleetParts,
           NEW o, \A k \in DOMAIN o : o[k] \in Nat, ScaleNext(o)
    PROVE  FleetParts'
<1>1. CASE \E outcome \in {"ok", "none_left", "locked"} : Launch(outcome)
  BY <1>1, FleetLaunched
<1>2. CASE ~ \E outcome \in {"ok", "none_left", "locked"} : Launch(outcome)
  <2>0. NoneNew
    BY <1>2, NothingNew
  <2>1. CASE StartTick(o)
    BY <2>0, <2>1, StartEffect, FleetCalm, TickAt
  <2>2. CASE ReadBacklog
    BY <2>0, <2>2, ReadEffect, FleetCalm, TickAt
  <2>3. CASE TakeDecision
    BY <2>0, <2>3, FleetDecided
  <2>4. CASE TickDies \/ DrainTimeout
    BY <2>0, <2>4, EndedEffect, FleetCalm, TickAt
  <2>5. CASE ApplyDecision
    BY <2>0, <2>5, FleetApplied
  <2>6. CASE DrainStep
    BY <2>0, <2>6, DrainEffect, FleetCalm, TickAt
  <2>7. CASE \E ok \in BOOLEAN : Terminate(ok)
    BY <2>0, <2>7, KillEffect, FleetCalm, TickAt
  <2>8. CASE \E n \in Nodes, ok \in BOOLEAN : ReapStuck(n, ok)
    BY <2>0, <2>8, FleetReaped
  <2>9. CASE TaskStep
    BY <2>0, <2>9, TaskEffect, FleetMeanwhile
  <2>10. CASE NodeStep
    BY <2>0, <2>10, NodeEffect, FleetMeanwhile
  <2> QED BY <1>2, <2>1, <2>2, <2>3, <2>4, <2>5, <2>6, <2>7, <2>8, <2>9, <2>10, ScaleSteps
<1> QED BY <1>1, <1>2

IdleParts == IdleKept /\ IdleBeforeStop

LEMMA IdleStep ==
    ASSUME ScaleTypeOK, PolicySound, DrainKept, DecisionKept, IdleParts,
           NEW o, \A k \in DOMAIN o : o[k] \in Nat, ScaleNext(o)
    PROVE  IdleParts'
<1>0. tickNo \in Nat /\ busyAt \in Nat /\ idleSince \in Int
  BY ScaleAssumption DEF ScaleTypeOK, Never
<1>a. ASSUME UNCHANGED <<idleSince, tickNo, busyAt>>, scaler'.at \in {"rest", "reap", "launch"}
      PROVE  IdleParts'
  BY <1>a DEF IdleParts, IdleKept, IdleBeforeStop
<1>b. ASSUME UNCHANGED <<idleSince, tickNo, busyAt, scaler>> PROVE IdleParts'
  BY <1>b DEF IdleParts, IdleKept, IdleBeforeStop
<1>1. CASE StartTick(o)
  <2>1. scaler'.at = "read" /\ tickNo' = tickNo + 1 /\ UNCHANGED <<idleSince, busyAt>>
    BY <1>1, StartEffect, TickAt
  <2> QED BY <1>0, <2>1 DEF IdleParts, IdleKept, IdleBeforeStop
<1>2. CASE ReadBacklog
  <2>1. scaler.at = "read" /\ scaler'.at = "read" /\ UNCHANGED <<idleSince, tickNo, busyAt>>
    BY <1>2, ReadEffect, TickAt
  <2> QED BY <2>1 DEF IdleParts, IdleKept, IdleBeforeStop
<1>3. CASE TakeDecision
  <2>1. scaler.at = "read" /\ scaler'.at = "reap" /\ tickNo' = tickNo /\ busyAt' \in {busyAt, tickNo}
    BY <1>3, DecideEffect, TickAt
  <2>2. \/ idleSince' = Never
        \/ busyAt' = busyAt /\ idleSince' = IF idleSince = Never THEN tickNo ELSE idleSince
    BY <1>3, DecideEffect
  <2> QED BY <1>0, <2>1, <2>2 DEF IdleParts, IdleKept, IdleBeforeStop
<1>4. CASE TickDies \/ DrainTimeout
  BY <1>a, <1>4, EndedEffect, TickAt
<1>5. CASE ApplyDecision
  <2>1. scaler.at = "reap" /\ UNCHANGED <<idleSince, tickNo, busyAt>>
    BY <1>5, ApplyEffect, TickAt
  <2>2. CASE scaler.action = "terminate" /\ scaler'.at = "drain" /\ scaler'.policy = scaler.policy
    BY <2>1, <2>2 DEF IdleParts, IdleKept, IdleBeforeStop, DecisionKept
  <2>3. CASE scaler'.at \in {"rest", "launch"}
    BY <1>a, <2>1, <2>3
  <2> QED BY <1>5, <2>2, <2>3, ApplyEffect, TickAt
<1>6. CASE DrainStep
  <2>1. /\ scaler.at \in {"drain", "kill"} /\ scaler'.at \in {"drain", "kill"} /\ scaler'.policy = scaler.policy
        /\ UNCHANGED <<idleSince, tickNo, busyAt>>
    BY <1>6, DrainEffect, TickAt
  <2> QED BY <2>1 DEF IdleParts, IdleKept, IdleBeforeStop
<1>7. CASE \E ok \in BOOLEAN : Terminate(ok)
  <2>1. /\ scaler'.at = "rest" /\ tickNo' = tickNo
        /\ (idleSince' = Never /\ busyAt' = tickNo) \/ UNCHANGED <<idleSince, busyAt>>
    BY <1>7, KillEffect, TickAt
  <2> QED BY <1>0, <2>1 DEF IdleParts, IdleKept, IdleBeforeStop
<1>8. CASE \E outcome \in {"ok", "none_left", "locked"} : Launch(outcome)
  BY <1>a, <1>8, LaunchEffect, TickAt
<1>9. CASE \E n \in Nodes, ok \in BOOLEAN : ReapStuck(n, ok)
  <2>1. scaler'.at = "reap" /\ UNCHANGED <<idleSince, tickNo, busyAt>>
    BY <1>9, ReapEffect, TickAt
  <2> QED BY <1>a, <2>1
<1>10. CASE TaskStep
  BY <1>b, <1>10, TaskEffect
<1>11. CASE NodeStep
  BY <1>b, <1>11, NodeEffect
<1> QED BY <1>1, <1>2, <1>3, <1>4, <1>5, <1>6, <1>7, <1>8, <1>9, <1>10, <1>11, ScaleSteps

\* A drain has passed all streams when it stops the worker.
LEMMA DrainIsHonest ==
    ASSUME ScaleTypeOK, DrainKept PROVE DrainHonest
<1> SUFFICES ASSUME scaler.at = "kill", NEW t \in Tasks, work[t].at = "taken" PROVE work[t].late
  BY DEF DrainHonest
<1>1. scaler.passed = {Streams[i] : i \in 1..scaler.next-1} /\ scaler.next = Len(Streams) + 1
  BY DEF DrainKept
<1>2. scaler.passed = StreamIds
  BY <1>1, ScaleAssumption DEF StreamIds
<1>3. work[t].stream \in StreamIds
  BY DEF ScaleTypeOK
<1> QED BY <1>2, <1>3 DEF DrainKept

LEMMA DrainKeptStep ==
    ASSUME ScaleTypeOK, PolicySound, DrainKept, NEW o, \A k \in DOMAIN o : o[k] \in Nat, ScaleNext(o)
    PROVE  DrainKept'
<1>a. ASSUME scaler'.at \in {"rest", "read", "reap", "launch"} PROVE DrainKept'
  BY <1>a DEF DrainKept
<1>b. ASSUME scaler' = scaler,
             \A t \in Tasks : work'[t].at = "taken" =>
                \/ work'[t] = work[t]
                \/ /\ work'[t].stream = work[t].stream
                   /\ work'[t].late = (scaler.at \in {"drain", "kill"} /\ work[t].stream \in scaler.passed)
      PROVE  DrainKept'
  BY <1>b DEF DrainKept
<1>1. CASE StartTick(o)
  BY <1>a, <1>1, StartEffect, TickAt
<1>2. CASE ReadBacklog
  BY <1>a, <1>2, ReadEffect, TickAt
<1>3. CASE TakeDecision
  BY <1>a, <1>3, DecideEffect, TickAt
<1>4. CASE TickDies \/ DrainTimeout
  BY <1>a, <1>4, EndedEffect, TickAt
<1>5. CASE ApplyDecision
  <2>1. CASE scaler'.at = "drain" /\ scaler'.next = 1 /\ scaler'.passed = {}
    <3>1. scaler'.next # Len(Streams) + 1 /\ {Streams[i] : i \in 1..1-1} = {}
      BY <2>1, ScaleAssumption
    <3> QED BY <2>1, <3>1 DEF DrainKept
  <2> QED BY <1>a, <1>5, <2>1, ApplyEffect, TickAt
<1>6. CASE DrainStep
  <2>1. /\ scaler.at \in {"drain", "kill"} /\ work' = work
        /\ scaler'.passed = {Streams[i] : i \in 1..scaler'.next-1}
        /\ scaler'.next = Len(Streams) + 1 <=> scaler'.at = "kill"
        /\ \/ scaler'.passed = {}
           \/ \E s \in StreamIds : Taken(s) = {} /\ scaler'.passed = scaler.passed \cup {s}
    BY <1>6, DrainEffect, TickAt
  <2>2. \A t \in Tasks : work[t].at = "taken" /\ work[t].stream \in scaler'.passed => work[t].late
    BY <2>1 DEF DrainKept, Taken
  <2> QED BY <2>1, <2>2 DEF DrainKept
<1>7. CASE \E ok \in BOOLEAN : Terminate(ok)
  BY <1>a, <1>7, KillEffect, TickAt
<1>8. CASE \E outcome \in {"ok", "none_left", "locked"} : Launch(outcome)
  BY <1>a, <1>8, LaunchEffect, TickAt
<1>9. CASE \E n \in Nodes, ok \in BOOLEAN : ReapStuck(n, ok)
  BY <1>a, <1>9, ReapEffect, TickAt
<1>10. CASE TaskStep
  BY <1>b, <1>10, TaskEffect
<1>11. CASE NodeStep
  <2>1. scaler' = scaler /\ (work' = work \/ \E n : work' = Lost(n))
    BY <1>11, NodeEffect
  <2>2. ASSUME NEW n, work' = Lost(n), NEW t \in Tasks, work'[t].at = "taken" PROVE work'[t] = work[t]
    <3>1. work[t] \in Works
      BY ScaleTypes
    <3>2. [work[t] EXCEPT !.at = "lost"].at = "lost"
      BY <3>1 DEF Works
    <3> QED BY <2>2, <3>2, LostTasks
  <2> QED BY <1>b, <2>1, <2>2
<1> QED BY <1>1, <1>2, <1>3, <1>4, <1>5, <1>6, <1>7, <1>8, <1>9, <1>10, <1>11, ScaleSteps

BootParts == BootsKept /\ BootBounded

\* A step that makes no worker boot, and lets no tick start or decide.
LEMMA BootsCalm ==
    ASSUME ScaleTypeOK, BootParts, NoneNew, scaler'.at # "read" \/ scaler.at = "read",
           waits' \in {0, waits}, tickNo' = tickNo,
           waits' # 0 => InState("booting")' \subseteq InState("booting"),
           waits' # 0 /\ scaler.at = "reap" => scaler' = scaler \/ scaler.left = {}
    PROVE  BootParts'
<1>0. /\ tickNo \in Nat /\ waits \in Nat /\ BootTimeout \in Nat \ {0} /\ \A n \in Nodes : nodes[n].born \in Nat
  BY ScaleAssumption DEF ScaleTypeOK, Machines
<1>1. \A n \in Nodes : nodes'[n].state # "none" =>
        nodes'[n].born + waits' + (IF scaler'.at = "read" THEN 1 ELSE 0) <= tickNo'
  BY <1>0 DEF BootParts, BootsKept, NoneNew
<1>2. BootBounded'
  BY <1>0 DEF BootParts, BootBounded
<1>3. ASSUME waits' = BootTimeout
      PROVE  InState("booting")' \subseteq IF scaler'.at = "reap" THEN scaler'.left ELSE {}
  <2>1. waits' # 0 /\ waits = BootTimeout
    BY <1>0, <1>3
  <2>2. InState("booting") \subseteq IF scaler.at = "reap" THEN scaler.left ELSE {}
    BY <2>1 DEF BootParts, BootsKept
  <2> HIDE DEF InState
  <2> QED BY <2>1, <2>2
<1> QED BY <1>1, <1>2, <1>3 DEF BootParts, BootsKept

LEMMA BootsDecided ==
    ASSUME ScaleTypeOK, PolicySound, BootParts, NoneNew, TakeDecision
    PROVE  BootParts'
<1> DEFINE pending == InState("booting")
           wedged == {n \in pending : StuckBooting(n)}
<1>0. /\ tickNo \in Nat /\ waits \in Nat /\ BootTimeout \in Nat \ {0} /\ \A n \in Nodes : nodes[n].born \in Nat
  BY ScaleAssumption DEF ScaleTypeOK, Machines
<1>1. /\ scaler.at = "read" /\ scaler'.at = "reap" /\ scaler'.left = wedged /\ tickNo' = tickNo /\ nodes' = nodes
      /\ waits' = 0 \/ (pending # {} /\ pending \subseteq Managed /\ waits' = waits + 1)
  BY DecideEffect, TickAt
<1>2. \A n \in Nodes : nodes[n].state # "none" => nodes[n].born + waits + 1 <= tickNo
  BY <1>1 DEF BootParts, BootsKept
<1>3. \A n \in Nodes : nodes'[n].state # "none" =>
        nodes'[n].born + waits' + (IF scaler'.at = "read" THEN 1 ELSE 0) <= tickNo'
  BY <1>0, <1>1, <1>2
<1>4. pending' = pending
  BY <1>1 DEF InState
<1>5. ASSUME waits' = BootTimeout PROVE pending \subseteq wedged
  <2>1. pending \subseteq Managed /\ waits' = waits + 1
    BY <1>0, <1>1, <1>5
  <2> SUFFICES ASSUME NEW n \in pending PROVE StuckBooting(n)
    OBVIOUS
  <2>2. n \in Nodes /\ nodes[n].state # "none" /\ nodes[n].managed
    BY <2>1 DEF InState, Managed
  <2>3. nodes[n].born \in Nat /\ nodes[n].born + waits + 1 <= tickNo
    BY <1>0, <1>2, <2>2
  <2> QED BY <1>0, <1>5, <2>1, <2>2, <2>3 DEF StuckBooting
<1>6. BootBounded'
  <2>1. CASE waits' = 0
    BY <1>0, <2>1 DEF BootBounded
  <2>2. CASE pending # {} /\ waits' = waits + 1
    <3>1. waits # BootTimeout
      BY <1>1, <2>2 DEF BootParts, BootsKept
    <3> QED BY <1>0, <2>2, <3>1 DEF BootParts, BootBounded
  <2> QED BY <1>1, <2>1, <2>2
<1> HIDE DEF wedged, pending
<1>7. waits' = BootTimeout => pending' \subseteq IF scaler'.at = "reap" THEN scaler'.left ELSE {}
  BY <1>1, <1>4, <1>5
<1> QED BY <1>3, <1>6, <1>7 DEF BootParts, BootsKept, pending

LEMMA BootsLaunched ==
    ASSUME ScaleTypeOK, BootParts, FleetParts, NEW outcome \in {"ok", "none_left", "locked"}, Launch(outcome)
    PROVE  BootParts'
<1>0. /\ tickNo \in Nat /\ waits \in Nat /\ BootTimeout \in Nat \ {0} /\ \A n \in Nodes : nodes[n].born \in Nat
  BY ScaleAssumption DEF ScaleTypeOK, Machines
<1>1. scaler.at = "launch" /\ scaler'.at = "rest" /\ waits' = waits /\ tickNo' = tickNo
  BY LaunchEffect, TickAt
<1>2. waits = 0
  BY <1>1 DEF FleetParts, DecisionKept
<1>3. BootBounded' /\ waits' # BootTimeout
  BY <1>0, <1>1, <1>2 DEF BootBounded
<1>4. \A n \in Nodes : nodes[n].state # "none" => nodes[n].born <= tickNo
  BY <1>0, <1>1, <1>2 DEF BootParts, BootsKept
<1>5. \A n \in Nodes : nodes'[n].state # "none" => nodes'[n].born <= tickNo
  <2>1. CASE UNCHANGED nodes
    BY <1>4, <2>1
  <2>2. CASE \E n \in Nodes :
               /\ nodes[n].state = "none"
               /\ nodes' = [nodes EXCEPT ![n] = [state |-> "booting", spot |-> scaler.spot,
                                                 managed |-> TRUE, born |-> tickNo]]
    BY <1>0, <1>4, <2>2 DEF ScaleTypeOK
  <2> QED BY <2>1, <2>2, LaunchEffect
<1>6. \A n \in Nodes : nodes'[n].state # "none" => nodes'[n].born \in Nat
  <2>1. CASE UNCHANGED nodes
    BY <1>0, <2>1
  <2>2. CASE \E n \in Nodes :
               /\ nodes[n].state = "none"
               /\ nodes' = [nodes EXCEPT ![n] = [state |-> "booting", spot |-> scaler.spot,
                                                 managed |-> TRUE, born |-> tickNo]]
    BY <1>0, <2>2 DEF ScaleTypeOK
  <2> QED BY <2>1, <2>2, LaunchEffect
<1>7. \A n \in Nodes : nodes'[n].state # "none" =>
        nodes'[n].born + waits' + (IF scaler'.at = "read" THEN 1 ELSE 0) <= tickNo'
  BY <1>0, <1>1, <1>2, <1>5, <1>6
<1> QED BY <1>3, <1>7 DEF BootParts, BootsKept

LEMMA BootsReaped ==
    ASSUME ScaleTypeOK, BootParts, NoneNew, NEW n \in Nodes, NEW ok \in BOOLEAN, ReapStuck(n, ok)
    PROVE  BootParts'
<1>0. /\ tickNo \in Nat /\ waits \in Nat /\ BootTimeout \in Nat \ {0} /\ \A m \in Nodes : nodes[m].born \in Nat
  BY ScaleAssumption DEF ScaleTypeOK, Machines
<1>1. /\ scaler.at = "reap" /\ scaler'.at = "reap" /\ scaler'.left = scaler.left \ {n} /\ tickNo' = tickNo
  BY ReapEffect, TickAt DEF Reaping
<1>2. \/ waits' = waits /\ \A m \in Nodes : nodes'[m] = IF m = n THEN [nodes[n] EXCEPT !.state = "none"] ELSE nodes[m]
      \/ waits' = 0
  BY ReapEffect
<1>3. \A m \in Nodes : nodes'[m].state # "none" =>
        nodes'[m].born + waits' + (IF scaler'.at = "read" THEN 1 ELSE 0) <= tickNo'
  BY <1>0, <1>1, <1>2 DEF BootParts, BootsKept, NoneNew
<1>4. BootBounded'
  BY <1>0, <1>2 DEF BootParts, BootBounded
<1>5. ASSUME waits' = BootTimeout PROVE InState("booting")' \subseteq scaler'.left
  <2>1. /\ waits = BootTimeout
        /\ \A m \in Nodes : nodes'[m] = IF m = n THEN [nodes[n] EXCEPT !.state = "none"] ELSE nodes[m]
    BY <1>0, <1>2, <1>5
  <2>2. InState("booting") \subseteq scaler.left
    BY <1>1, <2>1 DEF BootParts, BootsKept
  <2>3. nodes'[n].state = "none"
    <3> DEFINE r == [nodes[n] EXCEPT !.state = "none"]
    <3>1. r.state = "none"
      BY SameWorker
    <3>2. nodes'[n] = r
      BY <2>1
    <3> HIDE DEF r
    <3> QED BY <3>1, <3>2
  <2>4. InState("booting")' \subseteq InState("booting") \ {n}
    BY <2>1, <2>3 DEF InState
  <2> QED BY <1>1, <2>2, <2>4
<1> QED BY <1>1, <1>3, <1>4, <1>5 DEF BootParts, BootsKept

LEMMA BootsStarted ==
    ASSUME ScaleTypeOK, BootParts, NEW o, \A k \in DOMAIN o : o[k] \in Nat, StartTick(o)
    PROVE  BootParts'
<1>0. /\ tickNo \in Nat /\ waits \in Nat /\ \A n \in Nodes : nodes[n].born \in Nat
  BY ScaleAssumption DEF ScaleTypeOK, Machines
<1>1. /\ scaler.at = "rest" /\ scaler'.at = "read" /\ tickNo' = tickNo + 1 /\ waits' = waits /\ nodes' = nodes
  BY StartEffect, TickAt
<1>2. InState("booting")' = InState("booting")
  BY <1>1 DEF InState
<1>3. \A n \in Nodes : nodes'[n].state # "none" => nodes'[n].born + waits' + 1 <= tickNo'
  BY <1>0, <1>1 DEF BootParts, BootsKept
<1> QED BY <1>1, <1>2, <1>3 DEF BootParts, BootsKept, BootBounded

LEMMA BootsStep ==
    ASSUME ScaleTypeOK, PolicySound, DrainKept, FleetParts, BootParts,
           NEW o, \A k \in DOMAIN o : o[k] \in Nat, ScaleNext(o)
    PROVE  BootParts'
<1>1. CASE \E outcome \in {"ok", "none_left", "locked"} : Launch(outcome)
  BY <1>1, BootsLaunched
<1>2. CASE ~ \E outcome \in {"ok", "none_left", "locked"} : Launch(outcome)
  <2>0. NoneNew
    BY <1>2, NothingNew
  <2>a. UNCHANGED nodes => InState("booting")' = InState("booting")
    BY DEF InState
  <2>b. (\A m \in Nodes : nodes'[m] = nodes[m] \/ nodes'[m] = [nodes[m] EXCEPT !.state = "none"])
           => InState("booting")' \subseteq InState("booting")
    <3> SUFFICES ASSUME NEW m \in Nodes, nodes'[m].state = "booting",
                        nodes'[m] = nodes[m] \/ nodes'[m] = [nodes[m] EXCEPT !.state = "none"]
                 PROVE  nodes[m].state = "booting"
      BY DEF InState
    <3> DEFINE r == [nodes[m] EXCEPT !.state = "none"]
    <3>1. r.state = "none"
      BY SameWorker
    <3> HIDE DEF r
    <3> QED BY <3>1 DEF r
  <2>1. CASE StartTick(o)
    BY <2>1, BootsStarted
  <2>2. CASE ReadBacklog
    BY <2>0, <2>a, <2>2, ReadEffect, BootsCalm, TickAt
  <2>3. CASE TakeDecision
    BY <2>0, <2>3, BootsDecided
  <2>4. CASE TickDies \/ DrainTimeout
    <3>1. scaler.at # "reap"
      BY <2>4 DEF TickDies, DrainTimeout
    <3> QED BY <2>0, <2>a, <2>4, <3>1, EndedEffect, BootsCalm, TickAt
  <2>5. CASE ApplyDecision
    <3>1. scaler.left = {} /\ scaler'.at # "read" /\ UNCHANGED <<nodes, tickNo, waits>>
      BY <2>5, ApplyEffect, TickAt
    <3> QED BY <2>0, <2>a, <3>1, BootsCalm
  <2>6. CASE DrainStep
    <3>1. scaler.at # "reap" /\ scaler'.at # "read" /\ UNCHANGED <<nodes, tickNo, waits>>
      BY <2>6, DrainEffect, TickAt
    <3> QED BY <2>0, <2>a, <3>1, BootsCalm
  <2>7. CASE \E ok \in BOOLEAN : Terminate(ok)
    <3>1. scaler.at # "reap" /\ scaler'.at # "read" /\ UNCHANGED <<tickNo, waits>>
      BY <2>7, KillEffect, TickAt DEF Terminate
    <3>2. InState("booting")' \subseteq InState("booting")
      BY <2>7, <2>b, KillEffect
    <3> QED BY <2>0, <3>1, <3>2, BootsCalm
  <2>8. CASE \E n \in Nodes, ok \in BOOLEAN : ReapStuck(n, ok)
    BY <2>0, <2>8, BootsReaped
  <2>9. CASE TaskStep
    BY <2>0, <2>a, <2>9, TaskEffect, BootsCalm
  <2>10. CASE NodeStep
    <3>1. scaler' = scaler /\ tickNo' = tickNo /\ waits' \in {0, waits}
      BY <2>10, NodeEffect
    <3>2. ASSUME waits' # 0 PROVE InState("booting")' \subseteq InState("booting")
      <4>1. PICK n \in Nodes, st \in {"none", "booting", "live"} :
              nodes' = [nodes EXCEPT ![n].state = st] /\ (st = "booting" => waits' = 0)
        BY <2>10, NodeEffect
      <4>2. \A m \in Nodes : nodes'[m] = IF m = n THEN [nodes[n] EXCEPT !.state = st] ELSE nodes[m]
        BY <4>1 DEF ScaleTypeOK
      <4>3. nodes'[n].state # "booting"
        <5> DEFINE r == [nodes[n] EXCEPT !.state = st]
        <5>1. r.state = st
          BY SameWorker
        <5>2. nodes'[n] = r
          BY <4>2
        <5> HIDE DEF r
        <5> QED BY <3>2, <4>1, <5>1, <5>2
      <4> QED BY <4>2, <4>3 DEF InState
    <3> QED BY <2>0, <3>1, <3>2, BootsCalm
  <2> QED BY <1>2, <2>1, <2>2, <2>3, <2>4, <2>5, <2>6, <2>7, <2>8, <2>9, <2>10, ScaleSteps
<1> QED BY <1>1, <1>2

\* At the start the shape has the workers that the scenario says, and no tick runs.
LEMMA ScaleStart == ASSUME NEW s \in Scenarios, ScaleInit(s) PROVE ScaleInv
<1>0. /\ s.ticks \in 0..MaxTicks /\ s.woes \in Nat /\ DOMAIN s.fleet \subseteq Nodes /\ MaxTicks \in Nat
      /\ \A n \in DOMAIN s.fleet : s.fleet[n] \in Machines /\ s.fleet[n].born <= s.ticks
      /\ Cardinality({n \in DOMAIN s.fleet : s.fleet[n].managed /\ ~s.fleet[n].spot}) <= MaxOnDemand
  BY ScenariosAssumption, ScaleAssumption
<1> DEFINE none == [state |-> "none", spot |-> TRUE, managed |-> TRUE, born |-> 0]
<1>1. none \in Machines
  BY <1>0 DEF Machines
<1>2. nodes = [n \in Nodes |-> IF n \in DOMAIN s.fleet THEN s.fleet[n] ELSE none]
  BY DEF ScaleInit
<1>a. none.state = "none" /\ none.born = 0 /\ none.spot
  OBVIOUS
<1> HIDE DEF none
<1>3. nodes \in [Nodes -> Machines]
  BY <1>0, <1>1, <1>2
<1>4. Streams[1] \in StreamIds
  BY ScaleAssumption DEF StreamIds
<1>5. scaler = Rest /\ scaler.at = "rest" /\ idleSince = Never /\ blocked = 0 /\ backOff = 0
      /\ tickNo = s.ticks /\ woes = s.woes /\ busyAt = s.ticks /\ waits = 0
  BY DEF ScaleInit, Rest
<1>6. work \in [Tasks -> Works]
  BY <1>4 DEF ScaleInit, Works
<1>7. ScaleTypeOK
  BY <1>0, <1>3, <1>5, <1>6, ScaleTypes DEF TickTypes, Others
<1>8. FleetBounded
  <2> DEFINE P == {n \in DOMAIN s.fleet : s.fleet[n].managed /\ ~s.fleet[n].spot}
  <2>1. Paid \subseteq P
    BY <1>2, <1>a DEF Paid, Managed
  <2>2. IsFiniteSet(P) /\ Cardinality(P) <= MaxOnDemand
    BY <1>0, ScaleAssumption, FS_Subset
  <2> HIDE DEF P
  <2>3. Cardinality(Paid) <= MaxOnDemand
    BY <2>1, <2>2, FS_Subset, FS_CardinalityType, ScaleAssumption
  <2> QED BY <1>5, <2>3 DEF FleetBounded
<1>9. BootsKept
  <2>1. \A n \in Nodes : nodes[n].state # "none" => nodes[n].born <= tickNo /\ nodes[n].born \in Nat
    BY <1>0, <1>2, <1>3, <1>5, <1>a DEF Machines
  <2> QED BY <1>0, <1>5, <2>1, ScaleAssumption DEF BootsKept
<1> QED BY <1>0, <1>5, <1>7, <1>8, <1>9, ScaleAssumption
        DEF ScaleInv, PolicySound, IdleBeforeStop, DrainHonest, BootBounded, DecisionKept, IdleKept, DrainKept

\* What another part of the service does leaves the shape alone.
LEMMA ScaleAlone == ASSUME ScaleInv, UNCHANGED scaleVars PROVE ScaleInv'
<1>1. /\ nodes' = nodes /\ work' = work /\ scaler' = scaler /\ idleSince' = idleSince /\ blocked' = blocked
      /\ backOff' = backOff /\ tickNo' = tickNo /\ woes' = woes /\ busyAt' = busyAt /\ waits' = waits
  BY DEF scaleVars
<1>2. Managed' = Managed /\ Paid' = Paid /\ InState("booting")' = InState("booting")
  BY <1>1 DEF Managed, Paid, InState
<1>3. ScaleTypeOK' /\ FleetBounded' /\ PolicySound' /\ IdleBeforeStop'
  BY <1>1, <1>2 DEF ScaleInv, ScaleTypeOK, FleetBounded, PolicySound, IdleBeforeStop
<1>4. DrainHonest' /\ BootBounded' /\ DecisionKept' /\ IdleKept' /\ DrainKept' /\ BootsKept'
  BY <1>1, <1>2 DEF ScaleInv, DrainHonest, BootBounded, DecisionKept, IdleKept, DrainKept, BootsKept
<1> QED BY <1>3, <1>4 DEF ScaleInv

LEMMA ScaleStep ==
    ASSUME ScaleInv, NEW o, \A k \in DOMAIN o : o[k] \in Nat, ScaleNext(o)
    PROVE  ScaleInv'
<1>1. /\ ScaleTypeOK /\ PolicySound /\ DrainKept /\ IdleKept /\ DecisionKept
      /\ FleetParts /\ IdleParts /\ BootParts
  BY DEF ScaleInv, FleetParts, IdleParts, BootParts
<1>2. ScaleTypeOK' /\ PolicySound' /\ DrainKept'
  BY <1>1, ScaleTypeStep, PolicyStep, DrainKeptStep
<1>3. FleetParts' /\ IdleParts' /\ BootParts'
  BY <1>1, FleetStep, IdleStep, BootsStep
<1>4. DrainHonest'
  BY <1>2, DrainIsHonest, PTL
<1> QED BY <1>2, <1>3, <1>4 DEF ScaleInv, FleetParts, IdleParts, BootParts

\* The autoscaler starts no more workers than the policy in force allows, booting ones
\* included, and no more paid ones than their own limit; it stops a worker only after the
\* shape was seen idle for as long as the policy asks, and none that still holds a task of
\* before the drain; and a worker that does not come up is waited for no longer than the
\* limit: for any fleet, tasks, policy and overrides.
THEOREM ScaleInvariant == Spec => []ScaleInv
<1>1. Init => ScaleInv
  BY ScaleStart DEF Init
<1>2. SettingsInv /\ ScaleInv /\ [Next]_vars => ScaleInv'
  <2>1. ASSUME SettingsInv, ScaleInv, ScaleNext(Overrides) PROVE ScaleInv'
    <3>1. \A k \in DOMAIN Overrides : Overrides[k] \in Nat
      BY <2>1 DEF Overrides, SettingsInv, SettingsTypeOK, Value
    <3> HIDE DEF Overrides
    <3> QED BY <2>1, <3>1, ScaleStep
  <2>2. [Next]_vars => ScaleNext(Overrides) \/ UNCHANGED scaleVars
    BY DEF Next, vars
  <2> QED BY <2>1, <2>2, ScaleAlone
<1> QED BY <1>1, <1>2, SettingsInvariant, PTL DEF Spec

-----------------------------------------------------------------------------
(* Recordings *)

\* A set of natural numbers that has zero and the successors of its elements
\* has every natural number.
LEMMA Induction ==
    ASSUME NEW N, 0 \in N, \A n \in Nat : n \in N => n + 1 \in N
    PROVE  Nat \subseteq N
<1> SUFFICES ASSUME Nat \ N # {} PROVE FALSE
  OBVIOUS
<1> DEFINE R == OpToRel(<, Nat)
<1>1. IsWellFoundedOn(R, Nat)
  BY NatLessThanWellFounded
<1>2. PICK x \in Nat \ N : \A y \in Nat \ N : ~(<<y, x>> \in R)
  <2> HIDE DEF R
  <2> QED BY <1>1, WFMin
<1>3. \A y \in Nat \ N : ~(y < x)
  BY <1>2 DEF OpToRel
<1>4. x # 0 /\ x - 1 \in Nat
  OBVIOUS
<1>5. x - 1 \in N
  BY <1>3, <1>4
<1> QED BY <1>4, <1>5

\* A recursion over the numbers up to n, from base by step.
Steps(n, S, base, step) == n \in Nat /\ base \in S /\ step \in [1..n -> [S -> S]]
Solves(f, n, S, base, step) ==
    f \in [0..n -> S] /\ f[0] = base /\ \A i \in 1..n : f[i] = step[i][f[i - 1]]

\* It computes something.
LEMMA Recursion ==
    ASSUME NEW n, NEW S, NEW base, NEW step, Steps(n, S, base, step)
    PROVE  \E f : Solves(f, n, S, base, step)
<1>0. n \in Nat /\ base \in S /\ step \in [1..n -> [S -> S]]
  BY DEF Steps
<1> DEFINE Upto(k, f) == /\ f \in [0..k -> S] /\ f[0] = base
                         /\ \A i \in 1..k : f[i] = step[i][f[i - 1]]
           N == {k \in Nat : k <= n => \E f : Upto(k, f)}
<1>1. 0 \in N
  <2>1. Upto(0, [i \in 0..0 |-> base])
    BY <1>0
  <2> QED BY <2>1
<1>2. ASSUME NEW k \in Nat, k \in N PROVE k + 1 \in N
  <2> SUFFICES ASSUME k + 1 <= n PROVE \E f : Upto(k + 1, f)
    OBVIOUS
  <2>1. PICK f : Upto(k, f)
    BY <1>2, <1>0
  <2>2. f[k] \in S /\ k + 1 \in 1..n
    BY <2>1, <1>0
  <2> DEFINE g == [i \in 0..(k + 1) |-> IF i <= k THEN f[i] ELSE step[k + 1][f[k]]]
  <2>3. \A i \in 0..k : g[i] = f[i]
    OBVIOUS
  <2>4. g[k + 1] = step[k + 1][f[k]] /\ step[k + 1][f[k]] \in S
    BY <2>2, <1>0
  <2>5. g \in [0..(k + 1) -> S]
    BY <2>1, <2>4
  <2> HIDE DEF g
  <2>6. \A i \in 1..(k + 1) : g[i] = step[i][g[i - 1]]
    <3> TAKE i \in 1..(k + 1)
    <3>1. CASE i \in 1..k
      BY <3>1, <2>1, <2>3
    <3>2. CASE i = k + 1
      BY <3>2, <2>3, <2>4
    <3> QED BY <3>1, <3>2
  <2>7. g[0] = base
    BY <2>1, <2>3
  <2> QED BY <2>5, <2>6, <2>7
<1>3. n \in N
  <2> HIDE DEF N
  <2>1. Nat \subseteq N
    BY <1>1, <1>2, Induction
  <2> QED BY <2>1, <1>0
<1>4. PICK f : Upto(n, f)
  BY <1>3, <1>0
<1> QED BY <1>4 DEF Solves

\* Multiples of c, as the frames of a recording and the pieces of a region use them.
Mult(k, c) == k * c

LEMMA MultSteps ==
    ASSUME NEW c \in Nat \ {0}, NEW k \in Int
    PROVE  /\ Mult(k, c) \in Int /\ Mult(0, c) = 0 /\ Mult(k + 1, c) = Mult(k, c) + c
           /\ k \in Nat => Mult(k, c) \in Nat
BY DEF Mult

LEMMA MultGrows ==
    ASSUME NEW c \in Nat \ {0}, NEW k \in Int, NEW l \in Int, k < l
    PROVE  Mult(k, c) + c <= Mult(l, c)
<1>1. PICK d \in Nat : l = k + 1 + d
  <2>1. l - k - 1 \in Nat /\ l = k + 1 + (l - k - 1)
    OBVIOUS
  <2> QED BY <2>1
<1>2. d * c \in Nat
  OBVIOUS
<1>3. l * c = k * c + c + d * c
  BY <1>1
<1> QED BY <1>2, <1>3 DEF Mult

\* Which multiple a number lies at.
LEMMA MultBelow ==
    ASSUME NEW c \in Nat \ {0}, NEW y \in Nat
    PROVE  y \div c \in Nat /\ Mult(y \div c, c) <= y /\ y < Mult((y \div c) + 1, c)
<1>1. y \div c \in Nat
  OBVIOUS
<1>2. (y \div c) * c <= y /\ y < (y \div c) * c + c
  OBVIOUS
<1>3. Mult((y \div c) + 1, c) = Mult(y \div c, c) + c
  BY <1>1, MultSteps
<1> QED BY <1>1, <1>2, <1>3 DEF Mult

LEMMA MultAt ==
    ASSUME NEW c \in Nat \ {0}, NEW y \in Nat, NEW m \in Nat, Mult(m, c) <= y, y < Mult(m + 1, c)
    PROVE  y \div c = m
<1> DEFINE q == y \div c
<1>1. q \in Nat /\ Mult(q, c) <= y /\ y < Mult(q + 1, c)
  BY MultBelow
<1>2. Mult(q + 1, c) = Mult(q, c) + c /\ Mult(q, c) \in Int
  <2>1. q \in Int
    BY <1>1
  <2> HIDE DEF q
  <2> QED BY <2>1, MultSteps
<1>2a. Mult(m + 1, c) = Mult(m, c) + c /\ Mult(m, c) \in Int
  BY MultSteps
<1>3. ~(q < m)
  <2> SUFFICES ASSUME q < m PROVE FALSE
    OBVIOUS
  <2>1. Mult(q, c) + c <= Mult(m, c)
    BY <1>1, MultGrows
  <2> QED BY <2>1, <1>1, <1>2, <1>2a
<1>4. ~(m < q)
  <2> SUFFICES ASSUME m < q PROVE FALSE
    OBVIOUS
  <2>1. Mult(m, c) + c <= Mult(q, c)
    BY <1>1, MultGrows
  <2> QED BY <2>1, <1>1, <1>2, <1>2a
<1> QED BY <1>1, <1>3, <1>4

\* From a start to an end, in samples.
Span == [s : Int, e : Int]
\* Where frame k + 1 begins.
Time(k) == Mult(k, Window)

Scans == [talks : BOOLEAN, from : Int, quiet : Int, found : Seq(Span)]
Still == [talks |-> FALSE, from |-> 0, quiet |-> 0, found |-> <<>>]

\* A step of the detector is a step of its types.
LEMMA ScanTypes ==
    ASSUME NEW a \in Scans, NEW speech \in BOOLEAN, NEW start \in Int
    PROVE  ScanFrame(a, speech, start) \in Scans
<1> USE ChunkingAssumption
<1>1. ASSUME NEW x \in Int PROVE RegionsWith(a, x) \in Seq(Span)
  <2>1. a.found \in Seq(Span) /\ [s |-> a.from, e |-> x] \in Span
    BY DEF Scans, Span
  <2>2. Append(a.found, [s |-> a.from, e |-> x]) \in Seq(Span)
    <3> HIDE DEF Span
    <3> QED BY <2>1
  <2> QED BY <2>1, <2>2 DEF RegionsWith
<1>2. start - (a.quiet + Window) + Window \in Int
  BY DEF Scans
<1>3. RegionsWith(a, start - (a.quiet + Window) + Window) \in Seq(Span)
  BY <1>1, <1>2
<1> DEFINE q == a.quiet + Window
           more == RegionsWith(a, start - q + Window)
<1>4. /\ a = [talks |-> a.talks, from |-> a.from, quiet |-> a.quiet, found |-> a.found]
      /\ a.talks \in BOOLEAN /\ a.from \in Int /\ a.quiet \in Int /\ a.found \in Seq(Span)
  BY DEF Scans
<1>5. q \in Int /\ more \in Seq(Span)
  BY <1>3, <1>4
<1>6. ScanFrame(a, speech, start) =
        IF speech
        THEN [a EXCEPT !.talks = TRUE, !.quiet = 0, !.from = IF a.talks THEN @ ELSE start]
        ELSE IF ~a.talks THEN a
        ELSE IF q < MinSilence THEN [a EXCEPT !.quiet = q]
        ELSE [a EXCEPT !.talks = FALSE, !.quiet = 0, !.found = more]
  BY DEF ScanFrame
<1> HIDE DEF q, more
<1>7. CASE speech
  <2>1. ScanFrame(a, speech, start) =
          [talks |-> TRUE, from |-> IF a.talks THEN a.from ELSE start, quiet |-> 0, found |-> a.found]
    BY <1>4, <1>6, <1>7
  <2>2. (IF a.talks THEN a.from ELSE start) \in Int
    BY <1>4
  <2> QED BY <2>1, <2>2, <1>4 DEF Scans
<1>8. CASE ~speech /\ (~a.talks \/ q < MinSilence)
  BY <1>4, <1>5, <1>6, <1>8 DEF Scans
<1>9. CASE ~speech /\ ~(~a.talks \/ q < MinSilence)
  <2>1. ScanFrame(a, speech, start) = [talks |-> FALSE, from |-> a.from, quiet |-> 0, found |-> more]
    BY <1>4, <1>6, <1>9
  <2> QED BY <2>1, <1>4, <1>5 DEF Scans
<1> QED BY <1>7, <1>8, <1>9

\* The detector goes through the frames one after the other.
LEMMA ScanSteps ==
    ASSUME NEW frames \in Seq(BOOLEAN)
    PROVE  \E f :
              /\ Scanned(frames) = f[Len(frames)]
              /\ f[0] = Still
              /\ \A i \in 1..Len(frames) : f[i] = ScanFrame(f[i - 1], frames[i], Time(i - 1))
<1> DEFINE n == Len(frames)
           Goes(f) == f = [i \in 0..n |-> IF i = 0 THEN [talks |-> FALSE, from |-> 0, quiet |-> 0, found |-> <<>>]
                                          ELSE ScanFrame(f[i - 1], frames[i], (i - 1) * Window)]
           step == [i \in 1..n |-> [a \in Scans |-> ScanFrame(a, frames[i], (i - 1) * Window)]]
<1>1. n \in Nat /\ \A i \in 1..n : frames[i] \in BOOLEAN
  OBVIOUS
<1>2. Still \in Scans
  BY DEF Still, Scans
<1>3. step \in [1..n -> [Scans -> Scans]]
  <2>1. ASSUME NEW i \in 1..n, NEW a \in Scans PROVE ScanFrame(a, frames[i], (i - 1) * Window) \in Scans
    <3>1. (i - 1) * Window \in Int
      BY ChunkingAssumption
    <3> QED BY <3>1, <1>1, ScanTypes
  <2> QED BY <2>1
<1>4. PICK h \in [0..n -> Scans] : h[0] = Still /\ \A i \in 1..n : h[i] = step[i][h[i - 1]]
  <2> HIDE DEF step, n
  <2>1. Steps(n, Scans, Still, step)
    BY <1>1, <1>2, <1>3 DEF Steps
  <2>2. \E h : Solves(h, n, Scans, Still, step)
    BY <2>1, Recursion
  <2> QED BY <2>2 DEF Solves
<1>5. \A i \in 1..n : h[i] = ScanFrame(h[i - 1], frames[i], (i - 1) * Window)
  <2> TAKE i \in 1..n
  <2>1. h[i - 1] \in Scans
    BY <1>1, <1>4
  <2> QED BY <2>1, <1>4
<1>6. Goes(h)
  <2> DEFINE g == [i \in 0..n |-> IF i = 0 THEN [talks |-> FALSE, from |-> 0, quiet |-> 0, found |-> <<>>]
                                  ELSE ScanFrame(h[i - 1], frames[i], (i - 1) * Window)]
  <2>1. \A i \in 0..n : g[i] = h[i]
    <3> TAKE i \in 0..n
    <3>1. CASE i = 0
      BY <3>1, <1>4 DEF Still
    <3>2. CASE i \in 1..n
      BY <3>2, <1>5
    <3> QED BY <3>1, <3>2, <1>1
  <2>2. g = [i \in 0..n |-> g[i]] /\ h = [i \in 0..n |-> h[i]]
    BY <1>4
  <2>3. g = h
    <3> HIDE DEF g
    <3> QED BY <2>1, <2>2
  <2> QED BY <2>3
<1> DEFINE f == CHOOSE g : Goes(g)
<1>7. Goes(f)
  <2> HIDE DEF Goes
  <2> QED BY <1>6
<1>8. Scanned(frames) = f[n]
  BY DEF Scanned
<1>9. f[0] = Still /\ \A i \in 1..n : f[i] = ScanFrame(f[i - 1], frames[i], (i - 1) * Window)
  <2> DEFINE g == [i \in 0..n |-> IF i = 0 THEN [talks |-> FALSE, from |-> 0, quiet |-> 0, found |-> <<>>]
                                  ELSE ScanFrame(f[i - 1], frames[i], (i - 1) * Window)]
  <2>1. g[0] = Still /\ \A i \in 1..n : g[i] = ScanFrame(f[i - 1], frames[i], (i - 1) * Window)
    <3> HIDE DEF f
    <3> QED BY <1>1 DEF Still
  <2>2. f = g
    <3> HIDE DEF f
    <3> QED BY <1>7
  <2> HIDE DEF f, g
  <2> QED BY <2>1, <2>2
<1> HIDE DEF f
<1> QED BY <1>8, <1>9 DEF Time, Mult

-----------------------------------------------------------------------------
(* Pieces, chunks and the resume boundary *)

\* How many pieces a region longer than a chunk has: the last begins in it, and
\* they reach its end.
Count(r, cap) == (r.e - r.s + cap - 1) \div cap

LEMMA PieceCount ==
    ASSUME NEW r \in Span, NEW cap \in Nat \ {0}, r.e - r.s > cap
    PROVE  /\ Count(r, cap) \in Nat
           /\ Mult(Count(r, cap) - 1, cap) < r.e - r.s /\ r.e - r.s <= Mult(Count(r, cap), cap)
<1> DEFINE y == r.e - r.s + cap - 1
           q == y \div cap
<1>1. y \in Nat /\ r.e - r.s = y - cap + 1
  BY DEF Span
<1>2. q \in Nat /\ Mult(q, cap) <= y /\ y < Mult(q + 1, cap)
  <2> HIDE DEF y
  <2> QED BY <1>1, MultBelow
<1>3. Count(r, cap) = q
  BY DEF Count
<1> HIDE DEF q, y
<1>4. Mult(q + 1, cap) = Mult(q, cap) + cap /\ Mult(q, cap) \in Int
  BY <1>2, MultSteps
<1>5. Mult((q - 1) + 1, cap) = Mult(q - 1, cap) + cap /\ Mult(q - 1, cap) \in Int
  <2>1. q - 1 \in Int
    BY <1>2
  <2> QED BY <2>1, MultSteps
<1>6. (q - 1) + 1 = q
  BY <1>2
<1> QED BY <1>1, <1>2, <1>3, <1>4, <1>5, <1>6

\* What is cut: its pieces one by one.
LEMMA PieceAt ==
    ASSUME NEW r \in Span, NEW cap \in Nat \ {0}, r.e - r.s > cap
    PROVE  /\ Pieces(r, cap) = [n \in 1..Count(r, cap) |->
                                  [s |-> r.s + Mult(n - 1, cap), e |-> AtMost(r.s + Mult(n, cap), r.e)]]
           /\ Pieces(r, cap) \in Seq(Span) /\ Len(Pieces(r, cap)) = Count(r, cap)
<1>1. Count(r, cap) \in Nat
  BY PieceCount
<1>2. Pieces(r, cap) = [n \in 1..Count(r, cap) |->
                          [s |-> r.s + (n - 1) * cap, e |-> AtMost(r.s + n * cap, r.e)]]
  <2>1. ~(r.e - r.s <= cap)
    BY DEF Span
  <2> QED BY <2>1 DEF Pieces, Count
<1>3. Pieces(r, cap) = [n \in 1..Count(r, cap) |->
                          [s |-> r.s + Mult(n - 1, cap), e |-> AtMost(r.s + Mult(n, cap), r.e)]]
  BY <1>2 DEF Mult
<1>4. ASSUME NEW n \in 1..Count(r, cap)
      PROVE  [s |-> r.s + Mult(n - 1, cap), e |-> AtMost(r.s + Mult(n, cap), r.e)] \in Span
  <2>1. n \in Int /\ n - 1 \in Int
    BY <1>1
  <2>2. Mult(n, cap) \in Int
    BY <2>1, MultSteps
  <2>3. Mult(n - 1, cap) \in Int
    BY <2>1, MultSteps
  <2> QED BY <2>2, <2>3 DEF Span, AtMost
<1>5. Pieces(r, cap) \in [1..Count(r, cap) -> Span]
  BY <1>3, <1>4
<1>6. Pieces(r, cap) \in Seq(Span) /\ Len(Pieces(r, cap)) = Count(r, cap)
  <2> HIDE DEF Span
  <2> QED BY <1>1, <1>5
<1> QED BY <1>3, <1>6

LEMMA PieceTypes ==
    ASSUME NEW r \in Span, NEW cap \in Nat \ {0}, NEW a \in Seq(Span)
    PROVE  Pieces(r, cap) \in Seq(Span) /\ WithPieces(a, r, cap) \in Seq(Span)
<1>1. Pieces(r, cap) \in Seq(Span)
  <2>1. CASE r.e - r.s <= cap
    BY <2>1 DEF Pieces
  <2>2. CASE r.e - r.s > cap
    BY <2>2, PieceAt
  <2> QED BY <2>1, <2>2 DEF Span
<1> QED BY <1>1 DEF WithPieces

LEMMA GroupTypes ==
    ASSUME NEW a \in Seq(Span), NEW p \in Span, NEW cap
    PROVE  WithPiece(a, p, cap) \in Seq(Span)
<1>1. Append(a, p) \in Seq(Span)
  OBVIOUS
<1>2. CASE a # <<>>
  <2>1. Len(a) \in Nat /\ Len(a) \in 1..Len(a) /\ a \in [1..Len(a) -> Span]
    BY <1>2
  <2>2. [a[Len(a)] EXCEPT !.e = p.e] \in Span
    BY <2>1 DEF Span
  <2>3. [a EXCEPT ![Len(a)].e = p.e] \in [1..Len(a) -> Span]
    BY <2>1, <2>2
  <2>4. [a EXCEPT ![Len(a)].e = p.e] \in Seq(Span)
    <3> HIDE DEF Span
    <3> QED BY <2>1, <2>3
  <2> QED BY <2>4, <1>1 DEF WithPiece
<1> QED BY <1>1, <1>2 DEF WithPiece

LEMMA TrimTypes ==
    ASSUME NEW a \in Seq(Span), NEW g \in Span, NEW from \in Int, NEW total \in Int
    PROVE  Trimmed(a, g, from, total) \in Seq(Span)
<1>1. [s |-> AtLeast(g.s, from), e |-> AtMost(g.e, total)] \in Span
  BY DEF Span, AtLeast, AtMost
<1>2. Append(a, [s |-> AtLeast(g.s, from), e |-> AtMost(g.e, total)]) \in Seq(Span)
  BY <1>1
<1> QED BY <1>2 DEF Trimmed

\* The loop over the regions.
LEMMA CappedSteps ==
    ASSUME NEW regions \in Seq(Span), NEW cap \in Nat \ {0}
    PROVE  \E f : /\ Capped(regions, cap) = f[Len(regions)] /\ f[0] = <<>>
                  /\ \A i \in 1..Len(regions) : f[i] = WithPieces(f[i - 1], regions[i], cap)
<1> DEFINE n == Len(regions)
           Goes(f) == f = [i \in 0..n |-> IF i = 0 THEN <<>> ELSE WithPieces(f[i - 1], regions[i], cap)]
           step == [i \in 1..n |-> [a \in Seq(Span) |-> WithPieces(a, regions[i], cap)]]
<1>1. n \in Nat /\ \A i \in 1..n : regions[i] \in Span
  OBVIOUS
<1>2. <<>> \in Seq(Span)
  OBVIOUS
<1>3. step \in [1..n -> [Seq(Span) -> Seq(Span)]]
  <2>1. ASSUME NEW i \in 1..n, NEW a \in Seq(Span) PROVE WithPieces(a, regions[i], cap) \in Seq(Span)
    BY <1>1, PieceTypes
  <2> QED BY <2>1
<1>4. PICK h \in [0..n -> Seq(Span)] : h[0] = <<>> /\ \A i \in 1..n : h[i] = step[i][h[i - 1]]
  <2> HIDE DEF step, n
  <2>1. Steps(n, Seq(Span), <<>>, step)
    BY <1>1, <1>2, <1>3 DEF Steps
  <2>2. \E h : Solves(h, n, Seq(Span), <<>>, step)
    BY <2>1, Recursion
  <2> QED BY <2>2 DEF Solves
<1>5. \A i \in 1..n : h[i] = WithPieces(h[i - 1], regions[i], cap)
  <2> TAKE i \in 1..n
  <2>1. h[i - 1] \in Seq(Span)
    BY <1>1, <1>4
  <2> QED BY <2>1, <1>4
<1>6. Goes(h)
  <2> DEFINE g == [i \in 0..n |-> IF i = 0 THEN <<>> ELSE WithPieces(h[i - 1], regions[i], cap)]
  <2>1. \A i \in 0..n : g[i] = h[i]
    <3> TAKE i \in 0..n
    <3>1. CASE i = 0
      BY <3>1, <1>4
    <3>2. CASE i \in 1..n
      BY <3>2, <1>5
    <3> QED BY <3>1, <3>2, <1>1
  <2>2. g = [i \in 0..n |-> g[i]] /\ h = [i \in 0..n |-> h[i]]
    BY <1>4
  <2>3. g = h
    <3> HIDE DEF g
    <3> QED BY <2>1, <2>2
  <2> QED BY <2>3
<1> DEFINE f == CHOOSE g : Goes(g)
<1>7. Goes(f)
  <2> HIDE DEF Goes
  <2> QED BY <1>6
<1>8. Capped(regions, cap) = f[n]
  BY DEF Capped
<1>9. f[0] = <<>> /\ \A i \in 1..n : f[i] = WithPieces(f[i - 1], regions[i], cap)
  <2> DEFINE g == [i \in 0..n |-> IF i = 0 THEN <<>> ELSE WithPieces(f[i - 1], regions[i], cap)]
  <2>1. g[0] = <<>> /\ \A i \in 1..n : g[i] = WithPieces(f[i - 1], regions[i], cap)
    <3> HIDE DEF f
    <3> QED BY <1>1
  <2>2. f = g
    <3> HIDE DEF f
    <3> QED BY <1>7
  <2> HIDE DEF f, g
  <2> QED BY <2>1, <2>2
<1> HIDE DEF f
<1> QED BY <1>8, <1>9

\* The loop over the pieces.
LEMMA GroupedSteps ==
    ASSUME NEW pieces \in Seq(Span), NEW cap
    PROVE  \E f : /\ Grouped(pieces, cap) = f[Len(pieces)] /\ f[0] = <<>>
                  /\ \A i \in 1..Len(pieces) : f[i] = WithPiece(f[i - 1], pieces[i], cap)
<1> DEFINE n == Len(pieces)
           Goes(f) == f = [i \in 0..n |-> IF i = 0 THEN <<>> ELSE WithPiece(f[i - 1], pieces[i], cap)]
           step == [i \in 1..n |-> [a \in Seq(Span) |-> WithPiece(a, pieces[i], cap)]]
<1>1. n \in Nat /\ \A i \in 1..n : pieces[i] \in Span
  OBVIOUS
<1>2. <<>> \in Seq(Span)
  OBVIOUS
<1>3. step \in [1..n -> [Seq(Span) -> Seq(Span)]]
  <2>1. ASSUME NEW i \in 1..n, NEW a \in Seq(Span) PROVE WithPiece(a, pieces[i], cap) \in Seq(Span)
    BY <1>1, GroupTypes
  <2> QED BY <2>1
<1>4. PICK h \in [0..n -> Seq(Span)] : h[0] = <<>> /\ \A i \in 1..n : h[i] = step[i][h[i - 1]]
  <2> HIDE DEF step, n
  <2>1. Steps(n, Seq(Span), <<>>, step)
    BY <1>1, <1>2, <1>3 DEF Steps
  <2>2. \E h : Solves(h, n, Seq(Span), <<>>, step)
    BY <2>1, Recursion
  <2> QED BY <2>2 DEF Solves
<1>5. \A i \in 1..n : h[i] = WithPiece(h[i - 1], pieces[i], cap)
  <2> TAKE i \in 1..n
  <2>1. h[i - 1] \in Seq(Span)
    BY <1>1, <1>4
  <2> QED BY <2>1, <1>4
<1>6. Goes(h)
  <2> DEFINE g == [i \in 0..n |-> IF i = 0 THEN <<>> ELSE WithPiece(h[i - 1], pieces[i], cap)]
  <2>1. \A i \in 0..n : g[i] = h[i]
    <3> TAKE i \in 0..n
    <3>1. CASE i = 0
      BY <3>1, <1>4
    <3>2. CASE i \in 1..n
      BY <3>2, <1>5
    <3> QED BY <3>1, <3>2, <1>1
  <2>2. g = [i \in 0..n |-> g[i]] /\ h = [i \in 0..n |-> h[i]]
    BY <1>4
  <2>3. g = h
    <3> HIDE DEF g
    <3> QED BY <2>1, <2>2
  <2> QED BY <2>3
<1> DEFINE f == CHOOSE g : Goes(g)
<1>7. Goes(f)
  <2> HIDE DEF Goes
  <2> QED BY <1>6
<1>8. Grouped(pieces, cap) = f[n]
  BY DEF Grouped
<1>9. f[0] = <<>> /\ \A i \in 1..n : f[i] = WithPiece(f[i - 1], pieces[i], cap)
  <2> DEFINE g == [i \in 0..n |-> IF i = 0 THEN <<>> ELSE WithPiece(f[i - 1], pieces[i], cap)]
  <2>1. g[0] = <<>> /\ \A i \in 1..n : g[i] = WithPiece(f[i - 1], pieces[i], cap)
    <3> HIDE DEF f
    <3> QED BY <1>1
  <2>2. f = g
    <3> HIDE DEF f
    <3> QED BY <1>7
  <2> HIDE DEF f, g
  <2> QED BY <2>1, <2>2
<1> HIDE DEF f
<1> QED BY <1>8, <1>9

\* The loop over the chunks.
LEMMA BoundarySteps ==
    ASSUME NEW groups \in Seq(Span), NEW from \in Int, NEW total \in Int
    PROVE  \E f : /\ FromBoundary(groups, from, total) = f[Len(groups)] /\ f[0] = <<>>
                  /\ \A i \in 1..Len(groups) : f[i] = Trimmed(f[i - 1], groups[i], from, total)
<1> DEFINE n == Len(groups)
           Goes(f) == f = [i \in 0..n |-> IF i = 0 THEN <<>> ELSE Trimmed(f[i - 1], groups[i], from, total)]
           step == [i \in 1..n |-> [a \in Seq(Span) |-> Trimmed(a, groups[i], from, total)]]
<1>1. n \in Nat /\ \A i \in 1..n : groups[i] \in Span
  OBVIOUS
<1>2. <<>> \in Seq(Span)
  OBVIOUS
<1>3. step \in [1..n -> [Seq(Span) -> Seq(Span)]]
  <2>1. ASSUME NEW i \in 1..n, NEW a \in Seq(Span) PROVE Trimmed(a, groups[i], from, total) \in Seq(Span)
    BY <1>1, TrimTypes
  <2> QED BY <2>1
<1>4. PICK h \in [0..n -> Seq(Span)] : h[0] = <<>> /\ \A i \in 1..n : h[i] = step[i][h[i - 1]]
  <2> HIDE DEF step, n
  <2>1. Steps(n, Seq(Span), <<>>, step)
    BY <1>1, <1>2, <1>3 DEF Steps
  <2>2. \E h : Solves(h, n, Seq(Span), <<>>, step)
    BY <2>1, Recursion
  <2> QED BY <2>2 DEF Solves
<1>5. \A i \in 1..n : h[i] = Trimmed(h[i - 1], groups[i], from, total)
  <2> TAKE i \in 1..n
  <2>1. h[i - 1] \in Seq(Span)
    BY <1>1, <1>4
  <2> QED BY <2>1, <1>4
<1>6. Goes(h)
  <2> DEFINE g == [i \in 0..n |-> IF i = 0 THEN <<>> ELSE Trimmed(h[i - 1], groups[i], from, total)]
  <2>1. \A i \in 0..n : g[i] = h[i]
    <3> TAKE i \in 0..n
    <3>1. CASE i = 0
      BY <3>1, <1>4
    <3>2. CASE i \in 1..n
      BY <3>2, <1>5
    <3> QED BY <3>1, <3>2, <1>1
  <2>2. g = [i \in 0..n |-> g[i]] /\ h = [i \in 0..n |-> h[i]]
    BY <1>4
  <2>3. g = h
    <3> HIDE DEF g
    <3> QED BY <2>1, <2>2
  <2> QED BY <2>3
<1> DEFINE f == CHOOSE g : Goes(g)
<1>7. Goes(f)
  <2> HIDE DEF Goes
  <2> QED BY <1>6
<1>8. FromBoundary(groups, from, total) = f[n]
  BY DEF FromBoundary
<1>9. f[0] = <<>> /\ \A i \in 1..n : f[i] = Trimmed(f[i - 1], groups[i], from, total)
  <2> DEFINE g == [i \in 0..n |-> IF i = 0 THEN <<>> ELSE Trimmed(f[i - 1], groups[i], from, total)]
  <2>1. g[0] = <<>> /\ \A i \in 1..n : g[i] = Trimmed(f[i - 1], groups[i], from, total)
    <3> HIDE DEF f
    <3> QED BY <1>1
  <2>2. f = g
    <3> HIDE DEF f
    <3> QED BY <1>7
  <2> HIDE DEF f, g
  <2> QED BY <2>1, <2>2
<1> HIDE DEF f
<1> QED BY <1>8, <1>9

-----------------------------------------------------------------------------
(* What the chunker makes of the regions *)

\* Spans in order, at least so far from each other; spans that are short enough.
Apart(q, gap) ==
    /\ q \in Seq(Span)
    /\ \A i \in 1..Len(q) : q[i].s < q[i].e
    /\ \A i, j \in 1..Len(q) : i < j => q[i].e + gap <= q[j].s
Short(q, cap) == \A i \in 1..Len(q) : q[i].e - q[i].s <= cap
\* Every span of q lies in one of p.
Within(q, p) ==
    \A i \in 1..Len(q) : \E j \in 1..Len(p) : p[j].s <= q[i].s /\ q[i].e <= p[j].e

LEMMA InsideAt ==
    ASSUME NEW q \in Seq(Span), NEW x
    PROVE  Inside(q, x) <=> \E i \in 1..Len(q) : q[i].s <= x /\ x < q[i].e
<1>1. DOMAIN q = 1..Len(q)
  OBVIOUS
<1> QED BY <1>1 DEF Inside

LEMMA SpanAt ==
    ASSUME NEW q \in Seq(Span), NEW i \in 1..Len(q)
    PROVE  q[i] \in Span /\ q[i].s \in Int /\ q[i].e \in Int
<1>1. q[i] \in Span
  OBVIOUS
<1> QED BY <1>1 DEF Span

\* A span after all the others.
LEMMA AppendApart ==
    ASSUME NEW q, Apart(q, 0), NEW cap \in Int, Short(q, cap), NEW p \in Span, p.s < p.e,
           p.e - p.s <= cap, \A i \in 1..Len(q) : q[i].e <= p.s
    PROVE  /\ Append(q, p) \in Seq(Span) /\ Len(Append(q, p)) = Len(q) + 1
           /\ \A i \in 1..Len(q) : Append(q, p)[i] = q[i]
           /\ Append(q, p)[Len(q) + 1] = p
           /\ Apart(Append(q, p), 0) /\ Short(Append(q, p), cap)
<1>1. q \in Seq(Span) /\ Len(q) \in Nat
  BY DEF Apart
<1> DEFINE a == Append(q, p)
<1>2. /\ a \in Seq(Span) /\ Len(a) = Len(q) + 1
      /\ \A i \in 1..Len(q) : a[i] = q[i]
      /\ a[Len(q) + 1] = p
  BY <1>1
<1>3. \A i \in 1..Len(q) : q[i] \in Span /\ q[i].s \in Int /\ q[i].e \in Int
  BY <1>1, SpanAt
<1>4. p.s \in Int /\ p.e \in Int
  BY DEF Span
<1> HIDE DEF a
<1>5. ASSUME NEW i \in 1..Len(a) PROVE a[i].s < a[i].e /\ a[i].e - a[i].s <= cap
  <2>1. CASE i \in 1..Len(q)
    BY <2>1, <1>2 DEF Apart, Short
  <2>2. CASE i = Len(q) + 1
    BY <2>2, <1>2
  <2> QED BY <2>1, <2>2, <1>1, <1>2
<1>6. ASSUME NEW i \in 1..Len(a), NEW j \in 1..Len(a), i < j PROVE a[i].e + 0 <= a[j].s
  <2>1. i \in 1..Len(q)
    BY <1>1, <1>2, <1>6
  <2>2. CASE j \in 1..Len(q)
    BY <2>1, <2>2, <1>2, <1>6 DEF Apart
  <2>3. CASE j = Len(q) + 1
    BY <2>1, <2>3, <1>2, <1>3, <1>4
  <2> QED BY <2>2, <2>3, <1>1, <1>2
<1>7. Apart(a, 0) /\ Short(a, cap)
  BY <1>2, <1>5, <1>6 DEF Apart, Short
<1> QED BY <1>2, <1>7 DEF a

\* One row of spans after another.
LEMMA JoinApart ==
    ASSUME NEW q, Apart(q, 0), NEW p, Apart(p, 0), NEW cap \in Int, Short(q, cap), Short(p, cap),
           \A i \in 1..Len(q), j \in 1..Len(p) : q[i].e <= p[j].s
    PROVE  /\ q \o p \in Seq(Span) /\ Len(q \o p) = Len(q) + Len(p)
           /\ \A i \in 1..Len(q) : (q \o p)[i] = q[i]
           /\ \A i \in 1..Len(p) : (q \o p)[Len(q) + i] = p[i]
           /\ Apart(q \o p, 0) /\ Short(q \o p, cap)
<1>1. q \in Seq(Span) /\ Len(q) \in Nat /\ p \in Seq(Span) /\ Len(p) \in Nat
  BY DEF Apart
<1> DEFINE a == q \o p
<1>2. /\ a \in Seq(Span) /\ Len(a) = Len(q) + Len(p)
      /\ \A i \in 1..Len(q) : a[i] = q[i]
      /\ \A i \in 1..Len(p) : a[Len(q) + i] = p[i]
  BY <1>1
<1>3. \A i \in 1..Len(q) : q[i] \in Span /\ q[i].s \in Int /\ q[i].e \in Int
  BY <1>1, SpanAt
<1>3a. \A i \in 1..Len(p) : p[i] \in Span /\ p[i].s \in Int /\ p[i].e \in Int
  BY <1>1, SpanAt
<1> HIDE DEF a
<1>4. ASSUME NEW i \in 1..Len(a)
      PROVE  i \in 1..Len(q) \/ \E k \in 1..Len(p) : i = Len(q) + k
  <2>1. CASE i <= Len(q)
    BY <2>1, <1>1, <1>2
  <2>2. CASE i > Len(q)
    <3>1. i - Len(q) \in 1..Len(p) /\ i = Len(q) + (i - Len(q))
      BY <2>2, <1>1, <1>2
    <3> QED BY <3>1
  <2> QED BY <2>1, <2>2, <1>1, <1>2
<1>5. ASSUME NEW i \in 1..Len(a) PROVE a[i].s < a[i].e /\ a[i].e - a[i].s <= cap
  <2>1. CASE i \in 1..Len(q)
    BY <2>1, <1>2 DEF Apart, Short
  <2>2. ASSUME NEW k \in 1..Len(p), i = Len(q) + k PROVE a[i].s < a[i].e /\ a[i].e - a[i].s <= cap
    BY <2>2, <1>2 DEF Apart, Short
  <2> QED BY <2>1, <2>2, <1>4
<1>6. ASSUME NEW i \in 1..Len(a), NEW j \in 1..Len(a), i < j PROVE a[i].e + 0 <= a[j].s
  <2>1. CASE i \in 1..Len(q) /\ j \in 1..Len(q)
    BY <2>1, <1>2, <1>6 DEF Apart
  <2>2. ASSUME i \in 1..Len(q), NEW k \in 1..Len(p), j = Len(q) + k PROVE a[i].e + 0 <= a[j].s
    <3>1. a[i] = q[i] /\ a[j] = p[k] /\ q[i].e <= p[k].s
      BY <2>2, <1>2
    <3>2. q[i].e \in Int
      BY <2>2, <1>3
    <3> QED BY <3>1, <3>2
  <2>3. ASSUME NEW k \in 1..Len(p), i = Len(q) + k, NEW l \in 1..Len(p), j = Len(q) + l
        PROVE  a[i].e + 0 <= a[j].s
    <3>1. k < l
      BY <2>3, <1>1, <1>6
    <3> QED BY <3>1, <2>3, <1>2 DEF Apart
  <2>4. ASSUME NEW k \in 1..Len(p), i = Len(q) + k, j \in 1..Len(q) PROVE FALSE
    BY <2>4, <1>1, <1>6
  <2>5. i \in 1..Len(q) \/ \E k \in 1..Len(p) : i = Len(q) + k
    BY <1>4
  <2>6. j \in 1..Len(q) \/ \E k \in 1..Len(p) : j = Len(q) + k
    BY <1>4
  <2> QED BY <2>1, <2>2, <2>3, <2>4, <2>5, <2>6
<1>7. Apart(a, 0) /\ Short(a, cap)
  BY <1>2, <1>5, <1>6 DEF Apart, Short
<1> QED BY <1>2, <1>7 DEF a

\* The pieces of a region are short, in order, and the whole region.
LEMMA PiecesWhole ==
    ASSUME NEW r \in Span, r.s < r.e, NEW cap \in Nat \ {0}
    PROVE  LET q == Pieces(r, cap)
           IN  /\ Apart(q, 0) /\ Short(q, cap)
               /\ \A i \in 1..Len(q) : r.s <= q[i].s /\ q[i].e <= r.e
               /\ \A x \in Int : r.s <= x /\ x < r.e => Inside(q, x)
<1> DEFINE q == Pieces(r, cap)
<1>1. r.s \in Int /\ r.e \in Int
  BY DEF Span
<1>2. CASE r.e - r.s <= cap
  <2>1. q = <<r>>
    BY <1>2 DEF Pieces
  <2>2. q \in Seq(Span) /\ Len(q) = 1 /\ q[1] = r /\ 1..Len(q) = {1}
    BY <2>1
  <2>3. Apart(q, 0) /\ Short(q, cap)
    BY <2>2, <1>2 DEF Apart, Short
  <2>4. \A i \in 1..Len(q) : r.s <= q[i].s /\ q[i].e <= r.e
    BY <2>2, <1>1
  <2>5. ASSUME NEW x \in Int, r.s <= x, x < r.e PROVE Inside(q, x)
    <3> HIDE DEF q
    <3>1. \E i \in 1..Len(q) : q[i].s <= x /\ x < q[i].e
      BY <2>2, <2>5
    <3> QED BY <3>1, <2>2, InsideAt
  <2> QED BY <2>3, <2>4, <2>5
<1>3. CASE r.e - r.s > cap
  <2> DEFINE n == Count(r, cap)
  <2>1. /\ q = [i \in 1..n |-> [s |-> r.s + Mult(i - 1, cap), e |-> AtMost(r.s + Mult(i, cap), r.e)]]
        /\ q \in Seq(Span) /\ Len(q) = n
    BY <1>3, PieceAt
  <2>2. n \in Nat /\ Mult(n - 1, cap) < r.e - r.s /\ r.e - r.s <= Mult(n, cap)
    BY <1>3, PieceCount
  <2> HIDE DEF q, n
  <2>3. ASSUME NEW i \in 1..n
        PROVE  /\ q[i].s = r.s + Mult(i - 1, cap) /\ q[i].e = AtMost(r.s + Mult(i, cap), r.e)
               /\ Mult(i - 1, cap) \in Nat /\ Mult(i, cap) = Mult(i - 1, cap) + cap
    <3>1. i - 1 \in Int /\ i - 1 \in Nat /\ (i - 1) + 1 = i
      BY <2>2
    <3>2. Mult(i - 1, cap) \in Nat /\ Mult((i - 1) + 1, cap) = Mult(i - 1, cap) + cap
      BY <3>1, MultSteps
    <3> QED BY <2>1, <3>1, <3>2
  <2>4. ASSUME NEW i \in 1..n PROVE Mult(i - 1, cap) < r.e - r.s
    <3>1. Mult(i - 1, cap) \in Nat
      BY <2>3
    <3>2. CASE i = n
      BY <3>2, <2>2
    <3>3. CASE i < n
      <4>1. i - 1 \in Int /\ n - 1 \in Int /\ i - 1 < n - 1
        BY <3>3, <2>2
      <4>2. Mult(i - 1, cap) + cap <= Mult(n - 1, cap)
        BY <4>1, MultGrows
      <4>3. Mult(n - 1, cap) \in Int
        BY <4>1, MultSteps
      <4> QED BY <4>2, <4>3, <3>1, <2>2, <1>1
    <3> QED BY <3>2, <3>3, <2>2
  <2>5. ASSUME NEW i \in 1..n
        PROVE  q[i].s < q[i].e /\ q[i].e - q[i].s <= cap /\ r.s <= q[i].s /\ q[i].e <= r.e
    <3>1. /\ q[i].s = r.s + Mult(i - 1, cap) /\ q[i].e = AtMost(r.s + Mult(i, cap), r.e)
          /\ Mult(i - 1, cap) \in Nat /\ Mult(i, cap) = Mult(i - 1, cap) + cap
      BY <2>3
    <3>2. Mult(i - 1, cap) < r.e - r.s
      BY <2>4
    <3> QED BY ONLY <3>1, <3>2, <1>1, cap \in Nat \ {0} DEF AtMost
  <2>6. ASSUME NEW i \in 1..n, NEW j \in 1..n, i < j PROVE q[i].e + 0 <= q[j].s
    <3>1. /\ q[i].e = AtMost(r.s + Mult(i, cap), r.e)
          /\ Mult(i - 1, cap) \in Nat /\ Mult(i, cap) = Mult(i - 1, cap) + cap
      BY <2>3
    <3>2. q[j].s = r.s + Mult(j - 1, cap) /\ Mult(j - 1, cap) \in Nat
      BY <2>3
    <3>3. Mult(i, cap) <= Mult(j - 1, cap)
      <4>1. CASE i = j - 1
        BY <4>1, <3>2
      <4>2. CASE i < j - 1
        <5>1. i \in Int /\ j - 1 \in Int
          BY <2>2
        <5>2. Mult(i, cap) + cap <= Mult(j - 1, cap)
          BY <5>1, <4>2, MultGrows
        <5> QED BY <5>2, <3>1, <3>2
      <4> QED BY <4>1, <4>2, <2>6, <2>2
    <3> QED BY ONLY <3>1, <3>2, <3>3, <1>1, cap \in Nat \ {0} DEF AtMost
  <2>7. Apart(q, 0) /\ Short(q, cap)
    BY <2>1, <2>5, <2>6 DEF Apart, Short
  <2>8. ASSUME NEW x \in Int, r.s <= x, x < r.e PROVE Inside(q, x)
    <3> DEFINE k == (x - r.s) \div cap
    <3>1. x - r.s \in Nat
      BY <2>8, <1>1
    <3>2. k \in Nat /\ Mult(k, cap) <= x - r.s /\ x - r.s < Mult(k + 1, cap)
      BY <3>1, MultBelow
    <3> HIDE DEF k
    <3>3. Mult(k, cap) \in Int /\ Mult(k + 1, cap) = Mult(k, cap) + cap
      <4>1. k \in Int
        BY <3>2
      <4> QED BY ONLY <4>1, cap \in Nat \ {0}, MultSteps
    <3>4. k < n
      <4> SUFFICES ASSUME ~(k < n) PROVE FALSE
        OBVIOUS
      <4>1. CASE k = n
        BY <4>1, <3>2, <3>3, <2>2, <2>8, <1>1
      <4>2. CASE n < k
        <5>0. n \in Int /\ k \in Int
          BY <2>2, <3>2
        <5>1. Mult(n, cap) + cap <= Mult(k, cap)
          BY <5>0, <4>2, MultGrows
        <5>2. Mult(n, cap) \in Int
          BY <5>0, MultSteps
        <5> QED BY <5>1, <5>2, <3>2, <3>3, <2>2, <2>8, <1>1
      <4> QED BY <4>1, <4>2, <2>2, <3>2
    <3>5. k + 1 \in 1..n /\ (k + 1) - 1 = k
      BY <3>2, <3>4, <2>2
    <3>6. q[k + 1].s = r.s + Mult(k, cap) /\ q[k + 1].e = AtMost(r.s + Mult(k + 1, cap), r.e)
      <4>1. /\ q[k + 1].s = r.s + Mult((k + 1) - 1, cap)
            /\ q[k + 1].e = AtMost(r.s + Mult(k + 1, cap), r.e)
        BY <2>3, <3>5
      <4> QED BY <4>1, <3>5
    <3>7. q[k + 1].s <= x /\ x < q[k + 1].e
      BY ONLY <3>6, <3>2, <3>3, <2>8, <1>1, cap \in Nat \ {0} DEF AtMost
    <3>8. \E i \in 1..Len(q) : q[i].s <= x /\ x < q[i].e
      BY <3>5, <3>7, <2>1
    <3> QED BY <3>8, <2>1, InsideAt
  <2> QED BY <2>1, <2>5, <2>7, <2>8 DEF q
<1> QED BY <1>1, <1>2, <1>3

\* All pieces: short, in order, each in a region, and all of the regions.
LEMMA CappedWhole ==
    ASSUME NEW regions, NEW gap \in Nat, Apart(regions, gap), NEW cap \in Nat \ {0}
    PROVE  LET q == Capped(regions, cap)
           IN  /\ Apart(q, 0) /\ Short(q, cap) /\ Within(q, regions)
               /\ \A x \in Int : Inside(regions, x) => Inside(q, x)
<1>1. regions \in Seq(Span) /\ Len(regions) \in Nat
  BY DEF Apart
<1>2. PICK f : /\ Capped(regions, cap) = f[Len(regions)] /\ f[0] = <<>>
               /\ \A i \in 1..Len(regions) : f[i] = WithPieces(f[i - 1], regions[i], cap)
  BY <1>1, CappedSteps
<1> DEFINE Good(i) ==
             /\ Apart(f[i], 0) /\ Short(f[i], cap)
             /\ \A k \in 1..Len(f[i]) : \E j \in 1..i : regions[j].s <= f[i][k].s /\ f[i][k].e <= regions[j].e
             /\ \A x \in Int, j \in 1..i : regions[j].s <= x /\ x < regions[j].e => Inside(f[i], x)
           N == {i \in Nat : i <= Len(regions) => Good(i)}
<1>3. 0 \in N
  <2>1. f[0] \in Seq(Span) /\ Len(f[0]) = 0
    BY <1>2
  <2>2. Good(0)
    BY <2>1 DEF Apart, Short
  <2> QED BY <2>2
<1>4. ASSUME NEW i \in Nat, i \in N PROVE i + 1 \in N
  <2> SUFFICES ASSUME i + 1 <= Len(regions) PROVE Good(i + 1)
    <3> HIDE DEF Good
    <3> QED OBVIOUS
  <2> DEFINE r == regions[i + 1]
             q == f[i]
             p == Pieces(r, cap)
  <2>1. Good(i)
    <3> HIDE DEF Good
    <3> QED BY <1>4, <1>1
  <2>2. i + 1 \in 1..Len(regions) /\ (i + 1) - 1 = i
    BY <1>1
  <2>3. r \in Span /\ r.s \in Int /\ r.e \in Int
    BY <1>1, <2>2, SpanAt
  <2>4. r.s < r.e
    BY <2>2 DEF Apart
  <2>5. f[i + 1] = q \o p
    BY <1>2, <2>2 DEF WithPieces
  <2> HIDE DEF r
  <2>6. /\ Apart(p, 0) /\ Short(p, cap)
        /\ \A k \in 1..Len(p) : r.s <= p[k].s /\ p[k].e <= r.e
        /\ \A x \in Int : r.s <= x /\ x < r.e => Inside(p, x)
    BY <2>3, <2>4, PiecesWhole
  <2> HIDE DEF q, p
  <2>7. Apart(q, 0) /\ Short(q, cap) /\ q \in Seq(Span) /\ Len(q) \in Nat /\ p \in Seq(Span) /\ Len(p) \in Nat
    BY <2>1, <2>6 DEF Apart, q
  <2>8. ASSUME NEW k \in 1..Len(q), NEW l \in 1..Len(p) PROVE q[k].e <= p[l].s
    <3>1. PICK j \in 1..i : q[k].e <= regions[j].e
      BY <2>1 DEF q
    <3>2. j \in 1..Len(regions) /\ j < i + 1
      BY <1>1
    <3>3. regions[j].e + gap <= r.s
      BY <3>2, <2>2 DEF Apart, r
    <3>4. regions[j].e \in Int
      BY <3>2, <1>1, SpanAt
    <3>5. q[k].e \in Int
      BY <2>7, SpanAt
    <3>6. p[l].s \in Int
      BY <2>7, SpanAt
    <3>7. r.s <= p[l].s
      BY <2>6
    <3> QED BY ONLY <3>1, <3>3, <3>4, <3>5, <3>6, <3>7, <2>3, gap \in Nat
  <2>9. /\ q \o p \in Seq(Span) /\ Len(q \o p) = Len(q) + Len(p)
        /\ \A k \in 1..Len(q) : (q \o p)[k] = q[k]
        /\ \A k \in 1..Len(p) : (q \o p)[Len(q) + k] = p[k]
        /\ Apart(q \o p, 0) /\ Short(q \o p, cap)
    <3>1. cap \in Int
      OBVIOUS
    <3> QED BY ONLY <3>1, <2>6, <2>7, <2>8, JoinApart
  <2> DEFINE a == f[i + 1]
  <2>10. /\ a \in Seq(Span) /\ Len(a) = Len(q) + Len(p)
         /\ \A k \in 1..Len(q) : a[k] = q[k]
         /\ \A k \in 1..Len(p) : a[Len(q) + k] = p[k]
         /\ Apart(a, 0) /\ Short(a, cap)
    BY <2>5, <2>9
  <2> HIDE DEF a
  <2>11. ASSUME NEW k \in 1..Len(a)
         PROVE  \E j \in 1..(i + 1) : regions[j].s <= a[k].s /\ a[k].e <= regions[j].e
    <3>1. CASE k \in 1..Len(q)
      <4>1. PICK j \in 1..i : regions[j].s <= q[k].s /\ q[k].e <= regions[j].e
        BY <3>1, <2>1 DEF q
      <4>2. a[k] = q[k] /\ j \in 1..(i + 1)
        BY <3>1, <2>10
      <4> QED BY <4>1, <4>2
    <3>2. CASE k > Len(q)
      <4>1. k - Len(q) \in 1..Len(p) /\ Len(q) + (k - Len(q)) = k
        BY <3>2, <2>7, <2>10
      <4>2. a[k] = p[k - Len(q)]
        BY <4>1, <2>10
      <4>3. r.s <= a[k].s /\ a[k].e <= r.e
        BY <4>1, <4>2, <2>6
      <4> QED BY <4>3 DEF r
    <3> QED BY <3>1, <3>2, <2>7, <2>10
  <2>12. ASSUME NEW x \in Int, NEW j \in 1..(i + 1), regions[j].s <= x, x < regions[j].e
         PROVE  Inside(a, x)
    <3>1. CASE j \in 1..i
      <4>1. Inside(q, x)
        BY <3>1, <2>1, <2>12 DEF q
      <4>2. PICK k \in 1..Len(q) : q[k].s <= x /\ x < q[k].e
        BY <4>1, <2>7, InsideAt
      <4>3. k \in 1..Len(a) /\ a[k].s <= x /\ x < a[k].e
        BY <4>2, <2>7, <2>10
      <4> QED BY <4>3, <2>10, InsideAt
    <3>2. CASE j = i + 1
      <4>1. Inside(p, x)
        BY <3>2, <2>6, <2>12 DEF r
      <4>2. PICK k \in 1..Len(p) : p[k].s <= x /\ x < p[k].e
        BY <4>1, <2>7, InsideAt
      <4>3. Len(q) + k \in 1..Len(a) /\ a[Len(q) + k].s <= x /\ x < a[Len(q) + k].e
        BY <4>2, <2>7, <2>10
      <4> QED BY <4>3, <2>10, InsideAt
    <3> QED BY <3>1, <3>2
  <2> QED BY <2>10, <2>11, <2>12 DEF a
<1>5. Good(Len(regions))
  <2> HIDE DEF Good
  <2>1. Nat \subseteq N
    <3> HIDE DEF N
    <3> QED BY <1>3, <1>4, Induction
  <2> QED BY <2>1, <1>1
<1>6. ASSUME NEW x \in Int, Inside(regions, x) PROVE Inside(Capped(regions, cap), x)
  <2>1. PICK j \in 1..Len(regions) : regions[j].s <= x /\ x < regions[j].e
    BY <1>1, <1>6, InsideAt
  <2> QED BY <2>1, <1>5, <1>2
<1> QED BY <1>2, <1>5, <1>6 DEF Within

\* The chunks: short, in order, each from a piece to a piece, and every piece in one.
LEMMA GroupedWhole ==
    ASSUME NEW pieces, Apart(pieces, 0), NEW cap \in Nat \ {0}, Short(pieces, cap)
    PROVE  LET g == Grouped(pieces, cap)
           IN  /\ Apart(g, 0) /\ Short(g, cap) /\ Within(pieces, g)
               /\ \A k \in 1..Len(g) : \E i, j \in 1..Len(pieces) :
                     g[k].s = pieces[i].s /\ g[k].e = pieces[j].e
<1>1. pieces \in Seq(Span) /\ Len(pieces) \in Nat
  BY DEF Apart
<1>2. PICK f : /\ Grouped(pieces, cap) = f[Len(pieces)] /\ f[0] = <<>>
               /\ \A i \in 1..Len(pieces) : f[i] = WithPiece(f[i - 1], pieces[i], cap)
  BY <1>1, GroupedSteps
<1> DEFINE Good(i) ==
             /\ Apart(f[i], 0) /\ Short(f[i], cap)
             /\ \A k \in 1..Len(f[i]) : \E j, l \in 1..i : f[i][k].s = pieces[j].s /\ f[i][k].e = pieces[l].e
             /\ \A j \in 1..i : \E k \in 1..Len(f[i]) : f[i][k].s <= pieces[j].s /\ pieces[j].e <= f[i][k].e
           N == {i \in Nat : i <= Len(pieces) => Good(i)}
<1>3. 0 \in N
  <2>1. f[0] \in Seq(Span) /\ Len(f[0]) = 0
    BY <1>2
  <2>2. Good(0)
    BY <2>1 DEF Apart, Short
  <2> QED BY <2>2
<1>4. ASSUME NEW i \in Nat, i \in N PROVE i + 1 \in N
  <2> SUFFICES ASSUME i + 1 <= Len(pieces) PROVE Good(i + 1)
    <3> HIDE DEF Good
    <3> QED OBVIOUS
  <2> DEFINE p == pieces[i + 1]
             g == f[i]
             a == f[i + 1]
  <2>1. Good(i)
    <3> HIDE DEF Good
    <3> QED BY <1>4, <1>1
  <2>2. i + 1 \in 1..Len(pieces) /\ (i + 1) - 1 = i
    BY <1>1
  <2>3. p \in Span /\ p.s \in Int /\ p.e \in Int
    BY <1>1, <2>2, SpanAt
  <2>4. p.s < p.e /\ p.e - p.s <= cap
    BY <2>2 DEF Apart, Short
  <2>5. a = WithPiece(g, p, cap)
    BY <1>2, <2>2
  <2> HIDE DEF p, a
  <2>6. Apart(g, 0) /\ Short(g, cap) /\ g \in Seq(Span) /\ Len(g) \in Nat
    BY <2>1 DEF Apart
  <2>7. /\ \A k \in 1..Len(g) : \E j, l \in 1..i : g[k].s = pieces[j].s /\ g[k].e = pieces[l].e
        /\ \A j \in 1..i : \E k \in 1..Len(g) : g[k].s <= pieces[j].s /\ pieces[j].e <= g[k].e
    BY <2>1
  <2> HIDE DEF g
  <2>8. ASSUME NEW k \in 1..Len(g) PROVE g[k].e <= p.s
    <3>1. PICK l \in 1..i : g[k].e = pieces[l].e
      BY <2>7
    <3>2. l \in 1..Len(pieces) /\ l < i + 1
      BY <1>1
    <3>3. pieces[l].e + 0 <= p.s
      BY <3>2, <2>2 DEF Apart, p
    <3>4. pieces[l].e \in Int
      BY <3>2, <1>1, SpanAt
    <3> QED BY <3>1, <3>3, <3>4
  <2>9. CASE g # <<>> /\ p.e - Last(g).s <= cap
    <3> DEFINE n == Len(g)
    <3>1. n \in 1..n /\ Last(g) = g[n] /\ n \in Nat
      BY <2>6, <2>9 DEF Last
    <3>2. a = [g EXCEPT ![n].e = p.e]
      BY <2>5, <2>9 DEF WithPiece
    <3>3. g[n] \in Span /\ g[n].s \in Int /\ g[n].e \in Int
      BY <2>6, <3>1, SpanAt
    <3>4. a \in Seq(Span)
      BY <2>3, <2>5, <2>6, GroupTypes
    <3>5. /\ Len(a) = n /\ \A k \in 1..(n - 1) : a[k] = g[k]
          /\ a[n].s = g[n].s /\ a[n].e = p.e
      <4>1. g \in [1..n -> Span] /\ DOMAIN g = 1..n
        BY <2>6
      <4>2. DOMAIN a = 1..n /\ \A k \in 1..(n - 1) : a[k] = g[k]
        BY <3>1, <3>2, <4>1
      <4>3. a[n] = [g[n] EXCEPT !.e = p.e]
        BY <3>1, <3>2, <4>1
      <4>4. a[n].s = g[n].s /\ a[n].e = p.e
        BY <4>3, <3>3 DEF Span
      <4>5. Len(a) = n
        BY <4>2, <3>1, <3>4
      <4> QED BY <4>2, <4>4, <4>5
    <3> HIDE DEF n
    <3>6. g[n].s < g[n].e /\ g[n].e <= p.s /\ p.e - g[n].s <= cap
      BY <3>1, <2>6, <2>8, <2>9 DEF Apart, n
    <3>7. ASSUME NEW k \in 1..Len(a) PROVE a[k].s < a[k].e /\ a[k].e - a[k].s <= cap
      <4>1. CASE k = n
        BY <4>1, <3>3, <3>5, <3>6, <2>3, <2>4
      <4>2. CASE k \in 1..(n - 1)
        BY <4>2, <3>1, <3>5, <2>6 DEF Apart, Short, n
      <4> QED BY <4>1, <4>2, <3>1, <3>5
    <3>8. ASSUME NEW k \in 1..Len(a), NEW l \in 1..Len(a), k < l PROVE a[k].e + 0 <= a[l].s
      <4>1. k \in 1..(n - 1) /\ a[k] = g[k] /\ k \in 1..Len(g) /\ l \in 1..Len(g)
        BY <3>1, <3>5, <3>8 DEF n
      <4>2. g[k].e + 0 <= g[l].s
        BY <4>1, <3>8, <2>6 DEF Apart
      <4>3. a[l].s = g[l].s
        <5>1. CASE l = n
          BY <5>1, <3>5
        <5>2. CASE l \in 1..(n - 1)
          BY <5>2, <3>5
        <5> QED BY <5>1, <5>2, <3>1, <3>5
      <4> QED BY <4>1, <4>2, <4>3
    <3>9. Apart(a, 0) /\ Short(a, cap)
      BY <3>4, <3>7, <3>8 DEF Apart, Short
    <3>10. ASSUME NEW k \in 1..Len(a)
           PROVE  \E j, l \in 1..(i + 1) : a[k].s = pieces[j].s /\ a[k].e = pieces[l].e
      <4>1. k \in 1..Len(g)
        BY <3>5 DEF n
      <4>2. PICK j \in 1..i, l \in 1..i : g[k].s = pieces[j].s /\ g[k].e = pieces[l].e
        BY <4>1, <2>7
      <4>3. CASE k = n
        <5>1. a[k].s = pieces[j].s /\ a[k].e = pieces[i + 1].e
          BY <4>2, <4>3, <3>5 DEF p
        <5>2. j \in 1..(i + 1) /\ i + 1 \in 1..(i + 1)
          OBVIOUS
        <5> QED BY <5>1, <5>2
      <4>4. CASE k \in 1..(n - 1)
        <5>1. a[k].s = pieces[j].s /\ a[k].e = pieces[l].e
          BY <4>2, <4>4, <3>5
        <5>2. j \in 1..(i + 1) /\ l \in 1..(i + 1)
          OBVIOUS
        <5> QED BY <5>1, <5>2
      <4> QED BY <4>3, <4>4, <3>1, <3>5
    <3>11. ASSUME NEW j \in 1..(i + 1)
           PROVE  \E k \in 1..Len(a) : a[k].s <= pieces[j].s /\ pieces[j].e <= a[k].e
      <4>1. CASE j = i + 1
        <5>1. a[n].s <= p.s /\ p.e <= a[n].e
          BY <3>3, <3>5, <3>6, <2>3
        <5> QED BY <5>1, <4>1, <3>1, <3>5 DEF p
      <4>2. CASE j \in 1..i
        <5>1. PICK k \in 1..Len(g) : g[k].s <= pieces[j].s /\ pieces[j].e <= g[k].e
          BY <4>2, <2>7
        <5>2. CASE k = n
          <6>1. pieces[j].e \in Int
            BY <4>2, <2>2, <1>1, SpanAt
          <6>2. a[n].s <= pieces[j].s /\ pieces[j].e <= a[n].e
            BY <5>1, <5>2, <6>1, <3>3, <3>5, <3>6, <2>3, <2>4
          <6> QED BY <6>2, <3>1, <3>5
        <5>3. CASE k \in 1..(n - 1)
          BY <5>1, <5>3, <3>5, <3>1
        <5> QED BY <5>2, <5>3, <3>1 DEF n
      <4> QED BY <4>1, <4>2
    <3> QED BY <3>9, <3>10, <3>11 DEF a
  <2>10. CASE ~(g # <<>> /\ p.e - Last(g).s <= cap)
    <3>1. a = Append(g, p)
      BY <2>5, <2>10 DEF WithPiece
    <3>2. cap \in Int
      OBVIOUS
    <3>3. /\ Append(g, p) \in Seq(Span) /\ Len(Append(g, p)) = Len(g) + 1
          /\ \A k \in 1..Len(g) : Append(g, p)[k] = g[k]
          /\ Append(g, p)[Len(g) + 1] = p
          /\ Apart(Append(g, p), 0) /\ Short(Append(g, p), cap)
      BY ONLY <3>2, <2>3, <2>4, <2>6, <2>8, AppendApart
    <3>4. /\ a \in Seq(Span) /\ Len(a) = Len(g) + 1
          /\ \A k \in 1..Len(g) : a[k] = g[k]
          /\ a[Len(g) + 1] = p
          /\ Apart(a, 0) /\ Short(a, cap)
      BY <3>1, <3>3
    <3>5. ASSUME NEW k \in 1..Len(a)
           PROVE  \E j, l \in 1..(i + 1) : a[k].s = pieces[j].s /\ a[k].e = pieces[l].e
      <4>1. CASE k \in 1..Len(g)
        <5>1. PICK j \in 1..i, l \in 1..i : g[k].s = pieces[j].s /\ g[k].e = pieces[l].e
          BY <4>1, <2>7
        <5>2. j \in 1..(i + 1) /\ l \in 1..(i + 1)
          OBVIOUS
        <5> QED BY <5>1, <5>2, <4>1, <3>4
      <4>2. CASE k = Len(g) + 1
        BY <4>2, <3>4 DEF p
      <4> QED BY <4>1, <4>2, <3>4, <2>6
    <3>6. ASSUME NEW j \in 1..(i + 1)
           PROVE  \E k \in 1..Len(a) : a[k].s <= pieces[j].s /\ pieces[j].e <= a[k].e
      <4>1. CASE j = i + 1
        <5>1. Len(g) + 1 \in 1..Len(a) /\ p.s <= p.s /\ p.e <= p.e
          BY <3>4, <2>3, <2>6
        <5> QED BY <5>1, <4>1, <3>4 DEF p
      <4>2. CASE j \in 1..i
        <5>1. PICK k \in 1..Len(g) : g[k].s <= pieces[j].s /\ pieces[j].e <= g[k].e
          BY <4>2, <2>7
        <5>2. k \in 1..Len(a) /\ a[k] = g[k]
          BY <3>4, <2>6
        <5> QED BY <5>1, <5>2
      <4> QED BY <4>1, <4>2
    <3> QED BY <3>4, <3>5, <3>6 DEF a
  <2> QED BY <2>9, <2>10
<1>5. Good(Len(pieces))
  <2> HIDE DEF Good
  <2>1. Nat \subseteq N
    <3> HIDE DEF N
    <3> QED BY <1>3, <1>4, Induction
  <2> QED BY <2>1, <1>1
<1> QED BY <1>2, <1>5 DEF Within

\* What is left after the resume boundary: in order, short, and what the chunks had there.
LEMMA BoundaryWhole ==
    ASSUME NEW groups, Apart(groups, 0), NEW cap \in Nat \ {0}, Short(groups, cap),
           NEW from \in Nat, NEW total \in Nat
    PROVE  LET c == FromBoundary(groups, from, total)
           IN  /\ Apart(c, 0) /\ Short(c, cap) /\ Within(c, groups)
               /\ \A k \in 1..Len(c) : from <= c[k].s /\ c[k].e <= total
               /\ \A x \in from..(total - 1) : Inside(groups, x) => Inside(c, x)
<1>1. groups \in Seq(Span) /\ Len(groups) \in Nat
  BY DEF Apart
<1>1a. from \in Int /\ total \in Int
  OBVIOUS
<1>2. PICK f : /\ FromBoundary(groups, from, total) = f[Len(groups)] /\ f[0] = <<>>
               /\ \A i \in 1..Len(groups) : f[i] = Trimmed(f[i - 1], groups[i], from, total)
  BY <1>1, <1>1a, BoundarySteps
<1> DEFINE Good(i) ==
             /\ Apart(f[i], 0) /\ Short(f[i], cap)
             /\ \A k \in 1..Len(f[i]) : from <= f[i][k].s /\ f[i][k].e <= total
             /\ \A k \in 1..Len(f[i]) : \E j \in 1..i : groups[j].s <= f[i][k].s /\ f[i][k].e <= groups[j].e
             /\ \A x \in from..(total - 1), j \in 1..i :
                   groups[j].s <= x /\ x < groups[j].e => Inside(f[i], x)
           N == {i \in Nat : i <= Len(groups) => Good(i)}
<1>3. 0 \in N
  <2>1. f[0] \in Seq(Span) /\ Len(f[0]) = 0
    BY <1>2
  <2>2. Good(0)
    BY <2>1 DEF Apart, Short
  <2> QED BY <2>2
<1>4. ASSUME NEW i \in Nat, i \in N PROVE i + 1 \in N
  <2> SUFFICES ASSUME i + 1 <= Len(groups) PROVE Good(i + 1)
    <3> HIDE DEF Good
    <3> QED OBVIOUS
  <2> DEFINE g == groups[i + 1]
             q == f[i]
             a == f[i + 1]
             c == [s |-> AtLeast(g.s, from), e |-> AtMost(g.e, total)]
  <2>1. Good(i)
    <3> HIDE DEF Good
    <3> QED BY <1>4, <1>1
  <2>2. i + 1 \in 1..Len(groups) /\ (i + 1) - 1 = i
    BY <1>1
  <2>3. g \in Span /\ g.s \in Int /\ g.e \in Int
    BY <1>1, <2>2, SpanAt
  <2>4. g.s < g.e /\ g.e - g.s <= cap
    BY <2>2 DEF Apart, Short
  <2>5. a = Trimmed(q, g, from, total)
    BY <1>2, <2>2
  <2> HIDE DEF g, a
  <2>6. Apart(q, 0) /\ Short(q, cap) /\ q \in Seq(Span) /\ Len(q) \in Nat
    BY <2>1 DEF Apart
  <2>7. /\ \A k \in 1..Len(q) : from <= q[k].s /\ q[k].e <= total
        /\ \A k \in 1..Len(q) : \E j \in 1..i : groups[j].s <= q[k].s /\ q[k].e <= groups[j].e
        /\ \A x \in from..(total - 1), j \in 1..i :
              groups[j].s <= x /\ x < groups[j].e => Inside(q, x)
    BY <2>1
  <2> HIDE DEF q
  <2>8. /\ c \in Span /\ c.s \in Int /\ c.e \in Int
        /\ g.s <= c.s /\ from <= c.s /\ c.e <= g.e /\ c.e <= total
        /\ c.s = g.s \/ c.s = from
        /\ c.e = g.e \/ c.e = total
    BY <2>3 DEF Span, AtLeast, AtMost
  <2>9. a = IF g.e > from /\ c.e > c.s THEN Append(q, c) ELSE q
    BY <2>5 DEF Trimmed
  <2>10. ASSUME NEW k \in 1..Len(q) PROVE q[k].e <= g.s
    <3>1. PICK j \in 1..i : q[k].e <= groups[j].e
      BY <2>7
    <3>2. j \in 1..Len(groups) /\ j < i + 1
      BY <1>1
    <3>3. groups[j].e + 0 <= g.s
      BY <3>2, <2>2 DEF Apart, g
    <3>4. groups[j].e \in Int
      BY <3>2, <1>1, SpanAt
    <3>5. q[k].e \in Int
      BY <2>6, SpanAt
    <3> QED BY <3>1, <3>3, <3>4, <3>5, <2>3
  <2>11. CASE g.e > from /\ c.e > c.s
    <3>1. a = Append(q, c)
      BY <2>9, <2>11
    <3> HIDE DEF c
    <3>2. ASSUME NEW k \in 1..Len(q) PROVE q[k].e <= c.s
      <4>1. q[k].e \in Int
        BY <2>6, SpanAt
      <4> QED BY <4>1, <2>3, <2>8, <2>10
    <3>3. cap \in Int /\ c.s < c.e /\ c.e - c.s <= cap
      BY <2>3, <2>4, <2>8, <2>11
    <3>4. /\ Append(q, c) \in Seq(Span) /\ Len(Append(q, c)) = Len(q) + 1
          /\ \A k \in 1..Len(q) : Append(q, c)[k] = q[k]
          /\ Append(q, c)[Len(q) + 1] = c
          /\ Apart(Append(q, c), 0) /\ Short(Append(q, c), cap)
      BY ONLY <3>2, <3>3, <2>6, <2>8, AppendApart
    <3>5. /\ a \in Seq(Span) /\ Len(a) = Len(q) + 1
          /\ \A k \in 1..Len(q) : a[k] = q[k]
          /\ a[Len(q) + 1] = c
          /\ Apart(a, 0) /\ Short(a, cap)
      BY <3>1, <3>4
    <3>6. ASSUME NEW k \in 1..Len(a)
          PROVE  /\ from <= a[k].s /\ a[k].e <= total
                 /\ \E j \in 1..(i + 1) : groups[j].s <= a[k].s /\ a[k].e <= groups[j].e
      <4>1. CASE k \in 1..Len(q)
        <5>1. a[k] = q[k] /\ from <= q[k].s /\ q[k].e <= total
          BY <4>1, <3>5, <2>7
        <5>2. PICK j \in 1..i : groups[j].s <= q[k].s /\ q[k].e <= groups[j].e
          BY <4>1, <2>7
        <5>3. j \in 1..(i + 1)
          OBVIOUS
        <5> QED BY <5>1, <5>2, <5>3
      <4>2. CASE k = Len(q) + 1
        <5>1. a[k] = c /\ i + 1 \in 1..(i + 1)
          BY <4>2, <3>5
        <5> QED BY <5>1, <2>8 DEF g
      <4> QED BY <4>1, <4>2, <3>5, <2>6
    <3>7. ASSUME NEW x \in from..(total - 1), NEW j \in 1..(i + 1), groups[j].s <= x, x < groups[j].e
          PROVE  Inside(a, x)
      <4>1. CASE j \in 1..i
        <5>1. Inside(q, x)
          BY <4>1, <3>7, <2>7
        <5>2. PICK k \in 1..Len(q) : q[k].s <= x /\ x < q[k].e
          BY <5>1, <2>6, InsideAt
        <5>3. k \in 1..Len(a) /\ a[k].s <= x /\ x < a[k].e
          BY <5>2, <3>5, <2>6
        <5> QED BY <5>3, <3>5, InsideAt
      <4>2. CASE j = i + 1
        <5>1. c.s <= x /\ x < c.e
          <6>1. g.s <= x /\ x < g.e /\ from <= x /\ x < total /\ x \in Int
            BY <4>2, <3>7 DEF g
          <6> QED BY <6>1, <2>3, <2>8
        <5>2. Len(q) + 1 \in 1..Len(a) /\ a[Len(q) + 1].s <= x /\ x < a[Len(q) + 1].e
          BY <5>1, <3>5, <2>6
        <5> QED BY <5>2, <3>5, InsideAt
      <4> QED BY <4>1, <4>2
    <3> QED BY <3>5, <3>6, <3>7 DEF a
  <2>12. CASE ~(g.e > from /\ c.e > c.s)
    <3>1. a = q
      BY <2>9, <2>12
    <3>2. ASSUME NEW k \in 1..Len(a)
          PROVE  \E j \in 1..(i + 1) : groups[j].s <= a[k].s /\ a[k].e <= groups[j].e
      <4>1. PICK j \in 1..i : groups[j].s <= q[k].s /\ q[k].e <= groups[j].e
        BY <3>1, <2>7
      <4>2. j \in 1..(i + 1)
        OBVIOUS
      <4> QED BY <4>1, <4>2, <3>1
    <3>3. ASSUME NEW x \in from..(total - 1), NEW j \in 1..(i + 1), groups[j].s <= x, x < groups[j].e
          PROVE  Inside(a, x)
      <4>1. CASE j \in 1..i
        BY <4>1, <3>1, <3>3, <2>7
      <4>2. CASE j = i + 1
        <5>1. g.s <= x /\ x < g.e /\ from <= x /\ x < total /\ x \in Int
          BY <4>2, <3>3 DEF g
        <5>2. FALSE
          <6>1. c.s <= x /\ x < c.e
            BY <5>1, <2>3, <2>8
          <6> HIDE DEF c
          <6> QED BY <5>1, <6>1, <2>3, <2>8, <2>12
        <5> QED BY <5>2
      <4> QED BY <4>1, <4>2
    <3> QED BY <3>1, <3>2, <3>3, <2>6, <2>7 DEF a
  <2> QED BY <2>11, <2>12
<1>5. Good(Len(groups))
  <2> HIDE DEF Good
  <2>1. Nat \subseteq N
    <3> HIDE DEF N
    <3> QED BY <1>3, <1>4, Induction
  <2> QED BY <2>1, <1>1
<1>6. ASSUME NEW x \in from..(total - 1), Inside(groups, x)
      PROVE  Inside(FromBoundary(groups, from, total), x)
  <2>1. PICK j \in 1..Len(groups) : groups[j].s <= x /\ x < groups[j].e
    BY <1>1, <1>6, InsideAt
  <2> QED BY <2>1, <1>5, <1>2
<1> QED BY <1>2, <1>5, <1>6 DEF Within

LEMMA AtMostSo == ASSUME NEW a \in Int, NEW b \in Int, NEW c \in Int, a <= b, b <= c PROVE a <= c
OBVIOUS
LEMMA BelowSo == ASSUME NEW a \in Int, NEW b \in Int, NEW c \in Int, a < b, b <= c PROVE a < c
OBVIOUS

\* What a pass splits a recording into: chunks in order and short enough, of all speech
\* after the boundary, and of what lies between speech.
LEMMA SplitWhole ==
    ASSUME NEW regions, NEW gap \in Nat, Apart(regions, gap), NEW cap \in Nat \ {0},
           NEW from \in Nat, NEW total \in Nat
    PROVE  LET c == SplitAtSpeech(regions, cap, from, total)
           IN  /\ Apart(c, 0) /\ Short(c, cap)
               /\ \A k \in 1..Len(c) : from <= c[k].s /\ c[k].e <= total
               /\ \A x \in from..(total - 1) : Inside(regions, x) => Inside(c, x)
               /\ \A x \in Int : Inside(c, x) => Between(regions, x)
<1> DEFINE q == Capped(regions, cap)
           g == Grouped(q, cap)
           c == FromBoundary(g, from, total)
<1>0. SplitAtSpeech(regions, cap, from, total) = c
  BY DEF SplitAtSpeech
<1>1. /\ Apart(q, 0) /\ Short(q, cap) /\ Within(q, regions)
      /\ \A x \in Int : Inside(regions, x) => Inside(q, x)
  BY CappedWhole
<1> HIDE DEF q
<1>2. /\ Apart(g, 0) /\ Short(g, cap) /\ Within(q, g)
      /\ \A k \in 1..Len(g) : \E i, j \in 1..Len(q) : g[k].s = q[i].s /\ g[k].e = q[j].e
  BY <1>1, GroupedWhole
<1> HIDE DEF g
<1>3. /\ Apart(c, 0) /\ Short(c, cap) /\ Within(c, g)
      /\ \A k \in 1..Len(c) : from <= c[k].s /\ c[k].e <= total
      /\ \A x \in from..(total - 1) : Inside(g, x) => Inside(c, x)
  BY <1>2, BoundaryWhole
<1> HIDE DEF c
<1>4. regions \in Seq(Span) /\ q \in Seq(Span) /\ g \in Seq(Span) /\ c \in Seq(Span)
  BY <1>1, <1>2, <1>3 DEF Apart
<1>5. ASSUME NEW x \in from..(total - 1), Inside(regions, x) PROVE Inside(c, x)
  <2>1. x \in Int
    BY <1>5
  <2>2. PICK i \in 1..Len(q) : q[i].s <= x /\ x < q[i].e
    BY <2>1, <1>1, <1>4, <1>5, InsideAt
  <2>3. PICK k \in 1..Len(g) : g[k].s <= q[i].s /\ q[i].e <= g[k].e
    BY <1>2 DEF Within
  <2>4. q[i].s \in Int /\ q[i].e \in Int
    BY <1>4, SpanAt
  <2>5. g[k].s \in Int /\ g[k].e \in Int
    BY <1>4, SpanAt
  <2>6. g[k].s <= x /\ x < g[k].e
    BY <2>1, <2>2, <2>3, <2>4, <2>5
  <2>7. Inside(g, x)
    BY <2>6, <1>4, InsideAt
  <2> QED BY <2>7, <1>3
<1>6. ASSUME NEW x \in Int, Inside(c, x) PROVE Between(regions, x)
  <2>1. PICK k \in 1..Len(c) : c[k].s <= x /\ x < c[k].e
    BY <1>4, <1>6, InsideAt
  <2>2. PICK l \in 1..Len(g) : g[l].s <= c[k].s /\ c[k].e <= g[l].e
    BY <1>3 DEF Within
  <2>3. PICK i \in 1..Len(q), j \in 1..Len(q) : g[l].s = q[i].s /\ g[l].e = q[j].e
    BY <1>2
  <2>4. PICK m \in 1..Len(regions) : regions[m].s <= q[i].s
    BY <1>1 DEF Within
  <2>5. PICK n \in 1..Len(regions) : q[j].e <= regions[n].e
    BY <1>1 DEF Within
  <2>6. c[k].s \in Int /\ c[k].e \in Int
    BY <1>4, SpanAt
  <2>7. g[l].s \in Int /\ g[l].e \in Int
    BY <1>4, SpanAt
  <2>8. regions[m].s \in Int /\ regions[n].e \in Int
    BY <1>4, SpanAt
  <2>9. regions[m].s <= x /\ x < regions[n].e
    <3>1. regions[m].s <= g[l].s
      BY <2>3, <2>4
    <3>2. g[l].e <= regions[n].e
      BY <2>3, <2>5
    <3>3. g[l].s <= x /\ x < g[l].e
      <4>3. g[l].s <= x
        BY ONLY <2>1, <2>2, <2>6, <2>7, AtMostSo, x \in Int
      <4>4. x < g[l].e
        BY ONLY <2>1, <2>2, <2>6, <2>7, BelowSo, x \in Int
      <4> QED BY <4>3, <4>4
    <3>6. regions[m].s <= x
      BY ONLY <3>1, <3>3, <2>7, <2>8, AtMostSo, x \in Int
    <3>7. x < regions[n].e
      BY ONLY <3>2, <3>3, <2>7, <2>8, BelowSo, x \in Int
    <3> QED BY <3>6, <3>7
  <2>10. DOMAIN regions = 1..Len(regions)
    BY <1>4
  <2> QED BY <2>9, <2>10 DEF Between
<1> QED BY <1>0, <1>3, <1>5, <1>6
-----------------------------------------------------------------------------
(* What the detector makes of the frames *)

\* A region begins and ends with speech.
Spoken(frames, r) ==
    \E k, l \in 0..Len(frames) :
       /\ k < l /\ r.s = Time(k) /\ r.e = Time(l)
       /\ frames[k + 1] = TRUE /\ (l < Len(frames) => frames[l + 1] = FALSE)
Exact(frames, q) ==
    /\ Apart(q, MinSilence)
    /\ \A j \in 1..Len(q) : Spoken(frames, q[j]) /\ q[j].e - q[j].s >= MinSpeech
Before(q, b) == \A j \in 1..Len(q) : q[j].e + MinSilence <= b

\* Speech from x on lasts long enough; it is in a region.
Lasts(frames, x) ==
    \A p \in 0..(Len(frames) - 1) : Time(p) < x + MinSpeech /\ x < Time(p + 1) => frames[p + 1] = TRUE
Detected(q, x) == \E j \in 1..Len(q) : q[j].s <= x /\ x + MinSpeech <= q[j].e

\* A region is open: it begins with frame k + 1, and frame l is the last speech in it.
Talks(frames, i, a, k, l) ==
    /\ k \in 0..i /\ l \in 0..i /\ k < l
    /\ a.from = Time(k) /\ a.quiet = Time(i) - Time(l)
    /\ frames[k + 1] = TRUE /\ (k > 0 => frames[k] = FALSE)
    /\ \A n \in (l + 1)..i : frames[n] = FALSE
    /\ Before(a.found, Time(k))
    /\ \A x \in Nat : x + MinSpeech <= Time(i) /\ Lasts(frames, x) =>
          Detected(a.found, x) \/ (Time(k) <= x /\ x + MinSpeech <= Time(l))
Silent(frames, i, a) ==
    /\ i > 0 => frames[i] = FALSE
    /\ Before(a.found, Time(i))
    /\ \A x \in Nat : x + MinSpeech <= Time(i) /\ Lasts(frames, x) => Detected(a.found, x)

\* Where the detector is after i frames.
Hears(frames, i, a) ==
    /\ a \in Scans /\ Exact(frames, a.found)
    /\ IF a.talks THEN \E k, l \in 0..i : Talks(frames, i, a, k, l) ELSE Silent(frames, i, a)

LEMMA TimeSteps ==
    ASSUME NEW k \in Nat
    PROVE  Time(k) \in Nat /\ Time(0) = 0 /\ Time(k + 1) = Time(k) + Window
<1>1. k \in Int /\ Window \in Nat \ {0}
  BY ChunkingAssumption
<1> QED BY <1>1, MultSteps DEF Time

LEMMA TimeGrows ==
    ASSUME NEW k \in Nat, NEW l \in Nat, k <= l
    PROVE  Time(k) <= Time(l)
<1>1. Window \in Nat \ {0} /\ k \in Int /\ l \in Int
  BY ChunkingAssumption
<1>2. Time(k) \in Nat
  BY TimeSteps
<1>3. CASE k = l
  BY <1>2, <1>3
<1>4. CASE k < l
  <2>1. Time(k) + Window <= Time(l)
    BY <1>1, <1>4, MultGrows DEF Time
  <2>2. Time(l) \in Nat
    BY TimeSteps
  <2> QED BY <1>1, <1>2, <2>1, <2>2
<1> QED BY <1>3, <1>4

\* One region more.
LEMMA AppendExact ==
    ASSUME NEW frames, NEW q, Exact(frames, q), NEW p \in Span, p.s < p.e, Before(q, p.s),
           Spoken(frames, p), p.e - p.s >= MinSpeech
    PROVE  LET a == Append(q, p)
           IN  /\ Exact(frames, a) /\ Len(a) = Len(q) + 1 /\ Len(q) \in Nat
               /\ \A j \in 1..Len(q) : a[j] = q[j]
               /\ a[Len(q) + 1] = p
<1> DEFINE a == Append(q, p)
<1>1. q \in Seq(Span) /\ Len(q) \in Nat
  BY DEF Exact, Apart
<1>2. /\ a \in Seq(Span) /\ Len(a) = Len(q) + 1
      /\ \A i \in 1..Len(q) : a[i] = q[i]
      /\ a[Len(q) + 1] = p
  BY <1>1
<1> HIDE DEF a
<1>3. ASSUME NEW i \in 1..Len(a)
      PROVE  a[i].s < a[i].e /\ Spoken(frames, a[i]) /\ a[i].e - a[i].s >= MinSpeech
  <2>1. CASE i \in 1..Len(q)
    <3>1. q[i].s < q[i].e /\ Spoken(frames, q[i]) /\ q[i].e - q[i].s >= MinSpeech
      BY <2>1 DEF Exact, Apart
    <3> QED BY <2>1, <3>1, <1>2
  <2>2. CASE i = Len(q) + 1
    BY <2>2, <1>2
  <2> QED BY <2>1, <2>2, <1>1, <1>2
<1>4. ASSUME NEW i \in 1..Len(a), NEW j \in 1..Len(a), i < j PROVE a[i].e + MinSilence <= a[j].s
  <2>1. i \in 1..Len(q)
    BY <1>1, <1>2, <1>4
  <2>2. CASE j \in 1..Len(q)
    BY <2>1, <2>2, <1>2, <1>4 DEF Apart, Exact
  <2>3. CASE j = Len(q) + 1
    BY <2>1, <2>3, <1>2 DEF Before
  <2> QED BY <2>2, <2>3, <1>1, <1>2
<1>5. Exact(frames, a)
  BY <1>2, <1>3, <1>4 DEF Apart, Exact
<1> QED BY <1>1, <1>2, <1>5 DEF a

LEMMA ScanFields ==
    ASSUME NEW a \in Scans, NEW speech \in BOOLEAN, NEW start \in Int
    PROVE  LET b == ScanFrame(a, speech, start)
           IN  /\ speech => /\ b.talks = TRUE /\ b.quiet = 0 /\ b.found = a.found
                            /\ b.from = IF a.talks THEN a.from ELSE start
               /\ ~speech /\ ~a.talks => b = a
               /\ ~speech /\ a.talks /\ a.quiet + Window < MinSilence =>
                     /\ b.talks = TRUE /\ b.quiet = a.quiet + Window /\ b.found = a.found
                     /\ b.from = a.from
<1> DEFINE q == a.quiet + Window
           more == RegionsWith(a, start - q + Window)
<1>1. a = [talks |-> a.talks, from |-> a.from, quiet |-> a.quiet, found |-> a.found]
  BY DEF Scans
<1>2. ScanFrame(a, speech, start) =
        IF speech
        THEN [a EXCEPT !.talks = TRUE, !.quiet = 0, !.from = IF a.talks THEN @ ELSE start]
        ELSE IF ~a.talks THEN a
        ELSE IF q < MinSilence THEN [a EXCEPT !.quiet = q]
        ELSE [a EXCEPT !.talks = FALSE, !.quiet = 0, !.found = more]
  BY DEF ScanFrame
<1>2a. a.talks \in BOOLEAN
  BY DEF Scans
<1> HIDE DEF q, more
<1>3. ASSUME speech
      PROVE  ScanFrame(a, speech, start) =
               [talks |-> TRUE, from |-> IF a.talks THEN a.from ELSE start, quiet |-> 0, found |-> a.found]
  BY <1>1, <1>2, <1>3
<1>4. ASSUME ~speech, a.talks, q < MinSilence
      PROVE  ScanFrame(a, speech, start) =
               [talks |-> a.talks, from |-> a.from, quiet |-> q, found |-> a.found]
  BY <1>1, <1>2, <1>4
<1>6. ~speech /\ ~a.talks => ScanFrame(a, speech, start) = a
  BY <1>2
<1> DEFINE b == ScanFrame(a, speech, start)
<1> HIDE DEF b
<1>7. ASSUME speech
      PROVE  /\ b.talks = TRUE /\ b.quiet = 0 /\ b.found = a.found
             /\ b.from = IF a.talks THEN a.from ELSE start
  <2> DEFINE w == IF a.talks THEN a.from ELSE start
  <2>1. b = [talks |-> TRUE, from |-> w, quiet |-> 0, found |-> a.found]
    BY <1>3, <1>7 DEF b
  <2> HIDE DEF w
  <2>2. b.talks = TRUE /\ b.quiet = 0 /\ b.found = a.found /\ b.from = w
    BY <2>1
  <2> QED BY <2>2 DEF w
<1>8. ASSUME ~speech, a.talks, q < MinSilence
      PROVE  b.talks = a.talks /\ b.quiet = q /\ b.found = a.found /\ b.from = a.from
  <2>1. b = [talks |-> a.talks, from |-> a.from, quiet |-> q, found |-> a.found]
    BY <1>4, <1>8 DEF b
  <2> QED BY <2>1
<1> QED BY <1>2a, <1>6, <1>7, <1>8 DEF b, q, more

LEMMA ScanCloses ==
    ASSUME NEW a \in Scans, NEW speech, NEW start, ~speech, a.talks, ~(a.quiet + Window < MinSilence)
    PROVE  /\ ScanFrame(a, speech, start).talks = FALSE
           /\ ScanFrame(a, speech, start).found = RegionsWith(a, start - (a.quiet + Window) + Window)
<1> DEFINE q == a.quiet + Window
           more == RegionsWith(a, start - q + Window)
<1>1. a = [talks |-> a.talks, from |-> a.from, quiet |-> a.quiet, found |-> a.found]
  BY DEF Scans
<1>2. ScanFrame(a, speech, start) = [a EXCEPT !.talks = FALSE, !.quiet = 0, !.found = more]
  BY DEF ScanFrame
<1> HIDE DEF q, more
<1>3. ScanFrame(a, speech, start) =
        [talks |-> FALSE, from |-> a.from, quiet |-> 0, found |-> more]
  BY <1>1, <1>2
<1>4. ScanFrame(a, speech, start).talks = FALSE /\ ScanFrame(a, speech, start).found = more
  BY <1>3
<1> QED BY <1>4 DEF q, more

\* Speech that begins before a region does is not in it: the frame before was silent.
LEMMA LateStart ==
    ASSUME NEW frames \in Seq(BOOLEAN), NEW k \in 0..Len(frames), k > 0 => frames[k] = FALSE,
           NEW x \in Nat, Lasts(frames, x), Time(k) < x + MinSpeech
    PROVE  Time(k) <= x
<1>1. Len(frames) \in Nat /\ k \in Nat /\ Time(k) \in Nat /\ Time(0) = 0
  <2>1. Len(frames) \in Nat /\ k \in Nat
    OBVIOUS
  <2> QED BY <2>1, TimeSteps
<1>2. CASE k = 0
  BY <1>1, <1>2
<1>3. CASE k > 0
  <2> SUFFICES ASSUME x < Time(k) PROVE FALSE
    BY <1>1
  <2>1. k - 1 \in 0..(Len(frames) - 1) /\ k - 1 \in Nat /\ (k - 1) + 1 = k
    BY <1>1, <1>3
  <2>2. Time(k - 1) \in Nat /\ Time((k - 1) + 1) = Time(k - 1) + Window
    BY <2>1, TimeSteps
  <2>3. Time(k - 1) < x + MinSpeech
    <3>1. Time(k) = Time(k - 1) + Window
      BY <2>1, <2>2
    <3> QED BY <3>1, <2>2, ChunkingAssumption
  <2>4. frames[(k - 1) + 1] = TRUE
    BY <2>1, <2>3 DEF Lasts
  <2> QED BY <1>3, <2>1, <2>4
<1> QED BY <1>1, <1>2, <1>3

\* What lasts cannot end in a silent frame.
LEMMA EarlyEnd ==
    ASSUME NEW frames \in Seq(BOOLEAN), NEW i \in Nat, i < Len(frames), frames[i + 1] = FALSE,
           NEW x \in Nat, Lasts(frames, x), x + MinSpeech <= Time(i + 1)
    PROVE  x + MinSpeech <= Time(i)
<1>1. Len(frames) \in Nat /\ i \in 0..(Len(frames) - 1)
  OBVIOUS
<1>2. Time(i) \in Nat /\ Time(i + 1) = Time(i) + Window
  BY TimeSteps
<1> SUFFICES ASSUME Time(i) < x + MinSpeech PROVE FALSE
  BY <1>2, ChunkingAssumption
<1>3. x < Time(i + 1)
  BY <1>2, ChunkingAssumption
<1> QED BY <1>1, <1>3 DEF Lasts

\* A frame of speech: a region is open now.
LEMMA HearsSpeech ==
    ASSUME NEW frames \in Seq(BOOLEAN), NEW i \in Nat, i < Len(frames), frames[i + 1] = TRUE,
           NEW a, Hears(frames, i, a)
    PROVE  Hears(frames, i + 1, ScanFrame(a, frames[i + 1], Time(i)))
<1> DEFINE b == ScanFrame(a, frames[i + 1], Time(i))
<1>1. Len(frames) \in Nat /\ i \in 0..Len(frames) /\ i + 1 \in 0..Len(frames) /\ i + 1 \in Nat
  OBVIOUS
<1>2. Time(i) \in Nat /\ Time(i + 1) = Time(i) + Window /\ Time(i) \in Int
  BY TimeSteps
<1>3. a \in Scans /\ Exact(frames, a.found)
  BY DEF Hears
<1>4. b \in Scans
  BY <1>2, <1>3, ScanTypes
<1>5. /\ b.talks = TRUE /\ b.quiet = 0 /\ b.found = a.found
      /\ b.from = IF a.talks THEN a.from ELSE Time(i)
  BY <1>2, <1>3, ScanFields
<1> HIDE DEF b
<1>6. SUFFICES \E k \in 0..(i + 1) : Talks(frames, i + 1, b, k, i + 1)
  <2>1. i + 1 \in 0..(i + 1)
    BY <1>1
  <2>2. Exact(frames, b.found)
    BY <1>3, <1>5
  <2> QED BY <1>4, <1>5, <1>6, <2>1, <2>2 DEF Hears, b
\* The region that begins with frame k + 1 has all that lasts and no older region has.
<1>7. ASSUME NEW k \in 0..i, b.from = Time(k), frames[k + 1] = TRUE, k > 0 => frames[k] = FALSE,
             Before(a.found, Time(k)),
             \A x \in Nat : x + MinSpeech <= Time(i) /\ Lasts(frames, x) =>
                Detected(a.found, x) \/ Time(k) <= x
      PROVE  Talks(frames, i + 1, b, k, i + 1)
  <2>1. k \in 0..Len(frames) /\ k \in 0..(i + 1) /\ k \in Nat /\ k <= i
    BY <1>1
  <2>2. Time(k) \in Nat /\ Time(k) <= Time(i)
    BY <2>1, <1>1, TimeSteps, TimeGrows
  <2>3. ASSUME NEW x \in Nat, x + MinSpeech <= Time(i + 1), Lasts(frames, x)
        PROVE  Detected(b.found, x) \/ (Time(k) <= x /\ x + MinSpeech <= Time(i + 1))
    <3>1. CASE x + MinSpeech <= Time(i)
      BY <3>1, <2>3, <1>5, <1>7
    <3>2. CASE ~(x + MinSpeech <= Time(i))
      <4>1. Time(k) < x + MinSpeech
        BY <3>2, <2>2, <1>2, ChunkingAssumption
      <4>2. Time(k) <= x
        BY <4>1, <2>1, <2>3, <1>7, LateStart
      <4> QED BY <4>2, <2>3
    <3> QED BY <3>1, <3>2
  <2>4. b.quiet = Time(i + 1) - Time(i + 1)
    BY <1>2, <1>5, ChunkingAssumption
  <2>5. \A n \in ((i + 1) + 1)..(i + 1) : frames[n] = FALSE
    BY <1>1
  <2>6. k < i + 1 /\ i + 1 \in 0..(i + 1)
    BY <2>1
  <2>7. Before(b.found, Time(k))
    BY <1>5, <1>7
  <2> QED BY <1>7, <2>1, <2>3, <2>4, <2>5, <2>6, <2>7 DEF Talks
<1>8. CASE a.talks
  <2>1. PICK k \in 0..i, l \in 0..i : Talks(frames, i, a, k, l)
    BY <1>8 DEF Hears
  <2>2. /\ b.from = Time(k) /\ frames[k + 1] = TRUE /\ (k > 0 => frames[k] = FALSE)
        /\ Before(a.found, Time(k))
    BY <2>1, <1>5, <1>8 DEF Talks
  <2>3. \A x \in Nat : x + MinSpeech <= Time(i) /\ Lasts(frames, x) =>
                Detected(a.found, x) \/ Time(k) <= x
    BY <2>1 DEF Talks
  <2>4. Talks(frames, i + 1, b, k, i + 1)
    BY <2>2, <2>3, <1>7
  <2> QED BY <2>4
<1>9. CASE ~a.talks
  <2>1. Silent(frames, i, a)
    BY <1>9 DEF Hears
  <2>2. b.from = Time(i) /\ i \in 0..i
    BY <1>5, <1>9
  <2>3. (i > 0 => frames[i] = FALSE) /\ Before(a.found, Time(i))
    BY <2>1 DEF Silent
  <2>4. \A x \in Nat : x + MinSpeech <= Time(i) /\ Lasts(frames, x) => Detected(a.found, x) \/ Time(i) <= x
    BY <2>1 DEF Silent
  <2>5. Talks(frames, i + 1, b, i, i + 1)
    BY <2>2, <2>3, <2>4, <1>7
  <2>6. i \in 0..(i + 1)
    BY <1>1
  <2> QED BY <2>5, <2>6
<1> QED BY <1>8, <1>9

\* A silent frame: a region may close.
LEMMA HearsSilence ==
    ASSUME NEW frames \in Seq(BOOLEAN), NEW i \in Nat, i < Len(frames), frames[i + 1] = FALSE,
           NEW a, Hears(frames, i, a)
    PROVE  Hears(frames, i + 1, ScanFrame(a, frames[i + 1], Time(i)))
<1> DEFINE b == ScanFrame(a, frames[i + 1], Time(i))
<1>1. Len(frames) \in Nat /\ i \in 0..Len(frames) /\ i + 1 \in 0..Len(frames) /\ i + 1 \in Nat
  OBVIOUS
<1>2. Time(i) \in Nat /\ Time(i + 1) = Time(i) + Window /\ Time(i) \in Int /\ Time(i + 1) \in Nat
  BY TimeSteps, <1>1
<1>3. a \in Scans /\ Exact(frames, a.found) /\ a.talks \in BOOLEAN
  BY DEF Hears, Scans
<1>4. b \in Scans
  BY <1>2, <1>3, ScanTypes
<1>5. /\ ~a.talks => b = a
      /\ a.talks /\ a.quiet + Window < MinSilence =>
            b.talks = TRUE /\ b.quiet = a.quiet + Window /\ b.found = a.found /\ b.from = a.from
      /\ a.talks /\ ~(a.quiet + Window < MinSilence) =>
            b.talks = FALSE /\ b.found = RegionsWith(a, Time(i) - (a.quiet + Window) + Window)
  <2>1. frames[i + 1] \in BOOLEAN /\ ~frames[i + 1]
    OBVIOUS
  <2>2. ~a.talks => b = a
    BY ONLY <2>1, <1>2, <1>3, ScanFields
  <2>3. a.talks /\ a.quiet + Window < MinSilence =>
            b.talks = TRUE /\ b.quiet = a.quiet + Window /\ b.found = a.found /\ b.from = a.from
    BY ONLY <2>1, <1>2, <1>3, ScanFields
  <2>4. a.talks /\ ~(a.quiet + Window < MinSilence) =>
            b.talks = FALSE /\ b.found = RegionsWith(a, Time(i) - (a.quiet + Window) + Window)
    <3> SUFFICES ASSUME a.talks, ~(a.quiet + Window < MinSilence)
                 PROVE  b.talks = FALSE /\ b.found = RegionsWith(a, Time(i) - (a.quiet + Window) + Window)
      OBVIOUS
    <3> QED BY <2>1, <1>3, ScanCloses
  <2> QED BY <2>2, <2>3, <2>4
<1> HIDE DEF b
<1>6. ASSUME NEW x \in Nat, x + MinSpeech <= Time(i + 1), Lasts(frames, x)
      PROVE  x + MinSpeech <= Time(i)
  BY <1>6, EarlyEnd
<1>7. ASSUME NEW q, NEW t \in Nat, t <= Time(i + 1), Exact(frames, q), Before(q, t) PROVE Before(q, Time(i + 1))
  <2> SUFFICES ASSUME NEW j \in 1..Len(q) PROVE q[j].e + MinSilence <= Time(i + 1)
    BY DEF Before
  <2>1. q[j].e \in Int
    BY <1>7, SpanAt DEF Exact, Apart
  <2>2. q[j].e + MinSilence <= t
    BY <1>7 DEF Before
  <2> QED BY <2>1, <2>2, <1>2, <1>7, ChunkingAssumption
<1>8. CASE ~a.talks
  <2>1. Silent(frames, i, a)
    BY <1>8 DEF Hears
  <2>2. Before(a.found, Time(i + 1))
    BY <2>1, <1>2, <1>3, <1>7, ChunkingAssumption DEF Silent
  <2>3. \A x \in Nat : x + MinSpeech <= Time(i + 1) /\ Lasts(frames, x) => Detected(a.found, x)
    BY <2>1, <1>6 DEF Silent
  <2>4. Silent(frames, i + 1, a)
    BY <2>2, <2>3 DEF Silent
  <2>5. Hears(frames, i + 1, a)
    BY <2>4, <1>3, <1>8 DEF Hears
  <2> QED BY <2>5, <1>5, <1>8 DEF b
<1>9. CASE a.talks
  <2>1. PICK k \in 0..i, l \in 0..i : Talks(frames, i, a, k, l)
    BY <1>9 DEF Hears
  <2>2. /\ k < l /\ a.from = Time(k) /\ a.quiet = Time(i) - Time(l)
        /\ frames[k + 1] = TRUE /\ (k > 0 => frames[k] = FALSE)
        /\ \A n \in (l + 1)..i : frames[n] = FALSE
        /\ Before(a.found, Time(k))
    BY <2>1 DEF Talks
  <2>3. \A x \in Nat : x + MinSpeech <= Time(i) /\ Lasts(frames, x) =>
          Detected(a.found, x) \/ (Time(k) <= x /\ x + MinSpeech <= Time(l))
    BY <2>1 DEF Talks
  <2>4. k \in Nat /\ l \in Nat /\ k <= l /\ l <= i /\ k \in 0..(i + 1) /\ l \in 0..(i + 1)
    BY <2>2
  <2>5. Time(k) \in Nat /\ Time(l) \in Nat /\ Time(l) <= Time(i)
    BY <2>4, TimeSteps, TimeGrows
  <2>6. \A n \in (l + 1)..(i + 1) : frames[n] = FALSE
    BY <2>2, <2>4
  <2>7. CASE a.quiet + Window < MinSilence
    <3>1. b.talks = TRUE /\ b.quiet = a.quiet + Window /\ b.found = a.found /\ b.from = a.from
      BY <1>5, <1>9, <2>7
    <3>2. b.quiet = Time(i + 1) - Time(l)
      BY <3>1, <2>2, <2>5, <1>2, ChunkingAssumption
    <3>3. ASSUME NEW x \in Nat, x + MinSpeech <= Time(i + 1), Lasts(frames, x)
          PROVE  Detected(b.found, x) \/ (Time(k) <= x /\ x + MinSpeech <= Time(l))
      BY <3>1, <3>3, <2>3, <1>6
    <3>4. Talks(frames, i + 1, b, k, l)
      BY <2>2, <2>4, <2>6, <3>1, <3>2, <3>3 DEF Talks
    <3>5. Exact(frames, b.found)
      BY <3>1, <1>3
    <3>6. Hears(frames, i + 1, b)
      BY <3>1, <3>4, <3>5, <1>4, <2>4 DEF Hears
    <3> QED BY <3>6 DEF b
  <2>8. CASE ~(a.quiet + Window < MinSilence)
    <3> DEFINE p == [s |-> Time(k), e |-> Time(l)]
    <3>1. Time(i) - (a.quiet + Window) + Window = Time(l)
      BY <2>2, <2>5, <1>2, ChunkingAssumption
    <3>2. b.talks = FALSE /\ b.found = IF Time(l) - Time(k) >= MinSpeech THEN Append(a.found, p) ELSE a.found
      BY <3>1, <1>5, <1>9, <2>2, <2>8 DEF RegionsWith
    <3>3. p \in Span /\ p.s = Time(k) /\ p.e = Time(l)
      BY <2>5 DEF Span
    <3> HIDE DEF p
    <3>4. Spoken(frames, p)
      <4>1. l < Len(frames) => frames[l + 1] = FALSE
        BY <2>4, <2>6
      <4>2. k \in 0..Len(frames) /\ l \in 0..Len(frames)
        BY <1>1
      <4> QED BY <4>1, <4>2, <3>3, <2>2 DEF Spoken
    <3>5. Time(l) + MinSilence <= Time(i + 1) /\ Time(k) <= Time(i + 1)
      <4>1. Time(k) <= Time(l)
        BY <2>4, TimeGrows
      <4> QED BY <4>1, <2>2, <2>5, <2>8, <1>2, ChunkingAssumption
    <3>6. Before(a.found, Time(i + 1))
      BY <3>5, <2>2, <2>5, <1>3, <1>7
    <3>7. CASE Time(l) - Time(k) >= MinSpeech
      <4>1. b.found = Append(a.found, p)
        BY <3>2, <3>7
      <4>2. p.s < p.e /\ Before(a.found, p.s) /\ p.e - p.s >= MinSpeech
        BY <3>3, <3>7, <2>2, <2>5, ChunkingAssumption
      <4>3. /\ Exact(frames, b.found) /\ Len(b.found) = Len(a.found) + 1 /\ Len(a.found) \in Nat
            /\ \A j \in 1..Len(a.found) : b.found[j] = a.found[j]
            /\ b.found[Len(a.found) + 1] = p
        BY <4>1, <4>2, <3>3, <3>4, <1>3, AppendExact
      <4>4. Before(b.found, Time(i + 1))
        <5> SUFFICES ASSUME NEW j \in 1..Len(b.found) PROVE b.found[j].e + MinSilence <= Time(i + 1)
          BY DEF Before
        <5>1. CASE j \in 1..Len(a.found)
          BY <5>1, <4>3, <3>6 DEF Before
        <5>2. CASE j = Len(a.found) + 1
          BY <5>2, <4>3, <3>3, <3>5
        <5> QED BY <5>1, <5>2, <4>3
      <4>5. ASSUME NEW x \in Nat, x + MinSpeech <= Time(i + 1), Lasts(frames, x)
            PROVE  Detected(b.found, x)
        <5>1. Detected(a.found, x) \/ (Time(k) <= x /\ x + MinSpeech <= Time(l))
          BY <4>5, <2>3, <1>6
        <5>2. CASE Detected(a.found, x)
          <6>1. PICK j \in 1..Len(a.found) : a.found[j].s <= x /\ x + MinSpeech <= a.found[j].e
            BY <5>2 DEF Detected
          <6>2. j \in 1..Len(b.found) /\ b.found[j] = a.found[j]
            BY <4>3
          <6> QED BY <6>1, <6>2 DEF Detected
        <5>3. CASE Time(k) <= x /\ x + MinSpeech <= Time(l)
          <6>1. Len(a.found) + 1 \in 1..Len(b.found)
            BY <4>3
          <6> QED BY <5>3, <6>1, <4>3, <3>3 DEF Detected
        <5> QED BY <5>1, <5>2, <5>3
      <4>6. Silent(frames, i + 1, b)
        BY <4>4, <4>5 DEF Silent
      <4>7. Hears(frames, i + 1, b)
        BY <4>3, <4>6, <3>2, <1>4 DEF Hears
      <4> QED BY <4>7 DEF b
    <3>8. CASE ~(Time(l) - Time(k) >= MinSpeech)
      <4>1. b.found = a.found
        BY <3>2, <3>8
      <4>2. ASSUME NEW x \in Nat, x + MinSpeech <= Time(i + 1), Lasts(frames, x)
            PROVE  Detected(a.found, x)
        <5>1. Detected(a.found, x) \/ (Time(k) <= x /\ x + MinSpeech <= Time(l))
          BY <4>2, <2>3, <1>6
        <5>2. ~(Time(k) <= x /\ x + MinSpeech <= Time(l))
          BY <3>8, <2>5, ChunkingAssumption
        <5> QED BY <5>1, <5>2
      <4>3. Silent(frames, i + 1, b)
        BY <4>1, <4>2, <3>6 DEF Silent
      <4>4. Hears(frames, i + 1, b)
        BY <4>1, <4>3, <3>2, <1>3, <1>4 DEF Hears
      <4> QED BY <4>4 DEF b
    <3> QED BY <3>7, <3>8
  <2> QED BY <2>7, <2>8
<1> QED BY <1>3, <1>8, <1>9

\* The regions of a recording, whatever its frames.
LEMMA RegionsWhole ==
    ASSUME NEW frames \in Seq(BOOLEAN)
    PROVE  /\ Exact(frames, SpeechRegions(frames))
           /\ \A x \in Nat : x + MinSpeech <= Time(Len(frames)) /\ Lasts(frames, x) =>
                 Detected(SpeechRegions(frames), x)
<1> DEFINE n == Len(frames)
           a == Scanned(frames)
           r == SpeechRegions(frames)
<1>1. n \in Nat
  OBVIOUS
<1>2. PICK f : /\ a = f[n] /\ f[0] = Still
               /\ \A i \in 1..n : f[i] = ScanFrame(f[i - 1], frames[i], Time(i - 1))
  BY ScanSteps
<1> DEFINE N == {i \in Nat : i <= n => Hears(frames, i, f[i])}
<1>3. 0 \in N
  <2>1. Time(0) = 0 /\ 0 \in Nat
    BY TimeSteps
  <2>2. Still \in Scans /\ Still.talks = FALSE /\ Still.found = <<>>
    BY DEF Still, Scans
  <2>3. <<>> \in Seq(Span) /\ Len(<<>>) = 0
    OBVIOUS
  <2>4. Exact(frames, Still.found) /\ Before(Still.found, Time(0))
    BY <2>2, <2>3 DEF Exact, Apart, Before
  <2>5. \A x \in Nat : ~(x + MinSpeech <= Time(0))
    BY <2>1, ChunkingAssumption
  <2>6. Silent(frames, 0, Still)
    BY <2>4, <2>5 DEF Silent
  <2>7. Hears(frames, 0, Still)
    BY <2>2, <2>4, <2>6 DEF Hears
  <2> QED BY <2>7, <1>2
<1>4. ASSUME NEW i \in Nat, i \in N PROVE i + 1 \in N
  <2> SUFFICES ASSUME i + 1 <= n PROVE Hears(frames, i + 1, f[i + 1])
    OBVIOUS
  <2>1. Hears(frames, i, f[i])
    BY <1>1, <1>4
  <2>2. i + 1 \in 1..n /\ (i + 1) - 1 = i /\ i < n
    BY <1>1
  <2>3. f[i + 1] = ScanFrame(f[i], frames[i + 1], Time(i))
    BY <2>2, <1>2
  <2>4. CASE frames[i + 1] = TRUE
    BY <2>1, <2>2, <2>3, <2>4, HearsSpeech
  <2>5. CASE frames[i + 1] = FALSE
    BY <2>1, <2>2, <2>3, <2>5, HearsSilence
  <2>6. frames[i + 1] \in BOOLEAN
    BY <2>2
  <2> QED BY <2>4, <2>5, <2>6
<1>5. Hears(frames, n, a)
  <2>1. Nat \subseteq N
    <3> HIDE DEF N
    <3> QED BY <1>3, <1>4, Induction
  <2> QED BY <2>1, <1>1, <1>2
<1>6. SpeechRegions(frames) = IF a.talks THEN RegionsWith(a, Time(n)) ELSE a.found
  BY DEF SpeechRegions, Time, Mult
<1> HIDE DEF a
<1>7. CASE ~a.talks
  BY <1>5, <1>6, <1>7 DEF Hears, Silent
<1>8. CASE a.talks
  <2>1. Exact(frames, a.found) /\ \E k, l \in 0..n : Talks(frames, n, a, k, l)
    BY <1>5, <1>8 DEF Hears
  <2>2. PICK k \in 0..n, l \in 0..n : Talks(frames, n, a, k, l)
    BY <2>1
  <2>3. /\ k < l /\ a.from = Time(k) /\ frames[k + 1] = TRUE
        /\ Before(a.found, Time(k))
    BY <2>2 DEF Talks
  <2>4. \A x \in Nat : x + MinSpeech <= Time(n) /\ Lasts(frames, x) =>
          Detected(a.found, x) \/ (Time(k) <= x /\ x + MinSpeech <= Time(l))
    BY <2>2 DEF Talks
  <2>5. k \in Nat /\ l \in Nat /\ l <= n /\ k < n /\ k \in 0..Len(frames) /\ n \in 0..Len(frames)
    BY <1>1, <2>3
  <2>6. Time(k) \in Nat /\ Time(l) \in Nat /\ Time(n) \in Nat /\ Time(l) <= Time(n)
    BY <1>1, <2>5, TimeSteps, TimeGrows
  <2> DEFINE p == [s |-> Time(k), e |-> Time(n)]
             q == SpeechRegions(frames)
  <2>7. q = IF Time(n) - Time(k) >= MinSpeech THEN Append(a.found, p) ELSE a.found
    BY <1>6, <1>8, <2>3 DEF RegionsWith
  <2>8. p \in Span /\ p.s = Time(k) /\ p.e = Time(n)
    BY <2>6 DEF Span
  <2> HIDE DEF p
  <2>9. Spoken(frames, p)
    BY <2>3, <2>5, <2>8 DEF Spoken
  <2> HIDE DEF q, n
  <2>10. CASE Time(n) - Time(k) >= MinSpeech
    <3>1. q = Append(a.found, p)
      BY <2>7, <2>10
    <3>2. p.s < p.e /\ Before(a.found, p.s) /\ p.e - p.s >= MinSpeech
      BY <2>8, <2>10, <2>3, <2>6, ChunkingAssumption
    <3>3. /\ Exact(frames, q) /\ Len(q) = Len(a.found) + 1 /\ Len(a.found) \in Nat
          /\ \A j \in 1..Len(a.found) : q[j] = a.found[j]
          /\ q[Len(a.found) + 1] = p
      BY <3>1, <3>2, <2>8, <2>9, <2>1, AppendExact
    <3>4. ASSUME NEW x \in Nat, x + MinSpeech <= Time(n), Lasts(frames, x) PROVE Detected(q, x)
      <4>1. CASE Detected(a.found, x)
        <5>1. PICK j \in 1..Len(a.found) : a.found[j].s <= x /\ x + MinSpeech <= a.found[j].e
          BY <4>1 DEF Detected
        <5>2. j \in 1..Len(q) /\ q[j] = a.found[j]
          BY <3>3
        <5> QED BY <5>1, <5>2 DEF Detected
      <4>2. CASE Time(k) <= x
        <5>1. Len(a.found) + 1 \in 1..Len(q)
          BY <3>3
        <5> QED BY <4>2, <5>1, <3>3, <3>4, <2>8 DEF Detected
      <4> QED BY <4>1, <4>2, <3>4, <2>4
    <3> QED BY <3>3, <3>4 DEF q, n
  <2>11. CASE ~(Time(n) - Time(k) >= MinSpeech)
    <3>1. q = a.found
      BY <2>7, <2>11
    <3>2. ASSUME NEW x \in Nat, x + MinSpeech <= Time(n), Lasts(frames, x) PROVE Detected(q, x)
      <4>1. ~(Time(k) <= x /\ x + MinSpeech <= Time(l))
        BY <2>6, <2>11, ChunkingAssumption
      <4> QED BY <4>1, <3>1, <3>2, <2>4
    <3> QED BY <3>1, <3>2, <2>1 DEF q, n
  <2> QED BY <2>10, <2>11
<1> QED BY <1>7, <1>8

\* The sample of a frame, and the frame of a sample.
LEMMA FrameAt ==
    ASSUME NEW frames \in Seq(BOOLEAN), NEW k \in 0..Len(frames)
    PROVE  /\ Time(k) \in Nat /\ Time(Len(frames)) \in Nat /\ Time(k) \div Window = k
           /\ Time(k) < Time(Len(frames)) <=> k < Len(frames)
<1>1. Len(frames) \in Nat /\ k \in Nat /\ Window \in Nat \ {0}
  BY ChunkingAssumption
<1>2. Time(k) \in Nat /\ Time(Len(frames)) \in Nat /\ Time(k + 1) = Time(k) + Window
  BY <1>1, TimeSteps
<1>3. Time(k) \div Window = k
  <2> DEFINE y == Time(k)
  <2>1. y \in Nat /\ Mult(k, Window) <= y /\ y < Mult(k + 1, Window)
    BY <1>1, <1>2 DEF Time
  <2> HIDE DEF y
  <2>2. y \div Window = k
    BY ONLY <1>1, <2>1, MultAt
  <2> QED BY <2>2 DEF y
<1>4. CASE k < Len(frames)
  <2>1. Time(k + 1) <= Time(Len(frames))
    BY <1>1, <1>4, TimeGrows
  <2> QED BY <2>1, <1>1, <1>2, <1>3, <1>4
<1>5. CASE k = Len(frames)
  BY <1>2, <1>3, <1>5
<1> QED BY <1>1, <1>4, <1>5

\* The detector is exact, whatever the frames are.
LEMMA DetectorExact ==
    ASSUME asr.frames \in Seq(BOOLEAN)
    PROVE  RegionsExact
<1> DEFINE fs == asr.frames
           q == SpeechRegions(fs)
           n == Len(fs)
           speech(x) == fs[x \div Window + 1]
           samples == 0..(n * Window - 1)
<1>1. fs \in Seq(BOOLEAN) /\ n \in Nat
  OBVIOUS
<1> HIDE DEF fs
<1>2. /\ Exact(fs, q)
      /\ \A x \in Nat : x + MinSpeech <= Time(n) /\ Lasts(fs, x) => Detected(q, x)
  BY <1>1, RegionsWhole
<1> HIDE DEF q
<1>3. q \in Seq(Span) /\ DOMAIN q = 1..Len(q) /\ Len(q) \in Nat
  BY <1>2 DEF Exact, Apart
<1>4. Time(n) \in Nat /\ samples = 0..(Time(n) - 1)
  <2>1. Time(n) \in Nat
    BY <1>1, TimeSteps
  <2> QED BY <2>1 DEF Time, Mult
<1> HIDE DEF samples
<1>5. ASSUME NEW i \in 1..Len(q)
      PROVE  /\ q[i].e - q[i].s >= MinSpeech
             /\ speech(q[i].s)
             /\ q[i].e \in samples => ~speech(q[i].e)
  <2>1. Spoken(fs, q[i]) /\ q[i].e - q[i].s >= MinSpeech
    BY <1>2 DEF Exact
  <2>2. PICK k \in 0..n, l \in 0..n :
               /\ k < l /\ q[i].s = Time(k) /\ q[i].e = Time(l)
               /\ fs[k + 1] = TRUE /\ (l < n => fs[l + 1] = FALSE)
    BY <2>1 DEF Spoken
  <2>3. Time(k) \div Window = k
    BY <1>1, FrameAt
  <2>4. Time(l) \div Window = l /\ (Time(l) < Time(n) <=> l < n) /\ Time(l) \in Nat
    BY <1>1, FrameAt
  <2>5. q[i].e \in samples => ~speech(q[i].e)
    <3> SUFFICES ASSUME q[i].e \in samples PROVE fs[l + 1] = FALSE
      BY <2>2, <2>4
    <3> QED BY <2>2, <2>4, <1>4
  <2> QED BY <2>1, <2>2, <2>3, <2>5
<1>6. ASSUME NEW i \in 1..(Len(q) - 1) PROVE q[i + 1].s - q[i].e >= MinSilence
  <2>1. i \in 1..Len(q) /\ i + 1 \in 1..Len(q) /\ i < i + 1
    BY <1>3
  <2>2. q[i].e + MinSilence <= q[i + 1].s
    BY <1>2, <2>1 DEF Exact, Apart
  <2>3. q[i].e \in Int
    BY <1>3, <2>1, SpanAt
  <2>4. q[i + 1].s \in Int
    BY <1>3, <2>1, SpanAt
  <2> QED BY <2>2, <2>3, <2>4, ChunkingAssumption
<1>7. ASSUME NEW x \in samples, NEW k \in (x - MinSpeech + 1)..x, k >= 0,
             k + MinSpeech - 1 \in samples, \A y \in k..(k + MinSpeech - 1) : speech(y)
      PROVE  Inside(q, x)
  <2> HIDE DEF speech
  <2>0. x \in 0..(Time(n) - 1) /\ k \in (x - MinSpeech + 1)..x /\ k >= 0 /\ k + MinSpeech - 1 \in 0..(Time(n) - 1)
    BY <1>4, <1>7
  <2>1. k \in Nat /\ k + MinSpeech <= Time(n) /\ x \in Nat /\ k <= x /\ x < k + MinSpeech
    BY ONLY <1>4, <2>0, ChunkingAssumption
  <2>2. Lasts(fs, k)
    <3> SUFFICES ASSUME NEW p \in 0..(n - 1), Time(p) < k + MinSpeech, k < Time(p + 1)
                 PROVE  fs[p + 1] = TRUE
      BY DEF Lasts
    <3>1. p \in Nat /\ Window \in Nat \ {0} /\ Time(p) \in Nat /\ Time(p + 1) = Time(p) + Window
      <4>1. p \in Nat
        OBVIOUS
      <4> QED BY <4>1, TimeSteps, ChunkingAssumption
    <3> DEFINE y == AtLeast(k, Time(p))
    <3>2. y \in Nat /\ k <= y /\ y < k + MinSpeech /\ Time(p) <= y /\ y < Time(p + 1)
      BY <3>1, <2>1, ChunkingAssumption DEF AtLeast
    <3> HIDE DEF y
    <3>3. y \div Window = p
      <4>1. Mult(p, Window) <= y /\ y < Mult(p + 1, Window)
        BY <3>2 DEF Time
      <4> QED BY ONLY <3>1, <3>2, <4>1, MultAt
    <3>4. speech(y)
      <4>1. y \in k..(k + MinSpeech - 1)
        BY ONLY <3>2, <2>1, ChunkingAssumption
      <4> QED BY <4>1, <1>7
    <3>5. fs[p + 1] \in BOOLEAN
      BY <1>1
    <3> QED BY <3>3, <3>4, <3>5 DEF speech
  <2>3. PICK j \in 1..Len(q) : q[j].s <= k /\ k + MinSpeech <= q[j].e
    BY <2>1, <2>2, <1>2 DEF Detected
  <2>4. q[j].s \in Int /\ q[j].e \in Int
    BY <1>3, SpanAt
  <2>5. q[j].s <= x /\ x < q[j].e
    BY <2>1, <2>3, <2>4, ChunkingAssumption
  <2> QED BY <2>5, <1>3, InsideAt
<1> DEFINE lasting == {x \in samples : \E k \in (x - MinSpeech + 1)..x :
                         /\ k >= 0 /\ k + MinSpeech - 1 \in samples
                         /\ \A y \in k..(k + MinSpeech - 1) : speech(y)}
<1>8. \A x \in lasting : Inside(q, x)
  <2> HIDE DEF samples
  <2> QED BY <1>7
<1>9. \A i \in DOMAIN q :
               /\ q[i].e - q[i].s >= MinSpeech
               /\ speech(q[i].s)
               /\ q[i].e \in samples => ~speech(q[i].e)
  BY <1>3, <1>5
<1> HIDE DEF lasting
<1>10. \A i \in 1..(Len(q) - 1) : q[i + 1].s - q[i].e >= MinSilence
  BY <1>6
<1> QED BY <1>8, <1>9, <1>10 DEF RegionsExact, lasting, samples, q, fs

-----------------------------------------------------------------------------
(* What is transcribed *)

\* What a recognizer makes of a part of the recording.
Hearing(voice, p) ==
    [words |-> {[sound |-> x, at |-> x - p.s] : x \in {y \in p.s..(p.e - 1) : voice[y + 1]}},
     offset |-> p.s]

\* The parts of the recording before b that were transcribed: in order, with
\* all the speech that was detected there, and nothing before or after all speech.
Told(voice, frames, done, q, b) ==
    /\ Apart(q, 0) /\ b \in Nat
    /\ done = [i \in 1..Len(q) |-> Hearing(voice, q[i])]
    /\ \A i \in 1..Len(q) : 0 <= q[i].s /\ q[i].e <= b
    /\ \A x \in Int : Inside(q, x) => Between(SpeechRegions(frames), x)
    /\ \A x \in 0..(b - 1) : Inside(SpeechRegions(frames), x) => Inside(q, x)

LEMMA ToldNothing ==
    ASSUME NEW voice, NEW frames
    PROVE  Told(voice, frames, <<>>, <<>>, 0)
<1>1. <<>> \in Seq(Span) /\ Len(<<>>) = 0 /\ DOMAIN <<>> = {}
  OBVIOUS
<1>2. <<>> = [i \in 1..Len(<<>>) |-> Hearing(voice, <<>>[i])]
  BY <1>1
<1>3. \A x : ~Inside(<<>>, x)
  BY <1>1 DEF Inside
<1>4. Apart(<<>>, 0)
  BY <1>1 DEF Apart
<1> QED BY <1>1, <1>2, <1>3, <1>4 DEF Told

\* Where nobody speaks there is nothing to tell.
LEMMA ToldLater ==
    ASSUME NEW voice, NEW frames, NEW done, NEW q, NEW b, Told(voice, frames, done, q, b),
           NEW c \in Nat, b <= c, \A x \in b..(c - 1) : ~Inside(SpeechRegions(frames), x)
    PROVE  Told(voice, frames, done, q, c)
<1>1. b \in Nat /\ q \in Seq(Span)
  BY DEF Told, Apart
<1>2. \A i \in 1..Len(q) : 0 <= q[i].s /\ q[i].e <= c
  <2> TAKE i \in 1..Len(q)
  <2>1. q[i].e \in Int
    BY <1>1, SpanAt
  <2>2. 0 <= q[i].s /\ q[i].e <= b
    BY DEF Told
  <2> QED BY <1>1, <2>1, <2>2
<1>3. \A x \in 0..(c - 1) : Inside(SpeechRegions(frames), x) => Inside(q, x)
  <2> TAKE x \in 0..(c - 1)
  <2>1. x \in 0..(b - 1) \/ x \in b..(c - 1)
    BY <1>1
  <2> QED BY <2>1 DEF Told
<1> QED BY <1>2, <1>3 DEF Told

\* One chunk more.
LEMMA ToldMore ==
    ASSUME NEW voice, NEW frames, NEW done, NEW q, NEW p \in Span, p.s < p.e,
           Told(voice, frames, done, q, p.s),
           \A x \in p.s..(p.e - 1) : Between(SpeechRegions(frames), x)
    PROVE  Told(voice, frames, Append(done, Hearing(voice, p)), Append(q, p), p.e)
<1> DEFINE a == Append(q, p)
           more == Append(done, Hearing(voice, p))
<1>1. q \in Seq(Span) /\ Len(q) \in Nat /\ p.s \in Nat /\ p.e \in Nat
  BY DEF Told, Apart, Span
<1>2. Apart(q, 0) /\ \A i \in 1..Len(q) : 0 <= q[i].s /\ q[i].e <= p.s
  BY DEF Told
<1>3. Short(q, p.e)
  <2> SUFFICES ASSUME NEW i \in 1..Len(q) PROVE q[i].e - q[i].s <= p.e
    BY DEF Short
  <2>1. q[i].e \in Int /\ q[i].s \in Int
    BY <1>1, SpanAt
  <2> QED BY <2>1, <1>1, <1>2
<1>4. /\ a \in Seq(Span) /\ Len(a) = Len(q) + 1
      /\ \A i \in 1..Len(q) : a[i] = q[i]
      /\ a[Len(q) + 1] = p
      /\ Apart(a, 0)
  <2>1. p.e \in Int /\ p.e - p.s <= p.e
    BY <1>1
  <2> QED BY ONLY <1>2, <1>3, <2>1, p \in Span, p.s < p.e, AppendApart
<1>5. more = [i \in 1..Len(a) |-> Hearing(voice, a[i])]
  <2>1. done = [i \in 1..Len(q) |-> Hearing(voice, q[i])]
    BY DEF Told
  <2> DEFINE h == Hearing(voice, p)
  <2>2. \A i \in 1..Len(q) : done[i] = Hearing(voice, q[i])
    BY <2>1
  <2>3. Hearing(voice, p) = h
    OBVIOUS
  <2> DEFINE S == {Hearing(voice, q[i]) : i \in 1..Len(q)} \cup {h}
  <2>4. done \in Seq(S) /\ Len(done) = Len(q) /\ h \in S
    BY <2>1, <1>1
  <2> HIDE DEF S, h, a
  <2>5. /\ Append(done, h) = [i \in 1..Len(Append(done, h)) |-> Append(done, h)[i]]
        /\ Len(Append(done, h)) = Len(q) + 1
        /\ \A i \in 1..Len(q) : Append(done, h)[i] = done[i]
        /\ Append(done, h)[Len(q) + 1] = h
    <3>1. Append(done, h) \in Seq(S) /\ Len(Append(done, h)) = Len(done) + 1
      BY <2>4
    <3>2. \A i \in 1..Len(done) : Append(done, h)[i] = done[i]
      BY <2>4
    <3>3. Append(done, h)[Len(done) + 1] = h
      BY <2>4
    <3> DEFINE w == Append(done, h)
    <3>4. w \in Seq(S)
      BY <3>1
    <3> HIDE DEF w
    <3>5. w = [i \in 1..Len(w) |-> w[i]]
      BY <3>4
    <3> QED BY <3>1, <3>2, <3>3, <3>5, <2>4 DEF w
  <2>6. \A i \in 1..Len(a) : Append(done, h)[i] = Hearing(voice, a[i])
    <3> TAKE i \in 1..Len(a)
    <3>1. CASE i \in 1..Len(q)
      BY <3>1, <2>2, <2>5, <1>4
    <3>2. CASE i = Len(q) + 1
      <4>1. Append(done, h)[i] = h /\ a[i] = p
        BY <3>2, <2>5, <1>4
      <4> QED BY ONLY <4>1, <2>3
    <3>3. i \in 1..Len(q) \/ i = Len(q) + 1
      BY <1>1, <1>4
    <3> QED BY ONLY <3>1, <3>2, <3>3
  <2>7. Append(done, h) = [i \in 1..Len(a) |-> Hearing(voice, a[i])]
    BY <2>5, <2>6, <1>4
  <2> QED BY <2>7 DEF h
<1> HIDE DEF a, more
<1>6. \A i \in 1..Len(a) : 0 <= a[i].s /\ a[i].e <= p.e
  <2> TAKE i \in 1..Len(a)
  <2>1. CASE i \in 1..Len(q)
    <3>1. q[i].e \in Int /\ q[i].s \in Int
      BY <1>1, <2>1, SpanAt
    <3> QED BY <2>1, <3>1, <1>1, <1>2, <1>4
  <2>2. CASE i = Len(q) + 1
    BY <2>2, <1>1, <1>4
  <2> QED BY <2>1, <2>2, <1>1, <1>4
<1>7. ASSUME NEW x \in Int
      PROVE  Inside(a, x) <=> Inside(q, x) \/ (p.s <= x /\ x < p.e)
  <2>1. ASSUME NEW i \in 1..Len(a), a[i].s <= x, x < a[i].e PROVE Inside(q, x) \/ (p.s <= x /\ x < p.e)
    <3>1. CASE i \in 1..Len(q)
      BY <2>1, <3>1, <1>1, <1>4, InsideAt
    <3>2. CASE i = Len(q) + 1
      BY <2>1, <3>2, <1>4
    <3> QED BY <3>1, <3>2, <1>1, <1>4
  <2>2. ASSUME NEW i \in 1..Len(q), q[i].s <= x, x < q[i].e PROVE Inside(a, x)
    <3>1. i \in 1..Len(a) /\ a[i].s <= x /\ x < a[i].e
      BY <2>2, <1>1, <1>4
    <3> QED BY <3>1, <1>4, InsideAt
  <2>3. ASSUME p.s <= x, x < p.e PROVE Inside(a, x)
    <3>1. Len(q) + 1 \in 1..Len(a) /\ a[Len(q) + 1].s <= x /\ x < a[Len(q) + 1].e
      BY <2>3, <1>1, <1>4
    <3> QED BY <3>1, <1>4, InsideAt
  <2>4. Inside(a, x) => \E i \in 1..Len(a) : a[i].s <= x /\ x < a[i].e
    BY <1>4, InsideAt
  <2>5. Inside(q, x) => \E i \in 1..Len(q) : q[i].s <= x /\ x < q[i].e
    BY <1>1, InsideAt
  <2> QED BY <2>1, <2>2, <2>3, <2>4, <2>5
<1>8. \A x \in Int : Inside(a, x) => Between(SpeechRegions(frames), x)
  <2> TAKE x \in Int
  <2>1. Inside(q, x) => Between(SpeechRegions(frames), x)
    BY DEF Told
  <2>2. p.s <= x /\ x < p.e => Between(SpeechRegions(frames), x)
    <3>1. p.s <= x /\ x < p.e => x \in p.s..(p.e - 1)
      BY <1>1
    <3> QED BY <3>1
  <2> QED BY <2>1, <2>2, <1>7
<1>9. \A x \in 0..(p.e - 1) : Inside(SpeechRegions(frames), x) => Inside(a, x)
  <2> TAKE x \in 0..(p.e - 1)
  <2>1. x \in Int /\ (x \in 0..(p.s - 1) \/ (p.s <= x /\ x < p.e))
    BY <1>1
  <2>2. x \in 0..(p.s - 1) => (Inside(SpeechRegions(frames), x) => Inside(q, x))
    BY DEF Told
  <2> QED BY <2>1, <2>2, <1>7
<1>10. Told(voice, frames, more, a, p.e)
  BY <1>1, <1>4, <1>5, <1>6, <1>8, <1>9 DEF Told
<1> QED BY <1>10 DEF a, more

\* The chunks that are left: short enough, in order, with all speech from the first on.
Left(frames, total, cap, c) ==
    /\ c # <<>> /\ Apart(c, 0) /\ Short(c, cap)
    /\ \A k \in 1..Len(c) : 0 <= c[k].s /\ c[k].e <= total
    /\ \A x \in c[1].s..(total - 1) : Inside(SpeechRegions(frames), x) => Inside(c, x)
    /\ \A x \in Int : Inside(c, x) => Between(SpeechRegions(frames), x)

\* A pass goes on where the last one stopped, and misses nothing.
LEMMA PassBegins ==
    ASSUME NEW voice, NEW frames \in Seq(BOOLEAN), NEW done, NEW q, NEW cap \in Nat \ {0}, NEW total \in Nat,
           NEW from \in 0..total, Told(voice, frames, done, q, from)
    PROVE  LET c == SplitAtSpeech(SpeechRegions(frames), cap, from, total)
           IN  IF c = <<>> THEN Told(voice, frames, done, q, total)
               ELSE Left(frames, total, cap, c) /\ Told(voice, frames, done, q, c[1].s)
<1> DEFINE regions == SpeechRegions(frames)
           c == SplitAtSpeech(regions, cap, from, total)
<1>1. Apart(regions, MinSilence) /\ MinSilence \in Nat /\ from \in Nat /\ from <= total
  BY RegionsWhole, ChunkingAssumption DEF Exact
<1>2. /\ Apart(c, 0) /\ Short(c, cap)
      /\ \A k \in 1..Len(c) : from <= c[k].s /\ c[k].e <= total
      /\ \A x \in from..(total - 1) : Inside(regions, x) => Inside(c, x)
      /\ \A x \in Int : Inside(c, x) => Between(regions, x)
  <2> HIDE DEF regions
  <2> QED BY <1>1, SplitWhole
<1> HIDE DEF c
<1>3. c \in Seq(Span) /\ Len(c) \in Nat
  BY <1>2 DEF Apart
<1>4. CASE c = <<>>
  <2>1. Len(c) = 0
    BY <1>4
  <2>2. \A x \in from..(total - 1) : ~Inside(regions, x)
    <3> TAKE x \in from..(total - 1)
    <3>1. ~Inside(c, x)
      <4>1. DOMAIN c = {}
        BY <1>4
      <4> QED BY <4>1 DEF Inside
    <3> QED BY <3>1, <1>2
  <2>3. Told(voice, frames, done, q, total)
    BY <2>2, <1>1, ToldLater
  <2> QED BY <2>3, <1>4 DEF c
<1>5. CASE c # <<>>
  <2>1. Len(c) > 0 /\ 1 \in 1..Len(c)
    BY <1>3, <1>5
  <2>2. c[1].s \in Int /\ c[1].e \in Int
    BY <2>1, <1>3, SpanAt
  <2>3. c[1].s \in Nat /\ from <= c[1].s /\ c[1].e <= total
    BY <2>1, <2>2, <1>1, <1>2
  <2>4. \A x \in from..(c[1].s - 1) : ~Inside(regions, x)
    <3> TAKE x \in from..(c[1].s - 1)
    <3>1. x \in Int /\ x < c[1].s
      BY <2>3, <1>1
    <3>2. c[1].s < c[1].e
      BY <2>1, <1>2 DEF Apart
    <3>3. x \in from..(total - 1)
      BY <3>1, <3>2, <2>2, <2>3, <1>1
    <3>4. ~Inside(c, x)
      <4> SUFFICES ASSUME NEW k \in 1..Len(c), c[k].s <= x PROVE FALSE
        BY <1>3, InsideAt
      <4>1. CASE k = 1
        BY <4>1, <3>1, <2>2
      <4>2. CASE 1 < k
        <5>1. c[1].e + 0 <= c[k].s
          BY <4>2, <2>1, <1>2 DEF Apart
        <5>2. c[k].s \in Int
          BY <1>3, SpanAt
        <5> QED BY <5>1, <5>2, <3>1, <3>2, <2>2
      <4> QED BY <4>1, <4>2
    <3> QED BY <3>3, <3>4, <1>2
  <2>5. Told(voice, frames, done, q, c[1].s)
    BY <2>3, <2>4, ToldLater
  <2>6. \A k \in 1..Len(c) : 0 <= c[k].s /\ c[k].e <= total
    <3> TAKE k \in 1..Len(c)
    <3>1. c[k].s \in Int
      BY <1>3, SpanAt
    <3>2. from <= c[k].s /\ c[k].e <= total
      BY <1>2
    <3> QED BY <3>1, <3>2, <1>1
  <2>7. \A x \in c[1].s..(total - 1) : Inside(regions, x) => Inside(c, x)
    BY <2>3, <1>1, <1>2
  <2>8. Left(frames, total, cap, c)
    BY <2>6, <2>7, <1>2, <1>5 DEF Left
  <2> QED BY <2>5, <2>8, <1>5 DEF c
<1> QED BY <1>4, <1>5

\* A chunk is transcribed, and the rest is left.
LEMMA ChunkTold ==
    ASSUME NEW voice, NEW frames, NEW done, NEW q, NEW cap \in Nat \ {0}, NEW total \in Nat, NEW c,
           Left(frames, total, cap, c), Told(voice, frames, done, q, c[1].s)
    PROVE  LET a == Append(done, Hearing(voice, c[1]))
           IN  IF Tail(c) = <<>> THEN Told(voice, frames, a, Append(q, c[1]), total)
               ELSE /\ Left(frames, total, cap, Tail(c))
                    /\ Told(voice, frames, a, Append(q, c[1]), Tail(c)[1].s)
<1> DEFINE regions == SpeechRegions(frames)
           r == Tail(c)
           p == c[1]
           a == Append(done, Hearing(voice, p))
<1>1. c \in Seq(Span) /\ Len(c) \in Nat /\ c # <<>> /\ Apart(c, 0) /\ Short(c, cap)
  BY DEF Left, Apart
<1>2. Len(c) > 0 /\ 1 \in 1..Len(c) /\ r \in Seq(Span) /\ Len(r) = Len(c) - 1 /\ \A k \in 1..Len(r) : r[k] = c[k + 1]
  BY <1>1
<1>3. p \in Span /\ p.s \in Int /\ p.e \in Int
  BY <1>1, <1>2, SpanAt
<1>4. p.s < p.e /\ 0 <= p.s /\ p.e <= total
  BY <1>1, <1>2 DEF Left, Apart
<1>5. \A x \in p.s..(p.e - 1) : Between(regions, x)
  <2> TAKE x \in p.s..(p.e - 1)
  <2>1. x \in Int /\ p.s <= x /\ x < p.e
    BY <1>3
  <2>2. Inside(c, x)
    BY <2>1, <1>1, <1>2, InsideAt
  <2> QED BY <2>1, <2>2 DEF Left
<1> HIDE DEF r, p, a, regions
<1>6. Told(voice, frames, a, Append(q, p), p.e)
  BY <1>3, <1>4, <1>5, ToldMore DEF p, a, regions
<1>7. ASSUME NEW x \in Int, Inside(c, x), p.e <= x PROVE Inside(r, x)
  <2>1. PICK k \in 1..Len(c) : c[k].s <= x /\ x < c[k].e
    BY <1>1, <1>7, InsideAt
  <2>2. k # 1
    BY <2>1, <1>3, <1>7 DEF p
  <2>3. k - 1 \in 1..Len(r) /\ r[k - 1] = c[k]
    <3>1. k - 1 \in 1..Len(r) /\ (k - 1) + 1 = k
      BY <2>2, <1>1, <1>2
    <3> QED BY <3>1, <1>2
  <2> QED BY <2>1, <2>3, <1>2, InsideAt
<1>8. ASSUME NEW x \in p.e..(total - 1), Inside(regions, x) PROVE Inside(r, x)
  <2>1. x \in Int /\ p.e <= x /\ x \in p.s..(total - 1)
    BY <1>3, <1>4
  <2>2. Inside(c, x)
    BY <2>1, <1>8 DEF Left, p, regions
  <2> QED BY <2>1, <2>2, <1>7
<1>9. CASE r = <<>>
  <2>1. \A x \in p.e..(total - 1) : ~Inside(regions, x)
    <3> TAKE x \in p.e..(total - 1)
    <3>1. DOMAIN r = {}
      BY <1>9
    <3>2. ~Inside(r, x)
      BY <3>1 DEF Inside
    <3> QED BY <3>2, <1>8
  <2>2. Told(voice, frames, a, Append(q, p), total)
    BY <2>1, <1>4, <1>6, ToldLater DEF regions
  <2> QED BY <2>2, <1>9 DEF r, p, a
<1>10. CASE r # <<>>
  <2>1. 1 \in 1..Len(r) /\ r[1] = c[2] /\ 2 \in 1..Len(c)
    BY <1>1, <1>2, <1>10
  <2>2. r[1].s \in Int
    BY <2>1, <1>2, SpanAt
  <2>3. p.e <= r[1].s
    <3>1. c[1].e + 0 <= c[2].s
      BY <2>1, <1>1, <1>2 DEF Apart
    <3> QED BY <3>1, <2>1, <1>3 DEF p
  <2>4. r[1].s \in Nat
    BY <2>2, <2>3, <1>3, <1>4
  <2>4a. ASSUME NEW k \in 1..Len(r), 1 < k PROVE r[1].s <= r[k].s
    <3>1. 2 \in 1..Len(c) /\ k + 1 \in 1..Len(c) /\ 2 < k + 1
      BY <2>1, <2>4a, <1>2, <1>1
    <3>2. c[2].e + 0 <= c[k + 1].s /\ c[2].s < c[2].e
      BY <3>1, <1>1 DEF Apart
    <3>3. c[2].e \in Int /\ c[2].s \in Int
      BY <3>1, <1>1, SpanAt
    <3>4. c[k + 1].s \in Int
      BY <3>1, <1>1, SpanAt
    <3>5. c[2].s <= c[k + 1].s
      BY <3>2, <3>3, <3>4
    <3> QED BY <3>5, <2>1, <1>2
  <2>5. \A x \in p.e..(r[1].s - 1) : ~Inside(regions, x)
    <3> TAKE x \in p.e..(r[1].s - 1)
    <3>1. x \in Int /\ x < r[1].s
      BY <2>2, <1>3
    <3>2. ~Inside(r, x)
      <4> SUFFICES ASSUME NEW k \in 1..Len(r), r[k].s <= x PROVE FALSE
        BY <1>2, InsideAt
      <4>1. r[1].s <= r[k].s
        BY <2>2, <2>4a
      <4>2. r[k].s \in Int
        BY <1>2, SpanAt
      <4> QED BY <4>1, <4>2, <3>1, <2>2
    <3>3. x \in p.e..(total - 1)
      <4>1. r[1].s < r[1].e /\ r[1].e <= total
        BY <2>1, <1>1 DEF Left, Apart
      <4>2. r[1].e \in Int
        BY <2>1, <1>2, SpanAt
      <4> QED BY <4>1, <4>2, <3>1, <2>2, <1>3
    <3> QED BY <3>2, <3>3, <1>8
  <2>6. Told(voice, frames, a, Append(q, p), r[1].s)
    BY <2>3, <2>4, <2>5, <1>6, ToldLater DEF regions
  <2>7. Apart(r, 0) /\ Short(r, cap) /\ \A k \in 1..Len(r) : 0 <= r[k].s /\ r[k].e <= total
    <3>1. ASSUME NEW k \in 1..Len(r)
          PROVE  /\ r[k].s < r[k].e /\ r[k].e - r[k].s <= cap
                 /\ 0 <= r[k].s /\ r[k].e <= total
      <4>1. k + 1 \in 1..Len(c) /\ r[k] = c[k + 1]
        BY <1>1, <1>2
      <4> QED BY <4>1, <1>1 DEF Left, Apart, Short
    <3>2. ASSUME NEW k \in 1..Len(r), NEW l \in 1..Len(r), k < l PROVE r[k].e + 0 <= r[l].s
      <4>1. k + 1 \in 1..Len(c) /\ r[k] = c[k + 1] /\ l + 1 \in 1..Len(c) /\ r[l] = c[l + 1] /\ k + 1 < l + 1
        BY <1>1, <1>2, <3>2
      <4> QED BY <4>1, <1>1 DEF Apart
    <3> QED BY <3>1, <3>2, <1>2 DEF Apart, Short
  <2>8. \A x \in r[1].s..(total - 1) : Inside(regions, x) => Inside(r, x)
    <3> TAKE x \in r[1].s..(total - 1)
    <3>1. x \in p.e..(total - 1)
      BY <2>2, <2>3, <1>3
    <3> QED BY <3>1, <1>8
  <2>9. \A x \in Int : Inside(r, x) => Between(regions, x)
    <3> SUFFICES ASSUME NEW x \in Int, NEW k \in 1..Len(r), r[k].s <= x, x < r[k].e
                 PROVE  Between(regions, x)
      BY <1>2, InsideAt
    <3>1. k + 1 \in 1..Len(c) /\ c[k + 1].s <= x /\ x < c[k + 1].e
      BY <1>1, <1>2
    <3>2. Inside(c, x)
      BY <3>1, <1>1, InsideAt
    <3> QED BY <3>2 DEF Left, regions
  <2>10. Left(frames, total, cap, r)
    BY <2>7, <2>8, <2>9, <1>10 DEF Left, regions
  <2> QED BY <2>6, <2>10, <1>10 DEF r, p, a
<1> QED BY <1>9, <1>10 DEF r

\* A word of a part, put where the part is in the recording, is where it was said.
LEMMA WordInPlace ==
    ASSUME NEW x \in Int, NEW s \in Int
    PROVE  [[sound |-> x, at |-> x - s] EXCEPT !.at = @ + s] = [sound |-> x, at |-> x]
OBVIOUS

\* What is said in a part, each sample in its place.
Said(voice, p) == {[sound |-> x, at |-> x] : x \in {y \in p.s..(p.e - 1) : voice[y + 1]}}

LEMMA MergedWords ==
    ASSUME NEW voice, NEW q \in Seq(Span), NEW done, done = [i \in 1..Len(q) |-> Hearing(voice, q[i])]
    PROVE  /\ DOMAIN Merged(done) = 1..Len(q)
           /\ \A i \in 1..Len(q) : Merged(done)[i] = Said(voice, q[i])
<1>1. DOMAIN Merged(done) = 1..Len(q)
  BY DEF Merged
<1>2. ASSUME NEW i \in 1..Len(q)
      PROVE  Merged(done)[i] = {[sound |-> x, at |-> x] : x \in {y \in q[i].s..(q[i].e - 1) : voice[y + 1]}}
  <2> DEFINE s == q[i].s
             X == {y \in s..(q[i].e - 1) : voice[y + 1]}
             words == {[sound |-> x, at |-> x - s] : x \in X}
  <2>1. s \in Int /\ X \subseteq Int
    <3>1. s \in Int
      BY SpanAt
    <3> QED BY <3>1
  <2>2. done[i].words = words /\ done[i].offset = s
    BY DEF Hearing
  <2>3. Merged(done)[i] = {[w EXCEPT !.at = @ + s] : w \in words}
    BY <2>2, <1>1 DEF Merged
  <2>4. {[w EXCEPT !.at = @ + s] : w \in words} =
          {[[sound |-> x, at |-> x - s] EXCEPT !.at = @ + s] : x \in X}
    <3> HIDE DEF s, X
    <3> QED BY Zenon
  <2>5. \A x \in X : [[sound |-> x, at |-> x - s] EXCEPT !.at = @ + s] = [sound |-> x, at |-> x]
    <3> HIDE DEF s, X
    <3> QED BY <2>1, WordInPlace
  <2>6. {[[sound |-> x, at |-> x - s] EXCEPT !.at = @ + s] : x \in X} = {[sound |-> x, at |-> x] : x \in X}
    <3> DEFINE F(x) == [[sound |-> x, at |-> x - s] EXCEPT !.at = @ + s]
               G(x) == [sound |-> x, at |-> x]
    <3>1. \A x \in X : F(x) = G(x)
      BY <2>5
    <3> HIDE DEF F, G, X, s
    <3>2. {F(x) : x \in X} = {G(x) : x \in X}
      BY <3>1
    <3> QED BY <3>2 DEF F, G
  <2> QED BY <2>3, <2>4, <2>6
<1> QED BY <1>1, <1>2 DEF Said

\* What was told of a whole recording, put together, is what was said, once and in order.
LEMMA ToldIsSpoken ==
    ASSUME NEW q, Told(asr.voice, asr.frames, asr.done, q, asr.total), asr.out = Merged(asr.done)
    PROVE  SpokenOnce
<1> DEFINE regions == SpeechRegions(asr.frames)
           voice == asr.voice
           total == asr.total
           out == asr.out
           voiced == {x \in 0..(total - 1) : voice[x + 1]}
           written == {w.at : w \in Written(out)}
<1>1. q \in Seq(Span) /\ Len(q) \in Nat /\ total \in Nat /\ Apart(q, 0)
  BY DEF Told, Apart
<1>2. DOMAIN out = 1..Len(q) /\ \A i \in 1..Len(q) : out[i] = Said(voice, q[i])
  <2> DEFINE done == asr.done
  <2>1. done = [i \in 1..Len(q) |-> Hearing(voice, q[i])] /\ out = Merged(done)
    BY DEF Told
  <2> HIDE DEF done, voice, out
  <2>2. /\ DOMAIN Merged(done) = 1..Len(q)
        /\ \A i \in 1..Len(q) : Merged(done)[i] = Said(voice, q[i])
    BY ONLY <1>1, <2>1, MergedWords
  <2> QED BY <2>1, <2>2
<1>3. /\ \A i \in 1..Len(q) : 0 <= q[i].s /\ q[i].e <= total
      /\ \A x \in Int : Inside(q, x) => Between(regions, x)
      /\ \A x \in 0..(total - 1) : Inside(regions, x) => Inside(q, x)
  BY DEF Told
<1> HIDE DEF voice, total, out, regions
<1>4. \A i \in 1..Len(q) : \A w \in out[i] :
         \E x \in Int : w = [sound |-> x, at |-> x] /\ q[i].s <= x /\ x < q[i].e /\ voice[x + 1]
  <2> TAKE i \in 1..Len(q)
  <2> TAKE w \in out[i]
  <2>1. PICK x \in {y \in q[i].s..(q[i].e - 1) : voice[y + 1]} : w = [sound |-> x, at |-> x]
    BY <1>2 DEF Said
  <2>2. q[i].s \in Int /\ q[i].e \in Int
    BY <1>1, SpanAt
  <2>3. x \in q[i].s..(q[i].e - 1) /\ voice[x + 1]
    OBVIOUS
  <2>4. x \in Int /\ q[i].s <= x /\ x < q[i].e
    BY <2>2, <2>3
  <2> QED BY <2>1, <2>3, <2>4
<1>5. \A i \in 1..Len(q), x \in Int :
         q[i].s <= x /\ x < q[i].e /\ voice[x + 1] => [sound |-> x, at |-> x] \in out[i]
  <2> SUFFICES ASSUME NEW i \in 1..Len(q), NEW x \in Int, q[i].s <= x, x < q[i].e, voice[x + 1]
               PROVE  [sound |-> x, at |-> x] \in out[i]
    BY Zenon
  <2>1. q[i].s \in Int /\ q[i].e \in Int
    BY <1>1, SpanAt
  <2>2. x \in q[i].s..(q[i].e - 1)
    BY <2>1
  <2> QED BY <2>2, <1>2 DEF Said
<1>6. Written(out) = UNION {out[i] : i \in 1..Len(q)}
  BY <1>2 DEF Written
<1>7. ASSUME NEW x \in voiced, Inside(regions, x) PROVE x \in written
  <2>1. x \in Int /\ x \in 0..(total - 1) /\ voice[x + 1]
    BY <1>1
  <2>2. Inside(q, x)
    BY <2>1, <1>3, <1>7
  <2>3. PICK i \in 1..Len(q) : q[i].s <= x /\ x < q[i].e
    BY <2>2, <1>1, InsideAt
  <2>4. [sound |-> x, at |-> x] \in out[i]
    BY <2>1, <2>3, <1>5
  <2>5. [sound |-> x, at |-> x] \in Written(out)
    BY <2>4, <1>6
  <2>6. [sound |-> x, at |-> x].at = x
    OBVIOUS
  <2> QED BY <2>5, <2>6
<1>8. ASSUME NEW w \in Written(out)
      PROVE  w.at = w.sound /\ w.at \in voiced /\ Between(regions, w.at)
  <2>1. PICK i \in 1..Len(q) : w \in out[i]
    BY <1>6
  <2>2. PICK x \in Int : w = [sound |-> x, at |-> x] /\ q[i].s <= x /\ x < q[i].e /\ voice[x + 1]
    BY <2>1, <1>4
  <2>3. w.at = x /\ w.sound = x
    BY <2>2
  <2>4. Inside(q, x)
    BY <2>2, <1>1, InsideAt
  <2>5. q[i].s \in Int /\ q[i].e \in Int
    BY <1>1, SpanAt
  <2>6. 0 <= q[i].s /\ q[i].e <= total
    BY <1>3
  <2>7. x \in 0..(total - 1)
    BY <2>2, <2>5, <2>6, <1>1
  <2>8. x \in voiced
    BY <2>2, <2>7
  <2> HIDE DEF voiced
  <2>9. Between(regions, x)
    BY <2>4, <1>3
  <2> QED BY <2>3, <2>8, <2>9
<1>9. ASSUME NEW i \in 1..Len(q), NEW j \in 1..Len(q), i < j, NEW v \in out[i], NEW w \in out[j]
      PROVE  v.at < w.at
  <2>1. PICK x \in Int : v = [sound |-> x, at |-> x] /\ x < q[i].e
    BY <1>4
  <2>2. PICK y \in Int : w = [sound |-> y, at |-> y] /\ q[j].s <= y
    BY <1>4
  <2>3. q[i].e + 0 <= q[j].s
    BY <1>1, <1>9 DEF Apart
  <2>4. q[i].e \in Int
    BY <1>1, SpanAt
  <2>5. q[j].s \in Int
    BY <1>1, SpanAt
  <2>6. x < y
    BY <2>1, <2>2, <2>3, <2>4, <2>5
  <2>7. v.at = x /\ w.at = y
    BY <2>1, <2>2
  <2> QED BY <2>6, <2>7
<1> HIDE DEF voiced, written
<1>10. {x \in voiced : Inside(regions, x)} \subseteq written
  BY <1>7
<1>11. written \subseteq {x \in voiced : Between(regions, x)}
  <2> SUFFICES ASSUME NEW x \in written PROVE x \in voiced /\ Between(regions, x)
    OBVIOUS
  <2>1. PICK w \in Written(out) : x = w.at
    BY DEF written
  <2> QED BY <2>1, <1>8
<1>12. \A w \in Written(out) : w.at = w.sound
  BY <1>8
<1>13. \A i, j \in DOMAIN out : i < j => \A v \in out[i], w \in out[j] : v.at < w.at
  BY <1>2, <1>9
<1> QED BY <1>10, <1>11, <1>12, <1>13 DEF SpokenOnce, voiced, written, out, voice, total, regions

-----------------------------------------------------------------------------
(* The engine *)

Asr(at, max, cached, cap, from, chunks, done, out, again) ==
    [at |-> at, frames |-> asr.frames, total |-> asr.total, max |-> max, cached |-> cached,
     cap |-> cap, from |-> from, voice |-> asr.voice, chunks |-> chunks, done |-> done,
     out |-> out, again |-> again]

\* What is known of a request, wherever the engine is with it.
RequestKept ==
    /\ asr = Asr(asr.at, asr.max, asr.cached, asr.cap, asr.from, asr.chunks, asr.done, asr.out, asr.again)
    /\ asr.at \in {"todo", "whole", "split", "chunks", "done", "failed"}
    /\ asr.frames \in Seq(BOOLEAN) /\ asr.total \in Nat /\ asr.max \in Nat /\ asr.cached \in Nat
    /\ asr.cap \in Nat /\ asr.from \in 0..asr.total /\ asr.again \in Nat

\* A chunk is as long as the engine can take, as far as it knows.
CapKept ==
    /\ asr.at \in {"todo", "whole"} => asr.cap = NoCap /\ asr.done = <<>>
    /\ asr.at \in {"split", "chunks"} => /\ asr.cap # NoCap
                                         /\ asr.cached # NoCap => asr.cap <= asr.cached

\* What has been told, and what is left to tell.
ToldSoFar ==
    /\ asr.at = "split" => \E q : Told(asr.voice, asr.frames, asr.done, q, asr.from)
    /\ asr.at = "chunks" => /\ Left(asr.frames, asr.total, asr.cap, asr.chunks)
                            /\ \E q : Told(asr.voice, asr.frames, asr.done, q, asr.chunks[1].s)
    /\ asr.at = "done" /\ asr.cap # NoCap =>
          /\ asr.out = Merged(asr.done)
          /\ \E q : Told(asr.voice, asr.frames, asr.done, q, asr.total)

RecordingKept == asr.at = "none" \/ (RequestKept /\ CapKept /\ ToldSoFar)

\* A step that gives the request these fields keeps it.
AsrBecomes(at, cached, cap, from, chunks, done, out, again) ==
    asr' = Asr(at, asr.max, cached, cap, from, chunks, done, out, again)

LEMMA AsrFields ==
    ASSUME NEW at, NEW cached, NEW cap, NEW from, NEW chunks, NEW done, NEW out, NEW again,
           AsrBecomes(at, cached, cap, from, chunks, done, out, again)
    PROVE  /\ asr'.at = at /\ asr'.frames = asr.frames /\ asr'.total = asr.total /\ asr'.max = asr.max
           /\ asr'.cached = cached /\ asr'.cap = cap /\ asr'.from = from /\ asr'.voice = asr.voice
           /\ asr'.chunks = chunks /\ asr'.done = done /\ asr'.out = out /\ asr'.again = again
BY DEF AsrBecomes, Asr

LEMMA RequestStep ==
    ASSUME RequestKept, NEW at \in {"todo", "whole", "split", "chunks", "done", "failed"},
           NEW cached \in Nat, NEW cap \in Nat, NEW from \in 0..asr.total, NEW chunks, NEW done,
           NEW out, NEW again \in Nat, AsrBecomes(at, cached, cap, from, chunks, done, out, again)
    PROVE  RequestKept'
<1>1. /\ asr'.at = at /\ asr'.frames = asr.frames /\ asr'.total = asr.total /\ asr'.max = asr.max
      /\ asr'.cached = cached /\ asr'.cap = cap /\ asr'.from = from /\ asr'.voice = asr.voice
      /\ asr'.chunks = chunks /\ asr'.done = done /\ asr'.out = out /\ asr'.again = again
  BY AsrFields
<1>2. asr' = [at |-> asr'.at, frames |-> asr'.frames, total |-> asr'.total, max |-> asr'.max,
              cached |-> asr'.cached, cap |-> asr'.cap, from |-> asr'.from, voice |-> asr'.voice,
              chunks |-> asr'.chunks, done |-> asr'.done, out |-> asr'.out, again |-> asr'.again]
  BY <1>1 DEF AsrBecomes, Asr
<1> QED BY <1>1, <1>2 DEF RequestKept, Asr

\* A pass begins, or begins again, with chunks no longer than the engine can take.
LEMMA ResumeStep ==
    ASSUME RequestKept, NEW cap \in Nat \ {0}, NEW cached \in Nat, cached # NoCap => cap <= cached,
           NEW from \in 0..asr.total, NEW q, Told(asr.voice, asr.frames, asr.done, q, from),
           AsrBecomes("split", cached, cap, from, asr.chunks, asr.done, asr.out, asr.again)
    PROVE  RecordingKept'
<1>1. /\ asr'.at = "split" /\ asr'.frames = asr.frames
      /\ asr'.cached = cached /\ asr'.cap = cap /\ asr'.from = from /\ asr'.voice = asr.voice
      /\ asr'.done = asr.done
  BY AsrFields
<1>2. RequestKept'
  <2>1. asr.again \in Nat /\ cap \in Nat
    BY DEF RequestKept
  <2> QED BY <2>1, RequestStep
<1>3. CapKept' /\ ToldSoFar'
  BY <1>1 DEF CapKept, ToldSoFar, NoCap
<1> QED BY <1>2, <1>3 DEF RecordingKept

LEMMA CapIsPositive ==
    ASSUME RequestKept, NEW requested \in Nat \ {0}
    PROVE  /\ EffectiveChunkCap(requested) \in Nat \ {0}
           /\ asr.cached # NoCap => EffectiveChunkCap(requested) <= asr.cached
BY DEF RequestKept, EffectiveChunkCap, NoCap

\* Where the request is left when nothing is transcribed.
LEMMA RestStep ==
    ASSUME RequestKept, NEW at \in {"todo", "whole", "failed"}, NEW cap \in Nat, NEW chunks, NEW done, NEW out,
           NEW again \in Nat, at # "failed" => cap = NoCap /\ done = <<>>,
           AsrBecomes(at, asr.cached, cap, asr.from, chunks, done, out, again)
    PROVE  RecordingKept'
<1>1. asr'.at = at /\ asr'.cap = cap /\ asr'.done = done
  BY AsrFields
<1>2. RequestKept'
  <2>1. at \in {"todo", "whole", "split", "chunks", "done", "failed"} /\ asr.cached \in Nat /\ asr.from \in 0..asr.total
    BY DEF RequestKept
  <2> QED BY <2>1, RequestStep
<1>3. CapKept' /\ ToldSoFar'
  BY <1>1 DEF CapKept, ToldSoFar
<1> QED BY <1>2, <1>3 DEF RecordingKept

LEMMA RecordingBegins ==
    ASSUME RequestKept, CapKept, ProcessRecording PROVE RecordingKept'
<1>0. /\ asr = Asr(asr.at, asr.max, asr.cached, asr.cap, asr.from, asr.chunks, asr.done, asr.out, asr.again)
      /\ asr.max \in Nat /\ asr.total \in Nat /\ asr.cached \in Nat /\ asr.cap \in Nat /\ asr.again \in Nat
  BY DEF RequestKept
<1>1. asr.at = "todo" /\ asr.cap = NoCap /\ asr.done = <<>>
  BY DEF ProcessRecording, CapKept
<1>2. CASE asr.max = NoCap \/ asr.total <= asr.max
  <2>1. AsrBecomes("whole", asr.cached, asr.cap, asr.from, asr.chunks, asr.done, asr.out, asr.again)
    <3>1. asr' = [asr EXCEPT !.at = "whole"]
      BY <1>2 DEF ProcessRecording
    <3> QED BY <3>1, <1>0 DEF AsrBecomes, Asr
  <2> QED BY <2>1, <1>0, <1>1, RestStep
<1>3. CASE ~(asr.max = NoCap \/ asr.total <= asr.max)
  <2> DEFINE cap == EffectiveChunkCap(asr.max)
  <2>1. asr.max \in Nat \ {0}
    BY <1>0, <1>3 DEF NoCap
  <2>2. cap \in Nat \ {0} /\ (asr.cached # NoCap => cap <= asr.cached)
    BY <2>1, CapIsPositive
  <2> HIDE DEF cap
  <2>3. AsrBecomes("split", asr.cached, cap, 0, asr.chunks, asr.done, asr.out, asr.again)
    <3>1. asr' = [asr EXCEPT !.at = "split", !.cap = cap, !.from = 0]
      BY <1>3 DEF ProcessRecording, Resume, cap
    <3> QED BY <3>1, <1>0 DEF AsrBecomes, Asr
  <2>4. Told(asr.voice, asr.frames, asr.done, <<>>, 0)
    BY <1>1, ToldNothing
  <2>5. 0 \in 0..asr.total
    BY <1>0
  <2> QED BY <2>2, <2>3, <2>4, <2>5, <1>0, ResumeStep
<1> QED BY <1>2, <1>3

LEMMA RecordingAgain ==
    ASSUME RequestKept, NextRecording PROVE RecordingKept'
<1>0. /\ asr = Asr(asr.at, asr.max, asr.cached, asr.cap, asr.from, asr.chunks, asr.done, asr.out, asr.again)
      /\ asr.again \in Nat
  BY DEF RequestKept
<1>1. asr.again - 1 \in Nat /\ NoCap \in Nat
  BY <1>0 DEF NextRecording, NoCap
<1>2. AsrBecomes("todo", asr.cached, NoCap, asr.from, <<>>, <<>>, <<>>, asr.again - 1)
  BY <1>0 DEF NextRecording, AsrBecomes, Asr
<1> QED BY <1>1, <1>2, RestStep

LEMMA WholeTranscribed ==
    ASSUME RequestKept, CapKept, NEW outcome, TranscribeWhole(outcome) PROVE RecordingKept'
<1>0. /\ asr = Asr(asr.at, asr.max, asr.cached, asr.cap, asr.from, asr.chunks, asr.done, asr.out, asr.again)
      /\ asr.max \in Nat /\ asr.total \in Nat /\ asr.cached \in Nat /\ asr.cap \in Nat /\ asr.again \in Nat
      /\ asr.from \in 0..asr.total
  BY DEF RequestKept
<1>1. asr.at = "whole" /\ asr.cap = NoCap /\ asr.done = <<>>
  BY DEF TranscribeWhole, CapKept
<1>2. CASE outcome = "ok"
  <2> DEFINE done == <<Recognized(0, asr.total)>>
             out == Merged(done)
  <2>1. asr' = [asr EXCEPT !.at = "done", !.done = done, !.out = out]
    BY <1>2 DEF TranscribeWhole
  <2> HIDE DEF done, out
  <2>2. AsrBecomes("done", asr.cached, asr.cap, asr.from, asr.chunks, done, out, asr.again)
    BY <2>1, <1>0 DEF AsrBecomes, Asr
  <2>3. RequestKept'
    BY <2>2, <1>0, RequestStep
  <2>4. asr'.at = "done" /\ asr'.cap = NoCap
    BY <2>2, <1>1, AsrFields
  <2>5. CapKept' /\ ToldSoFar'
    BY <2>4 DEF CapKept, ToldSoFar
  <2> QED BY <2>3, <2>5 DEF RecordingKept
<1>3. CASE outcome = "oom" /\ asr.max # NoCap
  <2> DEFINE half == AtLeast(asr.total \div 2, ChunkFloor)
             cap == EffectiveChunkCap(half)
  <2>1. half \in Nat \ {0}
    BY <1>0, ChunkingAssumption DEF AtLeast
  <2> HIDE DEF half
  <2>2. cap \in Nat \ {0} /\ (asr.cached # NoCap => cap <= asr.cached)
    BY <2>1, CapIsPositive
  <2> HIDE DEF cap
  <2>3. AsrBecomes("split", asr.cached, cap, 0, asr.chunks, asr.done, asr.out, asr.again)
    <3>1. asr' = [asr EXCEPT !.at = "split", !.cap = cap, !.from = 0]
      BY <1>3 DEF TranscribeWhole, Resume, cap, half
    <3> QED BY <3>1, <1>0 DEF AsrBecomes, Asr
  <2>4. Told(asr.voice, asr.frames, asr.done, <<>>, 0)
    BY <1>1, ToldNothing
  <2>5. 0 \in 0..asr.total
    BY <1>0
  <2> QED BY <2>2, <2>3, <2>4, <2>5, <1>0, ResumeStep
<1>4. CASE ~(outcome = "ok") /\ ~(outcome = "oom" /\ asr.max # NoCap)
  <2>1. asr' = [asr EXCEPT !.at = "failed"]
    BY <1>4 DEF TranscribeWhole
  <2>2. AsrBecomes("failed", asr.cached, asr.cap, asr.from, asr.chunks, asr.done, asr.out, asr.again)
    BY <2>1, <1>0 DEF AsrBecomes, Asr
  <2> QED BY <2>2, <1>0, RestStep
<1> QED BY <1>2, <1>3, <1>4

LEMMA RecordingSplit ==
    ASSUME RequestKept, CapKept, ToldSoFar, NEW ok \in BOOLEAN, SplitRecording(ok) PROVE RecordingKept'
<1>0. /\ asr = Asr(asr.at, asr.max, asr.cached, asr.cap, asr.from, asr.chunks, asr.done, asr.out, asr.again)
      /\ asr.max \in Nat /\ asr.total \in Nat /\ asr.cached \in Nat /\ asr.cap \in Nat /\ asr.again \in Nat
      /\ asr.from \in 0..asr.total /\ asr.frames \in Seq(BOOLEAN)
  BY DEF RequestKept
<1> DEFINE chunks == SplitAtSpeech(SpeechRegions(asr.frames), asr.cap, asr.from, asr.total)
<1>1. /\ asr.at = "split"
      /\ asr' = IF ~ok THEN [asr EXCEPT !.at = "failed"]
                ELSE IF chunks = <<>> THEN [asr EXCEPT !.at = "done", !.out = Merged(asr.done)]
                ELSE [asr EXCEPT !.at = "chunks", !.chunks = chunks]
  BY DEF SplitRecording
<1>2. asr.cap \in Nat \ {0} /\ (asr.cached # NoCap => asr.cap <= asr.cached)
  BY <1>0, <1>1 DEF CapKept, NoCap
<1>3. PICK q : Told(asr.voice, asr.frames, asr.done, q, asr.from)
  BY <1>1 DEF ToldSoFar
<1>4. IF chunks = <<>> THEN Told(asr.voice, asr.frames, asr.done, q, asr.total)
      ELSE Left(asr.frames, asr.total, asr.cap, chunks) /\ Told(asr.voice, asr.frames, asr.done, q, chunks[1].s)
  BY <1>0, <1>2, <1>3, PassBegins
<1> HIDE DEF chunks
<1>5. CASE ~ok
  <2>1. AsrBecomes("failed", asr.cached, asr.cap, asr.from, asr.chunks, asr.done, asr.out, asr.again)
    BY <1>0, <1>1, <1>5 DEF AsrBecomes, Asr
  <2> QED BY <2>1, <1>0, RestStep
<1>6. CASE ok /\ chunks = <<>>
  <2> DEFINE out == Merged(asr.done)
  <2>1. asr' = [asr EXCEPT !.at = "done", !.out = out]
    BY <1>1, <1>6
  <2> HIDE DEF out
  <2>2. AsrBecomes("done", asr.cached, asr.cap, asr.from, asr.chunks, asr.done, out, asr.again)
    BY <2>1, <1>0 DEF AsrBecomes, Asr
  <2>3. RequestKept'
    BY <2>2, <1>0, RequestStep
  <2>4. /\ asr'.at = "done" /\ asr'.out = out /\ asr'.done = asr.done /\ asr'.voice = asr.voice
        /\ asr'.frames = asr.frames /\ asr'.total = asr.total
    BY <2>2, AsrFields
  <2>5. asr'.out = Merged(asr'.done)
    BY <2>4 DEF out
  <2>6. Told(asr'.voice, asr'.frames, asr'.done, q, asr'.total)
    BY <2>4, <1>4, <1>6
  <2>7. CapKept' /\ ToldSoFar'
    BY <2>4, <2>5, <2>6 DEF CapKept, ToldSoFar
  <2> QED BY <2>3, <2>7 DEF RecordingKept
<1>7. CASE ok /\ chunks # <<>>
  <2>2. AsrBecomes("chunks", asr.cached, asr.cap, asr.from, chunks, asr.done, asr.out, asr.again)
    BY <1>0, <1>1, <1>7 DEF AsrBecomes, Asr
  <2>3. RequestKept'
    BY <2>2, <1>0, RequestStep
  <2>4. /\ asr'.at = "chunks" /\ asr'.chunks = chunks /\ asr'.done = asr.done /\ asr'.voice = asr.voice
        /\ asr'.frames = asr.frames /\ asr'.total = asr.total /\ asr'.cap = asr.cap /\ asr'.cached = asr.cached
    BY <2>2, AsrFields
  <2>5. Left(asr'.frames, asr'.total, asr'.cap, asr'.chunks)
    BY <2>4, <1>4, <1>7
  <2>6. Told(asr'.voice, asr'.frames, asr'.done, q, asr'.chunks[1].s)
    BY <2>4, <1>4, <1>7
  <2>7. CapKept' /\ ToldSoFar'
    BY <2>4, <2>5, <2>6, <1>2 DEF CapKept, ToldSoFar, NoCap
  <2> QED BY <2>3, <2>7 DEF RecordingKept
<1> QED BY <1>5, <1>6, <1>7

LEMMA ChunkTranscribed ==
    ASSUME RequestKept, CapKept, ToldSoFar, NEW outcome, TranscribeChunk(outcome) PROVE RecordingKept'
<1>0. /\ asr = Asr(asr.at, asr.max, asr.cached, asr.cap, asr.from, asr.chunks, asr.done, asr.out, asr.again)
      /\ asr.max \in Nat /\ asr.total \in Nat /\ asr.cached \in Nat /\ asr.cap \in Nat /\ asr.again \in Nat
      /\ asr.from \in 0..asr.total /\ asr.frames \in Seq(BOOLEAN)
  BY DEF RequestKept
<1> DEFINE p == asr.chunks[1]
           smaller == AtLeast(asr.cap \div 2, ChunkFloor)
           done == Append(asr.done, Hearing(asr.voice, p))
           rest == Tail(asr.chunks)
           out == Merged(done)
<1>1. asr.at = "chunks"
  BY DEF TranscribeChunk
<1>2. asr.cap \in Nat \ {0} /\ (asr.cached # NoCap => asr.cap <= asr.cached)
  BY <1>0, <1>1 DEF CapKept, NoCap
<1>3. Left(asr.frames, asr.total, asr.cap, asr.chunks)
  BY <1>1 DEF ToldSoFar
<1>4. PICK q : Told(asr.voice, asr.frames, asr.done, q, p.s)
  BY <1>1 DEF ToldSoFar
<1>5. p \in Span /\ Head(asr.chunks) = p /\ 0 <= p.s /\ p.s < p.e /\ p.e <= asr.total /\ p.s \in Int /\ p.e \in Int
  <2>1. asr.chunks \in Seq(Span) /\ asr.chunks # <<>> /\ Len(asr.chunks) \in Nat
    BY <1>3 DEF Left, Apart
  <2>2. 1 \in 1..Len(asr.chunks) /\ Head(asr.chunks) = p
    BY <2>1
  <2>3. p \in Span /\ p.s \in Int /\ p.e \in Int
    BY <2>1, <2>2, SpanAt
  <2> QED BY <2>2, <2>3, <1>3 DEF Left, Apart
<1>6. Recognized(p.s, p.e) = Hearing(asr.voice, p)
  BY DEF Recognized, Hearing
<1>7. asr' = CASE outcome = "ok" /\ rest # <<>>
                         -> [asr EXCEPT !.done = done, !.chunks = rest]
                    [] outcome = "ok" /\ rest = <<>>
                         -> [asr EXCEPT !.at = "done", !.done = done, !.out = out]
                    [] outcome = "oom" /\ smaller < asr.cap
                         -> [Resume(smaller, p.s) EXCEPT !.cached = smaller]
                    [] OTHER -> [asr EXCEPT !.at = "failed"]
  BY <1>5, <1>6 DEF TranscribeChunk
<1>8. IF rest = <<>> THEN Told(asr.voice, asr.frames, done, Append(q, p), asr.total)
      ELSE /\ Left(asr.frames, asr.total, asr.cap, rest)
           /\ Told(asr.voice, asr.frames, done, Append(q, p), rest[1].s)
  BY <1>0, <1>2, <1>3, <1>4, ChunkTold
<1>9. smaller \in Nat \ {0}
  BY <1>0, ChunkingAssumption DEF AtLeast
<1> HIDE DEF done, rest, out, smaller, p
<1>10. CASE outcome = "ok" /\ rest # <<>>
  <2>1. asr' = [asr EXCEPT !.done = done, !.chunks = rest]
    BY <1>7, <1>10
  <2>2. AsrBecomes("chunks", asr.cached, asr.cap, asr.from, rest, done, asr.out, asr.again)
    BY <2>1, <1>0, <1>1 DEF AsrBecomes, Asr
  <2>3. RequestKept'
    BY <2>2, <1>0, RequestStep
  <2>4. /\ asr'.at = "chunks" /\ asr'.chunks = rest /\ asr'.done = done /\ asr'.voice = asr.voice
        /\ asr'.frames = asr.frames /\ asr'.total = asr.total /\ asr'.cap = asr.cap /\ asr'.cached = asr.cached
    BY <2>2, AsrFields
  <2>5. Left(asr'.frames, asr'.total, asr'.cap, asr'.chunks)
    BY <2>4, <1>8, <1>10
  <2>6. Told(asr'.voice, asr'.frames, asr'.done, Append(q, p), asr'.chunks[1].s)
    BY <2>4, <1>8, <1>10
  <2>7. CapKept' /\ ToldSoFar'
    BY <2>4, <2>5, <2>6, <1>2 DEF CapKept, ToldSoFar, NoCap
  <2> QED BY <2>3, <2>7 DEF RecordingKept
<1>11. CASE outcome = "ok" /\ rest = <<>>
  <2>1. asr' = [asr EXCEPT !.at = "done", !.done = done, !.out = out]
    BY <1>7, <1>11
  <2>2. AsrBecomes("done", asr.cached, asr.cap, asr.from, asr.chunks, done, out, asr.again)
    BY <2>1, <1>0 DEF AsrBecomes, Asr
  <2>3. RequestKept'
    BY <2>2, <1>0, RequestStep
  <2>4. /\ asr'.at = "done" /\ asr'.out = out /\ asr'.done = done /\ asr'.voice = asr.voice
        /\ asr'.frames = asr.frames /\ asr'.total = asr.total
    BY <2>2, AsrFields
  <2>5. asr'.out = Merged(asr'.done)
    BY <2>4 DEF out
  <2>6. Told(asr'.voice, asr'.frames, asr'.done, Append(q, p), asr'.total)
    BY <2>4, <1>8, <1>11
  <2>7. CapKept' /\ ToldSoFar'
    BY <2>4, <2>5, <2>6 DEF CapKept, ToldSoFar
  <2> QED BY <2>3, <2>7 DEF RecordingKept
<1>12. CASE outcome = "oom" /\ smaller < asr.cap
  <2>1. asr' = [[asr EXCEPT !.at = "split", !.cap = smaller, !.from = p.s] EXCEPT !.cached = smaller]
    BY <1>7, <1>12 DEF Resume
  <2>2. AsrBecomes("split", smaller, smaller, p.s, asr.chunks, asr.done, asr.out, asr.again)
    BY <2>1, <1>0 DEF AsrBecomes, Asr
  <2>3. p.s \in 0..asr.total
    BY <1>0, <1>5
  <2>4. smaller \in Nat /\ (smaller # NoCap => smaller <= smaller)
    BY <1>9
  <2> QED BY <2>2, <2>3, <2>4, <1>4, <1>9, ResumeStep
<1>13. CASE ~(outcome = "ok") /\ ~(outcome = "oom" /\ smaller < asr.cap)
  <2>1. asr' = [asr EXCEPT !.at = "failed"]
    BY <1>7, <1>13
  <2>2. AsrBecomes("failed", asr.cached, asr.cap, asr.from, asr.chunks, asr.done, asr.out, asr.again)
    BY <2>1, <1>0 DEF AsrBecomes, Asr
  <2> QED BY <2>2, <1>0, RestStep
<1> QED BY <1>10, <1>11, <1>12, <1>13

LEMMA RecordingStep == ASSUME RecordingKept, AsrNext PROVE RecordingKept'
<1>1. asr.at # "none"
  BY DEF AsrNext, ProcessRecording, NextRecording, SplitRecording, TranscribeWhole, TranscribeChunk
<1>2. RequestKept /\ CapKept /\ ToldSoFar
  BY <1>1 DEF RecordingKept
<1> QED BY <1>2, RecordingBegins, RecordingAgain, RecordingSplit, WholeTranscribed, ChunkTranscribed DEF AsrNext

\* What the engine knows says what the invariant says.
LEMMA RecordingSound == ASSUME RecordingKept PROVE RecordingInv
<1>1. CASE asr.at = "none"
  BY <1>1 DEF RecordingInv, SpokenOnce, LearnsFromOom, RegionsExact
<1>2. CASE RequestKept /\ CapKept /\ ToldSoFar
  <2>1. RegionsExact
    BY <1>2, DetectorExact DEF RequestKept
  <2>2. LearnsFromOom
    <3> SUFFICES ASSUME asr.at = "chunks", NEW i \in DOMAIN asr.chunks
                 PROVE  /\ asr.chunks[i].e - asr.chunks[i].s <= asr.cap
                        /\ asr.cached # NoCap => asr.chunks[i].e - asr.chunks[i].s <= asr.cached
      BY DEF LearnsFromOom
    <3>1. asr.chunks \in Seq(Span) /\ Short(asr.chunks, asr.cap)
      BY <1>2 DEF ToldSoFar, Left, Apart
    <3>2. i \in 1..Len(asr.chunks)
      BY <3>1
    <3>3. asr.chunks[i].e \in Int /\ asr.chunks[i].s \in Int
      BY <3>1, <3>2, SpanAt
    <3>4. asr.chunks[i].e - asr.chunks[i].s <= asr.cap
      BY <3>1, <3>2 DEF Short
    <3>5. asr.cap \in Nat /\ asr.cached \in Nat /\ (asr.cached # NoCap => asr.cap <= asr.cached)
      BY <1>2 DEF RequestKept, CapKept
    <3> QED BY <3>3, <3>4, <3>5
  <2>3. SpokenOnce
    <3>1. CASE asr.at = "done" /\ asr.cap # NoCap
      <4>1. asr.out = Merged(asr.done) /\ \E q : Told(asr.voice, asr.frames, asr.done, q, asr.total)
        BY <1>2, <3>1 DEF ToldSoFar
      <4> QED BY <4>1, ToldIsSpoken
    <3>2. CASE ~(asr.at = "done" /\ asr.cap # NoCap)
      BY <3>2 DEF SpokenOnce
    <3> QED BY <3>1, <3>2
  <2> QED BY <2>1, <2>2, <2>3 DEF RecordingInv
<1> QED BY <1>1, <1>2 DEF RecordingKept

\* A request that is new.
LEMMA RecordingStart == ASSUME asr.at = "none" \/ NewRequest(asr) PROVE RecordingKept
<1>1. CASE NewRequest(asr)
  <2>1. /\ asr.at = "todo" /\ asr.cap = NoCap /\ asr.done = <<>> /\ asr.cached = NoCap /\ asr.from = 0
        /\ asr.frames \in Seq(BOOLEAN) /\ asr.total \in Nat /\ asr.max \in Nat /\ asr.again \in Nat
        /\ asr.chunks = <<>> /\ asr.out = <<>>
    BY <1>1 DEF NewRequest
  <2>2. asr = Asr(asr.at, asr.max, asr.cached, asr.cap, asr.from, asr.chunks, asr.done, asr.out, asr.again)
    BY <1>1, <2>1 DEF NewRequest, Asr
  <2>3. RequestKept
    BY <2>1, <2>2 DEF RequestKept, NoCap
  <2>4. CapKept /\ ToldSoFar
    BY <2>1 DEF CapKept, ToldSoFar
  <2> QED BY <2>3, <2>4 DEF RecordingKept
<1> QED BY <1>1 DEF RecordingKept

\* What another part of the service does leaves the request alone.
LEMMA RecordingAlone == ASSUME RecordingKept, asr' = asr PROVE RecordingKept'
<1>1. asr.at = "none" => RecordingKept'
  BY DEF RecordingKept
<1>2. RequestKept => RequestKept'
  BY DEF RequestKept, Asr
<1>3. CapKept /\ ToldSoFar => CapKept' /\ ToldSoFar'
  BY DEF CapKept, ToldSoFar
<1> QED BY <1>1, <1>2, <1>3 DEF RecordingKept

\* A recording that is cut into chunks, and cut again when memory runs out, has all of its
\* speech in the transcript once, in its place and in order; the detector finds all speech
\* that lasts; and no chunk is longer than what the engine took to be safe: for any
\* recording, window, pause and chunk size.
THEOREM RecordingInvariant == Spec => []RecordingInv
<1>1. Init => RecordingKept
  <2> SUFFICES ASSUME Init PROVE RecordingKept
    OBVIOUS
  <2>1. PICK s \in Scenarios : asr \in s.recordings
    BY DEF Init, AsrInit
  <2>2. asr.at = "none" \/ NewRequest(asr)
    BY <2>1, ScenariosAssumption
  <2> QED BY <2>2, RecordingStart
<1>2. RecordingKept /\ [Next]_vars => RecordingKept'
  <2>1. [Next]_vars => AsrNext \/ asr' = asr
    BY DEF Next, vars
  <2> QED BY <2>1, RecordingStep, RecordingAlone
<1> QED BY <1>1, <1>2, RecordingSound, PTL DEF Spec

=============================================================================
