------------------------------- MODULE Service -------------------------------
(***************************************************************************)
(* The control plane around the pipeline: submissions and planning         *)
(* (JobSubmission), the model registry they select from (ModelStore), the  *)
(* files left behind (Retention), the settings and the autoscaler that     *)
(* reads them (Settings, Autoscaler); and what an engine and the end of a  *)
(* job make of a recording (ChunkedTranscription, TranscriptAssembly).     *)
(*                                                                         *)
(* A scenario says which requests arrive, which engines run at the start   *)
(* and how much may go wrong in each part, so that each part can be        *)
(* explored deeply next to a quiet rest and together with a busy one.      *)
(***************************************************************************)
EXTENDS JobSubmission, ModelStore, Retention, Settings, Autoscaler,
        ChunkedTranscription, TranscriptAssembly

CONSTANT Scenarios

\* A reconcile loop is due within its interval, requests are yet to come, and the workers
\* that run are no more than the autoscaler may have started.
ASSUME ScenariosAssumption ==
    \A s \in Scenarios :
        /\ \A j \in Jobs : s.params[j] # None => s.params[j].words \in BOOLEAN
        /\ s.faults \in Nat /\ s.churn \in Nat /\ s.restless \subseteq Instances
        /\ \A r \in s.recordings : r.at = "none" \/ NewRequest(r)
        /\ s.ops \in Nat /\ s.crashes \in Nat /\ s.pool \subseteq Models
        /\ s.rows \subseteq Rows /\ s.upsets \in Nat /\ s.clock \in 0..Horizon
        /\ s.phases \subseteq s.clock..(s.clock + Interval)
        /\ s.ticks \in 0..MaxTicks /\ s.woes \in Nat /\ DOMAIN s.fleet \subseteq Nodes
        /\ \A n \in DOMAIN s.fleet : s.fleet[n] \in Machines /\ s.fleet[n].born <= s.ticks
        /\ Cardinality({n \in DOMAIN s.fleet : s.fleet[n].managed /\ ~s.fleet[n].spot}) <= MaxOnDemand
        /\ s.asks \in [Admins -> [at : {"todo", "done"}, key : Keys \cup {Unset}, val : Value, expected : Value]]

vars == <<subVars, storeVars, retentionVars, settingsVars, scaleVars, asr, doc>>

\* _check_model_in_use: pending jobs that name the model in a selector.  The
\* other status it asks for, "processing", is one no job has.
InUse(m) ==
    \E j \in Jobs : /\ row[j] = "PENDING"
                    /\ \E stage \in DOMAIN params[j].pin : params[j].pin[stage] = m

\* What a tick of the autoscaler finds in the hash.
Overrides == [k \in {x \in Keys : hash[x] # Unset} |-> hash[k]]

Init == \E s \in Scenarios : /\ SubInit(s) /\ StoreInit(s) /\ RetentionInit(s)
                             /\ SettingsInit(s) /\ ScaleInit(s) /\ AsrInit(s) /\ DocInit(s)

Next ==
    \/ /\ SubNext(Ready)
       /\ UNCHANGED <<storeVars, retentionVars, settingsVars, scaleVars, asr, doc>>
    \/ /\ StoreNext(InUse)
       /\ UNCHANGED <<subVars, retentionVars, settingsVars, scaleVars, asr, doc>>
    \/ /\ RetentionNext
       /\ UNCHANGED <<subVars, storeVars, settingsVars, scaleVars, asr, doc>>
    \/ /\ SettingsNext
       /\ UNCHANGED <<subVars, storeVars, retentionVars, scaleVars, asr, doc>>
    \/ /\ ScaleNext(Overrides)
       /\ UNCHANGED <<subVars, storeVars, retentionVars, settingsVars, asr, doc>>
    \/ /\ AsrNext
       /\ UNCHANGED <<subVars, storeVars, retentionVars, settingsVars, scaleVars, doc>>
    \/ /\ DocNext
       /\ UNCHANGED <<subVars, storeVars, retentionVars, settingsVars, scaleVars, asr>>

Spec == Init /\ [][Next]_vars

FairSpec == Spec /\ RetentionFairness

=============================================================================
