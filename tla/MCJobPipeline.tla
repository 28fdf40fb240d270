---------------------------- MODULE MCJobPipeline ----------------------------
(* Small instances of JobPipeline for TLC. *)
EXTENDS JobPipeline, TLC

CONSTANTS o1, o2, prepare, transcribe, diarize, pii_detect, audio_redact

\* prepare -> transcribe, prepare -> diarize: two branches that join only in
\* _check_job_completion; pii_detect -> audio_redact after the job.
MCDeps == [t \in Tasks |-> IF t = audio_redact THEN {pii_detect}
                           ELSE IF t \in {transcribe, diarize} THEN {prepare}
                           ELSE {}]

Symmetry == Permutations(Orchestrators)

=============================================================================
