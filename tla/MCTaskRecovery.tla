--------------------------- MODULE MCTaskRecovery ---------------------------
(* Small instances of TaskRecovery for TLC. *)
EXTENDS TaskRecovery, TLC

CONSTANTS e1, e2, s1, r1, r2

=============================================================================
