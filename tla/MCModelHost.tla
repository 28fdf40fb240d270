---------------------------- MODULE MCModelHost ----------------------------
(* Small instances of ModelHost for TLC. *)
EXTENDS ModelHost

CONSTANTS b1, t1, m1, m2, p1

\* Limits that leave one slot beyond the reservation, and tighter ones.
MCConfigs == {[cap |-> 2, res |-> 1, max |-> 2], [cap |-> 1, res |-> 1, max |-> 1]}

=============================================================================
