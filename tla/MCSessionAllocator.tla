------------------------- MODULE MCSessionAllocator -------------------------
(* Small instances of SessionAllocator for TLC. *)
EXTENDS SessionAllocator, TLC

CONSTANTS w1, w2, s1, s2

=============================================================================
