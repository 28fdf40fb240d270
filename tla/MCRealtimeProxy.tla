--------------------------- MODULE MCRealtimeProxy ---------------------------
(* Small instances of RealtimeProxy for TLC. *)
EXTENDS RealtimeProxy

=============================================================================
