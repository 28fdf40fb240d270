----------------------------- MODULE Filtering -----------------------------
(* Taking elements out of a sequence. *)
EXTENDS Integers, SequencesExt

\* s without the elements of S, the others in their order.
Without(s, S) ==
    LET kept[i \in 0 .. Len(s)] ==
            IF i = 0 THEN <<>> ELSE IF s[i] \in S THEN kept[i - 1] ELSE Append(kept[i - 1], s[i])
    IN  kept[Len(s)]

=============================================================================
