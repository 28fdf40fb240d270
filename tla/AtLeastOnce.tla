----------------------------- MODULE AtLeastOnce -----------------------------
(***************************************************************************)
(* What the durable event stream promises to those who publish: an event    *)
(* that was accepted stays owed until a handler has processed it or it is   *)
(* in the dead letter queue, unless Kept newer events were accepted in the  *)
(* meantime.  It may be processed more than once.                           *)
(***************************************************************************)
EXTENDS Integers

CONSTANT Kept      \* newer events after which an event may be forgotten

VARIABLES
    accepted,      \* events accepted so far: 1 .. accepted
    owed,          \* accepted, and neither settled nor forgotten
    done,          \* processed by a handler
    dead           \* in the dead letter queue

promise == <<accepted, owed, done, dead>>

Init == accepted = 0 /\ owed = {} /\ done = {} /\ dead = {}

Forgettable(i) == i + Kept <= accepted'

Accept ==
    /\ accepted' = accepted + 1
    /\ owed' \subseteq owed \cup {accepted'}
    /\ \A i \in (owed \cup {accepted'}) \ owed' : Forgettable(i)
    /\ UNCHANGED <<done, dead>>

Forget ==
    /\ UNCHANGED <<accepted, done, dead>>
    /\ owed' \subseteq owed
    /\ \A i \in owed \ owed' : Forgettable(i)

Process == \E i \in 1..accepted : done' = done \cup {i} /\ UNCHANGED <<accepted, owed, dead>>

Quarantine == \E i \in 1..accepted : dead' = dead \cup {i} /\ UNCHANGED <<accepted, owed, done>>

Settle ==
    \E i \in done \cup dead : owed' = owed \ {i} /\ UNCHANGED <<accepted, done, dead>>

Next == Accept \/ Forget \/ Process \/ Quarantine \/ Settle

Spec == Init /\ [][Next]_promise

=============================================================================
