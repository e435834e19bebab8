----------------------------- MODULE AtLeastOnce -----------------------------
(***************************************************************************)
(* What the notification outbox promises the code that writes to it: a     *)
(* posted message is transmitted any number of times, is confirmed only    *)
(* after at least one copy went out, may be abandoned, and is never        *)
(* reopened once confirmed or abandoned.                                   *)
(***************************************************************************)
EXTENDS Naturals

CONSTANT Messages

VARIABLES
    phase,      \* absent, pending, confirmed or abandoned
    copies      \* copies of the message the recipient has

vars == <<phase, copies>>

Init ==
    /\ phase \in [Messages -> {"absent", "pending"}]
    /\ copies = [m \in Messages |-> 0]

Post(m) ==
    /\ phase[m] = "absent"
    /\ phase' = [phase EXCEPT ![m] = "pending"]
    /\ UNCHANGED copies

Transmit(m) ==
    /\ phase[m] = "pending"
    /\ copies' = [copies EXCEPT ![m] = @ + 1]
    /\ UNCHANGED phase

Confirm(m) ==
    /\ phase[m] = "pending"
    /\ copies[m] > 0
    /\ phase' = [phase EXCEPT ![m] = "confirmed"]
    /\ UNCHANGED copies

Abandon(m) ==
    /\ phase[m] = "pending"
    /\ phase' = [phase EXCEPT ![m] = "abandoned"]
    /\ UNCHANGED copies

Next == \E m \in Messages : Post(m) \/ Transmit(m) \/ Confirm(m) \/ Abandon(m)

Spec == Init /\ [][Next]_vars
=============================================================================
