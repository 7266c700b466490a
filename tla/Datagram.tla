------------------------------- MODULE Datagram -------------------------------
(***************************************************************************)
(* What the reassembly of one datagram promises (src/epan/reassemble.c):   *)
(* whatever the order in which its parts arrive, and however often, it is  *)
(* handed over whole, with every part in its place, by the arrival that    *)
(* completes it and not before.                                            *)
(***************************************************************************)
EXTENDS Naturals

VARIABLES
    size,       \* parts of the datagram
    got,        \* those that have arrived
    delivered   \* what has been handed over

Parts == 0..(size - 1)

Init == size \in Nat /\ got = {} /\ delivered = <<>>

Arrive ==
    /\ got \subseteq got' /\ got' \subseteq Parts
    /\ delivered' = IF got' = Parts THEN [p \in 1..size |-> p - 1] ELSE <<>>
    /\ UNCHANGED size

Spec == Init /\ [][Arrive]_<<size, got, delivered>>
===============================================================================
