--------------------------- MODULE CaptureContract ---------------------------
(***************************************************************************)
(* What a capture promises about its packets, whatever threads and queues  *)
(* it uses: a packet that arrived is written or lost, once; the file keeps *)
(* the order of each source; the capture ends only when the fate of every  *)
(* packet is settled, and nothing arrives or is written afterwards.        *)
(***************************************************************************)
EXTENDS Integers, Sequences

CONSTANTS Srcs, MaxPackets, Lens

VARIABLES arrived, file, lost, ended

vars == <<arrived, file, lost, ended>>

Written(s) == {file[i].seq : i \in {j \in DOMAIN file : file[j].src = s}}
Pending(s) == (1..arrived[s]) \ (Written(s) \cup lost[s])

Init ==
    /\ arrived = [s \in Srcs |-> 0]
    /\ file = <<>>
    /\ lost = [s \in Srcs |-> {}]
    /\ ended = FALSE

Arrive(s) ==
    /\ ~ended /\ arrived[s] < MaxPackets
    /\ arrived' = [arrived EXCEPT ![s] = @ + 1]
    /\ UNCHANGED <<file, lost, ended>>

Write(s) ==
    /\ ~ended
    /\ \E n \in Pending(s), l \in Lens :
          /\ \A m \in Written(s) : m < n
          /\ file' = Append(file, [src |-> s, seq |-> n, len |-> l])
    /\ UNCHANGED <<arrived, lost, ended>>

Lose(s) ==
    /\ ~ended
    /\ \E n \in Pending(s) : lost' = [lost EXCEPT ![s] = @ \cup {n}]
    /\ UNCHANGED <<arrived, file, ended>>

End ==
    /\ ~ended /\ \A s \in Srcs : Pending(s) = {}
    /\ ended' = TRUE
    /\ UNCHANGED <<arrived, file, lost>>

Next == (\E s \in Srcs : Arrive(s) \/ Write(s) \/ Lose(s)) \/ End

Spec == Init /\ [][Next]_vars
=============================================================================
