------------------------------ MODULE MCPcapngMux ------------------------------
(* Captures for TLC: a pcapng source passed through, without and with the   *)
(* threads; two pcapng sources; a pcapng source beside others, in each      *)
(* order; and no pcapng source at all.  The smaller sets are for the runs   *)
(* that look at one disagreement.                                           *)
EXTENDS PcapngMux

Capture(kinds, threads, limit, multi) ==
    [kinds |-> kinds, threads |-> threads, limit |-> limit, multi |-> multi]

PassSetups  == {Capture(<<"pcapng">>, FALSE, 0, TRUE)}
DropSetups  == {Capture(<<"pcapng", "live">>, TRUE, 1, FALSE)}

MCSetups ==
    PassSetups \cup
    {Capture(<<"pcapng">>, TRUE, 1, TRUE),
     Capture(<<"pcapng", "pcapng">>, TRUE, 2, TRUE),
     Capture(<<"pcapng", "live">>, TRUE, 2, TRUE),
     Capture(<<"pcap", "pcapng">>, TRUE, 1, FALSE),
     Capture(<<"live", "pcap">>, TRUE, 1, TRUE)}
================================================================================
