---------------------------- MODULE MCPipeDispatch ----------------------------
(* Streams for TLC: packets with and without data, records that are        *)
(* malformed, sections in both byte orders.                                *)
EXTENDS PipeDispatch

Record(kind, len) == [kind |-> kind, len |-> len]
PcapStream(recs) == [pcapng |-> FALSE, recs |-> recs]
PcapngStream(recs) == [pcapng |-> TRUE, recs |-> recs]

MCStreams ==
    {PcapngStream(<<Record("shb", 2), Record("foreign", 2), Record("blk", 1)>>),
     PcapStream(<<Record("file", 1), Record("pkt", 1), Record("pkt", 0), Record("pkt", 3)>>),
     PcapStream(<<Record("file", 1), Record("pkt", 0), Record("bad", 1), Record("pkt", 1)>>),
     PcapStream(<<Record("old", 1)>>),
     PcapngStream(<<Record("shb", 2), Record("blk", 1), Record("shb", 2), Record("blk", 3)>>),
     PcapngStream(<<Record("shb", 2), Record("short", 0), Record("blk", 1)>>),
     PcapngStream(<<Record("shb", 2), Record("bad", 1)>>),
     PcapngStream(<<Record("bad", 2)>>),
     PcapngStream(<<Record("foreign", 2)>>)}
===============================================================================
