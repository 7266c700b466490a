----------------------------- MODULE PipeDispatch -----------------------------
(***************************************************************************)
(* How dumpcap (src/dumpcap.c) reads records from a capture pipe: opening  *)
(* (cap_pipe_open_live), the reader's loop, and the state machines         *)
(* pcap_pipe_dispatch and pcapng_pipe_dispatch.  The pipe delivers the     *)
(* writer's bytes in pieces of any size and may end anywhere.              *)
(*                                                                         *)
(* Bytes come in units, the least that the reader tells apart: a pcapng    *)
(* block has a type, a length and a body, of which the first unit of a     *)
(* section header (SHB) is its fixed part; a pcap record has a header of   *)
(* two units and its data.  A unit is the record it belongs to and its     *)
(* place there, so that the buffers show what was read into them.  A       *)
(* signal that interrupts select is a timeout when the result allows it.   *)
(***************************************************************************)
EXTENDS Integers, Sequences

CONSTANTS
    Streams,    \* what the writer may have to send
    Capacity,   \* units the pipe holds
    MaxUnits    \* bound: units of a record

(* The records: "file" is the pcap file header, "old" one of a version not *)
(* supported; "pkt" and "blk" are ordinary; "foreign" is an SHB in the     *)
(* other byte order or no SHB at all; the length of a "bad" one is too     *)
(* long or odd (of an SHB at the start: odd), that of a "short" one too    *)
(* small for a block.                                                      *)
Kinds == {"file", "old", "pkt", "shb", "foreign", "blk", "bad", "short"}
Hdr   == 2      \* units of a record or block header
Fixed == 3      \* units up to the end of the fixed part of an SHB

StreamType == [pcapng : BOOLEAN, recs : Seq([kind : Kinds, len : Nat])]

ASSUME PipeAssumption ==
    /\ Streams \subseteq StreamType
    /\ Capacity \in Nat \ {0} /\ MaxUnits \in Nat /\ MaxUnits >= Fixed
    /\ \A st \in Streams : \A r \in DOMAIN st.recs :
          LET rec == st.recs[r] IN
            /\ Hdr + rec.len <= MaxUnits
            /\ st.pcapng => rec.kind \notin {"file", "old", "pkt"}
            /\ ~st.pcapng => rec.kind \notin {"shb", "foreign", "blk", "short"}
            /\ rec.kind \in {"shb", "foreign"} => rec.len >= 2
            /\ rec.kind \in {"blk", "file", "old"} => rec.len >= 1
            /\ ~st.pcapng => (r = 1 <=> rec.kind \in {"file", "old"})
            /\ (st.pcapng /\ r = 1) => rec.kind \in {"shb", "foreign", "bad"}
    /\ \A st \in Streams : st.recs # <<>>

VARIABLES
    stream,     \* what the writer sends
    sent,       \* the last unit written
    closed,     \* the writer has closed the pipe
    pipe,       \* the units in the pipe
    go,         \* global_ld.go
    at,         \* where the reader is
    cont,       \* what it reads, in the functions for pcapng
    state,      \* cap_pipe_state
    hdr,        \* rechdr or bh
    buf,        \* cap_pipe_databuf
    toRead,     \* cap_pipe_bytes_to_read
    bytesRead,  \* cap_pipe_bytes_read
    got,        \* bytes_read of cap_pipe_read_data_bytes and the open functions
    err,        \* cap_pipe_err
    ret,        \* what the last dispatch returned
    delivered   \* the records given to the queue or write callback

writer  == <<stream, sent, closed>>
buffers == <<hdr, buf>>
counts  == <<toRead, bytesRead, got>>
result  == <<err, ret, delivered>>
vars == <<writer, pipe, go, at, cont, state, buffers, counts, result>>

Unit == [rec : Nat, off : Nat]
None == [rec |-> 0, off |-> 0]
Units(r) == Hdr + stream.recs[r].len
Recs == DOMAIN stream.recs

Init ==
    /\ stream \in Streams
    /\ sent = None /\ closed = FALSE /\ pipe = <<>>
    /\ go = TRUE /\ at = "magic" /\ cont = "none"
    /\ state = "EXPECT_REC_HDR"
    /\ hdr = [i \in 1 .. Hdr |-> None] /\ buf = [i \in 1 .. MaxUnits |-> None]
    /\ toRead = 0 /\ bytesRead = 0 /\ got = 0
    /\ err = "PIPOK" /\ ret = 0 /\ delivered = <<>>

(***************************************************************************)
(* The writer and the signal handler                                       *)
(***************************************************************************)
NextUnit ==
    IF sent # None /\ sent.off < Units(sent.rec)
      THEN [sent EXCEPT !.off = @ + 1]
      ELSE [rec |-> sent.rec + 1, off |-> 1]

Write ==
    /\ ~closed /\ NextUnit.rec \in Recs /\ Len(pipe) < Capacity
    /\ sent' = NextUnit
    /\ pipe' = Append(pipe, NextUnit)
    /\ UNCHANGED <<stream, closed, go, at, cont, state, buffers, counts, result>>

Close ==
    /\ ~closed
    /\ closed' = TRUE
    /\ UNCHANGED <<stream, sent, pipe, go, at, cont, state, buffers, counts, result>>

Stop ==
    /\ go
    /\ go' = FALSE
    /\ UNCHANGED <<writer, pipe, at, cont, state, buffers, counts, result>>

(***************************************************************************)
(* Reading                                                                 *)
(***************************************************************************)
AtEnd == closed /\ pipe = <<>>

(* cap_pipe_read reads n units of at most max *)
Take(max, n) ==
    /\ n \in 1 .. max /\ n <= Len(pipe)
    /\ pipe' = SubSeq(pipe, n + 1, Len(pipe))

(* n units stored in b behind the first o *)
Stored(b, o, n) ==
    [i \in DOMAIN b |-> IF i \in (o + 1) .. (o + n) THEN pipe[i - o] ELSE b[i]]

(* The record whose header is h; bytes that are no header look like the    *)
(* header of a packet                                                      *)
RecOf(h)   == IF h[1].off = 1 /\ h[2] = [h[1] EXCEPT !.off = 2] THEN h[1].rec ELSE 0
KindOf(h)  == IF RecOf(h) \in Recs THEN stream.recs[RecOf(h)].kind ELSE "pkt"
LenOf(h)   == IF RecOf(h) \in Recs THEN stream.recs[RecOf(h)].len ELSE 1

Deliver(h, b, n) ==
    delivered' = Append(delivered, [rec |-> RecOf(h), data |-> SubSeq(b, 1, n)])

(* A dispatch returns r *)
Return(r) == ret' = r /\ at' = "loop"

(***************************************************************************)
(* Opening                                                                 *)
(***************************************************************************)
OpenMagic ==
    /\ at = "magic"
    /\ Take(1, 1)
    /\ IF stream.pcapng
         THEN /\ at' = "reading" /\ cont' = "openlen"       \* pcapng_pipe_open_live
              /\ buf' = Stored(buf, 0, 1)
              /\ bytesRead' = 1 /\ toRead' = Hdr
         ELSE at' = "header" /\ UNCHANGED <<cont, buf, bytesRead, toRead>>
    /\ UNCHANGED <<writer, go, state, hdr, got, result>>

(* pcap_pipe_open_live *)
OpenHeader ==
    /\ at = "header"
    /\ \E n \in 1 .. MaxUnits :
         /\ Take(Units(1) - 1 - got, n)
         /\ IF got + n < Units(1) - 1
              THEN got' = got + n /\ UNCHANGED <<at, err>>
              ELSE /\ got' = 0
                   /\ IF stream.recs[1].kind = "old"
                        THEN err' = "PIPERR" /\ at' = "done"
                        ELSE at' = "loop" /\ UNCHANGED err
    /\ UNCHANGED <<writer, go, cont, state, buffers, toRead, bytesRead, ret,
                   delivered>>

(* The open functions fail: no capture starts *)
OpenError == err' = "PIPERR" /\ at' = "done" /\ UNCHANGED <<ret, delivered>>

OpenFail ==
    /\ at \in {"magic", "header"}
    /\ OpenError
    /\ UNCHANGED <<writer, pipe, go, cont, state, buffers, counts>>

(***************************************************************************)
(* The loop of pcap_read_handler, and capture_loop_dispatch                *)
(***************************************************************************)
(* Mutants: the test of err, or of go, is missing *)
LoopIgnoresErr ==
    /\ at = "loop"
    /\ at' = IF go THEN "select" ELSE "done"
    /\ UNCHANGED <<writer, pipe, go, cont, state, buffers, counts, result>>

LoopIgnoresGo ==
    /\ at = "loop"
    /\ at' = IF err = "PIPOK" THEN "select" ELSE "done"
    /\ UNCHANGED <<writer, pipe, go, cont, state, buffers, counts, result>>

Loop ==
    /\ at = "loop"
    /\ at' = IF go /\ err = "PIPOK" THEN "select" ELSE "done"
    /\ UNCHANGED <<writer, pipe, go, cont, state, buffers, counts, result>>

Select ==
    /\ at = "select"
    /\ at' = IF pipe # <<>> \/ closed THEN "dispatch" ELSE "loop"
    /\ UNCHANGED <<writer, pipe, go, cont, state, buffers, counts, result>>

SelectError ==
    /\ at = "select"
    /\ go' = FALSE /\ at' = "loop"
    /\ UNCHANGED <<writer, pipe, cont, state, buffers, counts, result>>

(* Mutant: the data of a pcap record is read behind its header *)
BeginKeepsCount ==
    \/ /\ state = "EXPECT_REC_HDR"
       /\ state' = "READ_REC_HDR" /\ toRead' = Hdr /\ bytesRead' = 0
       /\ cont' = "rechdr"
    \/ /\ state = "EXPECT_DATA"
       /\ state' = "READ_DATA"
       /\ toRead' = (IF stream.pcapng THEN Hdr ELSE 0) + LenOf(hdr)
       /\ UNCHANGED bytesRead
       /\ cont' = "data"
    \/ /\ state \in {"READ_REC_HDR", "READ_DATA"}
       /\ cont' = IF state = "READ_DATA" THEN "data" ELSE "rechdr"
       /\ UNCHANGED <<state, toRead, bytesRead>>

(* The first switch of the dispatch functions, before anything is read.    *)
(* The data of a pcapng block follows its header in the buffer, that of a  *)
(* pcap record begins it.                                                  *)
Begin ==
    \/ /\ state = "EXPECT_REC_HDR"
       /\ state' = "READ_REC_HDR" /\ toRead' = Hdr /\ bytesRead' = 0
       /\ cont' = "rechdr"
    \/ /\ state = "EXPECT_DATA"
       /\ state' = "READ_DATA"
       /\ toRead' = (IF stream.pcapng THEN Hdr ELSE 0) + LenOf(hdr)
       /\ bytesRead' = IF stream.pcapng THEN bytesRead ELSE 0
       /\ cont' = "data"
    \/ /\ state \in {"READ_REC_HDR", "READ_DATA"}
       /\ cont' = IF state = "READ_DATA" THEN "data" ELSE "rechdr"
       /\ UNCHANGED <<state, toRead, bytesRead>>

Dispatch ==
    /\ at = "dispatch"
    /\ at' = IF stream.pcapng THEN "reading" ELSE "read"
    /\ Begin
    /\ got' = 0
    /\ UNCHANGED <<writer, pipe, go, buffers, result>>

(***************************************************************************)
(* pcap_pipe_dispatch: one read per call                                   *)
(***************************************************************************)
(* n units come: into the header, or into the data *)
Read(n) ==
    /\ at = "read"
    /\ Take(toRead - bytesRead, n)
    /\ bytesRead' = bytesRead + n
    /\ IF cont = "rechdr"
         THEN hdr' = Stored(hdr, bytesRead, n) /\ UNCHANGED buf
         ELSE buf' = Stored(buf, bytesRead, n) /\ UNCHANGED hdr
    /\ UNCHANGED <<writer, go, cont, toRead, got>>

ReadPart ==
    \E n \in 1 .. MaxUnits :
      /\ Read(n) /\ bytesRead + n < toRead
      /\ Return(0)
      /\ UNCHANGED <<state, err, delivered>>

(* Mutants: a record without data waits for data; a part of the data is    *)
(* taken for the whole                                                     *)
ReadHeaderEmptyWaits ==
    \E n \in 1 .. MaxUnits :
      /\ cont = "rechdr" /\ Read(n) /\ bytesRead + n = toRead
      /\ IF KindOf(hdr') = "bad"
           THEN err' = "PIPERR" /\ Return(-1) /\ UNCHANGED <<state, delivered>>
           ELSE state' = "EXPECT_DATA" /\ Return(0) /\ UNCHANGED <<err, delivered>>

ReadDataPart ==
    \E n \in 1 .. MaxUnits :
      /\ cont = "data" /\ Read(n)
      /\ Deliver(hdr, buf', bytesRead + n)
      /\ state' = "EXPECT_REC_HDR" /\ Return(1)
      /\ UNCHANGED err

(* The header is complete: a record too long ends the capture, one without *)
(* data is already whole                                                   *)
ReadHeader ==
    \E n \in 1 .. MaxUnits :
      /\ cont = "rechdr" /\ Read(n) /\ bytesRead + n = toRead
      /\ \/ /\ KindOf(hdr') = "bad"
            /\ err' = "PIPERR" /\ Return(-1)
            /\ UNCHANGED <<state, delivered>>
         \/ /\ KindOf(hdr') # "bad" /\ LenOf(hdr') > 0
            /\ state' = "EXPECT_DATA" /\ Return(0)
            /\ UNCHANGED <<err, delivered>>
         \/ /\ KindOf(hdr') # "bad" /\ LenOf(hdr') = 0
            /\ Deliver(hdr', buf, 0)
            /\ state' = "EXPECT_REC_HDR" /\ Return(1)
            /\ UNCHANGED err

ReadData ==
    \E n \in 1 .. MaxUnits :
      /\ cont = "data" /\ Read(n) /\ bytesRead + n = toRead
      /\ Deliver(hdr, buf', toRead)
      /\ state' = "EXPECT_REC_HDR" /\ Return(1)
      /\ UNCHANGED err

ReadFails(e) ==
    /\ at = "read"
    /\ err' = e /\ Return(-1)
    /\ UNCHANGED <<writer, pipe, go, cont, state, buffers, counts, delivered>>

(* A read of no bytes returns 0 as well *)
ReadEof   == (AtEnd \/ bytesRead = toRead) /\ ReadFails("PIPEOF")
ReadError == ReadFails("PIPERR")

(***************************************************************************)
(* cap_pipe_read_data_bytes, which returns only when all bytes are there,  *)
(* and what pcapng_pipe_open_live and pcapng_pipe_dispatch do then         *)
(***************************************************************************)
Fill ==
    /\ at = "reading"
    /\ \E n \in 1 .. MaxUnits :
         /\ Take(toRead - bytesRead - got, n)
         /\ buf' = Stored(buf, bytesRead + got, n)
         /\ got' = got + n
    /\ UNCHANGED <<writer, go, at, cont, state, hdr, toRead, bytesRead, result>>

(* pcapng_pipe_dispatch ignores that pcapng_read_shb failed *)
FillFails(e) ==
    /\ at = "reading" /\ got < toRead - bytesRead
    /\ IF cont \in {"openlen", "openshb"}
         THEN OpenError
         ELSE /\ err' = e /\ Return(IF cont = "shb" THEN 1 ELSE -1)
              /\ UNCHANGED delivered
    /\ UNCHANGED <<writer, pipe, go, cont, state, buffers, counts>>

FillEof   == AtEnd /\ FillFails("PIPEOF")
FillError == FillFails("PIPERR")

Filled(c) ==
    /\ at = "reading" /\ cont = c /\ got = toRead - bytesRead
    /\ bytesRead' = toRead /\ got' = 0
    /\ UNCHANGED <<writer, pipe, go, buf>>

(* pcapng_read_shb begins *)
ExpectShb(c) == toRead' = Fixed /\ cont' = c /\ UNCHANGED <<at, state, result>>

OpenLength ==
    /\ Filled("openlen")
    /\ hdr' = SubSeq(buf, 1, Hdr)
    /\ IF KindOf(hdr') = "bad"
         THEN OpenError /\ UNCHANGED <<cont, state, toRead>>
         ELSE ExpectShb("openshb")

OpenShb ==
    /\ Filled("openshb")
    /\ IF KindOf(hdr) = "foreign"
         THEN OpenError /\ UNCHANGED state
         ELSE state' = "EXPECT_DATA" /\ at' = "loop" /\ UNCHANGED result
    /\ UNCHANGED <<cont, hdr, toRead>>

(* Mutant: the error of a block too small is returned but not recorded *)
BlockHeaderNoErr ==
    /\ Filled("rechdr")
    /\ hdr' = SubSeq(buf, 1, Hdr)
    /\ CASE KindOf(hdr') \in {"shb", "foreign"} -> ExpectShb("shb")
         [] KindOf(hdr') \in {"bad", "short"} ->
              Return(-1) /\ UNCHANGED <<cont, state, toRead, err, delivered>>
         [] OTHER ->
              /\ state' = "EXPECT_DATA" /\ Return(0)
              /\ UNCHANGED <<cont, toRead, err, delivered>>

BlockHeader ==
    /\ Filled("rechdr")
    /\ hdr' = SubSeq(buf, 1, Hdr)
    /\ CASE KindOf(hdr') \in {"shb", "foreign"} -> ExpectShb("shb")
         [] KindOf(hdr') \in {"bad", "short"} ->
              /\ err' = IF KindOf(hdr') = "bad" THEN "PIPERR" ELSE "PIPEOF"
              /\ Return(-1) /\ UNCHANGED <<cont, state, toRead, delivered>>
         [] OTHER ->
              /\ state' = "EXPECT_DATA" /\ Return(0)
              /\ UNCHANGED <<cont, toRead, err, delivered>>

(* The result of pcapng_read_shb is ignored, but the state is its doing *)
BlockShb ==
    /\ Filled("shb")
    /\ state' = IF KindOf(hdr) = "foreign" THEN state ELSE "EXPECT_DATA"
    /\ Return(1)
    /\ UNCHANGED <<cont, hdr, toRead, err, delivered>>

BlockData ==
    /\ Filled("data")
    /\ Deliver(hdr, buf, toRead)
    /\ state' = "EXPECT_REC_HDR" /\ Return(1)
    /\ UNCHANGED <<cont, hdr, toRead, err>>

(***************************************************************************)
(* The specification                                                       *)
(***************************************************************************)
Opening == OpenMagic \/ OpenHeader \/ (AtEnd /\ OpenFail) \/ OpenLength \/ OpenShb
Looping == Loop \/ Select \/ Dispatch
Pcap    == ReadPart \/ ReadHeader \/ ReadData \/ ReadEof
Pcapng  == Fill \/ FillEof \/ BlockHeader \/ BlockShb \/ BlockData

(* What the reader does unless a call fails *)
Reader == Opening \/ Looping \/ Pcap \/ Pcapng

Fails == OpenFail \/ SelectError \/ ReadError \/ FillError

Ended == at = "done" /\ UNCHANGED vars

Next == Write \/ Close \/ Stop \/ Reader \/ Fails \/ Ended

Spec == Init /\ [][Next]_vars

(* select has a timeout and then nothing blocks: a reader is only ever     *)
(* held up by the writer                                                   *)
FairSpec == Spec /\ WF_vars(Reader)

(***************************************************************************)
(* Properties                                                              *)
(***************************************************************************)
(* The buffers and counts are within their bounds: no read goes beyond     *)
(* what is expected, whatever pieces come (dumpcap.c, the offsets of every *)
(* cap_pipe_read).                                                         *)
TypeOK ==
    /\ stream \in Streams /\ sent \in Unit /\ closed \in BOOLEAN
    /\ pipe \in Seq(Unit) /\ Len(pipe) <= Capacity
    /\ go \in BOOLEAN
    /\ at \in {"magic", "header", "loop", "select", "dispatch", "read", "reading",
               "done"}
    /\ cont \in {"none", "openlen", "openshb", "rechdr", "shb", "data"}
    /\ state \in {"EXPECT_REC_HDR", "READ_REC_HDR", "EXPECT_DATA", "READ_DATA"}
    /\ hdr \in [1 .. Hdr -> Unit] /\ buf \in [1 .. MaxUnits -> Unit]
    /\ toRead \in 0 .. MaxUnits /\ bytesRead \in 0 .. toRead
    /\ got \in 0 .. MaxUnits
    /\ err \in {"PIPOK", "PIPEOF", "PIPERR"} /\ ret \in {-1, 0, 1}
    /\ delivered \in Seq([rec : Nat, data : Seq(Unit)])

(* The record delivered k-th: of a pcap stream the first is the file       *)
(* header.  What is delivered of it: a block as a whole, of a packet the   *)
(* data.                                                                   *)
Nth(k) == IF stream.pcapng THEN k ELSE k + 1
DataOf(r) ==
    IF stream.pcapng THEN [i \in 1 .. Units(r) |-> [rec |-> r, off |-> i]]
    ELSE [i \in 1 .. stream.recs[r].len |-> [rec |-> r, off |-> Hdr + i]]

(* However the pipe cuts the stream, what is queued are its records, in    *)
(* order, none left out or twice, each with its own header and all of its  *)
(* own data (pcap_pipe_dispatch, pcapng_pipe_dispatch).                    *)
DeliveredWhole ==
    \A k \in DOMAIN delivered :
        delivered[k] = [rec |-> Nth(k), data |-> DataOf(Nth(k))]

(* A dispatch that fails says why (the assertion of capture_loop_dispatch), *)
(* or the reader would go on in the middle of a record; and the end of the *)
(* pipe is never taken for one before every record that was written in     *)
(* full was delivered, but for a block that is malformed (PD_PIPE_EOF, the *)
(* result 0 of read).                                                      *)
EofComplete ==
    LET r == Nth(Len(delivered) + 1)
        complete == r \in Recs /\ (sent.rec > r \/ sent = [rec |-> r, off |-> Units(r)])
    IN  /\ ret = -1 => err # "PIPOK"
        /\ err = "PIPEOF" /\ complete => stream.recs[r].kind = "short"

(* After the end or an error nothing more is read or delivered, and the    *)
(* reason stays (pcap_read_handler).                                       *)
EndIsFinal == [][err # "PIPOK" => UNCHANGED <<err, delivered, pipe>> \/ Write]_vars

(* A reader whose writer has closed the pipe ends, in whatever state and   *)
(* at whatever byte, if no section is in the other byte order.  So does    *)
(* one that was stopped; in the middle of a pcapng block, or before the    *)
(* pipe is open, only once the writer has closed it too.                   *)
Closing  == closed /\ \A r \in Recs : stream.recs[r].kind # "foreign"
Stopping == ~go /\ (closed \/ (~stream.pcapng /\ at \notin {"magic", "header"}))

ReaderEnds == (Closing \/ Stopping) ~> at = "done"
===============================================================================
