--------------------------- MODULE CaptureThreads ---------------------------
(***************************************************************************)
(* The threaded capture loop of dumpcap (src/dumpcap.c, use_threads).      *)
(*                                                                         *)
(* One reader thread per source runs pcap_read_handler: while global_ld.go *)
(* it dispatches its source and hands each packet to a queueing callback.  *)
(* The main thread runs the while loop of capture_loop_start: it takes     *)
(* packets off the bounded queue and writes them to the one output file    *)
(* (multi_files_on is false here; module CaptureOutput has the file        *)
(* switch).  When go becomes false the main thread joins the readers,      *)
(* drains the queue, reports and ends.                                     *)
(*                                                                         *)
(* A step is what one thread does between two accesses to state another    *)
(* thread also touches: go, cap_pipe_err, the queue with its two counters  *)
(* (one lock), and the per-source counters dropped and flushed, which both *)
(* threads increment without a lock, so an increment is a load and a       *)
(* store.  A reader that is not created yet is one that has not been       *)
(* scheduled yet.                                                          *)
(***************************************************************************)
EXTENDS Integers, Sequences, FiniteSets

CONSTANTS
    Srcs,              \* the capture_src's of global_ld.pcaps
    Pipes,             \* those with from_cap_pipe
    Batch,             \* live sources without a selectable descriptor
    MaxLen,            \* the longest packet a source may deliver
    Lens,              \* the captured lengths considered
    PacketLimit,       \* pcap_queue_packet_limit, 0 for none
    ByteLimit,         \* pcap_queue_byte_limit, 0 for none
    AutostopPackets,   \* -c or -a packets, 0 for none
    AutostopFilesize,  \* -a filesize, 0 for none
    Events,            \* which of AllEvents may happen
    MaxPackets         \* bound: packets a source delivers

AllEvents == {"signal", "pcap", "select", "pipe", "write", "duration"}

ASSUME SrcsAssumption  == IsFiniteSet(Srcs) /\ Pipes \subseteq Srcs
                          /\ Batch \subseteq Srcs \ Pipes
ASSUME LensAssumption  == MaxLen \in Nat /\ Lens \subseteq 0..MaxLen
ASSUME LimitAssumption == /\ PacketLimit \in Nat /\ ByteLimit \in Nat
                          /\ AutostopPackets \in Nat
                          /\ AutostopFilesize \in Nat
ASSUME EventAssumption == Events \subseteq AllEvents /\ MaxPackets \in Nat

Packet == [src : Srcs, seq : 1..MaxPackets, len : Lens]
None   == [src |-> "none", seq |-> 0, len |-> 0]

Counters == {"received", "dropped", "flushed"}

VARIABLES
    go,        \* global_ld.go
    pipeErr,   \* cap_pipe_err of each source
    pcapErr,   \* pcap_err of each source
    queue,     \* pcap_queue
    qbytes,    \* pcap_queue_bytes
    qpackets,  \* pcap_queue_packets
    count,     \* received, dropped and flushed of each source
    rpc,       \* where each reader thread is
    rhand,     \* the packet its callback was called with
    rbump,     \* the counter it is incrementing, and the value it loaded
    mpc,       \* where the main thread is
    mhand,     \* the queue_element it popped
    mbump,     \* the counter it is incrementing, and the value it loaded
    joined,    \* the main thread is past g_thread_join
    err,       \* global_ld.err is set
    captured,  \* global_ld.packets_captured
    bytes,     \* global_ld.bytes_written
    inpkts,    \* global_ld.inpkts_to_sync_pipe
    announced, \* sum of the counts sent with report_packet_count
    errors,    \* the kinds of error sent with report_capture_error
    file,      \* the packets in the output file
    arrived,   \* history: packets each source delivered
    lost       \* history: the packets dropped or flushed

shared  == <<go, pipeErr, pcapErr>>
qvars   == <<queue, qbytes, qpackets>>
rvars   == <<rpc, rhand, rbump>>
mvars   == <<mpc, mhand, mbump, joined>>
outvars == <<err, captured, bytes, inpkts, announced, errors, file>>
hist    == <<arrived, lost>>
vars    == <<shared, qvars, count, rvars, mvars, outvars, hist>>

Bumping(c) == [ctr |-> c, val |-> 0]
NoBump     == Bumping("received")

Init ==
    /\ go = TRUE
    /\ pipeErr = [s \in Srcs |-> "PIPOK"]
    /\ pcapErr = [s \in Srcs |-> FALSE]
    /\ queue = <<>> /\ qbytes = 0 /\ qpackets = 0
    /\ count = [s \in Srcs |-> [c \in Counters |-> 0]]
    /\ rpc = [s \in Srcs |-> "check"]
    /\ rhand = [s \in Srcs |-> None]
    /\ rbump = [s \in Srcs |-> NoBump]
    /\ mpc = "loop" /\ mhand = None /\ mbump = NoBump /\ joined = FALSE
    /\ err = FALSE /\ captured = 0 /\ bytes = 0 /\ inpkts = 0
    /\ announced = 0 /\ errors = {} /\ file = <<>>
    /\ arrived = [s \in Srcs |-> 0]
    /\ lost = [s \in Srcs |-> {}]

(***************************************************************************)
(* The reader thread of source s.                                          *)
(***************************************************************************)
Goto(s, pc) == rpc' = [rpc EXCEPT ![s] = pc]

(* [mutant: the loop tests the pipe only] *)
ReaderCheckPipeOnly(s) ==
    /\ rpc[s] = "check"
    /\ Goto(s, IF pipeErr[s] = "PIPOK" THEN "dispatch" ELSE "done")
    /\ UNCHANGED <<shared, qvars, count, rhand, rbump, mvars, outvars, hist>>

(* pcap_read_handler's loop condition *)
ReaderCheck(s) ==
    /\ rpc[s] = "check"
    /\ Goto(s, IF go /\ pipeErr[s] = "PIPOK" THEN "dispatch" ELSE "done")
    /\ UNCHANGED <<shared, qvars, count, rhand, rbump, mvars, outvars, hist>>

(* Nothing to read, part of a record, EINTR, or pcap_breakloop: the        *)
(* dispatch returns.  The signal handler that breaks the loop also clears  *)
(* go, so a reader that finds the loop broken adds nothing.                *)
DispatchNothing(s) ==
    /\ rpc[s] = "dispatch"
    /\ Goto(s, "check")
    /\ UNCHANGED <<shared, qvars, count, rhand, rbump, mvars, outvars, hist>>

(* A packet arrives: the callback is called with it *)
DispatchPacket(s) ==
    /\ rpc[s] = "dispatch"
    /\ arrived[s] < MaxPackets
    /\ arrived' = [arrived EXCEPT ![s] = @ + 1]
    /\ \E l \in Lens :
          rhand' = [rhand EXCEPT ![s] =
                       [src |-> s, seq |-> arrived[s] + 1, len |-> l]]
    /\ Goto(s, "callback")
    /\ UNCHANGED <<shared, qvars, count, rbump, mvars, outvars, lost>>

(* The writer of a pipe closed it, or reading it failed *)
DispatchPipeEnd(s) ==
    /\ rpc[s] = "dispatch" /\ s \in Pipes
    /\ \E e \in {"PIPEOF"} \cup {x \in {"PIPERR"} : "pipe" \in Events} :
          pipeErr' = [pipeErr EXCEPT ![s] = e]
    /\ Goto(s, "check")
    /\ UNCHANGED <<go, pcapErr, qvars, count, rhand, rbump, mvars, outvars,
                   hist>>

(* pcap_dispatch fails *)
DispatchPcapError(s) ==
    /\ rpc[s] = "dispatch" /\ s \notin Pipes /\ "pcap" \in Events
    /\ pcapErr' = [pcapErr EXCEPT ![s] = TRUE]
    /\ go' = FALSE
    /\ Goto(s, "check")
    /\ UNCHANGED <<pipeErr, qvars, count, rhand, rbump, mvars, outvars, hist>>

(* select fails: the reader itself reports the error to the parent *)
DispatchSelectError(s) ==
    /\ rpc[s] = "dispatch" /\ s \notin Batch /\ "select" \in Events
    /\ errors' = errors \cup {"select"}
    /\ go' = FALSE
    /\ Goto(s, "check")
    /\ UNCHANGED <<pipeErr, pcapErr, qvars, count, rhand, rbump, mvars, err,
                   captured, bytes, inpkts, announced, file, hist>>

(* The queueing callback's test of go *)
CallbackTest(s) ==
    /\ rpc[s] = "callback"
    /\ IF go
         THEN Goto(s, "enqueue") /\ UNCHANGED <<rbump, lost>>
         ELSE /\ Goto(s, "load")
              /\ rbump' = [rbump EXCEPT ![s] = Bumping("flushed")]
              /\ lost' = [lost EXCEPT ![s] = @ \cup {rhand[s].seq}]
    /\ UNCHANGED <<shared, qvars, count, rhand, mvars, outvars, arrived>>

(* [mutant: each test lets one packet too many in] *)
HasRoomLax == /\ ByteLimit = 0 \/ qbytes <= ByteLimit
              /\ PacketLimit = 0 \/ qpackets <= PacketLimit

HasRoom == /\ ByteLimit = 0 \/ qbytes < ByteLimit
           /\ PacketLimit = 0 \/ qpackets < PacketLimit

(* [mutants: the counters are forgotten, the packet jumps the queue] *)
PushUncounted(p) == queue' = Append(queue, p) /\ UNCHANGED <<qbytes, qpackets>>
PushFront(p) == /\ queue' = <<p>> \o queue
                /\ qbytes' = qbytes + p.len
                /\ qpackets' = qpackets + 1

Push(p) == /\ queue' = Append(queue, p)
           /\ qbytes' = qbytes + p.len
           /\ qpackets' = qpackets + 1

(* Where the callback returns to: pcap_dispatch(-1) goes on with the next  *)
(* packet of its batch, everything else handles one packet                 *)
Returned(s) == IF s \in Batch THEN "dispatch" ELSE "check"

(* Under the queue lock: push the packet, or find the queue full.  The     *)
(* increment of received after the unlock belongs to this thread alone.    *)
Enqueue(s) ==
    /\ rpc[s] = "enqueue"
    /\ IF HasRoom
         THEN /\ Push(rhand[s])
              /\ count' = [count EXCEPT ![s]["received"] = @ + 1]
              /\ rhand' = [rhand EXCEPT ![s] = None]
              /\ Goto(s, Returned(s))
              /\ UNCHANGED <<rbump, lost>>
         ELSE /\ rbump' = [rbump EXCEPT ![s] = Bumping("dropped")]
              /\ lost' = [lost EXCEPT ![s] = @ \cup {rhand[s].seq}]
              /\ Goto(s, "load")
              /\ UNCHANGED <<qvars, count, rhand>>
    /\ UNCHANGED <<shared, mvars, outvars, arrived>>

(* pcap_src->dropped++ and pcap_src->flushed++ *)
ReaderLoad(s) ==
    /\ rpc[s] = "load"
    /\ LET c == rbump[s].ctr IN
       rbump' = [rbump EXCEPT ![s] = [ctr |-> c, val |-> count[s][c]]]
    /\ Goto(s, "store")
    /\ UNCHANGED <<shared, qvars, count, rhand, mvars, outvars, hist>>

ReaderStore(s) ==
    /\ rpc[s] = "store"
    /\ count' = [count EXCEPT ![s][rbump[s].ctr] = rbump[s].val + 1]
    /\ rbump' = [rbump EXCEPT ![s] = NoBump]
    /\ rhand' = [rhand EXCEPT ![s] = None]
    /\ Goto(s, Returned(s))
    /\ UNCHANGED <<shared, qvars, mvars, outvars, hist>>

Reader(s) ==
    \/ ReaderCheck(s) \/ CallbackTest(s) \/ Enqueue(s)
    \/ ReaderLoad(s) \/ ReaderStore(s)
    \/ DispatchNothing(s) \/ DispatchPacket(s) \/ DispatchPipeEnd(s)
    \/ DispatchPcapError(s) \/ DispatchSelectError(s)

(***************************************************************************)
(* The main thread.                                                        *)
(***************************************************************************)
LoopTest ==
    /\ mpc = "loop"
    /\ mpc' = IF go THEN "pop" ELSE "join"
    /\ UNCHANGED <<shared, qvars, count, rvars, mhand, mbump, joined, outvars,
                   hist>>

(* [mutant: the bytes stay counted] *)
TakeKeepsBytes == /\ queue' = Tail(queue)
                  /\ qpackets' = qpackets - 1
                  /\ UNCHANGED qbytes

Take == /\ queue' = Tail(queue)
        /\ qbytes' = qbytes - Head(queue).len
        /\ qpackets' = qpackets - 1

(* capture_loop_dequeue_packet: under the lock, an element or a timeout *)
Pop ==
    /\ mpc \in {"pop", "drain"} /\ queue # <<>>
    /\ mhand' = Head(queue)
    /\ Take
    /\ mpc' = "gate"
    /\ UNCHANGED <<shared, count, rvars, mbump, joined, outvars, hist>>

PopTimeout ==
    /\ mpc \in {"pop", "drain"} /\ queue = <<>>
    /\ mpc' = IF joined THEN "finish" ELSE "scan"
    /\ UNCHANGED <<shared, qvars, count, rvars, mhand, mbump, joined, outvars,
                   hist>>

(* [mutant: the drain ends after one packet] *)
AfterWriteOnce == IF joined THEN "finish" ELSE "update"

AfterWrite == IF joined THEN "drain" ELSE "update"

(* [mutants: go is not tested, a packet refused is not counted] *)
WriteTestNone ==
    /\ mpc = "gate" /\ mpc' = "write"
    /\ UNCHANGED <<shared, qvars, count, rvars, mhand, mbump, joined, outvars,
                   hist>>
WriteTestUncounted ==
    /\ mpc = "gate"
    /\ mpc' = IF go THEN "write" ELSE AfterWrite
    /\ UNCHANGED <<shared, qvars, count, rvars, mhand, mbump, joined, outvars,
                   hist>>

(* The write callback's test of go *)
WriteTest ==
    /\ mpc = "gate"
    /\ IF go
         THEN mpc' = "write" /\ UNCHANGED <<mbump, lost>>
         ELSE /\ mpc' = "load"
              /\ mbump' = Bumping("flushed")
              /\ lost' = [lost EXCEPT ![mhand.src] = @ \cup {mhand.seq}]
    /\ UNCHANGED <<shared, qvars, count, rvars, mhand, joined, outvars,
                   arrived>>

(* -c, -a packets and -a filesize, as capture_loop_wrote_one_packet tests  *)
(* them for a single file                                                  *)
LimitHitLate(packets, size) ==    \* [mutant: one packet late]
    \/ AutostopPackets > 0 /\ packets > AutostopPackets
    \/ AutostopFilesize > 0 /\ size >= AutostopFilesize

LimitHit(packets, size) ==
    \/ AutostopPackets > 0 /\ packets >= AutostopPackets
    \/ AutostopFilesize > 0 /\ size >= AutostopFilesize

WritePacket ==
    /\ mpc = "write"
    /\ file' = Append(file, mhand)
    /\ captured' = captured + 1
    /\ inpkts' = inpkts + 1
    /\ bytes' = bytes + mhand.len
    /\ go' = (go /\ ~LimitHit(captured', bytes'))
    /\ mhand' = None
    /\ mpc' = AfterWrite
    /\ UNCHANGED <<pipeErr, pcapErr, qvars, count, rvars, mbump, joined, err,
                   announced, errors, hist>>

WriteError ==
    /\ mpc = "write" /\ "write" \in Events
    /\ go' = FALSE
    /\ err' = TRUE
    /\ mbump' = Bumping("dropped")
    /\ lost' = [lost EXCEPT ![mhand.src] = @ \cup {mhand.seq}]
    /\ mpc' = "load"
    /\ UNCHANGED <<pipeErr, pcapErr, qvars, count, rvars, mhand, joined,
                   captured, bytes, inpkts, announced, errors, file, arrived>>

MainLoad ==
    /\ mpc = "load"
    /\ LET c == mbump.ctr IN
       mbump' = [ctr |-> c, val |-> count[mhand.src][c]]
    /\ mpc' = "store"
    /\ UNCHANGED <<shared, qvars, count, rvars, mhand, joined, outvars, hist>>

MainStoreRetry ==    \* [mutant: a packet not written is tried again]
    /\ mpc = "store"
    /\ count' = [count EXCEPT ![mhand.src][mbump.ctr] = mbump.val + 1]
    /\ mpc' = IF mbump.ctr = "dropped" THEN "gate" ELSE AfterWrite
    /\ UNCHANGED <<shared, qvars, rvars, mhand, mbump, joined, outvars, hist>>

MainStore ==
    /\ mpc = "store"
    /\ count' = [count EXCEPT ![mhand.src][mbump.ctr] = mbump.val + 1]
    /\ mbump' = NoBump
    /\ mhand' = None
    /\ mpc' = AfterWrite
    /\ UNCHANGED <<shared, qvars, rvars, joined, outvars, hist>>

(* [mutants: one closed pipe suffices, no pipe does] *)
ScanAny ==
    /\ mpc = "scan"
    /\ go' = (go /\ \A s \in Srcs : pipeErr[s] = "PIPOK")
    /\ mpc' = "update"
    /\ UNCHANGED <<pipeErr, pcapErr, qvars, count, rvars, mhand, mbump, joined,
                   outvars, hist>>
ScanNone ==
    /\ mpc = "scan"
    /\ mpc' = "update"
    /\ UNCHANGED <<shared, qvars, count, rvars, mhand, mbump, joined, outvars,
                   hist>>

(* Nothing was dequeued: stop if no source is open.  The loop over the     *)
(* sources is one step: cap_pipe_err leaves PIPOK once and for all.        *)
Scan ==
    /\ mpc = "scan"
    /\ go' = (go /\ \E s \in Srcs : pipeErr[s] = "PIPOK")
    /\ mpc' = "update"
    /\ UNCHANGED <<pipeErr, pcapErr, qvars, count, rvars, mhand, mbump, joined,
                   outvars, hist>>

(* The update interval has not elapsed *)
UpdateNotDue ==
    /\ mpc = "update"
    /\ mpc' = "loop"
    /\ UNCHANGED <<shared, qvars, count, rvars, mhand, mbump, joined, outvars,
                   hist>>

(* It has: tell the parent the count, test -a duration *)
Update ==
    /\ mpc = "update"
    /\ announced' = announced + inpkts
    /\ inpkts' = 0
    /\ \/ UNCHANGED go
       \/ "duration" \in Events /\ go' = FALSE
    /\ mpc' = "loop"
    /\ UNCHANGED <<pipeErr, pcapErr, qvars, count, rvars, mhand, mbump, joined,
                   err, captured, bytes, errors, file, hist>>

(* The g_thread_join calls *)
Join ==
    /\ mpc = "join"
    /\ \A s \in Srcs : rpc[s] = "done"
    /\ joined' = TRUE
    /\ mpc' = "drain"
    /\ UNCHANGED <<shared, qvars, count, rvars, mhand, mbump, outvars, hist>>

(* From the input-error loop to the end of capture_loop_start: the other   *)
(* threads are gone, so this is one step                                   *)
Finish ==
    /\ mpc = "finish"
    /\ errors' = errors
         \cup {"input" : s \in {x \in Srcs : pcapErr[x] \/ pipeErr[x] = "PIPERR"}}
         \cup (IF err THEN {"output"} ELSE {})
    /\ announced' = announced + inpkts
    /\ inpkts' = 0
    /\ mpc' = "done"
    /\ UNCHANGED <<shared, qvars, count, rvars, mhand, mbump, joined, err,
                   captured, bytes, file, hist>>

Main ==
    \/ LoopTest \/ Pop \/ PopTimeout \/ WriteTest \/ WritePacket \/ WriteError
    \/ MainLoad \/ MainStore \/ Scan \/ UpdateNotDue \/ Update \/ Join
    \/ Finish

(* capture_loop_stop, from the signal handler: at any moment *)
Signal ==
    /\ "signal" \in Events /\ go
    /\ go' = FALSE
    /\ UNCHANGED <<pipeErr, pcapErr, qvars, count, rvars, mvars, outvars, hist>>

Terminated == mpc = "done" /\ UNCHANGED vars

Next == (\E s \in Srcs : Reader(s)) \/ Main \/ Signal \/ Terminated

(* select, pcap_dispatch and the queue's pop all have timeouts, so every   *)
(* thread keeps running; packets, closing pipes and signals come when they *)
(* come                                                                    *)
Spec == Init /\ [][Next]_vars
FairSpec == Spec /\ WF_vars(Main) /\ \A s \in Srcs : WF_vars(Reader(s))
(***************************************************************************)
(* What must hold.                                                         *)
(***************************************************************************)
ReaderPCs == {"check", "dispatch", "callback", "enqueue", "load", "store",
              "done"}
MainPCs   == {"loop", "pop", "gate", "write", "load", "store", "scan",
              "update", "join", "drain", "finish", "done"}
Bump      == [ctr : Counters, val : Nat]

(* Every variable has the type the code gives it. *)
TypeOK ==
    /\ go \in BOOLEAN
    /\ pipeErr \in [Srcs -> {"PIPOK", "PIPEOF", "PIPERR"}]
    /\ pcapErr \in [Srcs -> BOOLEAN]
    /\ queue \in Seq(Packet) /\ qbytes \in Int /\ qpackets \in Nat
    /\ count \in [Srcs -> [Counters -> Nat]]
    /\ rpc \in [Srcs -> ReaderPCs]
    /\ rhand \in [Srcs -> Packet \cup {None}]
    /\ rbump \in [Srcs -> Bump]
    /\ mpc \in MainPCs /\ mhand \in Packet \cup {None} /\ mbump \in Bump
    /\ joined \in BOOLEAN /\ err \in BOOLEAN
    /\ captured \in Nat /\ bytes \in Nat /\ inpkts \in Nat
    /\ announced \in Nat
    /\ errors \subseteq {"select", "input", "output"}
    /\ file \in Seq(Packet)
    /\ arrived \in [Srcs -> 0..MaxPackets]
    /\ lost \in [Srcs -> SUBSET (1..MaxPackets)]

(* The packet of a thread's hand that has not met its fate *)
InCallback(s) == rpc[s] \in {"callback", "enqueue"}
Writing       == mpc \in {"gate", "write"}
WriterHand    == IF Writing THEN <<mhand>> ELSE <<>>
ReaderHand(s) == IF InCallback(s) THEN <<rhand[s]>> ELSE <<>>

(* The way of the packets of source s, first the oldest *)
Pipeline(s) == file \o WriterHand \o queue \o ReaderHand(s)

FromSource(sq, s) == {i \in DOMAIN sq : sq[i].src = s}
SeqsOf(sq, s)     == {sq[i].seq : i \in FromSource(sq, s)}

(* The length of all packets of a sequence *)
BytesOf(sq) ==
    LET sum[n \in 0..Len(sq)] == IF n = 0 THEN 0 ELSE sum[n - 1] + sq[n].len
    IN  sum[Len(sq)]

(* The two counters of the queue, kept under its lock by both sides, are  *)
(* the number of its elements and the sum of their lengths: they never    *)
(* drift, so a limit never closes an empty queue.                         *)
QueueAccounting ==
    /\ qpackets = Len(queue)
    /\ qbytes = BytesOf(queue)

(* The limits of the queue: never more packets than the packet limit, and *)
(* less than one packet more than the byte limit (the test is made before *)
(* the packet is added), whatever readers compete for the last place.     *)
QueueBounded ==
    /\ PacketLimit > 0 => qpackets <= PacketLimit
    /\ ByteLimit > 0 => qbytes < ByteLimit + MaxLen

(* The packets of a source keep their order from its callback through the *)
(* queue and the writer into the file, and none is there twice.           *)
SourceOrder ==
    \A s \in Srcs :
        \A i, j \in FromSource(Pipeline(s), s) :
            i < j => Pipeline(s)[i].seq < Pipeline(s)[j].seq

(* No packet vanishes: what a source delivered is under way, written or   *)
(* counted among the dropped and flushed, and never two of these.         *)
Conservation ==
    \A s \in Srcs :
        /\ SeqsOf(Pipeline(s), s) \cap lost[s] = {}
        /\ SeqsOf(Pipeline(s), s) \cup lost[s] = 1..arrived[s]

(* When capture_loop_start ends no reader runs, the queue has been        *)
(* drained, the fate of every packet is known and the parent has been     *)
(* told of every packet in the file.                                      *)
FinalAccounting ==
    mpc = "done" =>
        /\ \A s \in Srcs : /\ rpc[s] = "done"
                           /\ SeqsOf(file, s) \cup lost[s] = 1..arrived[s]
        /\ queue = <<>>
        /\ announced = Len(file)

(* The packets under way: none lost, doubled or out of its order, and the  *)
(* counters of the queue those of what is in it (capture_loop_queue_       *)
(* packet_cb, capture_loop_dequeue_packet).                                *)
PipelineExact == QueueAccounting /\ SourceOrder /\ Conservation

(* A -c or -a packets capture never writes more than that many packets,   *)
(* and a -a filesize capture less than one packet beyond the limit,       *)
(* however many packets wait in the queue when the limit is reached.      *)
AutostopExact ==
    /\ AutostopPackets > 0 => Len(file) <= AutostopPackets
    /\ AutostopFilesize > 0 => bytes < AutostopFilesize + MaxLen

(* Without a signal and without a duration the capture ends only for a    *)
(* limit, an error the parent is told of, or because every source is a    *)
(* pipe that has ended: one pipe at its end must not stop the others.     *)
NoSilentStop ==
    (mpc = "done" /\ Events \cap {"signal", "duration"} = {}) =>
        \/ errors # {}
        \/ LimitHit(captured, bytes)
        \/ \A s \in Srcs : pipeErr[s] # "PIPOK"

(* The counts of dropped and flushed packets never exceed the packets     *)
(* really lost, though two threads increment them without a lock.         *)
DropsNotOvercounted ==
    \A s \in Srcs :
        count[s]["dropped"] + count[s]["flushed"] <= Cardinality(lost[s])

(* What is reported is true: in the end every packet is accounted for, and *)
(* at no time more drops than packets that were lost.                      *)
CountsTrue == FinalAccounting /\ DropsNotOvercounted

(* Stopping takes effect: once go is false, at most the packet the writer *)
(* had already let through its test still reaches the file.               *)
StopTakesEffect ==
    \A n \in 0..(MaxPackets * Cardinality(Srcs)) :
        [](~go /\ Len(file) = n => [](Len(file) <= n + 1))

(* A capture that is stopped, or whose sources are pipes that have all    *)
(* ended, ends: the readers leave their loops, the main thread joins      *)
(* them, drains the queue and finishes.                                   *)
CaptureEnds ==
    (~go \/ \A s \in Srcs : pipeErr[s] # "PIPOK") ~> mpc = "done"

(* What the tests of the capture from two fifos expect: when the pipes    *)
(* end and nothing else happened, every packet is in the file.            *)
PipesCapturedWhole ==
    (mpc = "done" /\ errors = {}) =>
        \A s \in Srcs : SeqsOf(file, s) = 1..arrived[s]
(* The threads, the queue and the locks together keep the promise of      *)
(* CaptureContract: every step is one of its steps or none.               *)
Contract == INSTANCE CaptureContract WITH ended <- mpc = "done"
ImplementsContract == Contract!Spec
=============================================================================
