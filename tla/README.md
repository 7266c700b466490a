# A verification of the capture path of tshark

This directory holds TLA+ models of the repository's own core logic, the TLC
configurations that check them and TLAPS proofs about them. The repository is a
fork of Wireshark 4.5 whose product is `tshark`; most of its seven thousand
files are protocol dissectors, generated code and a GUI. What is hard in it,
and what no test of the suite reaches, is the *live capture path*: a child
process, `dumpcap`, that captures from several sources with one thread each,
moves packets through a bounded queue into a changing set of files, and tells
its parent over a pipe what it did. The models start there, go on with the
parent - the session of the user interface that reads the pipe and the file -
and with the first thing the dissection engine keeps across packets, the
reassembly of fragments.

## Inventory

| Component | Code | State it keeps | Operations |
|---|---|---|---|
| capture loop | `dumpcap.c` 3668-3847, 4071-4191, 4217-4755, 4815-5083 | `global_ld` (go, err, counters), `pcap_queue` with its two counters, `pcap_src` counters and errors | dispatch, queue and write callbacks, dequeue, stop conditions, update, join and drain, stop signal |
| output side | `dumpcap.c` 3536-3657, 3850-4132, 1196-1219 | `pdh`, `save_file`, `save_file_fd`, `file_count`, `packets_written`, `inpkts_to_sync_pipe` | open output, init output, switch or stop, close output, error cleanup, exit |
| ring of files | `ringbuffer.c` | `rb_data`: slot names, current number, stream, descriptor, name handle | init, open file, switch, close, print name, error cleanup, free; gzip threads |
| capture pipe readers | `dumpcap.c` 1560-3330 | per pipe: state, bytes read, bytes to read, `cap_pipe_err`, saved header | open, pcap and pcapng dispatch, adjust |
| pcapng multiplexing | `dumpcap.c` 2316-2522, 3379-3530, 4853-4912 | saved section header, `saved_idbs`, interface ids | store, renumber, write headers of a new file, pass through |
| sync pipe writer | `sync_pipe_write.c`, `sync_pipe.h` | none (the pipe) | write string, unsigned, error messages |
| capture parent | `capture/capture_sync.c`, `ui/capture.c` | `capture_session`: state, fork id, pipe, counts, pending count; `real_time_mode` | start, read a block, dispatch messages, wait for child, stop, discard, close |
| extcap | `extcap.c` | of each interface: pid, fifo, two output watches; the terminate timeout | spawn, child and output callbacks, request stop, terminate, session stop |
| tshark | `tshark.c` | `cfile`, captured and dropped counts | capture, new file, new packets, drops, closed |
| GUI capture file | `file.c`, `cfile.c`, `fileset.c` | `capture_file` with read state and redissection flag | open, read, continue and finish tail, close; rescan, filter, save |
| reassembly | `epan/reassemble.c` | fragment table, reassembled table, `fragment_head` lists with a gap cache | add, add by sequence, add and check, add next, set and reset length, truncate, extend, end, delete |
| conversations | `epan/conversation.c` | hash tables by kind of wildcard | new, find, set endpoint |
| taps | `epan/tap.c` | listener list, packet queue | queue, push, draw, reset |
| file merging | `wiretap/merge.c` | per input: next record, state; interface map | open, choose record, write, renumber |
| memory scopes | `wsutil/wmem`, `epan/wmem_scopes.c` | pools, chunk lists, callbacks | enter, leave, allocate, free |
| the rest | see `PROJECT.json` | | dissectors, display filters, wiretap formats, GUI, tools: not planned |

How they interact. `tshark` (or the GUI) calls `capture_sync.c`, which forks
`dumpcap` with a pipe to its standard error and reads messages from it;
`dumpcap` writes them with `sync_pipe_write.c`. In `dumpcap`, readers and main
thread share `global_ld`, the queue and the `capture_src`s; only the queue and
the saved pcapng blocks have a lock. The main thread alone writes files and
calls `ringbuffer.c`. A signal handler, `capture_loop_stop`, clears `go` at any
moment. The parent reads a capture file while it is written, trusting the
messages: first the name of a file (`SP_FILE`), then how many packets of it are
on disk (`SP_PACKET_COUNT`).

What is hard, and what makes each component correct:

* *Capture loop*: readers, writer and signal handler interleave at every
  access to `go`. No packet may vanish uncounted or change place with another
  of its source; limits hold although packets wait in the queue; a stop ends
  everything, and the end of one pipe ends nothing else.
* *Output side and ring*: a switch is a dozen calls, each of which may fail.
  The directory must hold the newest files and no others; what the parent was
  told must be on disk, under the name it was told; stream, name and descriptor
  must have one owner.
* *Pipe readers*: records arrive in pieces. *Multiplexing*: interface numbers
  must stay valid in every new file. *Sync pipe*: framing with several writers,
  a child that dies.
* *Parent and extcaps*: dumpcap, each extcap, each of its two outputs, a
  timeout and the user end or act in any order, each with a callback of its
  own. The session must be closed once, after the last of them; the list of
  packets must be that of the file that was named last.
* *Reassembly*: sequential, but long legal sequences of calls - fragments that
  overlap, contradict each other, come late, twice or after an extension -
  reach states no unit test builds. *Conversations, merging*: likewise.

## Modules

| Module | Models |
|---|---|
| `CaptureThreads` | the threaded capture loop into one output file |
| `CaptureContract` | what a capture promises, without threads, queue or counters |
| `MCCaptureThreads` | `CaptureThreads` with model values for sources |
| `CaptureThreadsProofs` | theorems about `CaptureThreads` |
| `NumberLemmas` | least and greatest members of sets of numbers, and induction over them; what the proofs share |
| `RingBuffer` | `ringbuffer.c`: slots, names, stream, and the file system and stdio it uses |
| `CaptureOutput` | the output side of the loop; extends `RingBuffer`, whose operations are its actions' parts |
| `MCCaptureOutput` | the command lines for `CaptureOutput` |
| `CaptureOutputProofs` | theorems about `CaptureOutput` and its ring |
| `PcapngMux` | the interface numbers of several sources in several files, and passthrough |
| `MCPcapngMux` | the captures for `PcapngMux` |
| `PcapngMuxProofs` | theorems about `PcapngMux` |
| `PipeDispatch` | one capture pipe: opening it and the record state machines of its reader |
| `MCPipeDispatch` | the streams for `PipeDispatch` |
| `PipeDispatchProofs` | theorems about `PipeDispatch` |
| `SyncPipe` | `sync_pipe_write.c` and `pipe_read_block`: messages in pieces, in a pipe of bounded size |
| `CaptureFile` | the capture file and the callbacks of `ui/capture.c`, as operators on a record |
| `CaptureSession` | a session: dumpcap, extcaps, event loop and user; extends `SyncPipe` and `CaptureFile` |
| `MCCaptureSession` | the sessions for `CaptureSession` |
| `CaptureSessionProofs` | theorems about `CaptureSession` |
| `FragmentList` | `LINK_FRAG`, `update_first_gap` and the removal of fragments, as operators |
| `FragmentListProofs` | theorems about `FragmentList` |
| `Reassembly` | the functions of `reassemble.c` and their tables; extends `FragmentList` |
| `ReassemblyProofs` | theorems about `Reassembly` |
| `Datagram` | what a reassembly promises, without lists or tables |
| `MCReassembly` | the callers for `Reassembly` |

**CaptureThreads.** One action per access of a thread to state that another
thread touches. A reader goes `check` (the loop condition of
`pcap_read_handler`), `dispatch` (select, read), `callback` (the test of `go`),
`enqueue` (the critical section), and, when the packet is lost, `load` and
`store` (the unlocked `dropped++` or `flushed++`). The main thread goes `loop`,
`pop`, `gate` (the write callback's test of `go`), `write`, `load` and `store`,
`scan` (are all pipes closed), `update`, then `join`, `drain`, `finish`,
`done`. `received++` after the unlock is part of `Enqueue`: only the reader
touches it. From the join on there is one thread, so the end of
`capture_loop_start` is one step, `Finish`. A packet is its source, its number
and its length. `go` is read as it is written: the compiler may not hoist the
read out of the loops, which all contain calls.
`Pipes` are sources with `from_cap_pipe`; `Batch` are live sources read with
`pcap_dispatch(-1)`, which calls back until the batch is over and does not
look at `go` in between. `file` is the output file, `arrived` and `lost` are
history variables for the properties.

**CaptureContract.** A packet arrives, is written or is lost, once; writing
keeps the order of a source; the end comes when all is settled.
`ImplementsContract` says that `CaptureThreads` refines it: `Arrive` is
`DispatchPacket`, `Write` is `WritePacket`, `Lose` is a failed test of `go`, a
full queue or a write error, `End` is `Finish`; everything else stutters.

**RingBuffer and CaptureOutput.** One thread, the signal handler, and for each
closed file of a compressed set the thread that `ringbuf_start_compress_file`
starts. Each call that may fail has both outcomes, also where the code does not
look at the result, as with `fflush` (`Flush`, and `WritePacket` with `-c`): what
waits in the buffer is then lost, as in glibc. The stream of a file is named after
the file; `fs` holds which names exist in the directory, which streams are
open, for each file the packets on disk and in the stdio buffer, and, as history,
which streams were closed and which files a failed call has kept from having a
stream or all their packets (`failed`). Using a
closed stream, closing it twice or freeing a name twice is recorded in `fs.bad`
and ends the behaviour: after undefined behaviour nothing is claimed. `heap` is
the set of names the ring has allocated, `saveFile` is
`capture_opts->save_file`. The parent is seen as `parent`, the file it was last
told of, and `told`, the counts it got for each file. Whether `-b filesize` is
reached and whether a timer has run out is left open, which covers all lengths
and clocks. A thread (`thread[n]`) opens, copies (`GzCopy`, with the gzclose that
completes the file), removes the original and calls `CleanupOldCap`; it shares the
directory and `oldnames` with the main thread, and since no step of it is ever
obliged to come, every prefix of it stands for a process that ends meanwhile. `gz`
is what a reader finds in the compressed file. The command line is the variable `opts`, chosen at the start from
`Options`.

**PcapngMux.** The same capture seen from its contents. A block is its source,
its type, its section and its interface; `saved`, `map`, `savedShb` are
`saved_idbs`, `src_iface_to_global` (or `idb_id`) and `saved_shb`, and `idbs` is
what a reader of the current section of the current file knows: which
interface each number stands for. `pcapng_adjust_block` and the writing of the
block are one action (`WriteShb`, `WriteIdb`, `WriteIsb`, `WriteEpb`), with the
file switch that the limits may ask for: all of it is the main thread's own
state. A queue step is an action, so blocks of all sources interleave and may
be dropped by a full queue; without threads the queue holds the one block in
hand. The source is assumed to obey the format: an interface is described
before it is used. A deleted entry is `Dummy`, and since the code zeroes its
memory it seems to belong to the first source, which is what makes the
assertion `MapsOwn` states worth proving. Errors are those of writing blocks
and of file switches; a capture that fails to start is in `CaptureOutput`.
Refreshes that the code does once more after `go` was cleared are allowed any
number of times, which adds no state a property distinguishes.

**PipeDispatch.** One reader, the program that writes to its pipe, and the
signal handler. Bytes come in units, the least that the code tells apart: two
for a header (type and length), then the body; the first unit of the body of a
section header is its fixed part, which holds the byte order. A unit is its
record and its place in it, so `hdr` and `buf` show exactly which bytes were
read to which offset, and a header can be recognized only from its own units.
The pipe holds `Capacity` units; a read returns any part of what is there.
`pcap_pipe_dispatch` reads once per call (`ReadPart`, `ReadHeader`, `ReadData`);
`pcapng_pipe_dispatch` goes through `cap_pipe_read_data_bytes`, a loop that
returns only with all bytes (`Fill`), after which `cont` says where it was
called from (`OpenLength`, `OpenShb`, `BlockHeader`, `BlockShb`, `BlockData`). The
writer may close the pipe and a call may fail at every unit. `toRead`,
`bytesRead` and `got` are the code's counts, `state` its `cap_pipe_state`. The
kinds of records are those for which the code has a branch. `delivered` is
what the callbacks get; from there on `CaptureThreads` and `PcapngMux` go on,
whose sources are readers like this one (`DispatchPacket`, `SendShb` and the
others are its deliveries, `DispatchPipeEnd` its end). The growth of the
buffer, lengths of a section header below its fixed part and the byte order of
pcap headers are not modelled.

**SyncPipe, CaptureFile and CaptureSession.** The composition around the pipe.
`SyncPipe` cuts a message as the code does: a write for the header, one for the
body, and for an error message two messages inside a third. A piece is its
writer, its message and its number; nothing keeps the pieces of two writers
apart, a full pipe (`PipeSize` pieces) blocks, and a reader that takes the
pieces of two messages for one is `skewed` from then on. `CaptureFile` is one
record, `ui`, with what the interface knows - session state, state of the
capture file, the file its reader has open and how far it has read - and an
operator for each callback; `broken` records a failed assertion or a read
through a NULL `wtap`, after which nothing happens in the interface any more.
`CaptureSession` adds the processes. dumpcap is what the other modules show of it: it opens the
fifos one after the other (`ChildOpen`), writes packets into a buffer that may
spill (`ChildWrite`), and reports in the order of the code (`ChildTell`;
`ChildSwitch`, `TellOldFile`, `NameFile`; `ChildStop`, `TellLast`, `TellDrops`,
`ChildExit`); `ChildCrash` may come before any of these and between two pieces.
A thread that logs (`ReaderLogs`) is the second writer. `disk` is what a
reader of a file finds, `told` what the interface was told. Where the disk may be full (`full`),
a flush at a count and the close at the stop may write a part only (`Flushed(n)`);
dumpcap tells of the rest as well, so it goes to `lost`. A failed close at a switch
ends the capture and is the same step as at the stop. The callbacks of
the event loop are one action each (`PipeMessage`, `PipeEnd` and `ChildReaped`,
`ExtcapReaped`, `ExtcapOutputEnds`, `TerminateTimeout`), and blocking inside one
is a value of `loop`: `wait` in `waitpid`, `spin` in
`capture_info_new_packets`. `ProcessFinished` is `capture_process_finished`,
which every end calls and only the last may act on; its parameters are the
flags as that callback finds them. `UserStops` is `capture_stop`, with the
discard of the file before it; `UserSwitches` the preferences. Whether a file
can be opened follows from the ring (`Exists`), or, where a setup says so, is
open.

**FragmentList, Reassembly and Datagram.** The calls of a dissector for the
packets of one conversation and identifier. A list of fragments is a sequence
with the index of the last fragment before the first gap and the contiguous
length, as the code caches them; offsets are numbers modulo `Modulus`, since
they are unsigned and may wrap. A `fragment_head` is a record in `heads`, never
reused, so that `freed` can be asked for; `table` is the entry of
`fragment_table`, `done` for each frame that of `reassembled_table`. The data
of a fragment are its bytes, a byte being its place and the version of the
datagram it is of; so `DataInPlace` sees a byte of the wrong place, and a
conflict is a difference of versions. A call returns the head, whether the
reassembly is complete, and whether an exception left it (`Going`, `Whole`,
`Throw`); what was changed before the exception stays, as in the code.
`AddFragment` is a call of one of the eight adding functions (`api`), the other
actions are the other functions; `Revisit` is what a later pass over the same
packets is answered, which changes nothing and is therefore an operator. Each
call belongs to the next packet or to the same one (`crowded`). `torn` marks a
head that an exception in the middle of a loop left half changed.
`ImplementsDatagram`, in the setups whose fragments all belong to one datagram
of known size, maps to `Datagram`: an addition maps to `Arrive`, any call that
adds nothing new to a stutter.

## Runs

| Run | Shows |
|---|---|
| `CaptureLive` | two live sources (one batched), both queue limits, `-c 3`, `-a filesize`, all errors and signals: `PipelineExact` (the queue's counters, order, conservation), its limits, `CountsTrue` (final accounting, no overcounted drops), `-c` and `-a` exact |
| `CapturePipes` | two fifos, `-a filesize`, a queue of one packet: refines the contract; the capture ends only for a reason |
| `CaptureStop` | with fairness: a stop ends the capture, so does the end of all pipes, and at most one more packet is written after a stop |
| `OutputSafety` | ten command lines: rings of 1, 2 and 3 files and unlimited sets, compressed and not, `-b` packets, filesize and timers, `-a files`, `-c`, printname, stops and failures: `FilesKept` (the directory), `CountsTrue` (what the parent is told of is on disk, in files none of whose writes, flushes and closes failed; in the end it was told of everything), `Quotas`, `OneOwner` (for stream and name), `PrintedInOrder` (the names of closed files, complete unless a call failed; the last may be one whose opening failed) |
| `MuxSafety` | six captures: one pcapng source, one and two files passed through; a pcapng source before and after others, with and without threads and a one-block queue: numbers keep their meaning, the file describes what is saved, `ParentInStep` (no file is named before its header, and what was counted was written to the file it was told of) |
| `PipeSafety` | nine streams: packets with and without data, blocks, a new section, malformed records of each kind, both byte orders; closed, stopped or failing anywhere: records whole and in order, nothing complete lost at the end, no reading after an error, and with fairness the end of a closed or stopped reader (`ReaderEnds`) |
| `SessionSafety` | ten sessions: a ring that rolls over in either mode, sets of files, changes of mode, one and two extcaps of which one ignores SIGTERM and one leaves its output open, opens that fail, a full disk in either mode, a second writer, crashes: no callback finds a state it does not expect; the session is closed last and once; counts follow their file, but for a file that could not be opened, whose name is forgotten; the list is what was told (`ListIsWhatWasTold`; on a full disk it misses at most the packets lost in a flush or close, and the window waits for no others) and in the end what was captured; and with fairness stops and deaths end the session (`SessionEnds`) |
| `ReassemblySafety` | eighteen callers: overlapping, contradicting, too long, wrapping and short fragments, several in a frame, by offset and by block, with each of the other functions: `ListsExact` (lists and their cache), `DataInPlace` (the bytes delivered, and conflicts noticed), `TablesExact` (ownership of heads, the frames' entries), later passes, extension, and the refinement of `Datagram` |
| `PipesWhole`, `OutputHeader`, `MuxAdjust`, `SessionWait` | disagreements between code and documents; see Findings |

Several of these properties are conjunctions of named parts, each with a comment
of its own in its module and each broken by a mutant of its own.

Bounds and why they are enough. Two sources are the least for which readers
compete for the queue and one pipe can end before the other; the code treats
sources alike, so a third adds no new kind of conflict. Two packets per source
(`MaxPackets`) let a packet wait in the queue while its successor arrives and
allow both limits, `-c 3` and, with longer packets first, `-a filesize` to be
reached while packets wait. Lengths 1 and 2 with a byte limit of 3
make the byte limit overshoot. `MaxFiles` = 5 with rings of at most 3 files
wraps every ring, and three threads that compress fill the two places that
`MAX_FILENAME_QUEUE` leaves for names not removed, so that a third is lost.
Symmetry (`CapturePipes`) permutes two equal sources; no
temporal property is checked with it other than the step-wise refinement.

In `PcapngMux` two sections, two interfaces per section, three saved
interfaces, two packets and two files are the least with which one source
starts a new section, another keeps a number above the deleted ones, and a
packet of either is written on each side of a file switch. The sources are the
combinations in which the code differs: pcapng alone (passthrough), and pcapng
with a source whose description dumpcap makes itself, in either order.

In `PipeDispatch` three records after the file header, the second without
data and the last of three units behind a pipe of three, give every way a
header or body can be cut in two or three, with the cut inside, before or
after what was already read, and records that follow one another in one piece.

In `CaptureSession` three files with a ring of one make the ring overtake the
reader by two; three packets let one be in the buffer, one on disk and one
told of. A pipe of six pieces holds an error message and the start of the next
message, and fills up; it must hold at least a whole message, or the reader,
which waits for one, never gets it. Two extcaps are the least of which one
can be over while the other is not, and the code treats them in order. In
`Reassembly` three to five calls with offsets below 8 give every order of up to
five fragments; a second fragment at each offset, in a second version, gives
every overlap with and without conflict, and `Wide` wraps. The caller's other
functions are combined two at a time, since each reads what the adding
functions leave and at most one other flag.

Fairness. `FairSpec` of `CaptureThreads` has weak fairness of the main thread and of each reader:
the pop has a timeout (`WRITER_THREAD_TIMEOUT`), `select` and `pcap_dispatch`
have one (`CAP_READ_TIMEOUT`), so no thread waits for ever and the scheduler
runs it. Nothing is assumed about packets arriving, pipes closing or signals.
A live source without a selectable descriptor whose batch never ends is the
case the code comments on itself (no stop until a packet arrives); the liveness
run therefore uses pipes. `FairSpec` of `PipeDispatch` has weak fairness of the
reader's steps that do not fail: `select` has a timeout and a read after it
does not block. Nothing is assumed about the writer, so `ReaderEnds` must and does
make an exception: `cap_pipe_read_data_bytes` repeats its `select` until the
whole block is there, and a stopped reader of a pcapng block whose writer
stalls never ends.

`FairSpec` of `CaptureSession` has weak fairness of the callbacks: glib
dispatches every source that is ready and every timeout that has run out, at
one priority. Of dumpcap it has weak fairness from the moment it is signalled
or has left its loop, which is what `CaptureEnds` shows of it; packets,
switches, stops by a limit and crashes may or may not come. An extcap ends
when it is asked to unless it is stubborn; one that is not asked may stay.
Nothing is assumed of the user.

Where two processes stop on their own (`done`, `end`), the model has an explicit
stuttering step, so deadlock is checked everywhere.

## Proofs

Every safety property and action property of the capture path that a run checks,
and of reassembly those about its lists, its tables and its bytes by offset,
is also proved, for all values of the constants. The
invariants the runs check are seldom inductive; what each proof adds is said
below, since that is the argument why the code is right.

`CaptureThreadsProofs` proves, for any finite set of sources, any limits and any
number and length of packets:

* `TypeCorrect`, from `Typing`: `TypeOK`, that a thread in its callback holds a
  packet (of its own source, for a reader), and that `qpackets` is the length of
  the queue, which makes the pop well typed. `QueueLimits` follows from it alone:
  only `Enqueue` adds, after the test and in the same critical section.
* `AutostopHolds`, with `AutostopInv`: while `go` is true *or the writer is past
  its test*, the counts are below the limits. So packets still queued when
  a limit is reached are never written.
* `PacketsAreExact`: the queue's byte count is that of its packets (`QueueSums`,
  which carries the partial sums along so that no recursion has to be unfolded),
  and the packets keep their order and are conserved. `PipelineInv` looks at the
  whole way at once: the file, the packet in the writer's hands and the queue,
  one after the other, are in order, and together with the lost packets are
  exactly those each reader has passed on. A step moves the bounds between the
  parts and leaves the way as it is, or extends it at its end, or takes a packet
  out of it into `lost`.
* `CountsAreTrue`: `EndInv` (after the join no reader runs, the writer ends with
  the queue empty, announced and unannounced packets are those of the file), and
  `DropsInv` for the counters two threads increment without a lock: whatever
  value is in the counter *or in the hands of a thread about to store it*, it and
  the packets that still have to be counted are no more than those lost. An
  increment may be overwritten, but none can count twice.
* `NeverStopsSilently`: once `go` is false there is trouble, which is reported by
  the end, or a limit or the end of all pipes, which is final (`StopInv`).
* `StopsInTime`, the action property, and `ThreadsImplementContract`: `Spec`
  implies `CaptureContract`'s, each action mapped as described above, with
  `PipelineInv` for the guards of `Write` and `Lose` and `EndInv` for `End`.

`CaptureOutputProofs` proves, for any command line of the allowed kind, any ring
and any number of packets:

* `CountsAreTrue`, `OneOwnerAlways`, `QuotasHold` and `AllPrintedInOrder`, from
  `OutputInv`. Its core is `StreamInv`: while the loop runs, the current file is
  the one that is open, the one the loop writes to, the one named by `save_file`
  and the one the parent was told of (`InStep`); or a switch has failed, then
  nothing is open and `go` and `err` say so (`Broken`). Between the two are the
  places inside a switch, each with what holds there. `FilesInv` and `QuotaInv`
  follow the numbers through the switch, `CountInv` what was written, flushed
  and told of each file without a failed call, `PrintInv` the printed names (all but the
  last are of closed files) and `OwnerInv` the allocated ones. After
  undefined behaviour (`fs.bad`) `StreamInv` is not claimed.
* `DirectoryKept`, from `KeptInv`: `SlotInv`, the slots hold the names of the last
  files, each at its number modulo that of slots, so that the name a new file
  replaces is the oldest; `ThreadInv`, what each compressing thread has done at
  its place, and that `oldnames` holds originals whose copies are whole;
  `ExistInv`, which files exist. That the interleaving of the threads is
  harmless rests on each file having at most one thread, started after its
  close, and on a thread removing only what is in its copy.

`PipeDispatchProofs` proves, for any streams, any capacity of the pipe and any cut
of the input, `TypeCorrect`, `RecordsWhole`, `EofIsTrue` and `EndStays`. `PlaceInv`
says where in the stream the reader is: `Taken` units of record `Cur` are in the
buffers, `PcapPlace` and `PcapngPlace` say which bytes are where at each state
and each continuation of the loop that reads, and `Chain` that what is in the
pipe goes on right there, unit by unit, up to what was sent. Thus a record is
delivered only from its own bytes, and an end found with no unit left can cut
only a record that was never complete (`ErrInv`).

`CaptureSessionProofs` proves, for any sessions, any number of extcaps, files and
packets and any size of the pipe: `NoFailedAssertion`, `ClosedOnceAll`,
`WaitsForDead`, `ListIsTold` and `ListIsComplete`. `Inv` has one part for each party:

* `ChildInv`: what dumpcap has in its buffer and has not told of, at each place.
* `FrameInv`: with one writer the pipe holds whole messages, the last perhaps
  without its end, which is what dumpcap writes next. Hence `WaitsOnlyForDead`:
  the reader finds no bad length, and blocks only at the end of the pipe.
* `CountInv`: a `Ledger` over the pipe, which gives for each piece what the
  interface will have been told of when it has read it; the last entry
  is what has left the buffer (`Out`: what is on the disk and what was lost there), or less.
  A count in the pipe can thus run ahead of the file by what was lost only, however
  many counts and names are under way; `Near` carries this to what the list has read.
* `NameInv`: in the same way `Names` gives the file that will be current at each
  piece; a count fits the name before it (`Fits`), and the last name is
  that of the file dumpcap is at.
* `DownInv`: who may still be there - no pipe without dumpcap, no extcap without a
  watch, no closed session before all are gone - from which `ClosedLast` follows.
* `UiInv`: in each state of the interface which file is open and how much of it
  has been read; in real time exactly what was told (`ReadsTold`). The callbacks
  assert parts of it.

`ListIsComplete` is the action property `ListComplete`, from one part more,
`LastInv`: a running session reads the current file, or will read it as a whole,
or has discarded it, or was told of nothing in it - in this form it survives
changes of `real_time_mode`, where `UiInv` says little. So the callback that
closes the session, whichever it is, finds nothing else to read.

The first three parts do not need the last: dumpcap's steps never look at the
interface, and the callbacks take from the pipe what the ledger says is there.
`FrameInv` is for one writer, as `WaitsOnlyForDead` is; the others speak of a
framing not yet lost.

`PcapngMuxProofs` proves, for any list of sources, any queue limit and any
number of sections, interfaces, packets and files, all the safety properties of
`MuxSafety`:

* `IdsResolveAlways` is the theorem the component exists for: every packet and
  statistics block, in whatever file and section it lands, is taken for one of
  its own interface, unless the queue dropped a section header or interface
  description of that source. `IdsResolve` says nothing of the queue behind
  its head, so it is not inductive. `MuxInv` adds `Chains`: the blocks of each
  undisturbed source in the queue follow what is in the tables, one after the
  other, up to what the source has sent; `Tables`: every number a source may
  use leads to the right saved interface; `FileInStep`: the file describes
  what is saved; `Passing`: when passing through, the saved interfaces are the
  source's own and nothing but a section header can be the first block, which
  an empty queue cannot refuse; and `Opening` for the start.
* `MapsOwnAlways` (from `Tables`, and so for disturbed sources too),
  `FileInStepAlways`, `AbortAlwaysAfterLoss` follow from `MuxInv`;
  `NumbersStay` is the action property `IdsNeverReused`.
* `ParentAlwaysInStep` has two parts. That a file is named only with its header
  needs that the delayed name is that of the current file (`Naming`). That what
  the parent has counted is in the file it was told of needs `Counting`, which
  ties the counts not yet told to the current file, and `Passing`, since before
  the first section header there is nothing to count.

`FragmentListProofs` proves, for lists of any length, any fragments, and offsets
of any width, which may wrap:

* `LinkFragKeeps`: a fragment added by `LINK_FRAG` to a sorted list with an exact
  cache leaves a sorted list with an exact cache, of one fragment more. That is
  the step by which completeness is decided: `GapExact` says that every byte
  below `contiguous_len` is in a fragment before the gap, and that none after it
  starts that early.
* `ResetFirstGapExact`: `fragment_reset_first_gap` computes it from nothing.

Both rest on `PlaceIs` (where a fragment goes), `LastIs` (the loop of
`update_first_gap` ends) and `FromGap` (from any item before which all is there,
it ends at the first gap). What stands in for induction is `LeastOf`, the least
number principle for a set, derived from the well-foundedness of inclusion of
finite sets: the prover cannot use the library's theorems about operators.

`ReassemblyProofs` proves, for any caller the setup assumption allows, any
fragments and any number of calls, in any order, with each of the other functions:

* `SpecTablesExact`, `SpecListsExact` and `SpecAnsweredAgain`, from `Inv`
  (`SpecInv`). Besides `RefsExact` and `FramesFindTheirs` it has `HeadsOK`: each
  head is fine for the way its caller uses it (`HeadFine`). Of a caller with the
  tables of frames, a completed head is in the fragment table only after an
  error; there a head in progress by blocks has all its data (`Backed`), so that
  `fragment_end_seq_next` cannot fail in the middle; only fallback lets a
  completed head get more fragments, and then from frames that lead to it.
  `TableOK`: the head in the table is the youngest and no frame leads to it yet,
  which is why deleting it frees nothing that is used. `CallsOK`: the frame of a
  call that was returned is not after what its head saw last, without which the
  second pass would throw.
* What a call does to one head is `Worked` (items and frames only added, the list
  exact again, or torn), proved for each function: `AddWorkIs`, `SeqWorkIs`,
  `ResetDefragmentationIs`, `TruncatedIs`. What it does to the others is
  `Insertion`: `InsertIs` counts, for every head at once, the entries that
  `reassembled_table_insert` takes from it and gives to the new one.
* `SpecDataInPlace`, from `BytesOK` (`SpecBytesOK`), of the callers by offset. The
  pieces of a head (`PiecesOf`) are the fragments of the calls that were linked into
  it and do not wrap, cut where a truncation cut them. Every head that is not torn
  is `Made` of its pieces: each byte of its data, and of what one of its fragments
  holds, is held by a piece at that place; each piece `Stood` in the list, where
  it agrees with the data or the head is marked as conflicting (or it was late and
  reaches past the end); and a mark of conflict means that two pieces differ.
  `DataInPlace` alone says nothing of a head that is not complete yet, nor of the
  fragments that `fragment_reset_defragmentation` hands the data back to.
* `Made` is kept by each thing that happens to a list: a link and the assembly
  (`AssembleMade`), the comparison of a late fragment (`OverlapMade`), the reset
  (`ResetMade`), the truncation (`TruncatedMade`), the insertion in the tables
  (`SameHead`). The assembly overwrites in the order of the list, so what a byte
  ends up as depends on the fragments before it; that they agree, or are marked,
  is `SeenInData`.
* `SpecBytesStay`, `BytesStay` of the callers by offset (`~Seq_`), from `GivenOK`:
  what a dissector was given is still held, byte by byte, by pieces of its head
  (`Lasting`), and agrees with the data of a head that is complete and not marked.
  Without it a reassembly that is undone and completed again would only be known to
  be made of its pieces, not of the same ones as the first. `WorkLasts` is the step
  of a call, `CutLasts` that of a truncation, which cuts pieces and tvbuff alike.
* The frame tables need the counting lemmas `CountLost` and `CountGained` and
  that a later head only ever takes entries (`Leaves`, `Late`); the list needs
  `LinkFragKeeps` and `ResetFirstGapExact` at every place where it changes.

`NumberLemmas` has the induction that the other modules use. The library states
it for an operator, which none of the provers can instantiate; `SetInduction`
states it for a *set* of numbers - one that holds 0 and with each number the next
holds all - and is proved from `LeastOf`. A statement about every number is
proved by taking the set of the numbers it is true of. That is how what a
recursive function computes (`BytesOf` of the queue, `Written` of the files)
becomes provable.

The theorems rest on the named assumptions of the modules, which TLC evaluates in
every run: `SrcsAssumption`, `LensAssumption`, `LimitAssumption` and
`EventAssumption` of `CaptureThreads` (finitely many sources, limits and lengths that are
natural numbers), `MuxAssumption`, `MaxFilesAssumption` of `RingBuffer`,
`OutputAssumption` (a command line is one of `CaptureOptions`), `PipeAssumption`
(a stream is one that the format allows, but for the malformed records the code
has a branch for), `SyncPipeAssumption` (the pipe holds at least a message),
`SessionAssumption`, `ModulusAssumption` and `SetupAssumption` of `Reassembly` (who may
call what: `fragment_end_seq_next` is for blocks with the frame tables,
`reassemble.h:417-426`; a partial reassembly has none; truncation and a reset
length are of offsets; the one caller with a fallback has one fragment in a frame,
`packet-usbll.c:1753`). `SessionAssumption` says that where a
thread logs the interface is in real time: in the other mode a name that the
second writer has cut up would be kept unopened until the end, which the model
does not follow.

Only model-checked: of `Reassembly` the bytes by blocks (`SeqDataInPlace`, and
`BytesStay` of callers by block) and the refinement of `Datagram`; and
everything under fairness (`CaptureEnds`, `ReaderEnds`, `SessionEnds`,
`FirstFifoReleased`), which is out of the prover's reach.

## Findings

* `PipesCapturedWhole`: the writer's pop times out, a fifo delivers its last
  packet and closes, and the loop, seeing only closed pipes, clears `go`; the
  drain then flushes the packet it should write (`dumpcap.c:4394`,
  `4929`). The two-fifo tests expect every packet.
* `StreamClosedOnce`: a failed file header closes `global_ld.pdh`, and the ring
  closes the same stream again.
* `AdjustSucceeds`: a full queue drops interface descriptions and section
  headers like packets; the next block of that interface hits an assertion that
  is never disabled, or, after a lost section header, may be taken for one of
  an interface of the old section.
* `WaitedForEnds`: a thread of dumpcap that logs writes into the middle of a
  count; the reader of the pipe loses the framing and, at the bad length, waits
  for dumpcap with the pipe still open (`capture_sync.c:2067`). dumpcap fills the
  pipe and waits for room: neither goes on. The comment there expects dumpcap to
  get an error when it writes next.

Seen but not a run: `flushed++` and `dropped++` by two threads without a lock can
lose an increment (`ReaderLoad`, `MainLoad`). The statistics that end a single
file are numbered by position on the command line where the packets use
`idb_id` (`dumpcap.c:3632`). A block whose length is too small ends the capture
as if the pipe had ended, and its message is dropped (`dumpcap.c:3060`). After a failed open, `-b printname` prints the name of a
file that was never created (`ringbuffer.c:519`), against "completed files" at
`ringbuffer.c:91`; `CaptureOutput` models it, and `PrintedInOrder` allows it of the last name.

The result of `fflush` is not looked at before a count (`dumpcap.c:4114`, `4456`), nor
that of a close before the last one (`4654`): on a full disk the parent is told
of packets that are in no file, against the comments at `dumpcap.c:4458` ("saying
we've written out ... packets to the capture file") and `4651` ("so all packets are already
flushed"). The list then holds fewer packets than were told, and with an information window
`capture_info_new_packets` reads for ever what is not there (`ui/capture.c:501`):
`loop = "spin"`. `CountsTrue` leaves such files out, `ListIsWhatWasTold` allows the
packets lost, and no others.

The thread that compresses a file looks at the result of each `gzwrite` but not
at that of `gzclose`, which writes the last of it: when that fails the original is
removed all the same, against the comment at `ringbuffer.c:188`; `FilesKept` leaves
such files out (`MayBeTorn`).
After a failed start, `save_file` is freed by the ring and again by
`capture_opts_cleanup` (`dumpcap.c:1210`), the exception in `OneOwner`.
Passing through, the name of every file waits for a section header of the
source, but from the second file on dumpcap has written one itself and the
source may never send another (`dumpcap.c:6169`), the exception in
`ParentInStep`. A section header of the other byte order in mid-capture is found by
`pcapng_read_shb`, whose result the dispatch ignores, and the reader spins until
it is stopped (`dumpcap.c:3014`); `ReaderEnds` leaves those streams out.

In a session: changing to real time before the first count makes the next one
read through a `wtap` that was never opened, and so does a failed `cf_open` in
`capture_input_new_packets`, which falls through to the read
(`ui/capture.c:546`-`560`); these are what `AssertionsHold` excepts. When a named
file cannot be opened the session is closed while dumpcap and the extcaps run,
and nobody waits for them (`capture_sync.c:2136`), the exception in `ClosedLast`.
`extcap_session_stop` gives up at the first extcap that is still there, so
dumpcap goes on waiting for the fifo of a later one that has died unopened
(`extcap.c:1335`); `FirstFifoReleased` speaks of the first.

In a reassembly: the call that completed a datagram with a fragment beyond its
end gets an exception on the second pass where it got the datagram on the first
(`reassemble.c:1640`, against the comment at 1742). A conflicting fragment that
sorts first overwrites delivered bytes when a datagram is extended, where the
comment at `reassemble.c:1472` says that overlapping bytes are not overwritten.
`fragment_set_tot_len` of a completed datagram by offsets always fails, since
`max_offset` is only computed for blocks (`reassemble.c:825`). Extending a
sequence gives an item flagged as overlap the bytes of the block before it also
when the flag has another reason (`reassemble.c:1969`).

## Not modelled, and why

Windows variants (`_WIN32`), which read pipes with helper threads. Message
texts, progress output and `SIGINFO`. Allocation failures (`g_malloc` aborts).
The single-file variant of the
output side beyond the one file of `CaptureThreads`. In `PcapngMux`: block types
that carry no interface number, sources that break the format, the closing statistics of a single file. In
`PipeDispatch`: the kinds of pipe and socket and how they are opened, the buffer's
size. In `CaptureSession`: building dumpcap's command line and spawning, the
synchronous commands (interface lists, statistics), toolbar messages, the texts
of messages, restarting a capture, errors of `wtap_read` in the middle of a file,
the close dialog, and `waitpid` interrupted by signals. Of `file.c` only what a
capture in progress calls. In `Reassembly`: the keys (different ones never meet
in a table), `fragment_add_seq_offset` with the branch that numbers fragments from an
offset (`reassemble.c:668-686`, `1950-1954`; without the call the offset is 0),
`fragment_start_seq_check` (`2748-2781`), `fragment_add_seq_single` and its aging, streaming reassembly,
`fragment_get_*` (reads), `show_fragment_tree`, and identifiers shared by two
tables. Dissectors, display filters and file
formats: large pure functions, where parsing data, not control, is the matter.

## Plan

Done so far: the capture path from the pipes of the sources to the list of
packets, and reassembly. Next, in this order:

1. `Merge`: choice of the next record, order of the output.
2. `fragment_add_seq_single` with its aging; streaming reassembly.
3. Conversations, taps, wmem scopes, the GUI's rescans.
