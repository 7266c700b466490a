------------------------------- MODULE PcapngMux -------------------------------
(***************************************************************************)
(* How dumpcap (src/dumpcap.c) merges pcapng sources and other sources     *)
(* into pcapng files.  A pcapng packet block (EPB) or statistics block     *)
(* (ISB) names its interface by a number: the position of the interface's  *)
(* description (IDB) since the section header (SHB).  A source starts new  *)
(* sections whenever it likes, and dumpcap starts new files whenever it    *)
(* likes; so it saves the descriptions, repeats them in every file and     *)
(* rewrites the numbers.  A capture from one pcapng source alone is passed *)
(* through: its sections become sections of the output.                    *)
(*                                                                         *)
(* Interfaces are counted from 1 here, from 0 in the code.  Sources obey   *)
(* the pcapng format.  The queue is as in CaptureThreads, without its      *)
(* critical sections; a capture without threads has the one block in hand  *)
(* in place of a queue.                                                    *)
(***************************************************************************)
EXTENDS Integers, Sequences, FiniteSets

CONSTANTS
    Setups,         \* the captures considered
    MaxSections,    \* bound: sections of a source
    MaxIdbs,        \* bound: interfaces in a section
    MaxIfaces,      \* bound: interfaces saved or queued
    MaxPackets,     \* bound: packets written
    MaxFiles        \* bound: output files

Kinds == {"live", "pcap", "pcapng"}

(* kinds: the capture sources in the order of the command line; limit: the *)
(* packet limit of the queue, 0 for none; multi: several output files      *)
SetupType == [kinds : Seq(Kinds), threads : BOOLEAN, limit : Nat,
              multi : BOOLEAN]

ASSUME MuxAssumption ==
    /\ Setups \subseteq SetupType
    /\ MaxSections \in Nat /\ MaxIdbs \in Nat /\ MaxIfaces \in Nat
    /\ MaxPackets \in Nat /\ MaxFiles \in Nat

VARIABLES
    setup,      \* the capture under way
    pc,         \* "open", "capture", "done", or "aborted" by an assertion
    opened,     \* inputs opened so far
    go,         \* global_ld.go
    sec, nif,   \* of each source: the section it is in, the IDBs in it
    queue,      \* pcap_queue
    lost,       \* history: sources of which an SHB or IDB was dropped
    cursec,     \* history: of each source, the section being written
    map,        \* src_iface_to_global of each source, or its idb_id
    saved,      \* saved_idbs
    savedShb,   \* saved_shb is set
    file,       \* number of the output file
    idbs,       \* the interfaces described in the current section of it
    headed,     \* the files that begin with an SHB
    captured,   \* packets_captured
    inpkts,     \* inpkts_to_sync_pipe
    pending,    \* report_capture_filename, 0 for NULL
    parent,     \* the file of the last SP_FILE message, 0 before the first
    counted     \* history: the file the packets of the last SP_PACKET_COUNT
                \* are in, and the file of the last SP_FILE at that time

source == <<sec, nif>>
tables == <<map, saved, savedShb, cursec>>
output == <<file, idbs, headed>>
report == <<inpkts, pending, parent, counted>>
vars == <<setup, pc, opened, go, source, queue, lost, tables,
                   output, captured, report>>

Sources     == DOMAIN setup.kinds
Files       == 1 .. MaxFiles
IsPcapng(s) == setup.kinds[s] = "pcapng"
Passthrough == setup.kinds = <<"pcapng">>

(* An interface: its source, the section and its number there.  A source   *)
(* that is not pcapng has one interface.  Dummy stands for an interface    *)
(* that went out of scope: memset zeroes its saved_idb_t, so that it seems *)
(* to belong to the first source.  None is what no file describes.         *)
Iface(s, c, i) == [src |-> s, sec |-> c, ifc |-> i]
Dummy == Iface(1, 0, 0)
None  == Iface(0, 0, 0)

(* What a reader takes interface i for, given the descriptions ids *)
Resolve(ids, i) == IF i \in DOMAIN ids THEN ids[i] ELSE None

(* A block, with the number of interfaces its section has after it; a      *)
(* packet of a source that is not pcapng is an EPB                         *)
Block(s, t, c, n, i) == [src |-> s, type |-> t, sec |-> c, n |-> n, ifc |-> i]
Origin(b) == Iface(b.src, b.sec, b.ifc)

Init ==
    /\ setup \in Setups
    /\ pc = "open" /\ opened = 0 /\ go = TRUE
    /\ sec = [s \in Sources |-> 0]
    /\ nif = [s \in Sources |-> IF IsPcapng(s) THEN 0 ELSE 1]
    /\ queue = <<>> /\ lost = {}
    /\ cursec = [s \in Sources |-> 0]
    /\ map = [s \in Sources |-> <<>>] /\ saved = <<>> /\ savedShb = FALSE
    /\ file = 0 /\ idbs = <<>> /\ headed = {}
    /\ captured = 0 /\ inpkts = 0 /\ pending = 0 /\ parent = 0
    /\ counted = [in |-> 0, at |-> 0]

(***************************************************************************)
(* Start                                                                   *)
(***************************************************************************)

(* One turn of the loop of capture_loop_open_input *)
OpenInput ==
    /\ pc = "open" /\ opened < Len(setup.kinds)
    /\ opened' = opened + 1
    /\ IF IsPcapng(opened')
         THEN UNCHANGED <<saved, map>>
         ELSE /\ saved' = Append(saved, Iface(opened', 0, 1))
              /\ map' = [map EXCEPT ![opened'] = <<Len(saved')>>]
    /\ UNCHANGED <<setup, pc, go, source, queue, lost, savedShb, cursec, output,
                   captured, report>>

(* Mutants: a new file without the descriptions of pcapng sources; without *)
(* dummies for those that went out of scope                                *)
WriteHeaderBare(f) ==
    IF Passthrough
      THEN idbs' = <<>> /\ UNCHANGED headed
      ELSE /\ idbs' = SelectSeq(saved, LAMBDA x : x.sec = 0 /\ x.ifc = 1)
           /\ headed' = headed \cup {f}

WriteHeaderNoDummies(f) ==
    IF Passthrough /\ ~savedShb
      THEN idbs' = <<>> /\ UNCHANGED headed
      ELSE /\ idbs' = SelectSeq(saved, LAMBDA x : x # Dummy)
           /\ headed' = headed \cup {f}

(* capture_loop_init_pcapng_output: the header of the new file f *)
WriteHeader(f) ==
    IF Passthrough /\ ~savedShb
      THEN idbs' = <<>> /\ UNCHANGED headed
      ELSE idbs' = saved /\ headed' = headed \cup {f}

(* Mutant: the name is sent at once, before the SHB that is passed through *)
ReportFileNow(f) == parent' = f /\ UNCHANGED pending

(* report_new_capture_file *)
ReportFile(f) ==
    IF Passthrough
      THEN pending' = f /\ UNCHANGED parent
      ELSE parent' = f /\ UNCHANGED pending

(* capture_loop_init_output, and the report of the first file *)
InitOutput ==
    /\ pc = "open" /\ opened = Len(setup.kinds) /\ MaxFiles > 0
    /\ pc' = "capture"
    /\ file' = 1
    /\ WriteHeader(1)
    /\ ReportFile(1)
    /\ UNCHANGED <<setup, opened, go, source, queue, lost, tables,
                   captured, inpkts, counted>>

(***************************************************************************)
(* The readers: a source sends a block, and the queue callback takes it.   *)
(* When go is false the callback does nothing but count the block.         *)
(***************************************************************************)
HasRoom == setup.limit = 0 \/ Len(queue) < setup.limit

Arrive(b) ==
    /\ pc = "capture" /\ go
    /\ setup.threads \/ queue = <<>>
    /\ sec' = [sec EXCEPT ![b.src] = b.sec]
    /\ nif' = [nif EXCEPT ![b.src] = b.n]
    /\ \/ HasRoom /\ queue' = Append(queue, b) /\ UNCHANGED lost
       \/ /\ ~HasRoom
          /\ lost' = IF b.type \in {"SHB", "IDB"} THEN lost \cup {b.src} ELSE lost
          /\ UNCHANGED queue
    /\ UNCHANGED <<setup, pc, opened, go, tables, output, captured, report>>

SendShb(s) ==
    /\ IsPcapng(s) /\ sec[s] < MaxSections
    /\ Arrive(Block(s, "SHB", sec[s] + 1, 0, 0))

SendIdb(s) ==
    /\ IsPcapng(s) /\ sec[s] > 0
    /\ nif[s] < MaxIdbs /\ Len(saved) + Len(queue) < MaxIfaces
    /\ Arrive(Block(s, "IDB", sec[s], nif[s] + 1, nif[s] + 1))

SendData(s) ==
    /\ captured + Len(queue) < MaxPackets
    /\ \E i \in 1 .. nif[s] :
         \E t \in {"EPB"} \cup (IF IsPcapng(s) THEN {"ISB"} ELSE {}) :
             Arrive(Block(s, t, sec[s], nif[s], i))

(***************************************************************************)
(* The main thread: capture_loop_write_pcapng_cb and, for the other        *)
(* sources, capture_loop_write_packet_cb                                   *)
(***************************************************************************)
Popped(types) ==
    /\ pc = "capture" /\ queue # <<>> /\ Head(queue).type \in types
    /\ queue' = Tail(queue)
    /\ UNCHANGED <<setup, opened, source, lost>>

Flush ==
    /\ ~go
    /\ Popped({"SHB", "IDB", "EPB", "ISB"})
    /\ UNCHANGED <<pc, go, tables, output, captured, report>>

(* Mutant: all descriptions are thrown away, as when passing through *)
DeleteAll(ids) == <<>>

(* The interfaces of a source's old section are deleted *)
Delete(ids) == [k \in DOMAIN saved |->
                  IF \E i \in DOMAIN ids : ids[i] = k THEN Dummy ELSE saved[k]]

(* A new section of the passthrough source is a new section of the file *)
PassShb ==
    \/ /\ idbs' = <<>> /\ headed' = headed \cup {file}
       /\ pending' = 0
       /\ parent' = IF pending # 0 THEN pending ELSE parent
       /\ UNCHANGED <<go, file, inpkts, counted>>
    \/ go' = FALSE /\ UNCHANGED <<output, report>>      \* write error

(* Mutant: src_iface_to_global is not emptied *)
WriteShbKeepsMap ==
    /\ go
    /\ Popped({"SHB"})
    /\ LET b == Head(queue) IN
         /\ cursec' = [cursec EXCEPT ![b.src] = b.sec]
         /\ \/ Passthrough /\ savedShb' = TRUE /\ saved' = <<>> /\ PassShb
            \/ /\ ~Passthrough /\ saved' = Delete(map[b.src])
               /\ UNCHANGED <<savedShb, go, output, report>>
    /\ UNCHANGED <<pc, map, captured>>

WriteShb ==
    /\ go
    /\ Popped({"SHB"})
    /\ LET b == Head(queue) IN
         /\ cursec' = [cursec EXCEPT ![b.src] = b.sec]
         /\ map' = [map EXCEPT ![b.src] = <<>>]
         /\ \/ Passthrough /\ savedShb' = TRUE /\ saved' = <<>> /\ PassShb
            \/ /\ ~Passthrough /\ saved' = Delete(map[b.src])
               /\ UNCHANGED <<savedShb, go, output, report>>
    /\ UNCHANGED <<pc, captured>>

WriteIdb ==
    /\ go
    /\ Popped({"IDB"})
    /\ LET b == Head(queue) IN
         /\ saved' = Append(saved, Origin(b))
         /\ map' = [map EXCEPT ![b.src] = Append(@, Len(saved'))]
         /\ \/ idbs' = Append(idbs, Origin(b)) /\ UNCHANGED go
            \/ go' = FALSE /\ UNCHANGED idbs            \* write error
    /\ UNCHANGED <<pc, savedShb, cursec, file, headed, captured, report>>

(* Mutant: the test is off by one *)
HasIdLess(b) == Passthrough \/ b.ifc + 1 \in DOMAIN map[b.src]

(* The interface number of an EPB or ISB is rewritten *)
HasId(b) == Passthrough \/ b.ifc \in DOMAIN map[b.src]
IdOf(b)  == IF Passthrough THEN b.ifc ELSE map[b.src][b.ifc]

(* pcapng_adjust_block returns false: ws_assert_not_reached *)
BadId ==
    /\ go
    /\ Popped({"EPB", "ISB"})
    /\ ~HasId(Head(queue))
    /\ pc' = "aborted"
    /\ UNCHANGED <<go, tables, output, captured, report>>

Written(b) ==
    /\ go
    /\ Popped({b.type})
    /\ b = Head(queue) /\ HasId(b)
    /\ UNCHANGED <<pc, tables>>

DataError ==
    /\ go
    /\ Popped({"EPB", "ISB"})
    /\ HasId(Head(queue))
    /\ go' = FALSE
    /\ UNCHANGED <<pc, tables, output, captured, report>>

WriteIsb ==
    /\ queue # <<>> /\ Head(queue).type = "ISB" /\ Written(Head(queue))
    /\ UNCHANGED <<go, output, captured, report>>

(* report_packet_count, when there are packets to count *)
Count(n) == counted' = IF n > 0 THEN [in |-> file, at |-> parent] ELSE counted

(* Mutant: one file too many *)
FileSwitchLate(n) ==
    \/ /\ setup.multi /\ file <= MaxFiles
       /\ file' = file + 1
       /\ WriteHeader(file')
       /\ Count(n) /\ inpkts' = 0
       /\ ReportFile(file')
       /\ UNCHANGED go
    \/ /\ go' = FALSE /\ inpkts' = n
       /\ UNCHANGED <<output, pending, parent, counted>>

(* Mutant: the new file is announced before the packets of the old are     *)
(* counted                                                                 *)
FileSwitchNamesFirst(n) ==
    \/ /\ setup.multi /\ file < MaxFiles
       /\ file' = file + 1
       /\ WriteHeader(file')
       /\ ReportFile(file')
       /\ counted' = IF n > 0 THEN [in |-> file, at |-> parent'] ELSE counted
       /\ inpkts' = 0
       /\ UNCHANGED go
    \/ /\ go' = FALSE /\ inpkts' = n
       /\ UNCHANGED <<output, pending, parent, counted>>

(* do_file_switch_or_stop, with n packets the parent was not told of.  It  *)
(* stops for a single file, when no files are left, or on an error.        *)
FileSwitchOrStop(n) ==
    \/ /\ setup.multi /\ file < MaxFiles
       /\ file' = file + 1
       /\ WriteHeader(file')
       /\ Count(n) /\ inpkts' = 0
       /\ ReportFile(file')
       /\ UNCHANGED go
    \/ /\ go' = FALSE /\ inpkts' = n
       /\ UNCHANGED <<output, pending, parent, counted>>

(* capture_loop_wrote_one_packet: nothing more, -c, or a file's limit *)
WriteEpb ==
    /\ queue # <<>> /\ Head(queue).type = "EPB" /\ Written(Head(queue))
    /\ captured' = captured + 1
    /\ \/ /\ inpkts' = inpkts + 1
          /\ go' \in BOOLEAN
          /\ UNCHANGED <<output, pending, parent, counted>>
       \/ FileSwitchOrStop(inpkts + 1)

(* The update interval has elapsed; a file timer may have run out as well. *)
(* The code does this once more, here any number of times, after go has    *)
(* become false.                                                           *)
Idle == pc = "capture" /\ (setup.threads \/ queue = <<>>)

Update ==
    /\ Idle
    /\ \/ /\ inpkts > 0
          /\ Count(inpkts) /\ inpkts' = 0
          /\ UNCHANGED <<go, output, pending, parent>>
       \/ inpkts = 0 /\ setup.multi /\ FileSwitchOrStop(0)
    /\ UNCHANGED <<setup, pc, opened, source, queue, lost, tables, captured>>

Stop ==
    /\ pc = "capture" /\ go
    /\ go' = FALSE
    /\ UNCHANGED <<setup, pc, opened, source, queue, lost, tables,
                   output, captured, report>>

(* The queue is drained: the last count, and the end *)
Finish ==
    /\ pc = "capture" /\ ~go /\ queue = <<>>
    /\ pc' = "done"
    /\ Count(inpkts) /\ inpkts' = 0
    /\ UNCHANGED <<setup, opened, go, source, queue, lost, tables,
                   output, captured, pending, parent>>

Ended == pc \in {"done", "aborted"} /\ UNCHANGED vars

Next ==
    \/ OpenInput \/ InitOutput
    \/ \E s \in Sources : SendShb(s) \/ SendIdb(s) \/ SendData(s)
    \/ Flush \/ WriteShb \/ WriteIdb \/ BadId \/ DataError
    \/ WriteIsb \/ WriteEpb
    \/ Update \/ Stop \/ Finish \/ Ended

Spec == Init /\ [][Next]_vars

--------------------------------------------------------------------------------
(***************************************************************************)
(* Properties                                                              *)
(***************************************************************************)
IfaceType == [src : Nat, sec : Nat, ifc : Nat]
BlockType == [src : Sources, type : {"SHB", "IDB", "EPB", "ISB"}, sec : Nat,
              n : Nat, ifc : Nat]

(* Every variable has its type. *)
TypeOK ==
    /\ setup \in SetupType
    /\ pc \in {"open", "capture", "done", "aborted"}
    /\ opened \in 0 .. Len(setup.kinds) /\ go \in BOOLEAN
    /\ sec \in [Sources -> Nat] /\ nif \in [Sources -> Nat]
    /\ queue \in Seq(BlockType) /\ lost \subseteq Sources
    /\ cursec \in [Sources -> Nat] /\ map \in [Sources -> Seq(Nat)]
    /\ saved \in Seq(IfaceType) /\ savedShb \in BOOLEAN
    /\ file \in 0 .. MaxFiles /\ idbs \in Seq(IfaceType)
    /\ headed \subseteq Files
    /\ captured \in Nat /\ inpkts \in Nat
    /\ pending \in 0 .. MaxFiles /\ parent \in 0 .. MaxFiles
    /\ counted \in [in : 0 .. MaxFiles, at : 0 .. MaxFiles]

(* Every packet and every statistics block, in whatever file and section   *)
(* it lands, is taken by a reader of that file for one of the interface it *)
(* was captured on; for a source of which the full queue dropped an SHB or *)
(* IDB nothing is promised, but the others are not disturbed               *)
(* (pcapng_adjust_block, capture_loop_init_pcapng_output).                 *)
IdsResolve ==
    (pc = "capture" /\ go /\ queue # <<>>) =>
        LET b == Head(queue) IN
          (b.type \in {"EPB", "ISB"} /\ b.src \notin lost) =>
              HasId(b) /\ Resolve(idbs, IdOf(b)) = Origin(b)

(* The descriptions in the current file are the saved ones, in the saved   *)
(* order, except that those of interfaces out of scope may still be there; *)
(* so that the number of a new interface is its place in the file.         *)
FileInStep ==
    (pc = "capture" /\ go) =>
        /\ Len(idbs) = Len(saved)
        /\ \A k \in DOMAIN saved : saved[k] # Dummy => idbs[k] = saved[k]

(* The assertion of pcapng_adjust_block: the interfaces that a new section *)
(* of a source deletes are that source's own.                              *)
MapsOwn ==
    \A s \in Sources : \A i \in DOMAIN map[s] :
        /\ map[s][i] \in DOMAIN saved
        /\ saved[map[s][i]].src = s
        /\ saved[map[s][i]] # Dummy

(* The parent is told of a file when the section header is in it, whoever  *)
(* wrote it (report_new_capture_file, capture_loop_write_pcapng_cb).       *)
NamedWhenHeaded == parent # 0 => parent \in headed

(* Only a dropped SHB or IDB makes pcapng_adjust_block fail. *)
AbortOnlyAfterLoss == pc = "aborted" => lost # {}

(* While files are merged, the number of an interface is never given to    *)
(* another: an entry of saved_idbs stays as it is until it is deleted.     *)
IdsNeverReused ==
    [][~Passthrough =>
          /\ Len(saved') >= Len(saved)
          /\ \A k \in DOMAIN saved : saved'[k] \in {saved[k], Dummy}]_vars

(* What the assertion in capture_loop_write_pcapng_cb states: no block     *)
(* fails to be adjusted.                                                   *)
AdjustSucceeds == pc # "aborted"

(* The packets counted to the parent are in the file it was last told of - *)
(* or, passing through, in a later one than the first, whose name waits    *)
(* for a section header that may never come (report_new_capture_file).     *)
CountedAreInFile ==
    /\ counted.at = counted.in \/ (Passthrough /\ counted.in > 1)
    /\ counted.at <= counted.in

(* What the parent is told of a file is told after its name, and only when *)
(* there is a file with a section header under that name.                  *)
ParentInStep == NamedWhenHeaded /\ CountedAreInFile
================================================================================
