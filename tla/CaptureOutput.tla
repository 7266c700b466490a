---------------------------- MODULE CaptureOutput ----------------------------
(***************************************************************************)
(* The output side of the capture loop of dumpcap (src/dumpcap.c) for a    *)
(* multiple-file capture (multi_files_on): opening the first file, writing *)
(* packets, switching files, the reports to the parent, the closing and    *)
(* the exit.  The ring of files is module RingBuffer; the parent is seen   *)
(* through the messages it has read: the file it was last told of and the  *)
(* packets it was told of while that was the file.                         *)
(*                                                                         *)
(* One thread runs all this; the signal handler clears go at any moment.   *)
(* Each call that may fail is a step of its own.  Where packets come from  *)
(* does not matter here (module CaptureThreads has that side), nor does    *)
(* their length: whether -b filesize is reached is left open, and so is    *)
(* whether a timer has expired.                                            *)
(***************************************************************************)
EXTENDS RingBuffer

CONSTANTS
    Options,       \* the command lines considered
    MaxPackets     \* bound: packets written

AllConditions == {"filesize", "timer", "duration", "signal"}
AllFailures   == {"open", "fdopen", "header", "write", "flush", "close", "printname",
                  "start", "gzopen", "gzcopy", "gzclose", "unlink"}

(* The options of a multiple-file capture; 0 is "not given", or unlimited  *)
(* for files.  Conditions that depend on sizes and clocks are given by     *)
(* name, and so are the calls that may fail.                               *)
CaptureOptions ==
    [files : Nat,           \* -b files
     packets : Nat,         \* -b packets
     stopfiles : Nat,       \* -a files
     stoppackets : Nat,     \* -c
     printname : BOOLEAN,   \* -b printname
     compress : BOOLEAN,    \* --compress-type gzip
     conditions : SUBSET AllConditions,
     failures : SUBSET AllFailures]

ASSUME OutputAssumption == Options \subseteq CaptureOptions /\ MaxPackets \in Nat

VARIABLES
    pc,         \* where the main thread is
    ret,        \* where do_file_switch_or_stop returns to
    go,         \* global_ld.go
    err,        \* global_ld.err is set
    pdh,        \* global_ld.pdh
    saveFile,   \* capture_opts->save_file: a name, or one of the two below
    captured,   \* global_ld.packets_captured
    inFile,     \* global_ld.packets_written
    fileCount,  \* global_ld.file_count
    inpkts,     \* global_ld.inpkts_to_sync_pipe
    parent,     \* the file of the last SP_FILE message, 0 before the first
    told,       \* the packets counted by SP_PACKET_COUNT while at that file
    wrote       \* history: the packets written to each file

CmdLine == -1   \* the string the option parser allocated
Null    == 0

loopvars == <<captured, inFile, inpkts, wrote>>
msgs     == <<parent, told>>
vars     == <<opts, rbvars, pc, ret, go, err, pdh, saveFile, fileCount, loopvars,
              msgs>>

Init ==
    /\ opts \in Options
    /\ RbInit
    /\ pc = "open" /\ ret = "loop" /\ go = TRUE /\ err = FALSE /\ pdh = 0
    /\ saveFile = CmdLine
    /\ captured = 0 /\ inFile = 0 /\ fileCount = 0 /\ inpkts = 0
    /\ parent = 0
    /\ told  = [n \in Names |-> 0]
    /\ wrote = [n \in Names |-> 0]

(***************************************************************************)
(* capture_loop_open_output, capture_loop_init_output and the first report *)
(***************************************************************************)
OpenFirst ==
    /\ pc = "open"
    /\ \E ok \in Outcomes("start") : InitRing(ok)
    /\ pc' = "printname"
    /\ UNCHANGED <<ret, go, err, pdh, saveFile, fileCount, loopvars, msgs>>

PrintNameTo ==
    /\ pc = "printname"
    /\ \E ok \in Outcomes("printname") :
          /\ IF opts.printname THEN SetPrintName(ok) ELSE UNCHANGED rbvars
          /\ IF (opts.printname /\ ~ok) \/ files = NoFiles
               THEN pc' = "cleanup" /\ UNCHANGED saveFile
               ELSE pc' = "fdopen" /\ saveFile' = CurrentName
    /\ UNCHANGED <<ret, go, err, pdh, fileCount, loopvars, msgs>>

FirstFdopen ==
    /\ pc = "fdopen"
    /\ \E ok \in Outcomes("start") :
          /\ Fdopen(ok)
          /\ pdh' = IF ok THEN fd ELSE 0
          /\ pc' = IF ok THEN "firstheader" ELSE "error"
    /\ UNCHANGED <<ret, go, err, saveFile, fileCount, loopvars, msgs>>

FirstHeader ==
    /\ pc = "firstheader"
    /\ \/ pc' = "start" /\ UNCHANGED <<rbvars, pdh>>
       \/ /\ "start" \in opts.failures
          /\ fs' = FsClose(fs, pdh, TRUE)
          /\ pdh' = 0
          /\ pc' = "error"
          /\ UNCHANGED <<files, curr, fd, rpdh, nameH, heap, printed, gzvars>>
    /\ UNCHANGED <<ret, go, err, saveFile, fileCount, loopvars, msgs>>

(* fflush, whose result is not looked at *)
Flush(n) ==
    /\ \E ok \in Outcomes("flush") : fs' = FsFlush(fs, n, ok)
    /\ UNCHANGED <<files, curr, fd, rpdh, nameH, heap, printed, gzvars>>

Start ==
    /\ pc = "start"
    /\ Flush(pdh)
    /\ parent' = saveFile
    /\ pc' = "loop"
    /\ UNCHANGED <<ret, go, err, pdh, saveFile, fileCount, loopvars, told>>

(***************************************************************************)
(* The while loop: one packet or none, then perhaps an update.             *)
(***************************************************************************)
LoopTest ==
    /\ pc = "loop"
    /\ pc' = IF go THEN "dispatch" ELSE "report"
    /\ UNCHANGED <<rbvars, ret, go, err, pdh, saveFile, fileCount, loopvars,
                   msgs>>

(* No packet, or one that go being false makes the callback ignore *)
NoPacket ==
    /\ pc = "dispatch"
    /\ pc' = "update"
    /\ UNCHANGED <<rbvars, ret, go, err, pdh, saveFile, fileCount, loopvars,
                   msgs>>

(* Bound: nothing that may switch files once MaxFiles are in use *)
FilesLeft == curr + 1 < MaxFiles

(* The write callback and capture_loop_wrote_one_packet: -c is tested      *)
(* first, then -b packets, then -b filesize                                *)
WritePacket ==
    /\ pc = "dispatch" /\ go /\ captured < MaxPackets /\ FilesLeft
    /\ captured' = captured + 1
    /\ inFile' = inFile + 1
    /\ inpkts' = inpkts + 1
    /\ wrote' = [wrote EXCEPT ![pdh] = @ + 1]
    /\ IF opts.stoppackets > 0 /\ captured' >= opts.stoppackets
         THEN /\ \E ok \in Outcomes("flush") : fs' = FsFlush(FsWrite(fs, pdh), pdh, ok)
              /\ go' = FALSE
              /\ pc' = "update" /\ UNCHANGED ret
         ELSE /\ fs' = FsWrite(fs, pdh)
              /\ UNCHANGED go
              /\ \/ /\ \/ opts.packets > 0 /\ inFile' >= opts.packets
                       \/ "filesize" \in opts.conditions
                    /\ pc' = "switch" /\ ret' = "update"
                 \/ /\ ~(opts.packets > 0 /\ inFile' >= opts.packets)
                    /\ pc' = "update" /\ UNCHANGED ret
    /\ UNCHANGED <<files, curr, fd, rpdh, nameH, heap, printed, gzvars, err, pdh,
                   saveFile, fileCount, msgs>>

(* The packet cannot be written, or the full buffer before it: then the    *)
(* packets in it are lost                                                  *)
WriteError ==
    /\ pc = "dispatch" /\ go /\ "write" \in opts.failures
    /\ go' = FALSE /\ err' = TRUE
    /\ fs' \in {fs, FsLose(fs, fs.open \cap {pdh})}
    /\ pc' = "update"
    /\ UNCHANGED <<files, curr, fd, rpdh, nameH, heap, printed, gzvars, ret, pdh, saveFile,
                   fileCount, loopvars, msgs>>

(* report_packet_count *)
Count ==
    /\ told' = IF parent = 0 THEN told ELSE [told EXCEPT ![parent] = @ + inpkts]
    /\ inpkts' = 0
    /\ UNCHANGED <<parent, captured, inFile, wrote>>

NoUpdate ==
    /\ pc = "update"
    /\ pc' = "loop"
    /\ UNCHANGED <<rbvars, ret, go, err, pdh, saveFile, fileCount, loopvars,
                   msgs>>

(* The update interval has elapsed: flush and count, then the -a duration  *)
(* and the file duration or interval.  The timers are looked at even when  *)
(* go has just become false.                                               *)
Update ==
    /\ pc = "update"
    /\ IF inpkts > 0 THEN Flush(pdh) ELSE UNCHANGED rbvars
    /\ Count
    /\ \/ pc' = "loop" /\ UNCHANGED <<go, ret>>
       \/ "duration" \in opts.conditions /\ go' = FALSE /\ pc' = "loop"
          /\ UNCHANGED ret
       \/ /\ "timer" \in opts.conditions /\ FilesLeft
          /\ pc' = "switch" /\ ret' \in {"interval", "loop"}
          /\ UNCHANGED go
    /\ UNCHANGED <<err, pdh, saveFile, fileCount>>

(* The file was switched for -b duration: -b interval may switch it again *)
Interval ==
    /\ pc = "interval"
    /\ \/ pc' = "loop" /\ UNCHANGED ret
       \/ FilesLeft /\ pc' = "switch" /\ ret' = "loop"
    /\ UNCHANGED <<rbvars, go, err, pdh, saveFile, fileCount, loopvars, msgs>>

(***************************************************************************)
(* do_file_switch_or_stop                                                  *)
(***************************************************************************)
(* [mutant: the number of switches is compared, not that of files] *)
NoFilesLeftLate(n) == opts.stopfiles > 0 /\ n > opts.stopfiles

NoFilesLeft(n) == opts.stopfiles > 0 /\ n >= opts.stopfiles

(* Where the caller goes on when it is told that the capture stops *)
StopAt == IF ret = "interval" THEN "loop" ELSE ret

SwitchOrStop ==
    /\ pc = "switch"
    /\ fileCount' = IF opts.stopfiles > 0 THEN fileCount + 1 ELSE fileCount
    /\ IF NoFilesLeft(fileCount')
         THEN go' = FALSE /\ pc' = StopAt
         ELSE pc' = "rbclose" /\ UNCHANGED go
    /\ UNCHANGED <<rbvars, ret, err, pdh, saveFile, loopvars, msgs>>

(* A step of the switch goes on with the next, or ends the capture *)
Continue(ok, next) ==
    /\ pc' = IF ok THEN next ELSE StopAt
    /\ go' = (go /\ ok)
    /\ err' = (err \/ ~ok)

CloseCurrent ==
    /\ pc = "rbclose"
    /\ \E ok \in Outcomes("close") : SwitchClose(ok) /\ Continue(ok, "rbopen")
    /\ UNCHANGED <<ret, pdh, saveFile, fileCount, loopvars, msgs>>

OpenNext ==
    /\ pc = "rbopen"
    /\ \E ok \in Outcomes("open") : SwitchOpen(ok) /\ Continue(ok, "rbfdopen")
    /\ UNCHANGED <<ret, pdh, saveFile, fileCount, loopvars, msgs>>

(* [mutants: inFile is not reset, pdh not set] *)
NewFileNoReset(ok) ==
    IF ok THEN saveFile' = CurrentName /\ pdh' = fd /\ UNCHANGED inFile
          ELSE UNCHANGED <<saveFile, pdh, inFile>>
NewFileNoPdh(ok) ==
    IF ok THEN saveFile' = CurrentName /\ inFile' = 0 /\ UNCHANGED pdh
          ELSE UNCHANGED <<saveFile, pdh, inFile>>

NewFile(ok) ==
    IF ok THEN saveFile' = CurrentName /\ pdh' = fd /\ inFile' = 0
          ELSE UNCHANGED <<saveFile, pdh, inFile>>

FdopenNext ==
    /\ pc = "rbfdopen"
    /\ \E ok \in Outcomes("fdopen") :
          Fdopen(ok) /\ Continue(ok, "header") /\ NewFile(ok)
    /\ UNCHANGED <<ret, fileCount, captured, inpkts, wrote, msgs>>

(* The file header; when it cannot be written global_ld.pdh is closed and  *)
(* reset, rb_data.pdh is not                                               *)
WriteHeader ==
    /\ pc = "header"
    /\ \E ok \in Outcomes("header") :
          /\ Continue(ok, "announce")
          /\ pdh' = IF ok THEN pdh ELSE 0
          /\ fs' = IF ok THEN fs ELSE FsClose(fs, pdh, TRUE)
    /\ UNCHANGED <<files, curr, fd, rpdh, nameH, heap, printed, gzvars, ret, saveFile,
                   fileCount, loopvars, msgs>>

(* [mutant: the new file is announced before the old one's last packets] *)
AnnounceFirst ==
    /\ pc = "announce"
    /\ Flush(pdh)
    /\ parent' = saveFile
    /\ told' = [told EXCEPT ![saveFile] = @ + inpkts]
    /\ inpkts' = 0
    /\ pc' = ret
    /\ UNCHANGED <<ret, go, err, pdh, saveFile, fileCount, captured, inFile,
                   wrote>>

(* The packets of the old file are counted before the new one is announced *)
Announce ==
    /\ pc = "announce"
    /\ Flush(pdh)
    /\ told' = [told EXCEPT ![parent] = @ + inpkts]
    /\ inpkts' = 0
    /\ parent' = saveFile
    /\ pc' = ret
    /\ UNCHANGED <<ret, go, err, pdh, saveFile, fileCount, captured, inFile,
                   wrote>>

(***************************************************************************)
(* The end of capture_loop_start, its error label, and exit_main           *)
(***************************************************************************)
(* An output error is reported with the name of the file *)
ReportError ==
    /\ pc = "report"
    /\ fs' = IF err /\ saveFile \notin heap THEN Misuse(fs, "name") ELSE fs
    /\ pc' = "close"
    /\ UNCHANGED <<files, curr, fd, rpdh, nameH, heap, printed, gzvars, ret, go, err,
                   pdh, saveFile, fileCount, loopvars, msgs>>

CloseOutput ==
    /\ pc = "close"
    /\ \E ok \in Outcomes("close") : DumpClose(ok)
    /\ saveFile' = CurrentName
    /\ pc' = "count"
    /\ UNCHANGED <<ret, go, err, pdh, fileCount, loopvars, msgs>>

FinalCount ==
    /\ pc = "count"
    /\ Count
    /\ pc' = "exit"
    /\ UNCHANGED <<rbvars, ret, go, err, pdh, saveFile, fileCount>>

(* ringbuf_error_cleanup in capture_loop_open_output, and at the error     *)
(* label once more                                                         *)
Cleanup ==
    /\ pc \in {"cleanup", "error"}
    /\ ErrorCleanup
    /\ pc' = IF pc = "cleanup" THEN "error" ELSE "exit"
    /\ UNCHANGED <<ret, go, err, pdh, saveFile, fileCount, loopvars, msgs>>

(* Mutant: save_file is not forgotten *)
ExitKeepsName ==
    /\ pc = "exit"
    /\ saveFile' = Null
    /\ IF files # NoFiles
         THEN /\ heap' = heap \ NamesInSlots /\ files' = NoFiles
              /\ fs' = IF saveFile \in heap' \cup {CmdLine, Null} THEN fs ELSE Misuse(fs, "free")
              /\ UNCHANGED <<curr, fd, rpdh, nameH, printed, gzvars>>
         ELSE UNCHANGED rbvars
    /\ pc' = "end"
    /\ UNCHANGED <<ret, go, err, pdh, fileCount, loopvars, msgs>>

(* exit_main: the ring's names are freed and save_file forgotten, if the   *)
(* ring is there; capture_opts_cleanup frees the save_file that is left    *)
Exit ==
    /\ pc = "exit"
    /\ IF files # NoFiles
         THEN Free /\ saveFile' = Null
         ELSE /\ fs' = IF saveFile \in {CmdLine, Null} \cup heap
                       THEN fs ELSE Misuse(fs, "free")
              /\ saveFile' = Null
              /\ UNCHANGED <<files, curr, fd, rpdh, nameH, heap, printed, gzvars>>
    /\ pc' = "end"
    /\ UNCHANGED <<ret, go, err, pdh, fileCount, loopvars, msgs>>

(* capture_loop_stop in the signal handler *)
Signal ==
    /\ "signal" \in opts.conditions /\ go /\ pc # "end"
    /\ go' = FALSE
    /\ UNCHANGED <<rbvars, pc, ret, err, pdh, saveFile, fileCount, loopvars,
                   msgs>>

(* The threads of the ring run on until the process has ended *)
CompressFiles ==
    /\ Compress
    /\ UNCHANGED <<pc, ret, go, err, pdh, saveFile, fileCount, loopvars, msgs>>

Ended == pc = "end" /\ UNCHANGED vars

Step ==
    \/ OpenFirst \/ PrintNameTo \/ FirstFdopen \/ FirstHeader \/ Start
    \/ LoopTest \/ NoPacket \/ WritePacket \/ WriteError \/ NoUpdate \/ Update
    \/ Interval
    \/ SwitchOrStop \/ CloseCurrent \/ OpenNext \/ FdopenNext \/ WriteHeader
    \/ Announce
    \/ ReportError \/ CloseOutput \/ FinalCount \/ Cleanup \/ Exit
    \/ Signal \/ CompressFiles \/ Ended

(* What a program does after it misused a stream or a freed name is not    *)
(* defined: nothing is said of it                                          *)
Undefined == fs.bad # {} /\ UNCHANGED vars

Next == (fs.bad = {} /\ Step /\ UNCHANGED opts) \/ Undefined

Spec == Init /\ [][Next]_vars

(***************************************************************************)
(* What must hold.                                                         *)
(***************************************************************************)
PCs == {"open", "printname", "fdopen", "firstheader", "start", "loop",
        "dispatch", "update", "interval", "switch", "rbclose", "rbopen",
        "rbfdopen", "header", "announce", "report", "close", "count", "cleanup", "error",
        "exit", "end"}

(* Every variable has the type the code gives it. *)
TypeOK ==
    /\ opts \in Options
    /\ files = NoFiles \/ files \in [0..Slots-1 -> Names \cup {0}]
    /\ curr \in 0..MaxFiles-1
    /\ fd \in Names \cup {0} /\ rpdh \in Names \cup {0}
    /\ nameH \in {"null", "open", "closed"}
    /\ heap \subseteq Names
    /\ fs.exists \subseteq Names /\ fs.open \subseteq Names
    /\ fs.disk \in [Names -> Nat] /\ fs.buf \in [Names -> Nat]
    /\ fs.bad \subseteq {"fclose", "fflush", "fwrite", "name", "name_h", "free"}
    /\ fs.closed \subseteq Names /\ fs.failed \subseteq Names
    /\ printed \in Seq(Names)
    /\ thread \in [Names -> {"none", "begin", "copy", "unlink", "cleanup", "ended"}]
    /\ gz \in [Names -> Nat \cup {None, Torn}]
    /\ oldnames \subseteq Names /\ Cardinality(oldnames) <= MAX_FILENAME_QUEUE
    /\ pc \in PCs /\ ret \in {"loop", "update", "interval"}
    /\ go \in BOOLEAN /\ err \in BOOLEAN
    /\ pdh \in Names \cup {0} /\ saveFile \in Names \cup {CmdLine, Null}
    /\ captured \in Nat /\ inFile \in Nat /\ fileCount \in Nat
    /\ inpkts \in Nat
    /\ parent \in Names \cup {0}
    /\ told \in [Names -> Nat] /\ wrote \in [Names -> Nat]

Capturing ==
    pc \in {"loop", "dispatch", "update", "interval", "switch", "rbclose"}

(* The files whose packets are in the directory, as written or compressed  *)
Held == fs.exists \cup {n \in Names : gz[n] = fs.disk[n]}

(* Those that gzclose failed to complete: nobody notices (ringbuffer.c:185) *)
MayBeTorn == {n \in Names : "gzclose" \in opts.failures /\ gz[n] = Torn}

(* The directory holds exactly the latest files: -b files of them, or all  *)
(* of an unlimited set, each as it was written until all of its packets    *)
(* are in a complete compressed file; none is removed early nor kept too   *)
(* long.                                                                   *)
RingHoldsLatest ==
    /\ Capturing /\ ~err =>
          Held \cup MayBeTorn =
              {n \in 1..curr+1 : Unlimited \/ n + opts.files > curr + 1}
    /\ ~Unlimited => Cardinality(fs.exists) <= opts.files

(* Whatever call of a switch fails, the file the parent was last told of   *)
(* stays in the directory: only older files are removed for a new one, and *)
(* in a compressed set it is not gone before its compressed file is whole. *)
ParentFileKept ==
    (opts.files # 1 /\ parent # 0) => parent \in Held \cup MayBeTorn

(* A file that could not be removed once it was compressed is remembered   *)
(* and removed later, unless too many are; whoever removes it, no file is  *)
(* removed or remembered that is not compressed.                           *)
OriginalsRemoved ==
    /\ \A n \in Names :
          thread[n] = "ended" /\ gz[n] # None /\ n \in fs.exists =>
              \/ n \in oldnames \/ gz[n] = Torn
              \/ Cardinality({m \in Names : thread[m] # "none"}) > MAX_FILENAME_QUEUE
    /\ \A n \in oldnames : thread[n] = "ended" /\ n \in fs.exists

(* The directory at every moment, with failures of any call of a switch    *)
(* and of the threads that compress files.                                 *)
FilesKept == TypeOK /\ RingHoldsLatest /\ ParentFileKept /\ OriginalsRemoved

(* Of a file none of whose writes, flushes and closes has failed so far,   *)
(* the parent is never told of a packet that is not in it: the stream is   *)
(* flushed or closed before each report, and the count of one file is not  *)
(* sent after the name of the next.  Of the others it may be told too      *)
(* much, since the result of fflush is not looked at (dumpcap.c:4114,      *)
(* 4456) and the last count is sent after a failed close as well (4654).   *)
CountsOnDisk == \A n \in Names \ fs.failed : told[n] <= fs.disk[n]

(* When the capture ends the parent was told of every packet of each file, *)
(* under the name of that file, however the capture ended.                 *)
FinalCounts == (pc \in {"exit", "end"} /\ parent # 0) => told = wrote

(* What the parent is told of is there to be read, and it is all there is. *)
CountsTrue == CountsOnDisk /\ FinalCounts

(* As long as only writes and flushes fail, no stream or name is used after it was   *)
(* closed or freed, closed twice or freed twice.                           *)
NoMisuse ==
    opts.failures \subseteq {"write", "flush", "gzopen", "gzcopy", "gzclose", "unlink"} =>
        fs.bad = {}

(* With -b packets no file gets more, and, unless something else may end a *)
(* file, each file but the last has just as many.                          *)
FileQuota ==
    opts.packets > 0 =>
        /\ \A n \in Names : wrote[n] <= opts.packets
        /\ opts.conditions \subseteq {"signal", "duration"} =>
              \A n \in 1..curr : wrote[n] = opts.packets

(* With -a files the number of files opened never exceeds the limit, even  *)
(* when a timer expires right after the last file is full.                 *)
FilesQuota == opts.stopfiles > 0 => curr + 1 <= opts.stopfiles

(* The limits of files and of packets in a file, in any combination.       *)
Quotas == FileQuota /\ FilesQuota

(* The names printed are those of "completed files" (ringbuffer.c:91),     *)
(* each once and in order, and at the end all of them: a file has been     *)
(* closed when its name is printed, and, unless a write, flush or close of *)
(* it failed, has all its packets.  Only the last name may be that of a    *)
(* file never opened, when opening it failed: ringbuf_libpcap_dump_close   *)
(* prints it all the same.                                                 *)
PrintedInOrder ==
    /\ \A i \in DOMAIN printed :
          /\ printed[i] = i /\ i \notin fs.open
          /\ i \in fs.failed \/ (i \in fs.closed /\ fs.disk[i] = wrote[i])
          /\ i < Len(printed) => i \in fs.closed
    /\ (pc = "end" /\ opts.printname /\ parent # 0) => Len(printed) = curr + 1

(* What is said of ringbuf_libpcap_dump_close and the closing of files: a  *)
(* stream is closed only while it is open (ringbuffer.c, "close current    *)
(* file, if it's open").                                                   *)
StreamClosedOnce == "fclose" \notin fs.bad

(* "avoid capture_opts_cleanup from double-freeing 'save_file'" (exit_main): *)
(* once the first file has been announced its name has one owner to the    *)
(* end, whatever call of a switch fails.  (If the start fails it has not.) *)
SaveFileFreedOnce == "free" \in fs.bad => parent = 0

(* Streams and names have one owner at a time.                             *)
OneOwner == NoMisuse /\ SaveFileFreedOnce
=============================================================================
