----------------------------- MODULE RingBuffer -----------------------------
(***************************************************************************)
(* The set of output files of a multiple-file capture (src/ringbuffer.c),  *)
(* and the files and streams it works on.  The operations are actions that *)
(* module CaptureOutput calls; "ok" is the outcome of the system call.     *)
(*                                                                         *)
(* The k-th file opened has the name k: the time and number in the real    *)
(* name serve to tell the names apart.  A stream is named after its file,  *)
(* 0 is NULL (or -1 for a descriptor).  Each closed file of an unlimited   *)
(* set that is compressed has a thread of its own, n for the file n.       *)
(***************************************************************************)
EXTENDS Integers, Sequences, FiniteSets

CONSTANTS
    MaxFiles,             \* bound: files opened
    MAX_FILENAME_QUEUE    \* places in oldnames

ASSUME MaxFilesAssumption == MaxFiles \in Nat \ {0} /\ MAX_FILENAME_QUEUE \in Nat

Names   == 1..MaxFiles
NoFiles == <<>>

VARIABLES
    opts,     \* capture_opts, set once: see CaptureOutput
    files,    \* rb_data.files, the name in each slot; NoFiles when not allocated
    curr,     \* rb_data.curr_file_num
    fd,       \* rb_data.fd
    rpdh,     \* rb_data.pdh
    nameH,    \* rb_data.name_h: null, open, or closed but not reset
    heap,     \* the name strings of the ring that are allocated
    fs,       \* the files and streams
    printed,  \* the names printed to name_h
    thread,   \* where the thread that compresses each file is
    gz,       \* the compressed files: the packets in them, None or Torn
    oldnames  \* rb_data.oldnames, files that could not be removed

Unlimited == opts.files = 0
Slots     == IF Unlimited THEN 1 ELSE opts.files

rbvars == <<files, curr, fd, rpdh, nameH, heap, fs, printed, thread, gz,
            oldnames>>
gzvars == <<thread, gz, oldnames>>

None == -1    \* no compressed file, or one still being written
Torn == -2    \* one that could not be written to its end

(***************************************************************************)
(* Files and streams.  exists: the file names in the directory; open: the  *)
(* open streams; disk and buf: the packets of each file that reached it    *)
(* and that wait in the stream's buffer; bad: misuses of a stream or name. *)
(* closed and failed are history: the files whose stream has been closed,  *)
(* and those that a failing call has kept from having all their packets,   *)
(* or a stream at all.                                                     *)
(***************************************************************************)
FsInit == [exists |-> {}, open |-> {}, disk |-> [n \in Names |-> 0],
           buf |-> [n \in Names |-> 0], bad |-> {}, closed |-> {}, failed |-> {}]

Misuse(f, what) == [f EXCEPT !.bad = @ \cup {what}]

FsFail(f, ns) == [f EXCEPT !.failed = @ \cup ns]

(* A write that fails: what waits in the buffer is lost, as in glibc       *)
FsLose(f, ns) ==
    FsFail([f EXCEPT !.buf = [m \in Names |-> IF m \in ns THEN 0 ELSE @[m]]], ns)

FsSpill(f, ns) ==
    [f EXCEPT !.disk = [m \in Names |-> IF m \in ns THEN @[m] + f.buf[m] ELSE @[m]],
              !.buf  = [m \in Names |-> IF m \in ns THEN 0 ELSE @[m]]]

FsPut(f, ns, ok) == IF ok THEN FsSpill(f, ns) ELSE FsLose(f, ns)

FsClose(f, n, ok) ==
    IF n \in f.open
    THEN [FsPut(f, {n}, ok) EXCEPT !.open = @ \ {n}, !.closed = @ \cup {n}]
    ELSE Misuse(f, "fclose")

FsFlush(f, n, ok) ==     \* fflush(NULL) flushes every open stream
    IF n # 0 /\ n \notin f.open
    THEN Misuse(f, "fflush")
    ELSE FsPut(f, IF n = 0 THEN f.open ELSE {n}, ok)

FsWrite(f, n) ==
    IF n \in f.open THEN [f EXCEPT !.buf[n] = @ + 1] ELSE Misuse(f, "fwrite")

FsUnlink(f, ns) == [f EXCEPT !.exists = @ \ ns]
FsCreate(f, n)  == [f EXCEPT !.exists = @ \cup {n}]
FsOpen(f, n)    == [f EXCEPT !.open = @ \cup {n}]

(***************************************************************************)
(* The ring.                                                               *)
(***************************************************************************)
RbInit ==
    /\ files = NoFiles /\ curr = 0 /\ fd = 0 /\ rpdh = 0 /\ nameH = "null"
    /\ heap = {} /\ fs = FsInit /\ printed = <<>>
    /\ thread = [n \in Names |-> "none"] /\ gz = [n \in Names |-> None]
    /\ oldnames = {}

(* The outcomes of a call named in opts.failures *)
Outcomes(call) == {TRUE} \cup {b \in {FALSE} : call \in opts.failures}

(* CleanupOldCap, under the mutex: the pending names are tried again, and  *)
(* the name given is kept for later if its file is still there             *)
CleanupOldCap(f, name) ==
    \E left \in IF "unlink" \in opts.failures THEN SUBSET oldnames ELSE {{}} :
       /\ fs' = FsUnlink(f, oldnames \ left)
       /\ oldnames' = IF name \in fs'.exists /\ Cardinality(left) < MAX_FILENAME_QUEUE
                         THEN left \cup {name} ELSE left

(* ringbuf_current_filename *)
CurrentName == files[curr % Slots]

Newname == curr + 1

(* ringbuf_start_compress_file *)
StartCompress(name) ==
    thread' = IF Unlimited /\ opts.compress
                THEN [thread EXCEPT ![name] = "begin"] ELSE thread

(* [mutants: the old file stays; the slot is the one before] *)
OpenFileKeepsOld(slot, ok) ==
    LET fresh == fs IN
    /\ files' = [files EXCEPT ![slot] = Newname]
    /\ heap' = (heap \ {files[slot]}) \cup {Newname}
    /\ fs' = IF ok THEN FsCreate(fresh, Newname) ELSE FsFail(fresh, {Newname})
    /\ fd' = IF ok THEN Newname ELSE 0
    /\ StartCompress(files[slot])
OpenFileWrongSlot(slot, ok) ==
    LET wrong == (slot + 1) % Slots
        fresh == FsUnlink(fs, {files[wrong]}) IN
    /\ files' = [files EXCEPT ![wrong] = Newname]
    /\ heap' = (heap \ {files[wrong]}) \cup {Newname}
    /\ fs' = IF ok THEN FsCreate(fresh, Newname) ELSE FsFail(fresh, {Newname})
    /\ fd' = IF ok THEN Newname ELSE 0
    /\ StartCompress(files[slot])

(* ringbuf_open_file: the slot's old file is removed, or, of an unlimited  *)
(* set, perhaps compressed; its name is freed, and the next file created   *)
OpenFile(slot, ok) ==
    LET fresh == IF Unlimited THEN fs ELSE FsUnlink(fs, {files[slot]}) IN
    /\ files' = [files EXCEPT ![slot] = Newname]
    /\ heap' = (heap \ {files[slot]}) \cup {Newname}
    /\ fs' = IF ok THEN FsCreate(fresh, Newname) ELSE FsFail(fresh, {Newname})
    /\ fd' = IF ok THEN Newname ELSE 0
    /\ StartCompress(files[slot])

(* ringbuf_init; the first file cannot be opened: ringbuf_error_cleanup    *)
(* gives everything back before name_h is ever set                         *)
InitRing(ok) ==
    /\ IF ok
         THEN /\ files' = [i \in 0..Slots-1 |-> IF i = 0 THEN 1 ELSE 0]
              /\ heap' = {1} /\ fs' = FsCreate(fs, 1) /\ fd' = 1
         ELSE UNCHANGED <<files, heap, fs, fd>>
    /\ UNCHANGED <<curr, rpdh, nameH, printed, gzvars>>

(* ringbuf_set_print_name, called once *)
SetPrintName(ok) ==
    /\ nameH' = IF ok THEN "open" ELSE "null"
    /\ UNCHANGED <<files, curr, fd, rpdh, heap, fs, printed, gzvars>>

(* ringbuf_init_libpcap_fdopen *)
Fdopen(ok) ==
    /\ rpdh' = IF ok THEN fd ELSE 0
    /\ fs' = IF ok THEN FsOpen(fs, fd) ELSE FsFail(fs, {fd})
    /\ UNCHANGED <<files, curr, fd, nameH, heap, printed, gzvars>>

PrintName ==
    printed' = IF nameH = "null" THEN printed ELSE Append(printed, CurrentName)

SwitchClosePrintsNext(ok) ==    \* [mutant: printed after the step]
    /\ fs' = FsClose(fs, rpdh, ok)
    /\ rpdh' = 0 /\ fd' = 0
    /\ curr' = IF ok THEN curr + 1 ELSE curr
    /\ printed' = IF ok /\ nameH # "null"
                    THEN Append(printed, files[curr' % Slots]) ELSE printed
    /\ UNCHANGED <<files, nameH, heap, gzvars>>

(* ringbuf_switch_file up to the close of the current file and, when that  *)
(* succeeds, the step to the next number; then OpenFile and Fdopen         *)
SwitchClose(ok) ==
    /\ fs' = FsClose(fs, rpdh, ok)
    /\ rpdh' = 0 /\ fd' = 0
    /\ IF ok THEN PrintName /\ curr' = curr + 1 ELSE UNCHANGED <<printed, curr>>
    /\ UNCHANGED <<files, nameH, heap, gzvars>>

SwitchOpen(ok) ==
    /\ OpenFile(curr % Slots, ok)
    /\ UNCHANGED <<curr, rpdh, nameH, printed, gz, oldnames>>

(* ringbuf_libpcap_dump_close *)
DumpClose(ok) ==
    /\ fs' = LET f == IF rpdh # 0 THEN FsClose(fs, rpdh, ok) ELSE fs IN
             IF nameH = "closed" THEN Misuse(f, "name_h") ELSE f
    /\ rpdh' = 0 /\ fd' = IF rpdh # 0 THEN 0 ELSE fd
    /\ PrintName
    /\ nameH' = IF nameH = "null" THEN "null" ELSE "closed"
    /\ UNCHANGED <<files, curr, heap, gzvars>>

(* ringbuf_error_cleanup, with ringbuf_free *)
NamesInSlots == {files[i] : i \in DOMAIN files} \ {0}

ErrorCleanup ==
    /\ LET f == IF rpdh # 0 THEN FsClose(fs, rpdh, TRUE) ELSE fs
           g == IF nameH = "closed" THEN Misuse(f, "name_h") ELSE f IN
       CleanupOldCap(FsUnlink(g, NamesInSlots), 0)
    /\ rpdh' = 0 /\ fd' = 0
    /\ nameH' = IF nameH = "null" THEN "null" ELSE "closed"
    /\ heap' = heap \ NamesInSlots
    /\ files' = NoFiles
    /\ UNCHANGED <<curr, printed, thread, gz>>

(* ringbuf_free *)
Free ==
    /\ heap' = heap \ NamesInSlots
    /\ files' = NoFiles
    /\ CleanupOldCap(fs, 0)
    /\ UNCHANGED <<curr, fd, rpdh, nameH, printed, thread, gz>>

(***************************************************************************)
(* ringbuf_exec_compress, the thread for the closed file n.  It shares the *)
(* directory and oldnames with the main thread, and ends with the process. *)
(***************************************************************************)
GzGo(n, from, to) ==
    thread[n] = from /\ thread' = [thread EXCEPT ![n] = to]

(* The file and the compressed file are opened *)
GzOpen(n) ==
    /\ \E ok \in Outcomes("gzopen") :
          GzGo(n, "begin", IF ok THEN "copy" ELSE "ended")
    /\ UNCHANGED <<fs, gz, oldnames>>

(* [mutant: a failed copy does not keep the file] *)
GzCopyForgets(n) ==
    /\ \E ok \in Outcomes("gzcopy") :
          /\ GzGo(n, "copy", "unlink")
          /\ gz' = [gz EXCEPT ![n] = IF ok THEN fs.disk[n] ELSE Torn]
    /\ UNCHANGED <<fs, oldnames>>

(* The loop that copies, and gzclose, which writes what the compression    *)
(* still holds: its result is not looked at, that of the loop is           *)
GzCopy(n) ==
    /\ \/ /\ \E closed \in Outcomes("gzclose") :
                gz' = [gz EXCEPT ![n] = IF closed THEN fs.disk[n] ELSE Torn]
          /\ GzGo(n, "copy", "unlink")
       \/ /\ "gzcopy" \in opts.failures
          /\ gz' = [gz EXCEPT ![n] = Torn]
          /\ GzGo(n, "copy", "ended")
    /\ UNCHANGED <<fs, oldnames>>

GzUnlink(n) ==
    /\ GzGo(n, "unlink", "cleanup")
    /\ \E ok \in Outcomes("unlink") :
          fs' = IF ok THEN FsUnlink(fs, {n}) ELSE fs
    /\ UNCHANGED <<gz, oldnames>>

(* [mutant: what could not be removed is forgotten] *)
GzCleanupForgets(n) ==
    GzGo(n, "cleanup", "ended") /\ CleanupOldCap(fs, 0) /\ UNCHANGED gz

GzCleanup(n) ==
    GzGo(n, "cleanup", "ended") /\ CleanupOldCap(fs, n) /\ UNCHANGED gz

Compress ==
    /\ \E n \in Names : GzOpen(n) \/ GzCopy(n) \/ GzUnlink(n) \/ GzCleanup(n)
    /\ UNCHANGED <<files, curr, fd, rpdh, nameH, heap, printed>>
=============================================================================
