---------------------------- MODULE CaptureSession ----------------------------
(***************************************************************************)
(* A capture session of the user interface: dumpcap, the extcap programs,  *)
(* the sync pipe, and the event loop that reads it and takes the session   *)
(* down (src/capture/capture_sync.c, src/extcap.c, src/ui/capture.c).      *)
(*                                                                         *)
(* The callbacks of the event loop run to the end one at a time, between   *)
(* any two steps of the other processes; it blocks only while it waits for *)
(* the rest of a message or for dumpcap to exit, or spins in the loop of   *)
(* the information window.  dumpcap is what CaptureThreads and             *)
(* CaptureOutput show of it: packets go to the current file, are told of   *)
(* when they are flushed, before the next file is named.                   *)
(***************************************************************************)
EXTENDS SyncPipe, CaptureFile

CONSTANT Setups     \* the sessions to look at

(* A setup: extcaps, by number, in the order of the interfaces; those that *)
(* ignore SIGTERM and those whose output stays open after they are gone;   *)
(* the files of the ring (0: all are kept); the options of the interface;  *)
(* full: the disk may be full, so that what is flushed may be lost.        *)
SetupType ==
    [extcaps : Nat, stubborn : SUBSET Nat, held : SUBSET Nat, ring : 0..MaxFile, files : 1..MaxFile,
     packets : 0..MaxCount, rt : BOOLEAN, info : BOOLEAN, switches : BOOLEAN, logs : BOOLEAN,
     crashes : BOOLEAN, opensFail : BOOLEAN, full : BOOLEAN]

ASSUME SessionAssumption ==
    /\ Setups \subseteq SetupType /\ {"main", "reader"} \subseteq Writers
    /\ \A s \in Setups : s.logs => s.rt     \* (a skewed name is then not a file)

VARIABLES
    setup,
    child,      \* dumpcap
    signal,     \* dumpcap has been sent SIGINT or SIGTERM
    file,       \* the file it writes
    disk,       \* of each file: packets on the disk
    buffered,   \* packets in the stream's buffer
    lost,       \* of each file: packets a flush or a close failed to write
    untold,     \* inpkts_to_sync_pipe
    proc,       \* the extcap programs
    fifo,       \* their fifos
    pid,        \* extcap_pid is valid
    watches,    \* extcap_stdout_watch and extcap_stderr_watch
    loop,       \* where the event loop is
    watching,   \* pipe_input_id: the sync pipe is read
    fork,       \* fork_child is valid
    stopAfter,  \* stop_after_extcaps
    waitCbs,    \* wait_for_extcap_cbs
    timer,      \* extcap_terminate_id
    rt,         \* real_time_mode
    ui,         \* the capture file and the session (CaptureFile)
    asked,      \* the user has asked to stop, or to discard
    told,       \* of each file: packets the interface was told of
    switched,   \* real_time_mode has changed
    unopened    \* a file that was named could not be opened

childVars  == <<child, signal, file, disk, buffered, lost, untold>>
extcapVars == <<proc, fifo, pid, watches>>
downVars   == <<stopAfter, waitCbs, timer>>
uiVars     == <<rt, ui, asked, told, switched, unopened>>
vars == <<setup, pipeVars, childVars, extcapVars, loop, watching, fork, downVars, uiVars>>

Extcaps == 1..setup.extcaps
Files   == 1..MaxFile

ChildStates == {"open", "switch", "name", "run", "last", "drops", "bye", "dead"}

TypeOK ==
    /\ SyncPipeType
    /\ setup \in Setups
    /\ child \in ChildStates /\ signal \in BOOLEAN /\ file \in 0..MaxFile
    /\ disk \in [Files -> 0..MaxCount] /\ buffered \in 0..MaxCount /\ untold \in 0..MaxCount
    /\ lost \in [Files -> 0..MaxCount]
    /\ proc \in [Extcaps -> {"run", "term", "dead"}]
    /\ fifo \in [Extcaps -> {"unopened", "open", "gone"}]
    /\ pid \in [Extcaps -> BOOLEAN] /\ watches \in [Extcaps -> SUBSET {"stdout", "stderr"}]
    /\ loop \in {"idle", "wait", "spin"} /\ watching \in BOOLEAN /\ fork \in BOOLEAN
    /\ stopAfter \in BOOLEAN /\ waitCbs \in BOOLEAN /\ timer \in BOOLEAN /\ rt \in BOOLEAN
    /\ ui.state \in CapStates /\ ui.cf \in CfStates
    /\ ui.name \in 0..MaxFile /\ ui.save \in 0..MaxFile /\ ui.info \in 0..MaxFile
    /\ {ui.read, ui.count, ui.seen} \subseteq 0..MaxCount
    /\ ui.pending \in Nat /\ ui.spin \in Nat /\ ui.broken \in BOOLEAN
    /\ asked \in {"no", "stop", "discard"} /\ told \in [Files -> 0..MaxCount]
    /\ switched \in BOOLEAN /\ unopened \in BOOLEAN

Init ==
    /\ SyncPipeInit
    /\ setup \in Setups
    /\ child = "open" /\ signal = FALSE /\ file = 0
    /\ disk = [f \in Files |-> 0] /\ lost = disk /\ buffered = 0 /\ untold = 0
    /\ proc \in [Extcaps -> {"run", "dead"}]        \* one may not have been spawned
    /\ fifo = [e \in Extcaps |-> "unopened"]
    /\ pid = [e \in Extcaps |-> proc[e] = "run"]
    /\ watches = [e \in Extcaps |-> IF proc[e] = "run" THEN {"stdout", "stderr"} ELSE {}]
    /\ loop = "idle" /\ watching = TRUE /\ fork = TRUE
    /\ stopAfter = FALSE /\ waitCbs = FALSE /\ timer = FALSE
    /\ rt = setup.rt /\ ui = NewSession /\ asked = "no"
    /\ told = [f \in Files |-> 0] /\ switched = FALSE /\ unopened = FALSE

--------------------------------------------------------------------------------
(* dumpcap.                                                                 *)

\* A write to a pipe nobody reads raises SIGPIPE, which stops the capture.
Send(w, m) ==
    IF watching THEN WriteHeader(w, m) /\ UNCHANGED signal
    ELSE signal' = TRUE /\ UNCHANGED pipeVars

Rest(w) ==
    /\ child # "dead"
    /\ writing[w] # Idle
    /\ IF watching THEN WriteRest(w) /\ UNCHANGED signal
       ELSE /\ signal' = TRUE
            /\ writing' = [writing EXCEPT ![w] = Idle]
            /\ UNCHANGED <<pipe, skewed>>
    /\ UNCHANGED <<setup, child, file, disk, buffered, lost, untold, extcapVars, loop, watching, fork, downVars, uiVars>>

Main(from) == child = from /\ writing["main"] = Idle
ElseUnchanged == UNCHANGED <<setup, extcapVars, loop, watching, fork, downVars, uiVars>>

Exists(f) == f <= file /\ (setup.ring = 0 \/ f > file - setup.ring)

\* The fifos are opened one after the other, each when its extcap has opened
\* it; one that is removed instead, or a signal in the meantime, is an error.
ChildOpen ==
    /\ Main("open")
    /\ \A e \in Extcaps : fifo[e] = "open"
    /\ ~signal
    /\ child' = "name" /\ file' = 1
    /\ UNCHANGED <<pipeVars, signal, disk, buffered, lost, untold>>
    /\ ElseUnchanged

ChildOpenFails ==
    /\ Main("open")
    /\ signal \/ \E e \in Extcaps : fifo[e] = "gone" /\ \A d \in 1..(e - 1) : fifo[d] = "open"
    /\ Send("main", Msg("error", 0, 0))
    /\ child' = "bye"
    /\ UNCHANGED <<file, disk, buffered, lost, untold>>
    /\ ElseUnchanged

\* The packets that have left the buffer, by file, and in all files.
Out == [f \in Files |-> disk[f] + lost[f]]

Written(d) ==
    LET sum[f \in 0..MaxFile] == IF f = 0 THEN 0 ELSE sum[f - 1] + d[f]
    IN  sum[MaxFile]

\* A packet goes into the stream's buffer, which may spill.
ChildWrite ==
    /\ Main("run") /\ ~signal
    /\ LET n == buffered + 1 IN
         /\ Written(Out) + n <= setup.packets
         /\ \/ buffered' = n /\ UNCHANGED disk
            \/ buffered' = 0 /\ disk' = [disk EXCEPT ![file] = @ + n]
    /\ untold' = untold + 1
    /\ UNCHANGED <<pipeVars, child, signal, file, lost>>
    /\ ElseUnchanged

\* The buffer is flushed, n packets reach the disk: all, unless it is full.
Flushed(n) ==
    /\ n \in 0..buffered /\ (n < buffered => setup.full)
    /\ disk' = [disk EXCEPT ![file] = @ + n] /\ lost' = [lost EXCEPT ![file] = @ + (buffered - n)]
    /\ buffered' = 0

\* [mutant: packets are told of before they are flushed]
ChildTellUnflushed ==
    /\ Main("run") /\ untold > 0
    /\ Send("main", Msg("count", file, untold)) /\ untold' = 0
    /\ UNCHANGED <<child, file, disk, buffered, lost>>
    /\ ElseUnchanged

\* The result of fflush is ignored: what was lost is told of as well.
ChildTell ==
    /\ Main("run") /\ untold > 0
    /\ Send("main", Msg("count", file, untold)) /\ untold' = 0
    /\ \E n \in 0..buffered : Flushed(n)
    /\ UNCHANGED <<child, file>>
    /\ ElseUnchanged

\* do_file_switch_or_stop: the next file is opened and the ring's oldest is
\* removed, then what was written is told of, then the file is named.  The
\* capture stops instead when the old file cannot be closed (ChildStop).
ChildSwitch ==
    /\ Main("run") /\ ~signal
    /\ file < setup.files
    /\ Flushed(buffered)
    /\ file' = file + 1 /\ child' = "switch"
    /\ UNCHANGED <<pipeVars, signal, untold>>
    /\ ElseUnchanged

TellOldFile ==
    /\ Main("switch")
    /\ IF untold > 0 THEN Send("main", Msg("count", file - 1, untold)) ELSE UNCHANGED <<pipeVars, signal>>
    /\ untold' = 0 /\ child' = "name"
    /\ UNCHANGED <<file, disk, buffered, lost>>
    /\ ElseUnchanged

\* [mutant: the file is named while the old one's packets are untold]
NameFileFirst ==
    /\ child \in {"switch", "name"} /\ writing["main"] = Idle
    /\ Send("main", Msg("file", file, 0))
    /\ child' = IF untold > 0 THEN "switch" ELSE "run"
    /\ UNCHANGED <<file, disk, buffered, lost, untold>>
    /\ ElseUnchanged

NameFile ==
    /\ Main("name")
    /\ Send("main", Msg("file", file, 0))
    /\ child' = "run"
    /\ UNCHANGED <<file, disk, buffered, lost, untold>>
    /\ ElseUnchanged

\* The capture ends: a signal, a limit or an error, that of a write or of
\* the close among them; the rest is told of whether it was lost or not.
ChildStop ==
    /\ Main("run")
    /\ IF signal THEN UNCHANGED <<pipeVars, signal>>
       ELSE \/ Send("main", Msg("error", 0, 0))
            \/ UNCHANGED <<pipeVars, signal>>
    /\ child' = "last" /\ \E n \in 0..buffered : Flushed(n)
    /\ UNCHANGED <<file, untold>>
    /\ ElseUnchanged

TellLast ==
    /\ Main("last")
    /\ IF untold > 0 THEN Send("main", Msg("count", file, untold)) ELSE UNCHANGED <<pipeVars, signal>>
    /\ untold' = 0 /\ child' = "drops"
    /\ UNCHANGED <<file, disk, buffered, lost>>
    /\ ElseUnchanged

TellDrops ==
    /\ Main("drops")
    /\ Send("main", Msg("drops", 0, 0))
    /\ child' = "bye"
    /\ UNCHANGED <<file, disk, buffered, lost, untold>>
    /\ ElseUnchanged

\* The exit of dumpcap, and its death at any moment.
ChildExit ==
    /\ Main("bye")
    /\ writing["reader"] = Idle
    /\ child' = "dead"
    /\ UNCHANGED <<pipeVars, signal, file, disk, buffered, lost, untold>>
    /\ ElseUnchanged

ChildCrash ==
    /\ setup.crashes /\ child # "dead"
    /\ child' = "dead" /\ buffered' = 0
    /\ UNCHANGED <<pipeVars, signal, file, disk, lost, untold>>
    /\ ElseUnchanged

\* A reader thread logs: ws_debug of capture_loop_dispatch at the end of a
\* pipe, with the log level handed down by the parent.
ReaderLogs ==
    /\ setup.logs /\ child = "run"
    /\ Send("reader", Msg("log", 0, 0))
    /\ UNCHANGED <<child, file, disk, buffered, lost, untold>>
    /\ ElseUnchanged

ChildFinish == ChildOpenFails \/ TellOldFile \/ NameFile \/ TellLast \/ TellDrops \/ ChildExit
--------------------------------------------------------------------------------
(* The extcap programs.                                                     *)

ExtcapOpens(e) ==
    /\ proc[e] # "dead" /\ fifo[e] = "unopened"
    /\ fifo' = [fifo EXCEPT ![e] = "open"]
    /\ UNCHANGED <<setup, pipeVars, childVars, proc, pid, watches, loop, watching, fork, downVars, uiVars>>

ExtcapExits(e) ==
    /\ proc[e] # "dead"
    /\ proc' = [proc EXCEPT ![e] = "dead"]
    /\ UNCHANGED <<setup, pipeVars, childVars, fifo, pid, watches, loop, watching, fork, downVars, uiVars>>

--------------------------------------------------------------------------------
(* Taking the session down.                                                 *)

Finished1(p, w, e) == ~p[e] /\ w[e] = {}
AllFinished(p, w)  == \A e \in Extcaps : Finished1(p, w, e)

\* [mutant: they are not removed]
RemoveFifosNone(p, w) == UNCHANGED fifo

\* extcap_session_stop, with the pids and watches it sees: the fifos of the
\* extcaps that are finished are opened for a moment and removed, up to the
\* first that is not.
RemoveFifos(p, w) ==
    fifo' = [e \in Extcaps |-> IF \A d \in 1..e : Finished1(p, w, d) THEN "gone" ELSE fifo[e]]

\* The choice of the files that can be opened in this callback.
Opens(f) ==
    {o \in [1..2 -> BOOLEAN] :
        IF setup.opensFail THEN ~Exists(f) => ~o[1] /\ ~o[2] ELSE o[1] = Exists(f) /\ o[2] = Exists(f)}

Missed(f, o) == f # 0 /\ ~(o[1] /\ o[2])

CloseSession ==
    \E o \in Opens(ui.save) :
        /\ ui' = Closed(ui, o, disk)
        /\ unopened' = (unopened \/ (ui.cf = "pending" /\ Missed(ui.save, o)))

\* [mutants: dumpcap may be there yet; the timeout is left]
ProcessFinishedEarly(p, w, forked, timed, waits) ==
    /\ RemoveFifos(p, w)
    /\ timer' = (timed /\ ~AllFinished(p, w)) /\ waitCbs' = (waits /\ ~AllFinished(p, w))
    /\ IF AllFinished(p, w) THEN CloseSession /\ stopAfter' = FALSE /\ UNCHANGED signal
       ELSE UNCHANGED <<ui, unopened, stopAfter, signal>>

ProcessFinishedTimed(p, w, forked, timed, waits) ==
    /\ RemoveFifos(p, w)
    /\ timer' = timed /\ waitCbs' = (waits /\ ~AllFinished(p, w))
    /\ IF AllFinished(p, w) /\ ~forked
       THEN CloseSession /\ stopAfter' = FALSE /\ UNCHANGED signal
       ELSE UNCHANGED <<ui, unopened>> /\ stopAfter' = FALSE
            /\ signal' = (signal \/ (AllFinished(p, w) /\ stopAfter))

\* capture_process_finished; the flags are those it finds.
ProcessFinished(p, w, forked, timed, waits) ==
    /\ RemoveFifos(p, w)
    /\ timer' = (timed /\ ~AllFinished(p, w))
    /\ waitCbs' = (waits /\ ~AllFinished(p, w))
    /\ IF AllFinished(p, w) /\ ~forked
       THEN CloseSession /\ stopAfter' = FALSE /\ UNCHANGED signal
       ELSE /\ UNCHANGED <<ui, unopened>>
            /\ IF AllFinished(p, w) /\ stopAfter
               THEN stopAfter' = FALSE /\ signal' = TRUE        \* sync_pipe_stop
               ELSE UNCHANGED <<stopAfter, signal>>

\* extcap_request_stop, when extcap_session_stop has found some extcap there
RequestStop ==
    /\ RemoveFifos(pid, watches)
    /\ UNCHANGED waitCbs
    /\ IF timer \/ waitCbs THEN UNCHANGED <<proc, timer>>
       ELSE /\ timer' = TRUE
            /\ proc' = [e \in Extcaps |-> IF pid[e] /\ proc[e] = "run" THEN "term" ELSE proc[e]]

--------------------------------------------------------------------------------
(* The event loop.                                                          *)

IdleLoop == loop = "idle" /\ ~ui.broken
Silent   == UNCHANGED <<setup, child, file, disk, buffered, lost, untold>>

\* sync_pipe_input_cb on a message.
Deliver(m) ==
    \/ /\ m.kind = "file"
       /\ \E o \in Opens(m.file) :
            LET r == NewFile(ui, m.file, rt, setup.info, o, disk) IN
              \* a file that cannot be opened: dumpcap is told to stop and
              \* the session is closed, with dumpcap still there
              /\ IF r.ok THEN ui' = r.s /\ UNCHANGED <<watching, signal>>
                 ELSE ui' = Closed(r.s, o, disk) /\ watching' = FALSE /\ signal' = TRUE
              /\ unopened' = (unopened \/ ~r.ok)
       /\ UNCHANGED <<loop, told>>
    \/ /\ m.kind = "count"
       /\ \E o \in Opens(ui.save) :
            LET r == NewPackets([ui EXCEPT !.count = @ + m.n], m.n, rt, o, disk) IN
              /\ ui' = r.s
              /\ loop' = IF r.s.spin > 0 THEN "spin" ELSE "idle"
              /\ signal' = (signal \/ r.kill)
              /\ unopened' = (unopened \/ (rt /\ ui.cf = "pending" /\ ~o[1]))
       /\ told' = [told EXCEPT ![m.file] = @ + m.n]
       /\ UNCHANGED watching
    \/ /\ m.kind \in {"error", "drops"}
       /\ ui' = Must(ui, IF m.kind = "drops" THEN ui.state = "running" ELSE Active(ui))
       /\ UNCHANGED <<loop, told, watching, signal, unopened>>
    \/ /\ m.kind = "log"
       /\ UNCHANGED <<ui, loop, told, watching, signal, unopened>>

\* A block with the indicator of one message and bytes of another: a count
\* is taken for 0, a name cannot be opened, a text is shown.
DeliverSkewed(m) ==
    IF m.kind = "file"
    THEN /\ ui' = Closed(Finished(Must(ui, Active(ui)), disk), [i \in 1..2 |-> FALSE], disk)
         /\ watching' = FALSE /\ signal' = TRUE /\ unopened' = TRUE
         /\ UNCHANGED <<loop, told>>
    ELSE UNCHANGED <<ui, loop, told, watching, signal, unopened>>

PipeMessage ==
    /\ IdleLoop /\ watching
    /\ ReadBlock
    /\ IF Whole THEN Deliver(Header) ELSE DeliverSkewed(Header)
    /\ Silent
    /\ UNCHANGED <<extcapVars, fork, downVars, rt, asked, switched>>

\* An end of file, a message cut short or a bad length: wait for dumpcap.
PipeEnd ==
    /\ IdleLoop /\ watching
    /\ BadHeader \/ (child = "dead" /\ ~BlockReady)
    /\ loop' = "wait"
    /\ UNCHANGED <<setup, pipeVars, childVars, extcapVars, watching, fork, downVars, uiVars>>

ChildReaped ==
    /\ loop = "wait" /\ child = "dead"
    /\ loop' = "idle" /\ watching' = FALSE /\ fork' = FALSE
    /\ IF AllFinished(pid, watches)
       THEN ProcessFinished(pid, watches, FALSE, timer, waitCbs) /\ UNCHANGED proc
       ELSE RequestStop /\ UNCHANGED <<stopAfter, signal, ui, unopened>>
    /\ Silent
    /\ UNCHANGED <<pipeVars, pid, watches, rt, asked, told, switched>>

\* extcap_child_watch_cb, extcap_stdout_cb and extcap_stderr_cb; the last of
\* an extcap's three ends looks whether the session is over.
WatchRemoved(p, w, e) ==
    IF Finished1(p, w, e) THEN ProcessFinished(p, w, fork, timer, waitCbs)
    ELSE UNCHANGED <<fifo, downVars, signal, ui, unopened>>

CallbackUnchanged == UNCHANGED <<pipeVars, proc, loop, watching, fork, rt, asked, told, switched>>

ExtcapReaped(e) ==
    /\ IdleLoop /\ pid[e] /\ proc[e] = "dead"
    /\ pid' = [pid EXCEPT ![e] = FALSE]
    /\ WatchRemoved(pid', watches, e)
    /\ Silent
    /\ UNCHANGED watches /\ CallbackUnchanged

ExtcapOutputEnds(e, x) ==
    /\ IdleLoop /\ x \in watches[e] /\ proc[e] = "dead" /\ e \notin setup.held
    /\ watches' = [watches EXCEPT ![e] = @ \ {x}]
    /\ WatchRemoved(pid, watches', e)
    /\ Silent
    /\ UNCHANGED pid /\ CallbackUnchanged

\* [mutant: their output is waited for]
TerminateTimeoutWaits ==
    /\ IdleLoop /\ timer
    /\ proc' = [e \in Extcaps |-> IF pid[e] THEN "dead" ELSE proc[e]]
    /\ waitCbs' = TRUE
    /\ Silent
    /\ UNCHANGED <<pipeVars, fifo, pid, watches, loop, watching, fork, stopAfter, timer, signal, rt, ui, asked, told,
                   switched, unopened>>

\* extcap_terminate_cb: those still there are killed, their output is not
\* waited for.
TerminateTimeout ==
    /\ IdleLoop /\ timer
    /\ proc' = [e \in Extcaps |-> IF pid[e] THEN "dead" ELSE proc[e]]
    /\ watches' = [e \in Extcaps |-> {}]
    /\ IF \A e \in Extcaps : ~pid[e]
       THEN ProcessFinished(pid, watches', fork, FALSE, TRUE)
       ELSE timer' = FALSE /\ waitCbs' = TRUE /\ UNCHANGED <<fifo, stopAfter, signal, ui, unopened>>
    /\ Silent
    /\ UNCHANGED <<pipeVars, pid, loop, watching, fork, rt, asked, told, switched>>

\* capture_info_new_packets goes on reading until it has what it was told.
InfoSpin ==
    /\ loop = "spin" /\ ui.seen < disk[ui.info]
    /\ LET s == InfoRead(ui, ui.spin, disk) IN
         ui' = s /\ loop' = IF s.spin > 0 THEN "spin" ELSE "idle"
    /\ UNCHANGED <<setup, pipeVars, childVars, extcapVars, watching, fork, downVars, rt, asked, told, switched,
                   unopened>>

--------------------------------------------------------------------------------
(* The user.                                                                *)

\* [mutant: dumpcap is not stopped after the extcaps]
CaptureStopExtcapsOnly ==
    IF AllFinished(pid, watches)
    THEN /\ RemoveFifos(pid, watches) /\ timer' = FALSE /\ waitCbs' = FALSE
         /\ signal' = (signal \/ fork)
         /\ UNCHANGED <<proc, stopAfter>>
    ELSE RequestStop /\ UNCHANGED <<signal, stopAfter>>

\* capture_stop, and captureStop(true), which discards the file first.
CaptureStop ==
    IF AllFinished(pid, watches)
    THEN /\ RemoveFifos(pid, watches) /\ timer' = FALSE /\ waitCbs' = FALSE
         /\ signal' = (signal \/ fork)
         /\ UNCHANGED <<proc, stopAfter>>
    ELSE RequestStop /\ stopAfter' = TRUE /\ UNCHANGED signal

UserStops ==
    /\ IdleLoop /\ asked = "no" /\ ui.state # "stopped"
    /\ \/ asked' = "stop" /\ UNCHANGED ui
       \/ asked' = "discard" /\ ui.cf \in {"inprogress", "pending"} /\ ui' = Discard(ui)
    /\ CaptureStop
    /\ Silent
    /\ UNCHANGED <<pipeVars, pid, watches, loop, watching, fork, rt, told, switched, unopened>>

\* The preferences or the profile change real_time_mode (prefs_to_capture_opts).
UserSwitches ==
    /\ setup.switches /\ IdleLoop /\ ui.state # "stopped" /\ ~(switched /\ rt = setup.rt)
    /\ rt' = ~rt /\ switched' = TRUE
    /\ UNCHANGED <<setup, pipeVars, childVars, extcapVars, loop, watching, fork, downVars, ui, asked, told, unopened>>

\* Nothing is left to happen, the interface has failed, or it waits for
\* dumpcap (with two writers) or for a packet of it, and dumpcap for room in
\* the pipe.
Over ==
    /\ \A e \in Extcaps : proc[e] = "dead"
    /\ \/ ui.broken
       \/ child = "dead" /\ (loop = "spin" \/ (ui.state = "stopped" /\ ~watching))
       \/ (loop = "spin" \/ (setup.logs /\ loop = "wait")) /\ ~Room
    /\ UNCHANGED vars

ChildNext ==
    \/ ChildOpen \/ ChildOpenFails \/ ChildWrite \/ ChildTell \/ ChildSwitch \/ TellOldFile \/ NameFile
    \/ ChildStop \/ TellLast \/ TellDrops \/ ChildExit \/ ChildCrash \/ ReaderLogs
    \/ \E w \in Writers : Rest(w)

LoopNext ==
    \/ PipeMessage \/ PipeEnd \/ ChildReaped \/ TerminateTimeout \/ InfoSpin
    \/ \E e \in Extcaps : ExtcapReaped(e) \/ \E x \in {"stdout", "stderr"} : ExtcapOutputEnds(e, x)

Next ==
    \/ ChildNext \/ LoopNext
    \/ \E e \in Extcaps : ExtcapOpens(e) \/ ExtcapExits(e)
    \/ UserStops \/ UserSwitches \/ Over

Spec == Init /\ [][Next]_vars

(* dumpcap goes on once it has been told to stop or is between two steps;  *)
(* an extcap that was asked to stop does so unless it is stubborn; glib    *)
(* runs the callbacks of every source that is ready and every timeout.     *)
Fairness ==
    /\ WF_vars(ChildFinish) /\ WF_vars(signal /\ ChildStop)
    /\ \A w \in Writers : WF_vars(Rest(w))
    /\ \A e \in 1..2 : WF_vars(e \in Extcaps \ setup.stubborn /\ proc[e] = "term" /\ ExtcapExits(e))
    /\ WF_vars(PipeMessage) /\ WF_vars(PipeEnd) /\ WF_vars(ChildReaped) /\ WF_vars(TerminateTimeout)
    /\ \A e \in 1..2 : WF_vars(e \in Extcaps /\ ExtcapReaped(e))
    /\ \A e \in 1..2, x \in {"stdout", "stderr"} : WF_vars(e \in Extcaps /\ ExtcapOutputEnds(e, x))

FairSpec == Spec /\ Fairness

--------------------------------------------------------------------------------
(* Properties.                                                              *)

\* The state is well formed.  A callback's assertion fails, or a wtap that is not there is read, only
\* after a file that dumpcap named could not be opened or real_time_mode has
\* changed: the messages of dumpcap, the stops of the user and the ends of
\* the extcaps never find the session or the capture file in a state they do
\* not expect.
AssertionsHold == TypeOK /\ (ui.broken => unopened \/ switched)

\* When the session is closed, dumpcap has been waited for, every extcap and
\* its output is done with, its fifo removed, and no timeout is left to fire
\* on a session that may be in use again; the capture file is read to its
\* end or closed, which captureStop waits for when it discards the file -
\* unless the session was closed because a file could not be opened.
ClosedLast ==
    ui.state = "stopped" /\ ~unopened =>
        /\ ~fork /\ ~watching /\ child = "dead"
        /\ ~timer /\ ~waitCbs /\ ~stopAfter
        /\ ~ui.broken => ui.cf \in {"closed", "done"}
        /\ \A e \in Extcaps : proc[e] = "dead" /\ ~pid[e] /\ watches[e] = {} /\ fifo[e] = "gone"

\* The interface waits for dumpcap, with the event loop stopped, only when
\* dumpcap has ended: with one writer the framing of the pipe is never lost,
\* whatever the moment dumpcap dies at.
OneWriter == ~setup.logs

WaitsOnlyForDead == OneWriter /\ loop = "wait" => child = "dead"

\* A count is delivered while the file it counts the packets of is the one
\* that was named last, although dumpcap may by then be writing the next;
\* unless that file could not be opened, which forgets its name.
FileBefore(i) ==
    LET names == {j \in 1..(i - 1) : pipe[j].part = 1 /\ pipe[j].msg.kind = "file"}
    IN  IF names = {} THEN ui.save ELSE pipe[CHOOSE j \in names : \A k \in names : k <= j].msg.file

CountsFollowTheirFile ==
    watching /\ ~skewed /\ ~unopened =>
        \A i \in DOMAIN pipe :
            pipe[i].part = 1 /\ pipe[i].msg.kind = "count" => pipe[i].msg.file = FileBefore(i)

\* In real time the list holds exactly the packets of the file that the
\* interface was told of, none is read before, and the information window
\* does not wait for a packet - unless real_time_mode has changed, or packets
\* were told of that a failed fflush or fclose, which dumpcap ignores, did not
\* write (dumpcap.c:4114, 4456, 4654): the list then misses at most those, and
\* only then does the window wait.  In either mode the counts follow their file.
ListIsWhatWasTold ==
    /\ CountsFollowTheirFile
    /\ ~switched /\ ~ui.broken =>
        /\ ui.cf = "inprogress" =>
              ui.read <= told[ui.name] /\ told[ui.name] <= ui.read + lost[ui.name]
        /\ loop = "spin" => ui.info # 0 /\ lost[ui.info] > 0

\* After the session the list holds every packet of the last file that was
\* named, whether they were told of or not, in either mode and with changes
\* of mode.  A file is not shown when nothing was told of in all, when it
\* was discarded, or could not be opened; and a dumpcap that crashes before
\* the first count of a capture that is not in real time leaves it unread.
ListComplete ==
    [][ui.state = "running" /\ ui'.state = "stopped" /\ ~unopened' /\ asked # "discard"
        /\ ui.count > 0 =>
         \/ ui'.cf = "done" /\ ui'.name = ui.save /\ ui'.read = disk[ui.save]
         \/ ui.cf = "closed" /\ told[ui.save] = 0]_vars

\* The ways for a session not to end: it failed, or the information window
\* waits for packets it has read before (after a change of real_time_mode), or
\* that are not on the disk.
Stuck == ui.broken \/ loop = "spin"

\* A capture the user has stopped, or whose dumpcap has ended or died, is
\* closed: dumpcap and the extcaps end, the stubborn ones and those whose
\* output stays open after the timeout.
SessionEnds ==
    (OneWriter /\ asked # "no") \/ child = "dead" ~> ui.state = "stopped" \/ Stuck

\* dumpcap does not go on waiting for a fifo whose extcap has gone without
\* opening it, when that is the first of the interfaces.
FirstFifoReleased ==
    (1 \in Extcaps \ setup.held /\ proc[1] = "dead" /\ pid[1] /\ fifo[1] = "unopened") ~> child # "open"

\* "Even in the rare cases that this isn't the case, the child will get an
\* error when writing to the broken pipe the next time, cleaning itself up
\* then" (capture_sync.c:2063-2065): a dumpcap that the interface waits for ends.
WaitedForEnds == loop = "wait" ~> child = "dead"
================================================================================
