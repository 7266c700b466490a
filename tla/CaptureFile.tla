------------------------------ MODULE CaptureFile ------------------------------
(***************************************************************************)
(* The capture file of the user interface (src/file.c, src/cfile.h) and    *)
(* the callbacks of a capture session that drive it (src/ui/capture.c), as *)
(* operators on a record: what the interface knows of the session.         *)
(*                                                                         *)
(*   state              cap_session->state                                 *)
(*   cf, name, read     state of the capture file, the file its wtap reads *)
(*                      (0: none), the packets of it that are in the list  *)
(*   save               capture_opts->save_file (0: NULL)                  *)
(*   pending, count     count_pending and count of the session             *)
(*   info, seen         cap_session->wtap of the information window, the   *)
(*                      packets it has read                                *)
(*   spin               to_read in the loop of capture_info_new_packets    *)
(*   broken             an assertion failed or a NULL wtap was read        *)
(*                                                                         *)
(* Files are numbered in the order dumpcap creates them; disk is a         *)
(* function from files to the packets on the disk.  Opening fails when the *)
(* ring has removed the file.  Not here: redissection, restart, wtap       *)
(* errors in the middle of a file.                                         *)
(***************************************************************************)
EXTENDS Naturals

CfStates   == {"closed", "pending", "inprogress", "aborted", "done"}
CapStates  == {"preparing", "running", "stopped"}

NewSession ==
    [state |-> "preparing", cf |-> "closed", name |-> 0, read |-> 0, save |-> 0, pending |-> 0,
     count |-> 0, info |-> 0, seen |-> 0, spin |-> 0, broken |-> FALSE]

Lesser(a, b) == IF a < b THEN a ELSE b
Break(s)  == [s EXCEPT !.broken = TRUE]
Must(s, P) == IF P THEN s ELSE Break(s)
Active(s) == s.state \in {"preparing", "running"}

\* cf_close: a file that is being read must not be closed.
CfClose(s) ==
    IF s.cf \in {"closed", "pending"} THEN s
    ELSE [Must(s, s.cf # "inprogress") EXCEPT !.cf = "closed", !.name = 0, !.read = 0]

\* cf_open, of a file that can be opened.
CfOpen(s, f) == [CfClose(s) EXCEPT !.cf = "inprogress", !.name = f, !.read = 0]

\* cf_continue_tail reads at most n packets; without a wtap it fails.
CfContinueTail(s, n, disk) ==
    IF s.name = 0 THEN Break(s)
    ELSE IF s.cf = "aborted" THEN s
    ELSE [s EXCEPT !.read = Lesser(@ + n, disk[s.name])]

CfFakeContinueTail(s) == [s EXCEPT !.cf = IF @ = "closed" THEN "pending" ELSE @]

\* [mutant: what is left is not read]
CfFinishTailUnread(s, disk) ==
    IF s.name = 0 \/ s.cf = "aborted" THEN CfClose(s) ELSE [s EXCEPT !.cf = "done"]

\* cf_finish_tail reads what is left, closes an aborted file.
CfFinishTail(s, disk) ==
    IF s.name = 0 \/ s.cf = "aborted" THEN CfClose(s)
    ELSE [s EXCEPT !.cf = "done", !.read = disk[s.name]]

--------------------------------------------------------------------------------
(* The callbacks.  opens[1] and opens[2]: whether the file can be opened   *)
(* by cf_open and by wtap_open_offline.                                    *)

\* capture_input_new_file, first part: the file before is finished.
Finished(s, disk) ==
    IF s.save # 0 /\ s.cf \notin {"closed", "pending"} THEN CfClose(CfFinishTail(s, disk)) ELSE s

\* capture_input_new_file
NewFile(s, f, rt, showInfo, opens, disk) ==
    LET t == [Finished(Must(s, Active(s)), disk) EXCEPT !.save = f]
        u == IF rt THEN CfOpen(t, f) ELSE [t EXCEPT !.pending = 0]
    IN  IF rt /\ ~opens[1] THEN [ok |-> FALSE, s |-> [t EXCEPT !.save = 0]]
        ELSE IF showInfo /\ ~opens[2] THEN [ok |-> FALSE, s |-> [u EXCEPT !.info = 0]]
        ELSE [ok |-> TRUE,
              s  |-> [u EXCEPT !.state = "running", !.info = IF showInfo THEN f ELSE @,
                               !.seen = IF showInfo THEN 0 ELSE @]]

\* capture_info_new_packets reads until it has n packets.
InfoRead(s, n, disk) ==
    IF s.info = 0 THEN s
    ELSE LET got == Lesser(n, disk[s.info] - s.seen) IN
         [s EXCEPT !.seen = @ + got, !.spin = n - got]

\* capture_input_new_packets: in real time mode the file is opened, if that
\* was put off, and read; the packets put off are read with the new ones.
\* The child is killed when the file cannot be opened or was aborted.
Reopen(s, opens) ==
    IF s.cf # "pending" THEN s
    ELSE IF opens[1] THEN CfOpen(s, s.save) ELSE [s EXCEPT !.save = 0]

NewPackets(s, n, rt, opens, disk) ==
    LET t    == Must(s, s.save # 0)
        u    == Reopen(t, opens)
        all  == n + u.pending
        tail == CfContinueTail([u EXCEPT !.pending = 0], all, disk)
    IN  IF rt
        THEN [kill |-> (s.cf = "pending" /\ ~opens[1]) \/ u.cf = "aborted",
              s    |-> IF tail.broken THEN tail ELSE InfoRead(tail, all, disk)]
        ELSE [kill |-> FALSE,
              s    |-> InfoRead([CfFakeContinueTail(t) EXCEPT !.pending = @ + n], n, disk)]

\* capture_input_read_all, when the file can be opened
ReadAll(s, opens, disk) ==
    IF ~opens[1] THEN s
    ELSE LET t == [CfOpen(s, s.save) EXCEPT !.cf = "done", !.read = disk[s.save]]
         IN  IF t.count = 0 THEN CfClose(t) ELSE t

\* The file when the capture is over, by the state it is in.
LastRead(s, opens, disk) ==
    IF s.state = "preparing" THEN s
    ELSE IF s.cf = "inprogress"
         THEN LET t == CfFinishTail(s, disk) IN IF t.count = 0 THEN CfClose(t) ELSE t
    ELSE IF s.cf = "pending" THEN IF s.save # 0 THEN ReadAll(s, opens, disk) ELSE s
    ELSE CfClose(s)

\* capture_input_closed, without a restart
Closed(s, opens, disk) ==
    LET t == [LastRead(Must(s, Active(s)), opens, disk) EXCEPT !.info = 0, !.state = "stopped"]
    IN  IF t.save = 0 THEN CfClose(t) ELSE [t EXCEPT !.save = 0]

\* captureStop(discard): the file is not wanted any more.
Discard(s) == [s EXCEPT !.cf = "aborted"]

================================================================================
