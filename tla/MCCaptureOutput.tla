-------------------------- MODULE MCCaptureOutput --------------------------
(***************************************************************************)
(* CaptureOutput for TLC: the command lines considered.                    *)
(***************************************************************************)
EXTENDS CaptureOutput

Option(f, p, sf, sp, print, cond, fail) ==
    [files |-> f, packets |-> p, stopfiles |-> sf, stoppackets |-> sp,
     printname |-> print, compress |-> FALSE, conditions |-> cond,
     failures |-> fail]

Compressed(option) == [option EXCEPT !.compress = TRUE]

(* A ring of two files with every condition; an unlimited set with quotas; *)
(* a ring whose timer competes with its quotas; a ring where everything    *)
(* may fail; the same without -b options; a ring of a single file; a set   *)
(* that is compressed while a switch may fail, one whose compression may   *)
(* fail, and a ring, which is not compressed                               *)
MCOptions ==
    {Option(2, 3, 0, 8, TRUE, AllConditions, {"write"}),
     Option(0, 2, 3, 0, FALSE, {"signal", "duration"}, {"write"}),
     Option(3, 2, 3, 0, FALSE, {"timer"}, {"write"}),
     Option(2, 1, 0, 3, TRUE, {"timer", "signal"}, AllFailures),
     Option(0, 2, 0, 4, TRUE, {"filesize", "signal"},
            AllFailures \ {"close"}),
     Option(1, 2, 4, 0, TRUE, {"timer", "signal"}, {"write"}),
     Compressed(Option(0, 1, 0, 3, FALSE, {"timer"},
                       {"open", "fdopen", "header", "close"})),
     Compressed(Option(0, 1, 0, 3, FALSE, {},
                       {"gzopen", "gzcopy", "unlink"})),
     Compressed(Option(0, 1, 2, 0, FALSE, {"signal"}, {"gzclose", "unlink"})),
     Compressed(Option(2, 1, 0, 3, FALSE, {"signal"}, {"write"}))}

(* The least options that show what a single failure does *)
HeaderFails == {Option(2, 1, 0, 0, FALSE, {}, {"header"})}
=============================================================================
