--------------------------- MODULE MCCaptureSession ---------------------------
(* Sessions for TLC.                                                       *)
EXTENDS CaptureSession

Plain == [extcaps |-> 0, stubborn |-> {}, held |-> {}, ring |-> 0, files |-> 1, packets |-> 2, rt |-> TRUE,
          info |-> FALSE, switches |-> FALSE, logs |-> FALSE, crashes |-> FALSE, opensFail |-> FALSE,
          full |-> FALSE]

Crashing == [Plain EXCEPT !.crashes = TRUE]

LoggingSetups == {[Plain EXCEPT !.packets = 1, !.logs = TRUE]}

\* A ring that rolls over in either mode, with the information window; sets
\* of files with changes of mode; extcaps, stubborn and with output held
\* open; opens that fail; a disk that is full, in either mode; a reader
\* thread that logs.
MCSetups ==
    {[Crashing EXCEPT !.ring = 1, !.files = 3, !.info = TRUE, !.rt = b] : b \in BOOLEAN} \cup
    {[Crashing EXCEPT !.files = 2, !.switches = TRUE],
     [Plain EXCEPT !.packets = 3, !.info = TRUE, !.switches = TRUE],
     [Plain EXCEPT !.packets = 1, !.extcaps = 2, !.stubborn = {1}, !.held = {2}],
     [Crashing EXCEPT !.packets = 0, !.extcaps = 2, !.rt = FALSE],
     [Plain EXCEPT !.files = 2, !.info = TRUE, !.opensFail = TRUE]} \cup
    {[Crashing EXCEPT !.files = 2, !.packets = 3, !.info = TRUE, !.full = TRUE, !.rt = b] : b \in BOOLEAN} \cup
    LoggingSetups
===============================================================================
