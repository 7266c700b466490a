------------------------------ MODULE MCReassembly ------------------------------
(* Callers of the reassembly functions for TLC.                             *)
EXTENDS Reassembly

Fr(off, len, tail) == [off |-> off, len |-> len, tail |-> tail]
Plain == [api |-> "add", frags |-> {}, calls |-> 4, short |-> FALSE, crowded |-> FALSE, size |-> 0, ops |-> {},
          lens |-> {}, versions |-> {"v"}]

\* Fragments that leave gaps, overlap, contradict each other about the end
\* and go past it; those of a datagram of four bytes; blocks.
Mixed  == {Fr(0, 1, FALSE), Fr(0, 2, FALSE), Fr(1, 1, FALSE), Fr(1, 2, TRUE), Fr(2, 2, TRUE), Fr(0, 4, FALSE), Fr(3, 1, FALSE)}
Few    == {Fr(0, 2, FALSE), Fr(1, 1, TRUE), Fr(2, 1, TRUE), Fr(2, 2, FALSE)}
Growing == {Fr(0, 1, FALSE), Fr(1, 1, TRUE), Fr(0, 4, FALSE), Fr(1, 3, TRUE), Fr(2, 1, TRUE)}
Pieces == {Fr(0, 2, FALSE), Fr(1, 2, FALSE), Fr(2, 1, FALSE), Fr(2, 2, TRUE), Fr(3, 1, TRUE), Fr(0, 0, FALSE)}
Wide   == {Fr(0, 4, FALSE), Fr(4, 3, TRUE), Fr(6, 3, FALSE), Fr(5, 3, TRUE), Fr(4, 2, FALSE)}
Blocks3 == {Fr(0, 1, FALSE), Fr(1, 1, FALSE), Fr(2, 1, TRUE)}
SomeBlocks == {Fr(0, 1, FALSE), Fr(0, 2, TRUE), Fr(1, 1, FALSE), Fr(1, 0, TRUE), Fr(2, 1, TRUE), Fr(3, 1, FALSE)}

MCSetups ==
    {[Plain EXCEPT !.frags = Mixed, !.versions = {"v", "w"}],
     [Plain EXCEPT !.frags = Wide],
     [Plain EXCEPT !.frags = Pieces, !.size = 4, !.calls = 5],
     [Plain EXCEPT !.api = "multiple", !.frags = Few, !.crowded = TRUE, !.calls = 5],
     [Plain EXCEPT !.api = "ooo", !.frags = Few],
     [Plain EXCEPT !.frags = Growing, !.versions = {"v", "w"}, !.ops = {"partial"}],
     [Plain EXCEPT !.frags = Few, !.ops = {"setlen", "delete"}, !.lens = {2, 3}, !.calls = 3],
     [Plain EXCEPT !.frags = Few, !.ops = {"partial", "resetlen"}, !.lens = {2, 3}],
     [Plain EXCEPT !.frags = Mixed, !.ops = {"truncate"}, !.lens = {1, 2}],
     [Plain EXCEPT !.api = "check", !.frags = Pieces, !.size = 4, !.short = TRUE],
     [Plain EXCEPT !.api = "check", !.frags = Few, !.crowded = TRUE, !.calls = 5],
     [Plain EXCEPT !.api = "fallback", !.frags = Few, !.calls = 5],
     [Plain EXCEPT !.api = "seq", !.frags = SomeBlocks, !.versions = {"v", "w"}],
     [Plain EXCEPT !.api = "seq", !.frags = SomeBlocks, !.ops = {"partial", "setlen"}, !.lens = {1, 2}, !.versions = {"v", "w"}, !.calls = 3],
     [Plain EXCEPT !.api = "seqcheck", !.frags = Blocks3, !.size = 3, !.short = TRUE, !.calls = 5],
     [Plain EXCEPT !.api = "seqcheck", !.frags = SomeBlocks, !.crowded = TRUE],
     [Plain EXCEPT !.api = "seqnext", !.frags = Blocks3, !.short = TRUE, !.ops = {"end"}],
     [Plain EXCEPT !.api = "802.11", !.frags = SomeBlocks]}
===============================================================================
