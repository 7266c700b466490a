-------------------------- MODULE MCCaptureThreads --------------------------
(***************************************************************************)
(* CaptureThreads for TLC: the sources are model values.                   *)
(***************************************************************************)
EXTENDS CaptureThreads, TLC

Symmetry == Permutations(Srcs)
=============================================================================
