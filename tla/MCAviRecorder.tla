--------------------------- MODULE MCAviRecorder ---------------------------
(***************************************************************************)
(* Instances of AviRecorder for TLC.                                       *)
(***************************************************************************)
EXTENDS AviRecorder, TLC

\* Created threads are interchangeable (for the runs that check safety only).
Alike == Permutations(Threads)
=============================================================================
