--------------------------- MODULE MCSharedMemory ---------------------------
(***************************************************************************)
(* SharedMemory for TLC.  Nothing is symmetric in the run: it checks       *)
(* liveness.                                                               *)
(***************************************************************************)
EXTENDS SharedMemory
=============================================================================
