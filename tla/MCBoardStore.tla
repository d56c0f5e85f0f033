---------------------------- MODULE MCBoardStore ----------------------------
(***************************************************************************)
(* BoardStore for TLC.  Processes are interchangeable, and so are keys:    *)
(* timestamps are compared, never derived from either.                     *)
(***************************************************************************)
EXTENDS BoardStore, TLC

Symmetry == Permutations(Procs) \cup Permutations(Keys)
=============================================================================
