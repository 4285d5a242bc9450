--------------------------- MODULE MCSliceThreads ---------------------------
(* Instances of SliceThreads for TLC: the constants are in the .cfg files. *)
EXTENDS SliceThreads
=============================================================================
