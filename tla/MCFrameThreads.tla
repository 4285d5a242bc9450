--------------------------- MODULE MCFrameThreads ---------------------------
(* Instances of FrameThreads for TLC: the constants are in the .cfg files. *)
EXTENDS FrameThreads
=============================================================================
