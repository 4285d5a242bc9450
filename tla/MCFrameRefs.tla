----------------------------- MODULE MCFrameRefs ----------------------------
(* Instances of FrameRefs for TLC: the constants are in the .cfg file.     *)
EXTENDS FrameRefs
=============================================================================
