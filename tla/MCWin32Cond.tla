---------------------------- MODULE MCWin32Cond -----------------------------
(* Instances of Win32Cond for TLC: the constants are in the .cfg file.     *)
EXTENDS Win32Cond
=============================================================================
