---------------------------- MODULE MCThreadPool ----------------------------
(* Instance of ThreadPool for TLC: two arguments.                          *)
EXTENDS ThreadPool

CONSTANTS a1, a2

MCArgs == {a1, a2}
=============================================================================
