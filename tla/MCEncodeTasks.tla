--------------------------- MODULE MCEncodeTasks ----------------------------
(* Instance of EncodeTasks for TLC: two processes on one machine, and      *)
(* three messages, two qualities of one piece and a sound track.           *)
EXTENDS EncodeTasks

CONSTANTS w1, w2, v1, v2, a1, machine, piece, source

MCWorkers == {w1, w2}
MCTasks   == {v1, v2, a1}
MCMachine == [w \in MCWorkers |-> machine]
MCKind    == [t \in MCTasks |-> IF t = a1 THEN "audio" ELSE "video"]
MCInput   == [t \in MCTasks |-> IF t = a1 THEN source ELSE piece]
=============================================================================
