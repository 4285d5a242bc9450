---------------------------- MODULE MCLookahead -----------------------------
(* Instances of Lookahead for TLC: frames that come at uneven times.       *)
EXTENDS Lookahead

MCPts == [f \in Frames |-> f * f + f]

=============================================================================
