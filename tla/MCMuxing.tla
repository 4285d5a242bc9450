------------------------------ MODULE MCMuxing ------------------------------
(* Instance of Muxing for TLC: a source in two qualities with one audio    *)
(* file, one more job of the same names with an audio file of its own, and *)
(* one without a video piece.                                              *)
EXTENDS Muxing, TLC

CONSTANTS w1, w2, low, high, other, empty, piece, audio1, audio2

MCFirstPiece == low :> piece @@ high :> piece @@ other :> piece @@ empty :> NoFile
MCFolder     == low :> audio1 @@ high :> audio1 @@ other :> audio2 @@ empty :> audio1
Symmetry     == Permutations({w1, w2}) \cup Permutations({low, high})
=============================================================================
