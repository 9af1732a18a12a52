----------------------------- MODULE MCSwarmFill -----------------------------
(* Two operations on an artifact of a manifest and one file of two pieces.   *)
EXTENDS SwarmFill, TLC
OpSymmetry == Permutations(Ops)
=============================================================================
