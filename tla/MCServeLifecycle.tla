-------------------------- MODULE MCServeLifecycle --------------------------
(* Instances of ServeLifecycle for TLC.                                      *)
EXTENDS ServeLifecycle, TLC
ServeSymmetry == Permutations(Clis) \cup Permutations(Launches) \cup Permutations(Pids) \cup Permutations(Ids)
=============================================================================
