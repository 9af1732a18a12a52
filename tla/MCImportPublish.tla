-------------------------- MODULE MCImportPublish --------------------------
(* Three artifacts over two quants (a1 and a3 share one), one shared file.   *)
EXTENDS ImportPublish, TLC
CONSTANTS a1, a2, a3, q1, q2, f1, f2, shared
MCQuantOf == a1 :> q1 @@ a2 :> q2 @@ a3 :> q1
JobSymmetry == Permutations(Jobs)
MCFilesOf == a1 :> {f1, shared} @@ a2 :> {shared} @@ a3 :> {f2}
=============================================================================
