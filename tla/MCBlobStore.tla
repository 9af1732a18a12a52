---------------------------- MODULE MCBlobStore ----------------------------
(* Instances of BlobStore for TLC.  Digest d1 is the hash of content c1 and  *)
(* d2 of c2; cx is bytes whose hash is neither.                              *)
EXTENDS BlobStore, TLC

CONSTANTS w1, w2, d1, d2, c1, c2, cx, x1, x2

MCHash == c1 :> d1 @@ c2 :> d2 @@ cx :> x2
(* Both digests under one prefix directory, or each under its own.           *)
OnePrefix == [d \in Digests |-> x1]
TwoPrefixes == d1 :> x1 @@ d2 :> x2
(* Every writer writes every digest; or the writers share d1, and w2 also    *)
(* writes d2 into the same directory.                                        *)
SharedTargets == [w \in Writers |-> Digests]
MixedTargets == w1 :> {d1} @@ w2 :> {d1, d2}

PartSymmetry == Permutations(Parts)
=============================================================================
