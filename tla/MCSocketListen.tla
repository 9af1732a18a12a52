--------------------------- MODULE MCSocketListen ---------------------------
(* Instances of SocketListen for TLC: two or three daemons on one path.      *)
EXTENDS SocketListen
=============================================================================
