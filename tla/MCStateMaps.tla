---------------------------- MODULE MCStateMaps ----------------------------
(* Two daemon goroutines updating two keys of one state file.                *)
EXTENDS StateMaps
=============================================================================
