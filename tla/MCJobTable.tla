----------------------------- MODULE MCJobTable -----------------------------
(* One job of four files and one daemon restart.  Jobs share nothing but the *)
(* restart, so a second job only multiplies the states.                      *)
EXTENDS JobTable
=============================================================================
