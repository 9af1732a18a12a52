---------------------------- MODULE JobLifecycle ----------------------------
(***************************************************************************)
(* What the job table of the daemon promises a client: a job appears, goes *)
(* waiting -> fetching -> done | failed, forward only, and a terminal job  *)
(* stays what it is until the daemon that holds it in memory goes away     *)
(* ("waiting|fetching|done|failed", internal/api/server.go:94).            *)
(***************************************************************************)
CONSTANT Jobs

VARIABLE state  \* [Jobs -> States]

States == {"none", "waiting", "fetching", "done", "failed"}
Terminal == {"done", "failed"}

Later == [s \in States |->
            CASE s = "none"     -> {"waiting", "fetching"} \cup Terminal
              [] s = "waiting"  -> {"fetching"} \cup Terminal
              [] s = "fetching" -> Terminal
              [] OTHER          -> {}]

Init == state = [j \in Jobs |-> "none"]

Advance(j) == \E s \in Later[state[j]] : state' = [state EXCEPT ![j] = s]

(* A restarted daemon knows no job.                                        *)
Forget == state' = [j \in Jobs |-> "none"]

Next == (\E j \in Jobs : Advance(j)) \/ Forget

Spec == Init /\ [][Next]_state
=============================================================================
