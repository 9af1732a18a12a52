----------------------------- MODULE AtomicMaps -----------------------------
(***************************************************************************)
(* What the state files promise their users: each file is a map that one   *)
(* update changes at one key and nowhere else, at once; a crash takes back *)
(* at most updates that were never acknowledged.  A file somebody else     *)
(* damaged is outside the promise from then on, and only that file.        *)
(***************************************************************************)
CONSTANTS Maps, Keys, Values, None, Corrupt

VARIABLES cur,    \* [Maps -> Doc \cup {Corrupt}]: what a reader loads
          stable  \* ... as of the last acknowledged update

Doc == [Keys -> Values \cup {None}]

Init == cur = [m \in Maps |-> [k \in Keys |-> None]] /\ stable = cur

Update(m, k, v) ==
    /\ cur[m] # Corrupt
    /\ cur' = [cur EXCEPT ![m][k] = v]
    /\ UNCHANGED stable

Damage(m) ==
    /\ cur' = [cur EXCEPT ![m] = Corrupt]
    /\ stable' = [stable EXCEPT ![m] = Corrupt]

Acknowledge == stable' = cur /\ UNCHANGED cur

(* Per file, the crash keeps or loses what no acknowledgement covers.      *)
Crash ==
    /\ cur' \in [Maps -> Doc \cup {Corrupt}]
    /\ \A m \in Maps : cur'[m] \in {cur[m], stable[m]}
    /\ stable' = cur'

Next ==
    \/ \E m \in Maps, k \in Keys, v \in Values \cup {None} : Update(m, k, v)
    \/ \E m \in Maps : Damage(m)
    \/ Acknowledge
    \/ Crash

Spec == Init /\ [][Next]_<<cur, stable>>
=============================================================================
