---------------------------- MODULE AtomicBlobs ----------------------------
(***************************************************************************)
(* What the blob store promises the callers of Put.  A blob appears under  *)
(* its digest at once and with the right bytes.  A Put that returns nil    *)
(* leaves one there, and if it stored the blob itself no crash takes that  *)
(* back; a Put that found one says nothing about crashes.  Only the medium *)
(* ever spoils a blob.                                                     *)
(***************************************************************************)
CONSTANTS Writers, Digests, None

VARIABLES
    doing,    \* [Writers -> Digests \cup {None}]: the digest of the Put under way
    storers,  \* writers whose Put has stored the blob itself
    result,   \* what the last Put of each writer returned, "none" during one
    content,  \* [Digests -> Blob]: what a re-hash of the tree says
    durable   \* ... of what a crash would leave

Blob == {"missing", "clean", "mismatch"}
callVars == <<doing, storers, result>>

Init ==
    /\ doing = [w \in Writers |-> None] /\ storers = {}
    /\ result = [w \in Writers |-> "none"]
    /\ content = [d \in Digests |-> "missing"] /\ durable = content

Call(w, d) ==
    /\ doing[w] = None
    /\ doing' = [doing EXCEPT ![w] = d]
    /\ result' = [result EXCEPT ![w] = "none"]
    /\ UNCHANGED <<storers, content, durable>>

Store(w) ==
    /\ doing[w] # None /\ w \notin storers
    /\ storers' = storers \cup {w}
    /\ content' = [content EXCEPT ![doing[w]] = "clean"]
    /\ UNCHANGED <<doing, result, durable>>

Return(w, r) ==
    /\ doing[w] # None
    /\ r = "ok" => content[doing[w]] # "missing"
    /\ r = "mismatch" => w \notin storers
    /\ doing' = [doing EXCEPT ![w] = None]
    /\ storers' = storers \ {w}
    /\ result' = [result EXCEPT ![w] = r]

(* What is there becomes durable for some digests, for those of S surely.  *)
Settle(S) ==
    \E T \in SUBSET Digests :
        /\ S \subseteq T
        /\ durable' = [d \in Digests |-> IF d \in T THEN content[d] ELSE durable[d]]

PutReturns(w, r) ==
    /\ Return(w, r)
    /\ Settle(IF r = "ok" /\ w \in storers THEN {doing[w]} ELSE {})
    /\ UNCHANGED content

(* All Puts die; what was not durable survives or not.                     *)
Crash ==
    /\ content' \in [Digests -> Blob]
    /\ \A d \in Digests : content'[d] \in {content[d], durable[d]}
    /\ durable' = content'
    /\ doing' = [w \in Writers |-> None] /\ storers' = {}
    /\ result' = [w \in Writers |-> "none"]

Spoil(d) ==
    /\ content[d] # "missing"
    /\ content' = [content EXCEPT ![d] = "mismatch"]
    /\ durable' \in {durable, [durable EXCEPT ![d] = "mismatch"]}
    /\ UNCHANGED callVars

Next ==
    \/ \E w \in Writers :
        \/ \E d \in Digests : Call(w, d)
        \/ Store(w)
        \/ \E r \in {"ok", "mismatch", "error"} : PutReturns(w, r)
    \/ Settle({}) /\ UNCHANGED <<callVars, content>>
    \/ Crash
    \/ \E d \in Digests : Spoil(d)

Spec == Init /\ [][Next]_<<callVars, content, durable>>
=============================================================================
