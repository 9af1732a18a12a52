------------------------------- MODULE Overlay -------------------------------
(***************************************************************************)
(* The runtime configuration of a launch (overlay.go, userconfig.go): four *)
(* layers of typed scalars, validated against the allowlist and merged key *)
(* by key, and the llama-server flags that come out.  A layer is a         *)
(* function from some keys to values; a value is its kind and a scalar.    *)
(***************************************************************************)

\* Allowlist: the kind each runtime key takes.
KindOf == [n_gpu_layers |-> "int", ctx_size |-> "int", n_threads |-> "int",
           flash_attn |-> "bool", mlock |-> "bool", kv_cache_type |-> "string",
           batch_size |-> "int", ubatch_size |-> "int", n_parallel |-> "int",
           jinja |-> "bool", mmproj_variant |-> "string"]

\* Keys an artifact may carry: machine-neutral ones.
Neutral == {"ctx_size", "jinja"}

\* Keys the runner consumes itself: no llama-server flag.
Flagless == {"mmproj_variant"}

\* A layer holds a kind and a scalar under every key it has.
IsLayer(layer) ==
    \A k \in DOMAIN layer : layer[k] = [kind |-> layer[k].kind, v |-> layer[k].v]

EmptyLayer == [k \in {} |-> [kind |-> "int", v |-> 0]]

\* The keys of hi replace those of lo.
Over(hi, lo) ==
    [k \in DOMAIN hi \cup DOMAIN lo |-> IF k \in DOMAIN hi THEN hi[k] ELSE lo[k]]

\* [runtimes.llama], then [models."<ref>".llama] of one config file.
UserConfigOverlay(file) == Over(file.model, file.runtime)

\* parseSetValue: the kind a --set of raw text of class "bool", "int" or
\* "word" gets, and whether it is refused on the spot.  Only bool and int
\* keys are forced; for the others the text decides.
SetRefused(key, class) ==
    key \in DOMAIN KindOf /\ KindOf[key] \in {"bool", "int"} /\ class # KindOf[key]
SetKind(class) == IF class = "word" THEN "string" ELSE class

\* AddSet of every --set pair; sets maps a key to [class, v].
SetLayer(sets) == [k \in DOMAIN sets |-> [kind |-> SetKind(sets[k].class), v |-> sets[k].v]]
SetsRefused(sets) == \E k \in DOMAIN sets : SetRefused(k, sets[k].class)

\* Merge validates every key of every layer, shadowed or not.
ValidLayer(layer) ==
    \A k \in DOMAIN layer : k \in DOMAIN KindOf /\ layer[k].kind = KindOf[k]
ValidLayers(advisory, user, file, sets) ==
    /\ DOMAIN advisory \subseteq Neutral
    /\ ValidLayer(advisory) /\ ValidLayer(user) /\ ValidLayer(file) /\ ValidLayer(sets)

\* Mutant of Merged: the user's config beats the --config file.
MergedSwapped(advisory, user, file, sets) == Over(sets, Over(user, Over(file, advisory)))

\* Merge: layer after layer into one map, the later one wins.
Merged(advisory, user, file, sets) == Over(sets, Over(file, Over(user, advisory)))

\* Argv: flags with their values; a boolean passes its flag only when true.
Argv(merged) ==
    {<<k, merged[k].v>> : k \in {x \in DOMAIN merged \ Flagless :
                                    KindOf[x] = "bool" => merged[x].v = TRUE}}
=============================================================================
