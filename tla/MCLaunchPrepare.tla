--------------------------- MODULE MCLaunchPrepare ---------------------------
(* Quants q4 (a prefix of the others), q4_k and q4_0; two versions of q4_k,   *)
(* one of them multimodal and with an advisory context size; an artifact     *)
(* without GGUF weights under q4_0.  Configurations: plain, all layers set,  *)
(* a key unknown, a --set whose text has the wrong kind.                     *)
EXTENDS LaunchPrepare, TLC
CONSTANTS mq, mk1, mk2, m0, w, wk, pr, cf, st
MCQuants == {"q4", "q4_k", "q4_0"}
MCPrefix == {<<q, q>> : q \in MCQuants} \cup {<<"q4", "q4_k">>, <<"q4", "q4_0">>}
MCQuantOf == mq :> "q4" @@ mk1 :> "q4_k" @@ mk2 :> "q4_k" @@ m0 :> "q4_0"
MCFilesOf == mq :> {w} @@ mk1 :> {wk} @@ mk2 :> {wk, pr, cf} @@ m0 :> {st}
NoFiles == [v \in {} |-> w]
MCProjector == mq :> NoFiles @@ mk1 :> NoFiles @@ mk2 :> [f16 |-> pr] @@ m0 :> NoFiles
MCConfig == [m \in {mq, mk1, mk2, m0} |-> IF m = mk2 THEN {cf} ELSE {}]
IntV(n) == [kind |-> "int", v |-> n]
MCAdvisory == [m \in {mq, mk1, mk2, m0} |->
                IF m = mk2 THEN [ctx_size |-> IntV(1)] ELSE EmptyLayer]
R(q, t, p) == [quant |-> q, tag |-> t, pin |-> p]
MCRefs == {R("q4", None, None), R("q4_k", None, None), R("q4", None, mk2), R(None, None, mk1),
           R("q4", "snap", None), R(None, None, None)}
NoTables == [runtime |-> EmptyLayer, model |-> EmptyLayer]
Plain == [selector |-> None, user |-> NoTables, file |-> NoTables, sets |-> EmptyLayer]
Full == [selector |-> "q4",
         user |-> [runtime |-> [ctx_size |-> IntV(2), n_threads |-> IntV(2)],
                   model |-> [ctx_size |-> IntV(3)]],
         file |-> [runtime |-> [ctx_size |-> IntV(4), n_threads |-> IntV(4)], model |-> EmptyLayer],
         sets |-> [ctx_size |-> [class |-> "int", v |-> 6],
                   mlock |-> [class |-> "bool", v |-> FALSE],
                   mmproj_variant |-> [class |-> "word", v |-> "bf16"]]]
Unknown == [Plain EXCEPT !.file.runtime = [ngl |-> IntV(1)]]
BadSet == [Plain EXCEPT !.sets = [jinja |-> [class |-> "word", v |-> "yes"]]]
NumericVariant == [Plain EXCEPT !.sets = [mmproj_variant |-> [class |-> "int", v |-> 16]]]
MCConfs == {Plain, Full, Unknown, BadSet, NumericVariant}
=============================================================================
