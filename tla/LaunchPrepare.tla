---------------------------- MODULE LaunchPrepare ----------------------------
(***************************************************************************)
(* From a reference to a spawned runtime: `shardr run` and `shardr serve`  *)
(* up to Spawn (prepare in run.go) against the daemon's resolution chain   *)
(* (resolveLocal, readIndexMembers, handleEnsure, handleOpen in server.go; *)
(* Resolve in ref.go).  The reference is resolved twice, once by /ensure   *)
(* and once by /open, and imports may publish into the repository, and     *)
(* blobs may be lost, between any two steps of a launch.                   *)
(*                                                                         *)
(* One repository.  An index blob is the function from quants to member    *)
(* manifests it encodes (quants are unique in a valid index).  What a fill *)
(* does inside is SwarmFill, how members get published ImportPublish, what *)
(* happens after the spawn ServeLifecycle.                                 *)
(***************************************************************************)
EXTENDS Naturals, FiniteSets, Overlay

CONSTANTS
    Clis,          \* run and serve invocations
    Quants,        \* quant strings
    Prefix,        \* <<p, q>>: p is a prefix of q
    Manifests,     \* manifest digests
    QuantOf,       \* the quant a manifest is imported under
    Files,         \* file blobs
    FilesOf,       \* manifest -> its files
    Weights,       \* files that are weights.gguf
    Projector,     \* manifest -> (variant -> vision projector file)
    Config,        \* manifest -> its runtime-config files for llama
    Advisory,      \* manifest -> the layer those files hold
    Tags,          \* tag aliases of the repository
    Refs,          \* references users type: [quant, tag, pin]
    Confs,         \* their config: [selector, user, file, sets]
    SwarmEnabled,
    None,          \* no quant, tag, pin, member or index
    MaxPublish,    \* bound: publications
    MaxLost        \* bound: blobs lost

Indexes == [Quants -> Manifests \cup {None}]
Members(idx) == {q \in Quants : idx[q] # None}

\* The classes of error a resolution ends in.
Errors == {"E_PIN_MISMATCH", "E_NO_MEMBER", "E_AMBIGUOUS_SELECTOR", "E_UNKNOWN_REF", "E_NO_INDEX"}

ASSUME PrefixAssumption ==
    /\ IsFiniteSet(Quants)
    /\ Prefix \subseteq Quants \X Quants
    /\ \A q \in Quants : <<q, q>> \in Prefix
ASSUME ArtifactAssumption ==
    /\ QuantOf \in [Manifests -> Quants]
    /\ FilesOf \in [Manifests -> SUBSET Files]
    /\ \A m \in Manifests : Config[m] \subseteq FilesOf[m]
    /\ \A m \in Manifests : \A v \in DOMAIN Projector[m] : Projector[m][v] \in FilesOf[m]
    /\ \A m \in Manifests : IsLayer(Advisory[m])
    /\ None \notin Quants \cup Manifests \cup Tags
    /\ Errors \cap Manifests = {}
ASSUME InputAssumption ==
    /\ Refs \subseteq [quant : Quants \cup {None}, tag : Tags \cup {None},
                       pin : Manifests \cup {None}]
    /\ \A cf \in Confs :
        /\ cf.selector \in Quants \cup {None}
        /\ IsLayer(cf.user.runtime) /\ IsLayer(cf.user.model)
        /\ IsLayer(cf.file.runtime) /\ IsLayer(cf.file.model)
ASSUME BoundsAssumption == MaxPublish \in Nat /\ MaxLost \in Nat

VARIABLES
    index,     \* namespaces[ns/name]: an index, or None
    tags,      \* tagAliases[ns/name:tag]
    blobs,     \* manifests and files in the store
    indexes,   \* index blobs in the store
    \* the launches
    pc, ref, conf,
    target,    \* the manifest ensured, then the one opened
    advisory,  \* layer 1, read from the store
    run,       \* what was spawned: [argv, weights, mmproj], or None
    \* observations
    selected,  \* per launch: manifests its reference selected since it began
    lost,      \* per launch: blobs lost since it opened its artifact
    published, losses

storeVars == <<index, tags, blobs, indexes>>
launchVars == <<pc, ref, conf, target, advisory, run>>
obsVars == <<selected, lost, published, losses>>
vars == <<storeVars, launchVars, obsVars>>

Blobs == Manifests \cup Files
NoRef == [quant |-> None, tag |-> None, pin |-> None]

TypeOK ==
    /\ index \in Indexes \cup {None}
    /\ tags \in [Tags -> Indexes \cup {None}]
    /\ blobs \subseteq Blobs /\ indexes \subseteq Indexes
    /\ pc \in [Clis -> {"idle", "ensure", "fill", "open", "advise", "spawn", "up", "err"}]
    /\ \A c \in Clis : ref[c] \in [quant : Quants \cup {None}, tag : Tags \cup {None},
                                   pin : Manifests \cup {None}]
    /\ target \in [Clis -> Manifests \cup {None}]
    /\ \A c \in Clis : pc[c] \notin {"idle", "err"} => ref[c].quant # None \/ ref[c].pin # None
    /\ \A c \in Clis : pc[c] # "up" => run[c] = None
    /\ selected \in [Clis -> SUBSET Manifests]
    /\ lost \in [Clis -> SUBSET Blobs]
    /\ published \in 0..MaxPublish /\ losses \in 0..MaxLost

Init ==
    /\ index = None /\ tags = [t \in Tags |-> None]
    /\ blobs = {} /\ indexes = {}
    /\ pc = [c \in Clis |-> "idle"]
    /\ ref = [c \in Clis |-> NoRef]
    /\ conf \in [Clis -> Confs]
    /\ target = [c \in Clis |-> None]
    /\ advisory = [c \in Clis |-> EmptyLayer]
    /\ run = [c \in Clis |-> None]
    /\ selected = [c \in Clis |-> {}]
    /\ lost = [c \in Clis |-> {}]
    /\ published = 0 /\ losses = 0

-----------------------------------------------------------------------------
(* Resolution.  A result is a manifest or an error class.                  *)

checkPin(r, m) == IF r.pin \in {None, m} THEN m ELSE "E_PIN_MISMATCH"

\* Mutant of Resolve: the first of several members with the prefix is taken.
ResolveFirst(r, idx) ==
    LET candidates == {q \in Members(idx) : <<r.quant, q>> \in Prefix} IN
    CASE r.quant \in Members(idx) -> checkPin(r, idx[r.quant])
      [] r.quant \notin Members(idx) /\ candidates = {} -> "E_NO_MEMBER"
      [] OTHER -> checkPin(r, idx[CHOOSE q \in candidates : TRUE])

\* Resolve: the exact member, else the only member the quant is a prefix of.
Resolve(r, idx) ==
    LET candidates == {q \in Members(idx) : <<r.quant, q>> \in Prefix} IN
    CASE r.quant \in Members(idx) -> checkPin(r, idx[r.quant])
      [] r.quant \notin Members(idx) /\ candidates = {} -> "E_NO_MEMBER"
      [] r.quant \notin Members(idx) /\ Cardinality(candidates) = 1 ->
            checkPin(r, idx[CHOOSE q \in candidates : TRUE])
      [] OTHER -> "E_AMBIGUOUS_SELECTOR"

\* The index a reference selects from: a tag's snapshot or the current one.
IndexOf(r) == IF r.tag # None THEN tags[r.tag] ELSE index

\* resolveLocal with readIndexMembers; without a quant the pin is the result.
resolveLocal(r) ==
    CASE r.quant = None -> r.pin
      [] r.quant # None /\ IndexOf(r) = None -> "E_UNKNOWN_REF"
      [] r.quant # None /\ IndexOf(r) # None /\ IndexOf(r) \notin indexes -> "E_NO_INDEX"
      [] OTHER -> Resolve(r, IndexOf(r))

\* Canonicalize: a reference without selector and pin takes the configured
\* default_selector, if there is one.
Canonicalize(r, selector) ==
    IF r.quant = None /\ r.pin = None THEN [r EXCEPT !.quant = selector] ELSE r

-----------------------------------------------------------------------------
(* The launch.                                                             *)

Goto(c, where) == pc' = [pc EXCEPT ![c] = where]

\* Mutant of Canonical: a reference without selector goes through.
CanonicalUnselected(c) ==
    /\ pc[c] = "idle"
    /\ \E r \in Refs : ref' = [ref EXCEPT ![c] = r]
    /\ Goto(c, "ensure")
    /\ UNCHANGED <<storeVars, conf, target, advisory, run, obsVars>>

\* canonicalizeWithConfig and Parse: neither file nor reference may be bad.
Canonical(c) ==
    /\ pc[c] = "idle"
    /\ \E r \in Refs :
        LET full == Canonicalize(r, conf[c].selector) IN
        /\ full.quant # None \/ full.pin # None
        /\ ref' = [ref EXCEPT ![c] = full]
        /\ Goto(c, "ensure")
    /\ UNCHANGED <<storeVars, conf, target, advisory, run, obsVars>>

NoSelector(c) ==
    /\ pc[c] = "idle"
    /\ \E r \in Refs : Canonicalize(r, conf[c].selector) = NoRef
    /\ Goto(c, "err")
    /\ UNCHANGED <<storeVars, ref, conf, target, advisory, run, obsVars>>

\* POST /v1/ensure: resolve, then done, failed, or a fill job.
Ensure(c) ==
    /\ pc[c] = "ensure"
    /\ LET m == resolveLocal(ref[c]) IN
       IF m \notin Manifests \/ m \notin blobs
       THEN Goto(c, "err") /\ UNCHANGED <<target, selected>>
       ELSE /\ target' = [target EXCEPT ![c] = m]
            /\ selected' = [selected EXCEPT ![c] = @ \cup {m}]
            /\ Goto(c, IF FilesOf[m] \subseteq blobs THEN "open"
                       ELSE IF SwarmEnabled THEN "fill" ELSE "err")
    /\ UNCHANGED <<storeVars, ref, conf, advisory, run, lost, published, losses>>

\* WaitJob: the fill of the manifest ensured ends, or fails.
FillEnds(c) ==
    /\ pc[c] = "fill"
    /\ \/ blobs' = blobs \cup FilesOf[target[c]] /\ Goto(c, "open")
       \/ Goto(c, "err") /\ UNCHANGED blobs
    /\ UNCHANGED <<index, tags, indexes, ref, conf, target, advisory, run, obsVars>>

\* Mutant of Missing: the files of the manifest are not looked at.
MissingShallow(r, m) == (r.quant # None /\ IndexOf(r) \notin indexes) \/ m \notin blobs

\* What handleOpen lists as missing: index and manifest blob, and the files
\* of a manifest that is there.
Missing(r, m) ==
    \/ r.quant # None /\ IndexOf(r) \notin indexes
    \/ m \notin blobs
    \/ m \in blobs /\ ~(FilesOf[m] \subseteq blobs)

\* GET /v1/open resolves again; anything missing ends the launch.
Open(c) ==
    /\ pc[c] = "open"
    /\ LET m == resolveLocal(ref[c]) IN
       IF m \notin Manifests \/ Missing(ref[c], m)
       THEN Goto(c, "err") /\ UNCHANGED <<target, selected, lost>>
       ELSE /\ target' = [target EXCEPT ![c] = m]
            /\ selected' = [selected EXCEPT ![c] = @ \cup {m}]
            /\ lost' = [lost EXCEPT ![c] = {}]
            /\ Goto(c, "advise")
    /\ UNCHANGED <<storeVars, ref, conf, advisory, run, published, losses>>

\* advisory: the runtime-config blobs, fetched one by one over /v1/blob.
Advise(c) ==
    /\ pc[c] = "advise"
    /\ \/ /\ Config[target[c]] \subseteq blobs
          /\ advisory' = [advisory EXCEPT ![c] = Advisory[target[c]]]
          /\ Goto(c, "spawn")
       \/ Goto(c, "err") /\ UNCHANGED advisory
    /\ UNCHANGED <<storeVars, ref, conf, target, run, obsVars>>

\* pickWeights: mmproj_variant of the merged config, f16 when unset or empty.
Variant(merged) ==
    IF "mmproj_variant" \in DOMAIN merged /\ merged["mmproj_variant"].v # ""
    THEN merged["mmproj_variant"].v ELSE "f16"
PickProjector(m, merged) ==
    IF Variant(merged) \in DOMAIN Projector[m] THEN Projector[m][Variant(merged)] ELSE None

\* AddSet, Merge, pickWeights, linking and Spawn; every one can refuse.
Spawn(c) ==
    /\ pc[c] = "spawn"
    /\ LET user == UserConfigOverlay(conf[c].user)
           file == UserConfigOverlay(conf[c].file)
           sets == SetLayer(conf[c].sets)
           merged == Merged(advisory[c], user, file, sets)
           weights == FilesOf[target[c]] \cap Weights
       IN \/ /\ ~SetsRefused(conf[c].sets)
             /\ ValidLayers(advisory[c], user, file, sets)
             /\ weights # {}
             /\ run' = [run EXCEPT ![c] = [argv |-> Argv(merged), weights |-> weights,
                                           mmproj |-> PickProjector(target[c], merged)]]
             /\ Goto(c, "up")
          \/ Goto(c, "err") /\ UNCHANGED run
    /\ UNCHANGED <<storeVars, ref, conf, target, advisory, obsVars>>

-----------------------------------------------------------------------------
(* What happens to the repository meanwhile.                               *)

\* Launches under way whose reference selects a manifest in the new state.
Observed(idx, ts, ixs) ==
    [c \in Clis |->
        LET r == ref[c]
            d == IF r.tag # None THEN ts[r.tag] ELSE idx
        IN IF pc[c] \in {"ensure", "fill", "open"} /\ r.quant # None /\ d \in ixs
           THEN selected[c] \cup ({Resolve(r, d)} \cap Manifests)
           ELSE selected[c]]

\* UpsertMember of an import's result: the member of this quant is replaced.
UpsertMember(idx, m) ==
    [q \in Quants |-> IF q = QuantOf[m] THEN m ELSE IF idx = None THEN None ELSE idx[q]]

\* An import ends: files, manifest and index are stored, then the namespace
\* moves.  A lost current index refuses the merge (existingMembers).
Publish(m) ==
    /\ published < MaxPublish
    /\ index = None \/ index \in indexes
    /\ LET idx == UpsertMember(index, m) IN
       /\ idx # index
       /\ index' = idx
       /\ indexes' = indexes \cup {idx}
       /\ blobs' = blobs \cup {m} \cup FilesOf[m]
       /\ selected' = Observed(idx, tags, indexes \cup {idx})
    /\ published' = published + 1
    /\ UNCHANGED <<tags, launchVars, lost, losses>>

\* SetTagAlias: the owner tags the current index.
SetTagAlias(t) ==
    /\ index # None /\ tags[t] # index
    /\ tags' = [tags EXCEPT ![t] = index]
    /\ selected' = Observed(index, [tags EXCEPT ![t] = index], indexes)
    /\ UNCHANGED <<index, blobs, indexes, launchVars, lost, published, losses>>

\* A blob is lost behind the store's back.
LoseBlob(b) ==
    /\ losses < MaxLost /\ b \in blobs
    /\ blobs' = blobs \ {b}
    /\ lost' = [c \in Clis |-> lost[c] \cup {b}]
    /\ losses' = losses + 1
    /\ UNCHANGED <<index, tags, indexes, launchVars, selected, published>>

LoseIndex ==
    /\ losses < MaxLost /\ index \in indexes
    /\ indexes' = indexes \ {index}
    /\ losses' = losses + 1
    /\ UNCHANGED <<index, tags, blobs, launchVars, selected, lost, published>>

Quiet ==
    /\ \A c \in Clis : pc[c] \in {"up", "err"}
    /\ UNCHANGED vars

LaunchStep(c) ==
    \/ Canonical(c) \/ NoSelector(c) \/ Ensure(c) \/ FillEnds(c)
    \/ Open(c) \/ Advise(c) \/ Spawn(c)

Next ==
    \/ \E c \in Clis : LaunchStep(c)
    \/ \E m \in Manifests : Publish(m)
    \/ \E t \in Tags : SetTagAlias(t)
    \/ \E b \in Blobs : LoseBlob(b)
    \/ LoseIndex
    \/ Quiet

Spec == Init /\ [][Next]_vars

-----------------------------------------------------------------------------
(* Properties.                                                             *)

\* A runtime that was spawned serves what its reference means, although the
\* index moved under the launch: the manifest it opened is the pinned one if
\* there is a pin, otherwise one the reference selected at a moment of this
\* launch; all its weights are handed over, and every file was there when
\* the artifact was opened (prepare, handleOpen, checkPin).
LaunchServesRef ==
    \A c \in Clis : pc[c] = "up" =>
        LET m == target[c] IN
        /\ ref[c].pin \in {None, m}
        /\ ref[c].quant = None \/ m \in selected[c]
        /\ ref[c].quant = None \/ <<ref[c].quant, QuantOf[m]>> \in Prefix
        /\ run[c].weights # {} /\ run[c].weights = FilesOf[m] \cap Weights
        /\ FilesOf[m] \cup {m} \subseteq blobs \cup lost[c]

\* A reference never silently changes its member: whatever is published, a
\* reference that resolved and now resolves to another manifest does so
\* because a new version of the very same member was published, or because
\* a member with exactly the name typed appeared; another member that
\* matches the prefix makes it an error instead (Resolve, UpsertMember).
RebindExplicit ==
    [][\A r \in Refs : r.tag = None =>
        LET before == resolveLocal(r)  after == resolveLocal(r)' IN
        (before \in Manifests /\ after \in Manifests /\ before # after) =>
            \/ QuantOf[after] = QuantOf[before]
            \/ QuantOf[after] = r.quant]_vars

\* What the runtime is started with: every flag has the value of the highest
\* layer or table that names its key, none of the four layers holds a key or
\* a kind the allowlist does not know even if a higher layer hides it, the
\* artifact contributes machine-neutral keys only, and the projector is one
\* of the artifact's files (UserConfigOverlay, Merge, Argv, pickWeights).
LaunchConfigured ==
    \A c \in Clis : pc[c] = "up" =>
        LET layers == <<advisory[c], conf[c].user.runtime, conf[c].user.model,
                        conf[c].file.runtime, conf[c].file.model,
                        SetLayer(conf[c].sets)>>
            Top(k) == CHOOSE i \in 1..6 :
                        /\ k \in DOMAIN layers[i]
                        /\ \A j \in (i + 1)..6 : k \notin DOMAIN layers[j]
        IN /\ \A a \in run[c].argv :
                /\ \E i \in 1..6 : a[1] \in DOMAIN layers[i]
                /\ layers[Top(a[1])][a[1]] = [kind |-> KindOf[a[1]], v |-> a[2]]
           /\ \A i \in {1, 3, 5, 6} : \A k \in DOMAIN layers[i] :
                k \in DOMAIN KindOf /\ layers[i][k].kind = KindOf[k]
           /\ \A k \in DOMAIN advisory[c] : k \in {"ctx_size", "jinja"}
           /\ run[c].mmproj \in FilesOf[target[c]] \cup {None}

=============================================================================
