------------------------- MODULE LaunchPrepareProofs -------------------------
(***************************************************************************)
(* Proofs about module LaunchPrepare, for any repository, references,      *)
(* configurations and number of launches: what is spawned is what the      *)
(* reference means, started the way the layers say, and a publication      *)
(* never makes a reference change its member silently.                     *)
(***************************************************************************)
EXTENDS LaunchPrepare, FiniteSetTheorems, TLAPS

(* A member of an index is listed under the quant it was imported under.   *)
WellFiled(idx) == \A q \in Quants : idx[q] # None => QuantOf[idx[q]] = q

IndexInv ==
    /\ index # None => WellFiled(index)
    /\ \A t \in Tags : tags[t] # None => WellFiled(tags[t])

(* Manifest m is one that launch c may serve.                              *)
Meant(c, m) ==
    /\ ref[c].pin \in {None, m}
    /\ ref[c].quant = None \/ m \in selected[c]
    /\ ref[c].quant = None \/ <<ref[c].quant, QuantOf[m]>> \in Prefix

(* From the open on, a launch has a manifest its reference means, whose    *)
(* blobs were all there; once advised, its layer 1 is that manifest's.     *)
OpenedInv(c) ==
    pc[c] \in {"advise", "spawn", "up"} =>
        /\ target[c] \in Manifests /\ Meant(c, target[c])
        /\ FilesOf[target[c]] \cup {target[c]} \subseteq blobs \cup lost[c]

AdvisedInv(c) == pc[c] \in {"spawn", "up"} => advisory[c] = Advisory[target[c]]

SpawnedInv(c) ==
    pc[c] = "up" => run[c].weights # {} /\ run[c].weights = FilesOf[target[c]] \cap Weights

(* LaunchConfigured for one runtime r of manifest m, with advisory layer   *)
(* adv and configuration cf.                                               *)
Configured(adv, cf, r, m) ==
    LET layers == <<adv, cf.user.runtime, cf.user.model, cf.file.runtime, cf.file.model,
                    SetLayer(cf.sets)>>
        Top(k) == CHOOSE i \in 1..6 :
                    /\ k \in DOMAIN layers[i]
                    /\ \A j \in (i + 1)..6 : k \notin DOMAIN layers[j]
    IN /\ \A a \in r.argv :
            /\ \E i \in 1..6 : a[1] \in DOMAIN layers[i]
            /\ layers[Top(a[1])][a[1]] = [kind |-> KindOf[a[1]], v |-> a[2]]
       /\ \A i \in {1, 3, 5, 6} : \A k \in DOMAIN layers[i] :
            k \in DOMAIN KindOf /\ layers[i][k].kind = KindOf[k]
       /\ \A k \in DOMAIN adv : k \in {"ctx_size", "jinja"}
       /\ r.mmproj \in FilesOf[m] \cup {None}

ConfiguredInv(c) == pc[c] = "up" => Configured(advisory[c], conf[c], run[c], target[c])

LaunchInv(c) ==
    /\ pc[c] = "fill" => target[c] \in Manifests
    /\ OpenedInv(c) /\ AdvisedInv(c) /\ SpawnedInv(c) /\ ConfiguredInv(c)

IInv ==
    /\ TypeOK /\ IndexInv
    /\ DOMAIN ref = Clis /\ DOMAIN advisory = Clis /\ DOMAIN run = Clis
    /\ conf \in [Clis -> Confs]
    /\ \A c \in Clis : LaunchInv(c)

-----------------------------------------------------------------------------
(* Resolution.                                                             *)

LEMMA ErrorFacts ==
    /\ "E_PIN_MISMATCH" \notin Manifests /\ "E_NO_MEMBER" \notin Manifests
    /\ "E_AMBIGUOUS_SELECTOR" \notin Manifests /\ "E_UNKNOWN_REF" \notin Manifests
    /\ "E_NO_INDEX" \notin Manifests
  BY ArtifactAssumption DEF Errors

(* A result of Resolve is the member of one quant that matches, the exact  *)
(* one if the index has it, else the only one; a pin must agree.           *)
LEMMA ResolveFacts ==
    ASSUME NEW r, NEW idx \in Indexes, Resolve(r, idx) \in Manifests
    PROVE  \E q \in Members(idx) :
             /\ Resolve(r, idx) = idx[q] /\ <<r.quant, q>> \in Prefix /\ r.pin \in {None, idx[q]}
             /\ r.quant \in Members(idx) => q = r.quant
             /\ r.quant \notin Members(idx) =>
                  \A x \in Members(idx) : <<r.quant, x>> \in Prefix => x = q
  <1> DEFINE candidates == {q \in Members(idx) : <<r.quant, q>> \in Prefix}
  <1>1. \A m : checkPin(r, m) \in Manifests => checkPin(r, m) = m /\ r.pin \in {None, m}
    BY ErrorFacts DEF checkPin
  <1>2. CASE r.quant \in Members(idx)
    <2>1. Resolve(r, idx) = checkPin(r, idx[r.quant])
      BY <1>2 DEF Resolve
    <2>2. <<r.quant, r.quant>> \in Prefix
      BY <1>2, PrefixAssumption DEF Members
    <2>3. Resolve(r, idx) = idx[r.quant] /\ r.pin \in {None, idx[r.quant]}
      BY <1>1, <2>1
    <2> QED BY <1>2, <2>2, <2>3
  <1>3. CASE r.quant \notin Members(idx) /\ candidates = {}
    <2>0. Cardinality({}) # 1
      BY FS_EmptySet
    <2>1. Cardinality(candidates) # 1
      BY <1>3, <2>0, Zenon
    <2>2. Resolve(r, idx) = "E_NO_MEMBER"
      BY <1>3, <2>1 DEF Resolve
    <2> QED BY <2>2, ErrorFacts
  <1>4. CASE r.quant \notin Members(idx) /\ candidates # {} /\ Cardinality(candidates) = 1
    <2> DEFINE q == CHOOSE x \in candidates : TRUE
    <2>1. Resolve(r, idx) = checkPin(r, idx[q])
      BY <1>4 DEF Resolve
    <2>2. candidates \subseteq Quants /\ IsFiniteSet(candidates)
      BY PrefixAssumption, FS_Subset DEF Members
    <2>3. PICK x : candidates = {x}
      BY <1>4, <2>2, FS_Singleton
    <2>4. q \in candidates
      BY <1>4
    <2>5. \A y \in candidates : y = q
      BY <2>3, <2>4
    <2> HIDE DEF q
    <2> QED BY <1>1, <1>4, <2>1, <2>4, <2>5
  <1>5. CASE r.quant \notin Members(idx) /\ candidates # {} /\ Cardinality(candidates) # 1
    <2>1. Resolve(r, idx) = "E_AMBIGUOUS_SELECTOR"
      BY <1>5 DEF Resolve
    <2> QED BY <2>1, ErrorFacts
  <1> QED BY <1>2, <1>3, <1>4, <1>5

(* A resolved reference is its pin, or a member of an index in the store.  *)
Resolved(r, idx, ixs, m) ==
    \/ r.quant = None /\ m = r.pin
    \/ r.quant # None /\ idx # None /\ idx \in ixs /\ m = Resolve(r, idx)

LEMMA LocalCases ==
    ASSUME NEW r, NEW idx, NEW ixs, NEW m \in Manifests,
           m = CASE r.quant = None -> r.pin
                 [] r.quant # None /\ idx = None -> "E_UNKNOWN_REF"
                 [] r.quant # None /\ idx # None /\ idx \notin ixs -> "E_NO_INDEX"
                 [] OTHER -> Resolve(r, idx)
    PROVE  Resolved(r, idx, ixs, m)
  <1>1. m # "E_UNKNOWN_REF" /\ m # "E_NO_INDEX"
    BY ErrorFacts
  <1>2. CASE r.quant = None
    BY <1>2 DEF Resolved
  <1>3. CASE r.quant # None /\ idx = None
    BY <1>1, <1>3
  <1>4. CASE r.quant # None /\ idx # None /\ idx \notin ixs
    BY <1>1, <1>4
  <1>5. CASE r.quant # None /\ idx # None /\ idx \in ixs
    BY <1>5 DEF Resolved
  <1> QED BY <1>2, <1>3, <1>4, <1>5

LEMMA LocalFacts ==
    ASSUME NEW r, resolveLocal(r) \in Manifests
    PROVE  Resolved(r, IndexOf(r), indexes, resolveLocal(r))
  BY LocalCases DEF resolveLocal

LEMMA LocalFactsNext ==
    ASSUME NEW r, resolveLocal(r)' \in Manifests
    PROVE  Resolved(r, IndexOf(r)', indexes', resolveLocal(r)')
  BY LocalCases DEF resolveLocal

(* What a launch resolves to agrees with its pin and matches its quant.    *)
LEMMA ResolvedMeant ==
    ASSUME IInv, NEW c \in Clis, resolveLocal(ref[c]) \in Manifests
    PROVE  /\ ref[c].pin \in {None, resolveLocal(ref[c])}
           /\ ref[c].quant = None \/ <<ref[c].quant, QuantOf[resolveLocal(ref[c])]>> \in Prefix
  <1> DEFINE r == ref[c]
             m == resolveLocal(ref[c])
             idx == IndexOf(r)
  <1>1. CASE r.quant = None
    BY <1>1, LocalFacts DEF Resolved
  <1>2. CASE r.quant # None
    <2>1. idx # None /\ idx \in indexes /\ m = Resolve(r, idx)
      BY <1>2, LocalFacts DEF Resolved
    <2>2. idx \in Indexes /\ WellFiled(idx)
      <3>1. indexes \subseteq Indexes /\ r.tag \in Tags \cup {None}
        BY DEF IInv, TypeOK
      <3> QED BY <2>1, <3>1 DEF IndexOf, IInv, IndexInv
    <2> HIDE DEF r, idx
    <2>3. PICK q \in Members(idx) : m = idx[q] /\ <<r.quant, q>> \in Prefix /\ r.pin \in {None, idx[q]}
      BY <2>1, <2>2, ResolveFacts
    <2>4. QuantOf[m] = q
      BY <2>2, <2>3 DEF WellFiled, Members
    <2> QED BY <2>3, <2>4 DEF r
  <1> QED BY <1>1, <1>2

(* A publication files its member well and keeps every other one.          *)
LEMMA UpsertFacts ==
    ASSUME NEW m \in Manifests, NEW idx \in Indexes \cup {None}, idx # None => WellFiled(idx)
    PROVE  /\ UpsertMember(idx, m) \in Indexes /\ WellFiled(UpsertMember(idx, m))
           /\ idx # None => Members(idx) \subseteq Members(UpsertMember(idx, m))
  <1>1. QuantOf[m] \in Quants /\ None \notin Manifests
    BY ArtifactAssumption
  <1>2. UpsertMember(idx, m) \in Indexes
    BY <1>1 DEF UpsertMember, Indexes
  <1>3. WellFiled(UpsertMember(idx, m))
    BY <1>1 DEF UpsertMember, Indexes, WellFiled
  <1>4. idx # None => Members(idx) \subseteq Members(UpsertMember(idx, m))
    BY <1>1 DEF UpsertMember, Indexes, Members
  <1> QED BY <1>2, <1>3, <1>4

-----------------------------------------------------------------------------
(* The configuration.                                                      *)

(* Merged takes each key from the last of the six tables that has it.      *)
LEMMA TopWins ==
    ASSUME NEW a, NEW u1, NEW u2, NEW f1, NEW f2, NEW s,
           NEW k \in DOMAIN Merged(a, Over(u2, u1), Over(f2, f1), s)
    PROVE  LET layers == <<a, u1, u2, f1, f2, s>> IN
           /\ \E i \in 1..6 : k \in DOMAIN layers[i] /\ \A j \in (i + 1)..6 : k \notin DOMAIN layers[j]
           /\ \A i \in 1..6 :
                (k \in DOMAIN layers[i] /\ \A j \in (i + 1)..6 : k \notin DOMAIN layers[j]) =>
                    layers[i][k] = Merged(a, Over(u2, u1), Over(f2, f1), s)[k]
  <1> DEFINE layers == <<a, u1, u2, f1, f2, s>>
             merged == Merged(a, Over(u2, u1), Over(f2, f1), s)
             At(i) == k \in DOMAIN layers[i] /\ \A j \in (i + 1)..6 : k \notin DOMAIN layers[j]
  <1>1. /\ layers[1] = a /\ layers[2] = u1 /\ layers[3] = u2 /\ layers[4] = f1 /\ layers[5] = f2
        /\ layers[6] = s
    OBVIOUS
  <1>2. /\ k \in DOMAIN s \cup DOMAIN f2 \cup DOMAIN f1 \cup DOMAIN u2 \cup DOMAIN u1 \cup DOMAIN a
        /\ merged[k] = IF k \in DOMAIN s THEN s[k] ELSE IF k \in DOMAIN f2 THEN f2[k]
                       ELSE IF k \in DOMAIN f1 THEN f1[k] ELSE IF k \in DOMAIN u2 THEN u2[k]
                       ELSE IF k \in DOMAIN u1 THEN u1[k] ELSE a[k]
    BY DEF Merged, Over
  <1> HIDE DEF layers, merged
  <1>3. \A i \in 1..6 : i \in {1, 2, 3, 4, 5, 6}
    OBVIOUS
  <1>4. \E i \in 1..6 : At(i)
    <2>1. CASE k \in DOMAIN s
      BY <1>1, <2>1
    <2>2. CASE k \in DOMAIN f2 /\ k \notin DOMAIN s
      BY <1>1, <2>2
    <2>3. CASE k \in DOMAIN f1 /\ k \notin DOMAIN f2 \cup DOMAIN s
      BY <1>1, <2>3
    <2>4. CASE k \in DOMAIN u2 /\ k \notin DOMAIN f1 \cup DOMAIN f2 \cup DOMAIN s
      BY <1>1, <2>4
    <2>5. CASE k \in DOMAIN u1 /\ k \notin DOMAIN u2 \cup DOMAIN f1 \cup DOMAIN f2 \cup DOMAIN s
      BY <1>1, <2>5
    <2>6. CASE k \in DOMAIN a
               /\ k \notin DOMAIN u1 \cup DOMAIN u2 \cup DOMAIN f1 \cup DOMAIN f2 \cup DOMAIN s
      BY <1>1, <2>6
    <2> QED BY <1>2, <2>1, <2>2, <2>3, <2>4, <2>5, <2>6
  <1>5. ASSUME NEW i \in 1..6, At(i) PROVE layers[i][k] = merged[k]
    <2>1. \A j \in 2..6 : i < j => k \notin DOMAIN layers[j]
      BY <1>5
    <2> QED BY <1>1, <1>2, <1>3, <1>5, <2>1
  <1> QED BY <1>4, <1>5 DEF layers, merged

(* A runtime started from valid layers is configured as they say.          *)
LEMMA SpawnConfigured ==
    ASSUME NEW adv, NEW cf, NEW m \in Manifests, NEW r,
           IsLayer(adv), IsLayer(cf.user.runtime), IsLayer(cf.user.model),
           IsLayer(cf.file.runtime), IsLayer(cf.file.model),
           ValidLayers(adv, UserConfigOverlay(cf.user), UserConfigOverlay(cf.file), SetLayer(cf.sets)),
           r.argv = Argv(Merged(adv, UserConfigOverlay(cf.user), UserConfigOverlay(cf.file),
                                SetLayer(cf.sets))),
           r.mmproj \in FilesOf[m] \cup {None}
    PROVE  Configured(adv, cf, r, m)
  <1> DEFINE u1 == cf.user.runtime
             u2 == cf.user.model
             f1 == cf.file.runtime
             f2 == cf.file.model
             s == SetLayer(cf.sets)
             layers == <<adv, u1, u2, f1, f2, s>>
             merged == Merged(adv, Over(u2, u1), Over(f2, f1), s)
             Top(k) == CHOOSE i \in 1..6 :
                         k \in DOMAIN layers[i] /\ \A j \in (i + 1)..6 : k \notin DOMAIN layers[j]
  <1>0. /\ r.argv = Argv(merged)
        /\ DOMAIN adv \subseteq Neutral
        /\ ValidLayer(adv) /\ ValidLayer(Over(u2, u1)) /\ ValidLayer(Over(f2, f1)) /\ ValidLayer(s)
    BY DEF UserConfigOverlay, ValidLayers
  <1>1. IsLayer(s)
    BY DEF IsLayer, SetLayer
  <1> HIDE DEF u1, u2, f1, f2, s
  <1>2. /\ IsLayer(Over(u2, u1)) /\ IsLayer(Over(f2, f1))
    BY DEF IsLayer, Over, u1, u2, f1, f2
  <1>3. \A k \in DOMAIN merged : merged[k] = [kind |-> KindOf[k], v |-> merged[k].v]
    <2>1. ASSUME NEW k \in DOMAIN merged
          PROVE  \/ k \in DOMAIN s /\ merged[k] = s[k]
                 \/ k \in DOMAIN Over(f2, f1) /\ merged[k] = Over(f2, f1)[k]
                 \/ k \in DOMAIN Over(u2, u1) /\ merged[k] = Over(u2, u1)[k]
                 \/ k \in DOMAIN adv /\ merged[k] = adv[k]
      <3> DEFINE f == Over(f2, f1)
                 u == Over(u2, u1)
      <3> HIDE DEF f, u
      <3>1. ASSUME NEW x \in DOMAIN Merged(adv, u, f, s)
            PROVE  \/ x \in DOMAIN s /\ Merged(adv, u, f, s)[x] = s[x]
                   \/ x \in DOMAIN f /\ Merged(adv, u, f, s)[x] = f[x]
                   \/ x \in DOMAIN u /\ Merged(adv, u, f, s)[x] = u[x]
                   \/ x \in DOMAIN adv /\ Merged(adv, u, f, s)[x] = adv[x]
        BY DEF Merged, Over
      <3> QED BY <2>1, <3>1 DEF f, u
    <2>2. ASSUME NEW layer, IsLayer(layer), ValidLayer(layer), NEW k \in DOMAIN layer
          PROVE  layer[k] = [kind |-> KindOf[k], v |-> layer[k].v]
      BY <2>2 DEF IsLayer, ValidLayer
    <2> HIDE DEF merged
    <2> QED BY <1>0, <1>1, <1>2, <2>1, <2>2
  <1>4. ASSUME NEW x \in r.argv
        PROVE  /\ \E i \in 1..6 : x[1] \in DOMAIN layers[i]
               /\ layers[Top(x[1])][x[1]] = [kind |-> KindOf[x[1]], v |-> x[2]]
    <2>1. PICK k \in DOMAIN merged : x = <<k, merged[k].v>>
      BY <1>0, <1>4 DEF Argv
    <2>2. x[1] = k /\ x[2] = merged[k].v
      BY <2>1
    <2>3. /\ \E i \in 1..6 : k \in DOMAIN layers[i] /\ \A j \in (i + 1)..6 : k \notin DOMAIN layers[j]
          /\ \A i \in 1..6 :
                (k \in DOMAIN layers[i] /\ \A j \in (i + 1)..6 : k \notin DOMAIN layers[j]) =>
                    layers[i][k] = merged[k]
      BY TopWins
    <2> HIDE DEF layers, merged
    <2>4. layers[Top(k)][k] = merged[k]
      BY <2>3
    <2> HIDE DEF Top
    <2> QED BY <1>3, <2>2, <2>3, <2>4
  <1>5. ASSUME NEW i \in {1, 3, 5, 6}, NEW k \in DOMAIN layers[i]
        PROVE  k \in DOMAIN KindOf /\ layers[i][k].kind = KindOf[k]
    <2>1. layers[1] = adv /\ layers[3] = u2 /\ layers[5] = f2 /\ layers[6] = s
      OBVIOUS
    <2>2. /\ \A x \in DOMAIN u2 : x \in DOMAIN Over(u2, u1) /\ Over(u2, u1)[x] = u2[x]
          /\ \A x \in DOMAIN f2 : x \in DOMAIN Over(f2, f1) /\ Over(f2, f1)[x] = f2[x]
      BY DEF Over
    <2>3. ValidLayer(u2) /\ ValidLayer(f2)
      BY <1>0, <2>2 DEF ValidLayer
    <2> HIDE DEF layers
    <2> QED BY <1>0, <1>5, <2>1, <2>3 DEF ValidLayer
  <1>6. \A k \in DOMAIN adv : k \in {"ctx_size", "jinja"}
    BY <1>0 DEF Neutral
  <1> QED BY <1>4, <1>5, <1>6 DEF Configured, u1, u2, f1, f2, s

-----------------------------------------------------------------------------
(* The steps.                                                              *)

(* A launch that stands still keeps its invariant while manifests it       *)
(* selects are added and losses are recorded.                              *)
LEMMA OtherLaunch ==
    ASSUME NEW c \in Clis, LaunchInv(c),
           pc'[c] = pc[c], ref'[c] = ref[c], conf'[c] = conf[c], target'[c] = target[c],
           advisory'[c] = advisory[c], run'[c] = run[c], selected[c] \subseteq selected'[c],
           blobs \cup lost[c] \subseteq blobs' \cup lost'[c]
    PROVE  LaunchInv(c)'
  <1>1. OpenedInv(c)'
    BY DEF LaunchInv, OpenedInv, Meant
  <1>2. AdvisedInv(c)' /\ SpawnedInv(c)' /\ ConfiguredInv(c)'
    BY DEF LaunchInv, AdvisedInv, SpawnedInv, ConfiguredInv
  <1> QED BY <1>1, <1>2 DEF LaunchInv

(* Launches are independent of one another.                                *)
LEMMA OneLaunch ==
    ASSUME IInv, NEW c \in Clis, TypeOK', LaunchInv(c)', UNCHANGED <<index, tags, conf>>,
           DOMAIN ref' = Clis, DOMAIN advisory' = Clis, DOMAIN run' = Clis,
           blobs \subseteq blobs',
           \A h \in Clis \ {c} : /\ pc'[h] = pc[h] /\ ref'[h] = ref[h] /\ target'[h] = target[h]
                                 /\ advisory'[h] = advisory[h] /\ run'[h] = run[h]
                                 /\ selected'[h] = selected[h] /\ lost'[h] = lost[h]
    PROVE  IInv'
  <1>1. ASSUME NEW h \in Clis \ {c} PROVE LaunchInv(h)'
    <2>1. LaunchInv(h) /\ blobs \cup lost[h] \subseteq blobs' \cup lost'[h]
      BY DEF IInv
    <2> QED BY <2>1, OtherLaunch
  <1>2. IndexInv'
    BY DEF IInv, IndexInv
  <1> QED BY <1>1, <1>2 DEF IInv

LEMMA EarlyLaunch ==
    ASSUME NEW c \in Clis, pc'[c] \in {"idle", "ensure", "open", "err"} PROVE LaunchInv(c)'
  BY DEF LaunchInv, OpenedInv, AdvisedInv, SpawnedInv, ConfiguredInv

LEMMA InitIInv == Init => IInv
  <1> SUFFICES ASSUME Init PROVE IInv OBVIOUS
  <1>1. TypeOK
    <2>1. NoRef \in [quant : Quants \cup {None}, tag : Tags \cup {None}, pin : Manifests \cup {None}]
      BY DEF NoRef
    <2> QED BY <2>1, BoundsAssumption DEF Init, TypeOK, Blobs, Indexes
  <1>2. IndexInv /\ \A c \in Clis : LaunchInv(c)
    BY DEF Init, IndexInv, LaunchInv, OpenedInv, AdvisedInv, SpawnedInv, ConfiguredInv
  <1> QED BY <1>1, <1>2 DEF Init, IInv

LEMMA CanonicalStep ==
    ASSUME IInv, NEW c \in Clis, Canonical(c) \/ NoSelector(c) PROVE IInv'
  <1> DEFINE RefType == [quant : Quants \cup {None}, tag : Tags \cup {None}, pin : Manifests \cup {None}]
  <1>1. CASE Canonical(c)
    <2>1. PICK r \in Refs : LET full == Canonicalize(r, conf[c].selector) IN
            /\ full.quant # None \/ full.pin # None
            /\ ref' = [ref EXCEPT ![c] = full]
      BY <1>1 DEF Canonical
    <2> DEFINE full == Canonicalize(r, conf[c].selector)
    <2>2. full \in RefType
      <3>1. r \in RefType /\ conf[c].selector \in Quants \cup {None}
        BY InputAssumption DEF IInv
      <3> QED BY <3>1 DEF Canonicalize
    <2>3. /\ pc[c] = "idle" /\ pc' = [pc EXCEPT ![c] = "ensure"] /\ ref' = [ref EXCEPT ![c] = full]
          /\ full.quant # None \/ full.pin # None
          /\ UNCHANGED <<index, tags, blobs, indexes, conf, target, advisory, run, selected, lost,
                         published, losses>>
      BY <1>1, <2>1 DEF Canonical, Goto, storeVars, obsVars
    <2> HIDE DEF full
    <2>4. TypeOK'
      BY <2>2, <2>3 DEF IInv, TypeOK
    <2>5. /\ pc'[c] = "ensure"
          /\ \A h \in Clis \ {c} : pc'[h] = pc[h] /\ ref'[h] = ref[h]
      BY <2>3 DEF IInv, TypeOK
    <2> QED BY <2>3, <2>4, <2>5, EarlyLaunch, OneLaunch DEF IInv
  <1>2. CASE NoSelector(c)
    <2>1. /\ pc[c] = "idle" /\ pc' = [pc EXCEPT ![c] = "err"]
          /\ UNCHANGED <<index, tags, blobs, indexes, ref, conf, target, advisory, run, selected, lost,
                         published, losses>>
      BY <1>2 DEF NoSelector, Goto, storeVars, obsVars
    <2>2. TypeOK'
      BY <2>1 DEF IInv, TypeOK
    <2>3. pc'[c] = "err" /\ \A h \in Clis \ {c} : pc'[h] = pc[h]
      BY <2>1 DEF IInv, TypeOK
    <2> QED BY <2>1, <2>2, <2>3, EarlyLaunch, OneLaunch DEF IInv
  <1> QED BY <1>1, <1>2

(* A launch under way that fails.                                          *)
LEMMA FailStep ==
    ASSUME IInv, NEW c \in Clis, Goto(c, "err"), pc[c] # "up",
           UNCHANGED <<storeVars, ref, conf, target, advisory, run, obsVars>>
    PROVE  IInv'
  <1>1. TypeOK'
    BY DEF IInv, TypeOK, Goto, storeVars, obsVars
  <1>2. pc'[c] = "err" /\ \A h \in Clis \ {c} : pc'[h] = pc[h]
    BY DEF IInv, TypeOK, Goto
  <1> QED BY <1>1, <1>2, EarlyLaunch, OneLaunch DEF IInv, storeVars, obsVars

LEMMA EnsureStep ==
    ASSUME IInv, NEW c \in Clis, Ensure(c) PROVE IInv'
  <1> DEFINE m == resolveLocal(ref[c])
  <1>1. CASE m \notin Manifests \/ m \notin blobs
    BY <1>1, FailStep DEF Ensure, obsVars
  <1>2. CASE m \in Manifests /\ m \in blobs
    <2>1. PICK where \in {"open", "fill", "err"} :
            /\ pc[c] = "ensure" /\ pc' = [pc EXCEPT ![c] = where]
            /\ target' = [target EXCEPT ![c] = m] /\ selected' = [selected EXCEPT ![c] = @ \cup {m}]
            /\ UNCHANGED <<index, tags, blobs, indexes, ref, conf, advisory, run, lost, published, losses>>
      BY <1>2 DEF Ensure, Goto, storeVars
    <2> HIDE DEF m
    <2>2. TypeOK'
      BY <1>2, <2>1 DEF IInv, TypeOK
    <2>3. /\ pc'[c] = where /\ target'[c] = m
          /\ \A h \in Clis \ {c} : /\ pc'[h] = pc[h] /\ target'[h] = target[h]
                                   /\ selected'[h] = selected[h]
      BY <2>1 DEF IInv, TypeOK
    <2>4. LaunchInv(c)'
      BY <1>2, <2>3 DEF LaunchInv, OpenedInv, AdvisedInv, SpawnedInv, ConfiguredInv
    <2> QED BY <2>1, <2>2, <2>3, <2>4, OneLaunch DEF IInv
  <1> QED BY <1>1, <1>2

LEMMA FillStep ==
    ASSUME IInv, NEW c \in Clis, FillEnds(c) PROVE IInv'
  <1>1. CASE Goto(c, "err") /\ UNCHANGED blobs
    BY <1>1, FailStep DEF FillEnds, storeVars
  <1>2. CASE blobs' = blobs \cup FilesOf[target[c]] /\ Goto(c, "open")
    <2>1. /\ pc[c] = "fill" /\ pc' = [pc EXCEPT ![c] = "open"]
          /\ UNCHANGED <<index, tags, indexes, ref, conf, target, advisory, run, selected, lost,
                         published, losses>>
      BY <1>2 DEF FillEnds, Goto, obsVars
    <2>2. FilesOf[target[c]] \subseteq Files
      BY <2>1, ArtifactAssumption DEF IInv, LaunchInv
    <2>3. TypeOK'
      BY <1>2, <2>1, <2>2 DEF IInv, TypeOK, Blobs
    <2>4. pc'[c] = "open" /\ \A h \in Clis \ {c} : pc'[h] = pc[h]
      BY <2>1 DEF IInv, TypeOK
    <2> QED BY <1>2, <2>1, <2>3, <2>4, EarlyLaunch, OneLaunch DEF IInv
  <1> QED BY <1>1, <1>2 DEF FillEnds

(* The second resolution is what the launch goes by.                       *)
LEMMA OpenStep ==
    ASSUME IInv, NEW c \in Clis, Open(c) PROVE IInv'
  <1> DEFINE m == resolveLocal(ref[c])
  <1>1. CASE m \notin Manifests \/ Missing(ref[c], m)
    BY <1>1, FailStep DEF Open, obsVars
  <1>2. CASE m \in Manifests /\ ~Missing(ref[c], m)
    <2>1. /\ pc[c] = "open" /\ pc' = [pc EXCEPT ![c] = "advise"]
          /\ target' = [target EXCEPT ![c] = m] /\ selected' = [selected EXCEPT ![c] = @ \cup {m}]
          /\ lost' = [lost EXCEPT ![c] = {}]
          /\ UNCHANGED <<index, tags, blobs, indexes, ref, conf, advisory, run, published, losses>>
      BY <1>2 DEF Open, Goto, storeVars
    <2>2. FilesOf[m] \cup {m} \subseteq blobs
      BY <1>2 DEF Missing
    <2>3. /\ ref[c].pin \in {None, m}
          /\ ref[c].quant = None \/ <<ref[c].quant, QuantOf[m]>> \in Prefix
      BY <1>2, ResolvedMeant
    <2> HIDE DEF m
    <2>4. TypeOK'
      BY <1>2, <2>1 DEF IInv, TypeOK
    <2>5. /\ pc'[c] = "advise" /\ target'[c] = m /\ m \in selected'[c]
          /\ \A h \in Clis \ {c} : /\ pc'[h] = pc[h] /\ target'[h] = target[h] /\ lost'[h] = lost[h]
                                   /\ selected'[h] = selected[h]
      BY <2>1 DEF IInv, TypeOK
    <2>6. LaunchInv(c)'
      BY <1>2, <2>1, <2>2, <2>3, <2>5
         DEF LaunchInv, OpenedInv, Meant, AdvisedInv, SpawnedInv, ConfiguredInv
    <2> QED BY <2>1, <2>4, <2>5, <2>6, OneLaunch DEF IInv
  <1> QED BY <1>1, <1>2

LEMMA AdviseStep ==
    ASSUME IInv, NEW c \in Clis, Advise(c) PROVE IInv'
  <1>1. CASE Goto(c, "err") /\ UNCHANGED advisory
    BY <1>1, FailStep DEF Advise
  <1>2. CASE advisory' = [advisory EXCEPT ![c] = Advisory[target[c]]] /\ Goto(c, "spawn")
    <2>1. /\ pc[c] = "advise" /\ pc' = [pc EXCEPT ![c] = "spawn"]
          /\ UNCHANGED <<index, tags, blobs, indexes, ref, conf, target, run, selected, lost,
                         published, losses>>
      BY <1>2 DEF Advise, Goto, storeVars, obsVars
    <2>2. TypeOK'
      BY <2>1 DEF IInv, TypeOK
    <2>3. /\ pc'[c] = "spawn" /\ advisory'[c] = Advisory[target[c]] /\ DOMAIN advisory' = Clis
          /\ \A h \in Clis \ {c} : pc'[h] = pc[h] /\ advisory'[h] = advisory[h]
      BY <1>2, <2>1 DEF IInv, TypeOK
    <2>4. LaunchInv(c)'
      <3>1. OpenedInv(c) /\ pc[c] = "advise"
        BY <2>1 DEF IInv, LaunchInv
      <3> QED BY <2>1, <2>3, <3>1
            DEF LaunchInv, OpenedInv, Meant, AdvisedInv, SpawnedInv, ConfiguredInv
    <2> QED BY <2>1, <2>2, <2>3, <2>4, OneLaunch DEF IInv
  <1> QED BY <1>1, <1>2 DEF Advise

LEMMA SpawnStep ==
    ASSUME IInv, NEW c \in Clis, Spawn(c) PROVE IInv'
  <1> DEFINE user == UserConfigOverlay(conf[c].user)
             file == UserConfigOverlay(conf[c].file)
             sets == SetLayer(conf[c].sets)
             merged == Merged(advisory[c], user, file, sets)
             weights == FilesOf[target[c]] \cap Weights
             mmproj == PickProjector(target[c], merged)
             rt == [argv |-> Argv(merged), weights |-> weights, mmproj |-> mmproj]
  <1>1. CASE Goto(c, "err") /\ UNCHANGED run
    BY <1>1, FailStep DEF Spawn
  <1>2. CASE /\ ValidLayers(advisory[c], user, file, sets) /\ weights # {}
             /\ run' = [run EXCEPT ![c] = rt] /\ Goto(c, "up")
    <2>1. /\ pc[c] = "spawn" /\ pc' = [pc EXCEPT ![c] = "up"]
          /\ UNCHANGED <<index, tags, blobs, indexes, ref, conf, target, advisory, selected, lost,
                         published, losses>>
      BY <1>2 DEF Spawn, Goto, storeVars, obsVars
    <2>2. /\ target[c] \in Manifests /\ advisory[c] = Advisory[target[c]] /\ OpenedInv(c)
          /\ AdvisedInv(c) /\ conf[c] \in Confs
      BY <2>1 DEF IInv, LaunchInv, OpenedInv, AdvisedInv
    <2>3. mmproj \in FilesOf[target[c]] \cup {None}
      BY <2>2, ArtifactAssumption DEF PickProjector
    <2>4. /\ rt.argv = Argv(merged) /\ rt.weights = weights /\ rt.mmproj = mmproj
      OBVIOUS
    <2>5. /\ IsLayer(advisory[c]) /\ IsLayer(conf[c].user.runtime) /\ IsLayer(conf[c].user.model)
          /\ IsLayer(conf[c].file.runtime) /\ IsLayer(conf[c].file.model)
      BY <2>2, ArtifactAssumption, InputAssumption
    <2> HIDE DEF rt, mmproj
    <2>6. Configured(advisory[c], conf[c], rt, target[c])
      BY <1>2, <2>2, <2>3, <2>4, <2>5, SpawnConfigured
    <2> HIDE DEF merged, weights
    <2>7. /\ pc'[c] = "up" /\ run'[c] = rt /\ DOMAIN run' = Clis
          /\ \A h \in Clis \ {c} : pc'[h] = pc[h] /\ run'[h] = run[h]
      BY <1>2, <2>1 DEF IInv, TypeOK
    <2>8. TypeOK'
      BY <2>1, <2>7 DEF IInv, TypeOK
    <2>9. LaunchInv(c)'
      <3>1. OpenedInv(c)' /\ AdvisedInv(c)'
        BY <2>1, <2>2, <2>7 DEF OpenedInv, Meant, AdvisedInv
      <3>2. SpawnedInv(c)'
        BY <1>2, <2>1, <2>4, <2>7 DEF SpawnedInv, weights
      <3>3. ConfiguredInv(c)'
        BY <2>1, <2>6, <2>7 DEF ConfiguredInv
      <3> QED BY <2>7, <3>1, <3>2, <3>3 DEF LaunchInv
    <2> QED BY <2>1, <2>7, <2>8, <2>9, OneLaunch DEF IInv
  <1> QED BY <1>1, <1>2 DEF Spawn

(* What the repository does to the launches: selections are only added.    *)
LEMMA ObservedFacts ==
    ASSUME IInv, NEW idx, NEW ts, NEW ixs, selected' = Observed(idx, ts, ixs)
    PROVE  selected' \in [Clis -> SUBSET Manifests] /\ \A c \in Clis : selected[c] \subseteq selected'[c]
  BY DEF Observed, IInv, TypeOK

LEMMA RepositoryStep ==
    ASSUME IInv, TypeOK', IndexInv', UNCHANGED launchVars,
           \A c \in Clis : /\ selected[c] \subseteq selected'[c]
                           /\ blobs \cup lost[c] \subseteq blobs' \cup lost'[c]
    PROVE  IInv'
  <1>1. \A c \in Clis : LaunchInv(c)'
    BY OtherLaunch DEF IInv, launchVars
  <1> QED BY <1>1 DEF IInv, launchVars

LEMMA PublishStep ==
    ASSUME IInv, NEW m \in Manifests, Publish(m) PROVE IInv'
  <1> DEFINE idx == UpsertMember(index, m)
  <1>1. idx \in Indexes /\ WellFiled(idx)
    BY UpsertFacts DEF IInv, TypeOK, IndexInv
  <1> HIDE DEF idx
  <1>2. /\ index' = idx /\ indexes' = indexes \cup {idx} /\ blobs' = blobs \cup {m} \cup FilesOf[m]
        /\ selected' = Observed(idx, tags, indexes \cup {idx}) /\ published' = published + 1
        /\ published < MaxPublish /\ UNCHANGED <<tags, launchVars, lost, losses>>
    BY DEF Publish, idx
  <1>3. selected' \in [Clis -> SUBSET Manifests] /\ \A c \in Clis : selected[c] \subseteq selected'[c]
    BY <1>2, ObservedFacts
  <1>4. FilesOf[m] \subseteq Files /\ published' \in 0..MaxPublish
    BY <1>2, ArtifactAssumption, BoundsAssumption DEF IInv, TypeOK
  <1>5. TypeOK'
    BY <1>1, <1>2, <1>3, <1>4 DEF IInv, TypeOK, Blobs, launchVars
  <1>6. IndexInv'
    BY <1>1, <1>2 DEF IInv, IndexInv
  <1> QED BY <1>2, <1>3, <1>5, <1>6, RepositoryStep

LEMMA TagStep ==
    ASSUME IInv, NEW t \in Tags, SetTagAlias(t) PROVE IInv'
  <1>1. /\ index # None /\ tags' = [tags EXCEPT ![t] = index]
        /\ UNCHANGED <<index, blobs, indexes, launchVars, lost, published, losses>>
    BY DEF SetTagAlias
  <1>2. selected' \in [Clis -> SUBSET Manifests] /\ \A c \in Clis : selected[c] \subseteq selected'[c]
    <2> DEFINE ts == [tags EXCEPT ![t] = index]
    <2>1. selected' = Observed(index, ts, indexes)
      BY DEF SetTagAlias
    <2> HIDE DEF ts
    <2> QED BY <2>1, ObservedFacts
  <1>3. TypeOK'
    BY <1>1, <1>2 DEF IInv, TypeOK, launchVars
  <1>4. IndexInv'
    BY <1>1 DEF IInv, IndexInv, TypeOK
  <1> QED BY <1>1, <1>2, <1>3, <1>4, RepositoryStep

LEMMA LossStep ==
    ASSUME IInv, LoseIndex \/ \E b \in Blobs : LoseBlob(b) PROVE IInv'
  <1>1. losses' \in 0..MaxLost
    BY BoundsAssumption DEF LoseIndex, LoseBlob, IInv, TypeOK
  <1>2. CASE LoseIndex
    <2>1. TypeOK'
      BY <1>1, <1>2 DEF LoseIndex, IInv, TypeOK, launchVars
    <2>2. IndexInv'
      BY <1>2 DEF LoseIndex, IInv, IndexInv
    <2> QED BY <1>2, <2>1, <2>2, RepositoryStep DEF LoseIndex
  <1>3. ASSUME NEW b \in Blobs, LoseBlob(b) PROVE IInv'
    <2>1. TypeOK'
      BY <1>1, <1>3 DEF LoseBlob, IInv, TypeOK, launchVars
    <2>2. IndexInv'
      BY <1>3 DEF LoseBlob, IInv, IndexInv
    <2>3. \A c \in Clis : blobs \cup lost[c] \subseteq blobs' \cup lost'[c]
      BY <1>3 DEF LoseBlob
    <2> QED BY <1>3, <2>1, <2>2, <2>3, RepositoryStep DEF LoseBlob
  <1> QED BY <1>2, <1>3

LEMMA Stutter == IInv /\ UNCHANGED vars => IInv'
  <1> SUFFICES ASSUME IInv, UNCHANGED vars PROVE IInv' OBVIOUS
  <1>1. TypeOK' /\ IndexInv'
    BY DEF IInv, TypeOK, IndexInv, vars, storeVars, launchVars, obsVars
  <1> QED BY <1>1, RepositoryStep DEF vars, storeVars, obsVars

LEMMA Inductive == IInv /\ [Next]_vars => IInv'
  BY CanonicalStep, EnsureStep, FillStep, OpenStep, AdviseStep, SpawnStep, PublishStep, TagStep,
     LossStep, Stutter DEF Next, LaunchStep, Quiet

-----------------------------------------------------------------------------
(* The inductive invariant holds in every reachable state.                 *)
THEOREM Invariance == Spec => []IInv
  BY InitIInv, Inductive, PTL DEF Spec

(* Every launch under way has a selector or a pin, and nothing is running  *)
(* before the spawn (canonicalizeWithConfig, Parse, prepare).              *)
THEOREM TypeCorrect == Spec => []TypeOK
  <1>1. IInv => TypeOK
    BY DEF IInv
  <1> QED BY <1>1, Invariance, PTL

(* Whatever is published or tagged during a launch, the runtime it spawns  *)
(* serves its pin, or a member its reference selected while it ran, with   *)
(* all of its weights (prepare, handleEnsure, handleOpen).                 *)
THEOREM LaunchesServeRef == Spec => []LaunchServesRef
  <1>1. IInv => LaunchServesRef
    BY DEF IInv, LaunchInv, OpenedInv, Meant, SpawnedInv, LaunchServesRef
  <1> QED BY <1>1, Invariance, PTL

(* For any four layers, each flag has the value of the highest table that  *)
(* names its key, and no unknown key or wrong kind gets through (Merge,    *)
(* UserConfigOverlay, AddSet, Argv, pickWeights).                          *)
THEOREM LaunchesConfigured == Spec => []LaunchConfigured
  <1>1. IInv => LaunchConfigured
    BY DEF IInv, LaunchInv, ConfiguredInv, Configured, LaunchConfigured
  <1> QED BY <1>1, Invariance, PTL

(* A step rebinds a reference only to a new version of the same member or  *)
(* to a member of exactly the name typed: a new member that only shares    *)
(* the prefix makes the reference an error (Resolve, UpsertMember).        *)
THEOREM RebindsAreExplicit == Spec => RebindExplicit
  <1> DEFINE Rebind(r) == LET before == resolveLocal(r)  after == resolveLocal(r)' IN
               (before \in Manifests /\ after \in Manifests /\ before # after) =>
                 QuantOf[after] = QuantOf[before] \/ QuantOf[after] = r.quant
  <1>1. ASSUME IInv, IInv', [Next]_vars, NEW r \in Refs, r.tag = None PROVE Rebind(r)
    <2> DEFINE before == resolveLocal(r)
               after == resolveLocal(r)'
    <2> SUFFICES ASSUME before \in Manifests, after \in Manifests, before # after
                 PROVE  QuantOf[after] = QuantOf[before] \/ QuantOf[after] = r.quant
      OBVIOUS
    <2>1. Resolved(r, index, indexes, before) /\ Resolved(r, index', indexes', after)
      <3>1. IndexOf(r) = index /\ IndexOf(r)' = index'
        BY <1>1 DEF IndexOf
      <3> QED BY <3>1, LocalFacts, LocalFactsNext
    <2> HIDE DEF before, after
    <2>2. /\ index \in Indexes /\ index # None /\ before = Resolve(r, index) /\ WellFiled(index)
          /\ index' \in Indexes /\ after = Resolve(r, index') /\ WellFiled(index')
      BY <1>1, <2>1 DEF Resolved, IInv, IndexInv, TypeOK
    <2>3. PICK m \in Manifests : index' = UpsertMember(index, m)
      <3>1. index' # index
        BY <2>2
      <3> QED BY <1>1, <3>1
            DEF Next, LaunchStep, Canonical, NoSelector, Ensure, FillEnds, Open, Advise, Spawn, Publish,
                SetTagAlias, LoseBlob, LoseIndex, Quiet, storeVars, vars
    <2>4. Members(index) \subseteq Members(index')
      BY <2>2, <2>3, UpsertFacts
    <2>5. PICK p \in Members(index) :
            /\ before = index[p] /\ <<r.quant, p>> \in Prefix
            /\ r.quant \in Members(index) => p = r.quant
      BY <2>2, ResolveFacts
    <2>6. PICK q \in Members(index') :
            /\ after = index'[q]
            /\ r.quant \in Members(index') => q = r.quant
            /\ r.quant \notin Members(index') =>
                 \A x \in Members(index') : <<r.quant, x>> \in Prefix => x = q
      BY <2>2, ResolveFacts
    <2>7. QuantOf[before] = p /\ QuantOf[after] = q
      BY <2>2, <2>5, <2>6 DEF WellFiled, Members
    <2> QED BY <2>4, <2>5, <2>6, <2>7
  <1>2. IInv /\ IInv' /\ [Next]_vars =>
          [\A r \in Refs : r.tag = None =>
            LET before == resolveLocal(r)  after == resolveLocal(r)' IN
            (before \in Manifests /\ after \in Manifests /\ before # after) =>
                \/ QuantOf[after] = QuantOf[before]
                \/ QuantOf[after] = r.quant]_vars
    BY <1>1
  <1> QED BY <1>2, Invariance, PTL DEF Spec, RebindExplicit
=============================================================================
