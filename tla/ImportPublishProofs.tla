------------------------- MODULE ImportPublishProofs -------------------------
(***************************************************************************)
(* Proofs about module ImportPublish, for every number of jobs, names,     *)
(* artifacts, quants and files: only complete artifacts become visible,    *)
(* and the namespace lock keeps concurrent imports from losing members.    *)
(***************************************************************************)
EXTENDS ImportPublish, TLAPS

Metas == {"manifest", "layers", "record"}

(* What a stage has achieved for artifact a once it is passed, in terms of *)
(* the blobs bs and the links ls.                                          *)
Passed(a, s, bs, ls) ==
    /\ s = "files" => FilesOf[a] \subseteq bs
    /\ s \in Metas => [kind |-> s, of |-> a] \in bs
    /\ s = "link" => a \in ls

(* The artifact being sealed has everything its passed stages stored.      *)
PutInv(j) ==
    /\ job[j].pc = "pick" => job[j].at = 1
    /\ job[j].pc = "put" =>
        /\ job[j].art \in Artifacts
        /\ job[j].at <= Len(Order[job[j].kind])
        /\ \A n \in 1..(job[j].at - 1) :
             Passed(job[j].art, Order[job[j].kind][n], blobs, links)

(* The index about to be published names linked artifacts only, every      *)
(* quant the current one has, and every quant of the import itself.        *)
MergedInv(j) ==
    job[j].pc \in {"index", "setns"} =>
        /\ job[j].merged \in Index
        /\ \A q \in Quants : job[j].merged[q] # None => job[j].merged[q] \in links
        /\ \A q \in Quants :
             current[job[j].ns] # None /\ current[job[j].ns][q] # None
               => job[j].merged[q] # None
        /\ \A a \in job[j].members : job[j].merged[QuantOf[a]] # None

(* Inside the merge the job holds the lock of its namespace; the current   *)
(* index cannot move under it.                                             *)
LockInv(j) ==
    /\ job[j].pc \in {"pick", "read", "index", "setns"} => job[j].kind = "import"
    /\ job[j].pc \in {"pick", "put", "read", "index", "setns", "ok"} /\ job[j].kind = "import"
         => job[j].ns \in Names
    /\ job[j].pc \in {"read", "index", "setns"} => nsLock[job[j].ns] = j
    /\ job[j].pc = "setns" /\ losses = 0 => job[j].merged \in indexes

JobInv(j) == job[j].members \subseteq links /\ PutInv(j) /\ MergedInv(j) /\ LockInv(j)

IInv ==
    /\ TypeOK
    /\ \A j \in Jobs : JobInv(j)
    /\ LinkedComplete /\ PublishedComplete /\ IndexStored /\ ReportedPublished

-----------------------------------------------------------------------------
LEMMA NoneFacts ==
    /\ None \notin Artifacts /\ None \notin Names /\ None \notin Jobs /\ None \notin Index
  BY PublishAssumption DEF Index

LEMMA OrderFacts ==
    /\ DOMAIN Order = {"import", "bt"}
    /\ Len(Order["import"]) = 5 /\ Len(Order["bt"]) = 6
    /\ Order["import"][1] = "files" /\ Order["import"][2] = "manifest"
    /\ Order["import"][3] = "layers" /\ Order["import"][4] = "record"
    /\ Order["import"][5] = "link"
    /\ Order["bt"][1] = "manifest" /\ Order["bt"][2] = "files" /\ Order["bt"][3] = "layers"
    /\ Order["bt"][4] = "record" /\ Order["bt"][5] = "link" /\ Order["bt"][6] = "hints"
  BY DEF Order, ImportOrder, BTOrder

LEMMA IdleFacts ==
    /\ Idle \in JobState
    /\ Idle.pc = "idle" /\ Idle.kind = "import" /\ Idle.ns = None /\ Idle.rest = {}
    /\ Idle.art = None /\ Idle.at = 1 /\ Idle.members = {} /\ Idle.merged = None
  BY OrderFacts DEF Idle, JobState

(* Field by field, an update keeps the record a job state.                 *)
LEMMA FieldUpdates ==
    ASSUME NEW r \in JobState
    PROVE  /\ [r EXCEPT !.pc = "pick", !.art = None] \in JobState
           /\ [r EXCEPT !.at = 1] \in JobState
           /\ \A as \in SUBSET Artifacts : [r EXCEPT !.members = as] \in JobState
  <1>1. [r EXCEPT !.pc = "pick", !.art = None] \in JobState
    BY DEF JobState
  <1>2. [r EXCEPT !.at = 1] \in JobState
    BY DEF JobState
  <1>3. ASSUME NEW as \in SUBSET Artifacts PROVE [r EXCEPT !.members = as] \in JobState
    BY DEF JobState
  <1> QED BY <1>1, <1>2, <1>3

(* The two ways a job record is moved on by Advanced.                      *)
LEMMA NextStageFacts ==
    ASSUME NEW r \in JobState, r.at + 1 \in 1..6, NEW s, s = [r EXCEPT !.at = @ + 1]
    PROVE  /\ s \in JobState
           /\ s.pc = r.pc /\ s.at = r.at + 1 /\ s.art = r.art /\ s.kind = r.kind
           /\ s.ns = r.ns /\ s.members = r.members
  <1>1. s \in JobState
    BY DEF JobState
  <1>2. s.at = r.at + 1
    BY DEF JobState
  <1>3. s.pc = r.pc /\ s.art = r.art /\ s.kind = r.kind /\ s.ns = r.ns /\ s.members = r.members
    BY DEF JobState
  <1> QED BY <1>1, <1>2, <1>3

LEMMA GroupDoneFacts ==
    ASSUME NEW r \in JobState, r.art \in Artifacts, NEW s,
           s = [r EXCEPT !.pc = "pick", !.art = None, !.at = 1, !.members = @ \cup {r.art}]
    PROVE  /\ s \in JobState /\ s.pc = "pick" /\ s.kind = r.kind /\ s.ns = r.ns
           /\ s.at = 1 /\ s.members = r.members \cup {r.art}
  <1>1. r.members \cup {r.art} \in SUBSET Artifacts
    BY DEF JobState
  <1>2. s \in JobState
    <2> DEFINE r1 == [r EXCEPT !.pc = "pick", !.art = None]
               r2 == [r1 EXCEPT !.at = 1]
    <2>1. s = [r2 EXCEPT !.members = r.members \cup {r.art}]
      BY DEF JobState
    <2>2. r1 \in JobState
      BY FieldUpdates
    <2> HIDE DEF r1
    <2>3. r2 \in JobState
      BY <2>2, FieldUpdates
    <2> HIDE DEF r2
    <2> QED BY <1>1, <2>1, <2>3, FieldUpdates
  <1>3. s.pc = "pick" /\ s.kind = r.kind /\ s.ns = r.ns /\ s.at = 1
    BY DEF JobState
  <1>4. s.members = r.members \cup {r.art}
    BY DEF JobState
  <1> QED BY <1>2, <1>3, <1>4

(* UpsertMember keeps every quant, adds those of the import, and takes its *)
(* members from the old index and the import alone.                        *)
LEMMA UpsertFacts ==
    ASSUME NEW idx \in Index, NEW as \in SUBSET Artifacts
    PROVE  /\ Upsert(idx, as) \in Index
           /\ \A q \in Quants : Upsert(idx, as)[q] \in as \/ Upsert(idx, as)[q] = idx[q]
           /\ \A q \in Quants : idx[q] # None => Upsert(idx, as)[q] # None
           /\ \A a \in as : Upsert(idx, as)[QuantOf[a]] # None
  <1>1. ASSUME NEW q \in Quants
        PROVE  \/ Upsert(idx, as)[q] \in as
               \/ Upsert(idx, as)[q] = idx[q] /\ ~\E a \in as : QuantOf[a] = q
    <2>1. CASE \E a \in as : QuantOf[a] = q
      <3>1. (CHOOSE a \in as : QuantOf[a] = q) \in as
        BY <2>1
      <3> QED BY <2>1, <3>1 DEF Upsert
    <2>2. CASE ~\E a \in as : QuantOf[a] = q
      BY <2>2 DEF Upsert
    <2> QED BY <2>1, <2>2
  <1>2. Upsert(idx, as) \in Index
    <2>1. \A q \in Quants : Upsert(idx, as)[q] \in Artifacts \cup {None}
      BY <1>1 DEF Index
    <2>2. Upsert(idx, as) = [q \in Quants |-> Upsert(idx, as)[q]]
      BY DEF Upsert
    <2> QED BY <2>1, <2>2 DEF Index
  <1>3. \A q \in Quants : idx[q] # None => Upsert(idx, as)[q] # None
    BY <1>1, NoneFacts
  <1>4. ASSUME NEW a \in as PROVE Upsert(idx, as)[QuantOf[a]] # None
    <2>1. QuantOf[a] \in Quants
      BY PublishAssumption
    <2>2. Upsert(idx, as)[QuantOf[a]] \in as
      BY <1>1, <2>1
    <2> QED BY <2>2, NoneFacts
  <1> QED BY <1>1, <1>2, <1>3, <1>4

(* Blobs and links are never taken back.                                   *)
LEMMA CompleteStable ==
    ASSUME NEW a, Complete(a), blobs \subseteq blobs' PROVE Complete(a)'
  BY DEF Complete

LEMMA PassedStable ==
    ASSUME NEW a, NEW s, NEW bs, NEW ls, NEW bs2, NEW ls2,
           Passed(a, s, bs, ls), bs \subseteq bs2, ls \subseteq ls2
    PROVE  Passed(a, s, bs2, ls2)
  BY DEF Passed

(* A job at its link stage has stored the whole artifact.                  *)
LEMMA LinkStageComplete ==
    ASSUME TypeOK, NEW j \in Jobs, PutInv(j), InStage(j, "link")
    PROVE  Complete(job[j].art)
  <1>1. job[j].kind \in {"import", "bt"} /\ job[j].at \in 1..6
    BY OrderFacts DEF TypeOK, JobState
  <1>2. job[j].at = 5
    BY <1>1, OrderFacts DEF InStage, Stage, PutInv
  <1>3. \A n \in 1..4 : Passed(job[j].art, Order[job[j].kind][n], blobs, links)
    BY <1>2 DEF InStage, PutInv
  <1>4. \A s \in {"files", "manifest", "layers", "record"} :
          Passed(job[j].art, s, blobs, links)
    BY <1>1, <1>3, OrderFacts
  <1> QED BY <1>4 DEF Passed, Complete, Metas

LEMMA InitIInv == Init => IInv
  <1> SUFFICES ASSUME Init PROVE IInv OBVIOUS
  <1>1. TypeOK
    BY IdleFacts, PublishAssumption DEF Init, TypeOK
  <1>2. \A j \in Jobs : JobInv(j)
    BY IdleFacts DEF Init, JobInv, PutInv, MergedInv, LockInv
  <1>3. LinkedComplete /\ PublishedComplete /\ IndexStored /\ ReportedPublished
    BY IdleFacts DEF Init, LinkedComplete, PublishedComplete, IndexStored, ReportedPublished
  <1> QED BY <1>1, <1>2, <1>3 DEF IInv

(* A step of another job or of the machine leaves this one's facts alone.  *)
LEMMA OtherJob ==
    ASSUME NEW k \in Jobs, JobInv(k), job'[k] = job[k],
           blobs \subseteq blobs', links \subseteq links',
           \A n \in Names : nsLock[n] = k => nsLock'[n] = k /\ current'[n] = current[n],
           losses' = 0 => losses = 0 /\ indexes \subseteq indexes'
    PROVE  JobInv(k)'
  <1>1. PutInv(k)'
    BY PassedStable DEF JobInv, PutInv
  <1>2. LockInv(k)'
    BY DEF JobInv, LockInv
  <1>3. MergedInv(k)'
    BY DEF JobInv, LockInv, MergedInv
  <1> QED BY <1>1, <1>2, <1>3 DEF JobInv

(* What stays true of the published state when it only grows.              *)
LEMMA PublishedStable ==
    ASSUME IInv, blobs \subseteq blobs', links \subseteq links', current' = current,
           losses' = 0 => losses = 0 /\ indexes \subseteq indexes'
    PROVE  PublishedComplete' /\ IndexStored'
  BY CompleteStable DEF IInv, PublishedComplete, IndexStored

-----------------------------------------------------------------------------
(* A step of job j that may add blobs, links and hints and leaves the      *)
(* indexes alone.                                                          *)
LEMMA GrowStep ==
    ASSUME IInv, NEW j \in Jobs, NEW s \in JobState, Step(j, s), JobInv(j)',
           s.pc # "ok" \/ s.kind = "bt",
           blobs \subseteq blobs', blobs' \subseteq FileIds \cup Meta,
           links \subseteq links', links' \subseteq Artifacts, LinkedComplete',
           hints' \subseteq Artifacts, UNCHANGED <<indexes, current, losses>>,
           imports' \in 0..MaxImports, nsLock' \in [Names -> Jobs \cup {None}],
           \A k \in Jobs \ {j}, n \in Names : nsLock[n] = k => nsLock'[n] = k
    PROVE  IInv'
  <1>0. job'[j] = s /\ \A k \in Jobs \ {j} : job'[k] = job[k]
    BY DEF IInv, TypeOK, Step
  <1>1. TypeOK'
    BY DEF IInv, TypeOK, Step
  <1>2. ASSUME NEW k \in Jobs PROVE JobInv(k)'
    <2>1. CASE k # j
      BY <1>0, <2>1, OtherJob DEF IInv
    <2> QED BY <2>1
  <1>4. PublishedComplete' /\ IndexStored'
    BY PublishedStable
  <1>5. ReportedPublished'
    BY <1>0 DEF IInv, ReportedPublished
  <1> QED BY <1>1, <1>2, <1>4, <1>5 DEF IInv

LEMMA LinkedStable ==
    ASSUME IInv, blobs \subseteq blobs', links' = links PROVE LinkedComplete'
  BY CompleteStable DEF IInv, LinkedComplete

(* A step that touches nothing but the job and perhaps its locks.          *)
LEMMA QuietStep ==
    ASSUME IInv, NEW j \in Jobs, NEW s \in JobState, Step(j, s), JobInv(j)',
           s.pc # "ok" \/ s.kind = "bt", UNCHANGED <<store, losses>>,
           imports' \in 0..MaxImports, nsLock' \in [Names -> Jobs \cup {None}],
           \A k \in Jobs \ {j}, n \in Names : nsLock[n] = k => nsLock'[n] = k
    PROVE  IInv'
  <1>1. LinkedComplete'
    BY LinkedStable DEF store
  <1>2. /\ blobs \subseteq blobs' /\ blobs' \subseteq FileIds \cup Meta
        /\ links \subseteq links' /\ links' \subseteq Artifacts /\ hints' \subseteq Artifacts
        /\ UNCHANGED <<indexes, current, losses>>
    BY DEF IInv, TypeOK, store
  <1> QED BY <1>1, <1>2, GrowStep

(* A failed job owes nothing, and has given up its locks.                  *)
LEMMA FailedFacts ==
    ASSUME IInv, NEW j \in Jobs, Step(j, [Idle EXCEPT !.pc = "err"])
    PROVE  /\ JobInv(j)' /\ [Idle EXCEPT !.pc = "err"] \in JobState
           /\ [Idle EXCEPT !.pc = "err"].pc # "ok"
           /\ Unlocked(j) \in [Names -> Jobs \cup {None}]
           /\ \A k \in Jobs \ {j}, n \in Names : nsLock[n] = k => Unlocked(j)[n] = k
  <1> DEFINE s == [Idle EXCEPT !.pc = "err"]
  <1>1. job'[j] = s
    BY DEF IInv, TypeOK, Step
  <1>2. s \in JobState /\ s.pc = "err" /\ s.members = {}
    BY IdleFacts DEF Idle, JobState
  <1>3. JobInv(j)'
    BY <1>1, <1>2 DEF JobInv, PutInv, MergedInv, LockInv
  <1> QED BY <1>2, <1>3 DEF Unlocked, IInv, TypeOK

(* Behind a stage that has done its work the job goes on with all it needs. *)
LEMMA AdvancedFacts ==
    ASSUME IInv, NEW j \in Jobs, job[j].pc = "put", Step(j, Advanced(j)),
           Passed(job[j].art, Stage(j), blobs', links'), blobs \subseteq blobs', links \subseteq links'
    PROVE  /\ JobInv(j)' /\ Advanced(j) \in JobState
           /\ Advanced(j).pc # "ok" \/ Advanced(j).kind = "bt"
  <1> DEFINE s == Advanced(j)
  <1>a. /\ job'[j] = s /\ job[j] \in JobState /\ JobInv(j)
        /\ job[j].kind \in {"import", "bt"} /\ job[j].at \in 1..6
    <2>1. job'[j] = s /\ job[j] \in JobState /\ JobInv(j)
      BY DEF IInv, TypeOK, Step
    <2> QED BY <2>1, OrderFacts DEF JobState
  <1>b. PICK n \in 5..6 : n = Len(Order[job[j].kind])
    BY <1>a, OrderFacts
  <1>0. /\ job'[j] = s /\ job[j] \in JobState /\ JobInv(j)
        /\ job[j].kind \in {"import", "bt"} /\ job[j].at \in 1..6 /\ job[j].at <= n
    BY <1>a, <1>b DEF JobInv, PutInv
  <1>1. \A m \in 1..job[j].at : Passed(job[j].art, Order[job[j].kind][m], blobs', links')
    <2>1. \A m \in 1..(job[j].at - 1) :
            Passed(job[j].art, Order[job[j].kind][m], blobs, links)
      BY DEF IInv, JobInv, PutInv
    <2>2. Passed(job[j].art, Order[job[j].kind][job[j].at], blobs', links')
      BY DEF Stage
    <2> QED BY <1>0, <2>1, <2>2, PassedStable
  <1>2. CASE job[j].at < n
    <2>1. s = [job[j] EXCEPT !.at = @ + 1]
      BY <1>2, <1>b DEF Advanced
    <2>2. job[j] \in JobState /\ job[j].at + 1 \in 1..6
      BY <1>0, <1>2
    <2>3. /\ s \in JobState /\ s.pc = "put"
          /\ s.at = job[j].at + 1 /\ s.art = job[j].art /\ s.kind = job[j].kind
          /\ s.ns = job[j].ns /\ s.members = job[j].members
      BY <2>1, <2>2, NextStageFacts
    <2>4. PutInv(j)'
      BY <1>0, <1>1, <1>2, <1>b, <2>2, <2>3 DEF JobInv, PutInv
    <2> QED BY <1>0, <2>2, <2>3, <2>4 DEF JobInv, MergedInv, LockInv
  <1>3. CASE job[j].at >= n /\ job[j].kind = "bt"
    <2>1. s = [Idle EXCEPT !.pc = "ok", !.kind = "bt"]
      BY <1>0, <1>3, <1>b DEF Advanced
    <2>2. s \in JobState /\ s.pc = "ok" /\ s.kind = "bt" /\ s.members = {}
      BY <2>1, OrderFacts, IdleFacts DEF Idle, JobState
    <2> QED BY <1>0, <2>2 DEF JobInv, PutInv, MergedInv, LockInv
  <1>4. CASE job[j].at >= n /\ job[j].kind = "import"
    <2>1. s = [job[j] EXCEPT !.pc = "pick", !.art = None, !.at = 1,
                             !.members = @ \cup {job[j].art}]
      BY <1>0, <1>4, <1>b DEF Advanced
    <2>2. job[j].at = 5 /\ job[j].art \in Artifacts /\ job[j] \in JobState
      BY <1>0, <1>4, <1>b, OrderFacts DEF JobInv, PutInv
    <2>3. /\ s \in JobState /\ s.pc = "pick" /\ s.kind = "import" /\ s.ns = job[j].ns
          /\ s.at = 1 /\ s.members = job[j].members \cup {job[j].art}
      <3> HIDE DEF s
      <3> QED BY <1>4, <2>1, <2>2, GroupDoneFacts
    <2>4. job[j].art \in links'
      BY <1>1, <1>4, <2>2, OrderFacts DEF Passed
    <2> QED BY <1>0, <1>4, <2>3, <2>4 DEF JobInv, PutInv, MergedInv, LockInv
  <1> QED BY <1>0, <1>2, <1>3, <1>4

-----------------------------------------------------------------------------
(* The actions.                                                            *)
LEMMA StartStep ==
    ASSUME IInv, NEW j \in Jobs,
           \/ \E n \in Names, as \in SUBSET Artifacts : StartImport(j, n, as)
           \/ \E a \in Artifacts : StartBT(j, a)
    PROVE  IInv'
  <1>1. ASSUME NEW n \in Names, NEW as \in SUBSET Artifacts, StartImport(j, n, as) PROVE IInv'
    <2> DEFINE s == [Idle EXCEPT !.pc = "pick", !.ns = n, !.rest = as]
    <2>1. /\ s \in JobState /\ s.pc = "pick" /\ s.kind = "import" /\ s.ns = n
          /\ s.at = 1 /\ s.members = {}
      BY IdleFacts DEF Idle, JobState
    <2>2. job'[j] = s /\ Step(j, s)
      BY <1>1 DEF StartImport, Step, IInv, TypeOK
    <2>3. JobInv(j)'
      BY <2>1, <2>2 DEF JobInv, PutInv, MergedInv, LockInv
    <2>4. imports' \in 0..MaxImports
      <3>1. imports \in 0..MaxImports /\ imports < MaxImports /\ imports' = imports + 1
        BY <1>1 DEF StartImport, IInv, TypeOK
      <3>2. MaxImports \in Nat
        BY PublishAssumption
      <3> QED BY <3>1, <3>2
    <2>5. UNCHANGED <<store, losses, nsLock>> /\ nsLock' \in [Names -> Jobs \cup {None}]
      BY <1>1 DEF StartImport, IInv, TypeOK
    <2> HIDE DEF s
    <2> QED BY <2>1, <2>2, <2>3, <2>4, <2>5, QuietStep
  <1>2. ASSUME NEW a \in Artifacts, StartBT(j, a) PROVE IInv'
    <2> DEFINE s == [Idle EXCEPT !.pc = "put", !.kind = "bt", !.art = a]
    <2>1. /\ s \in JobState /\ s.pc = "put" /\ s.kind = "bt" /\ s.art = a /\ s.at = 1
          /\ s.members = {}
      BY IdleFacts, OrderFacts DEF Idle, JobState
    <2>2. job'[j] = s /\ Step(j, s)
      BY <1>2 DEF StartBT, Step, IInv, TypeOK
    <2>3. JobInv(j)'
      BY <2>1, <2>2, OrderFacts DEF JobInv, PutInv, MergedInv, LockInv
    <2>4. imports' \in 0..MaxImports
      <3>1. imports \in 0..MaxImports /\ imports < MaxImports /\ imports' = imports + 1
        BY <1>2 DEF StartBT, IInv, TypeOK
      <3>2. MaxImports \in Nat
        BY PublishAssumption
      <3> QED BY <3>1, <3>2
    <2>5. UNCHANGED <<store, losses, nsLock>> /\ nsLock' \in [Names -> Jobs \cup {None}]
      BY <1>2 DEF StartBT, IInv, TypeOK
    <2> HIDE DEF s
    <2> QED BY <2>1, <2>2, <2>3, <2>4, <2>5, QuietStep
  <1> QED BY <1>1, <1>2

(* NextGroup, and the two steps into the merge.                            *)
LEMMA NextGroupStep ==
    ASSUME IInv, NEW j \in Jobs, NEW a \in Artifacts, NextGroup(j, a)
    PROVE  IInv'
  <1> DEFINE s == [job[j] EXCEPT !.pc = "put", !.art = a, !.rest = @ \ {a}]
  <1>0. job[j] \in JobState /\ JobInv(j) /\ job[j].pc = "pick"
    BY DEF IInv, TypeOK, NextGroup
  <1>1. s \in JobState /\ s.pc = "put" /\ s.art = a
    BY <1>0 DEF JobState
  <1>2. s.kind = job[j].kind /\ s.at = job[j].at /\ s.members = job[j].members /\ s.ns = job[j].ns
    BY <1>0 DEF JobState
  <1>3. job'[j] = s /\ Step(j, s)
    BY DEF NextGroup, Step, IInv, TypeOK
  <1>4. JobInv(j)'
    <2>1. s.at = 1 /\ 1 <= Len(Order[s.kind])
      BY <1>0, <1>1, <1>2, OrderFacts DEF JobInv, PutInv, JobState
    <2>2. PutInv(j)'
      BY <1>1, <1>3, <2>1 DEF PutInv
    <2>3. UNCHANGED <<links, current, nsLock>>
      BY DEF NextGroup, store
    <2> QED BY <1>0, <1>1, <1>2, <1>3, <2>2, <2>3 DEF JobInv, MergedInv, LockInv
  <1>5. imports' \in 0..MaxImports /\ nsLock' \in [Names -> Jobs \cup {None}]
    BY DEF NextGroup, counts, IInv, TypeOK
  <1>6. UNCHANGED <<store, losses, nsLock>>
    BY DEF NextGroup, counts
  <1> HIDE DEF s
  <1> QED BY <1>1, <1>3, <1>4, <1>5, <1>6, QuietStep

(* Taking the namespace lock.                                              *)
LEMMA LockStep ==
    ASSUME IInv, NEW j \in Jobs, LockNamespace(j) PROVE IInv'
  <1> DEFINE s == [job[j] EXCEPT !.pc = "read"]
  <1>0. job[j] \in JobState /\ JobInv(j) /\ job[j].pc = "pick"
    BY DEF IInv, TypeOK, LockNamespace
  <1>1. /\ s \in JobState /\ s.pc = "read" /\ s.kind = job[j].kind
        /\ s.members = job[j].members /\ s.ns = job[j].ns
    BY <1>0 DEF JobState
  <1>2. job'[j] = s /\ Step(j, s)
    BY DEF LockNamespace, Step, IInv, TypeOK
  <1>3. job[j].ns \in Names /\ nsLock[job[j].ns] = None
    BY <1>0 DEF LockNamespace, JobInv, LockInv
  <1>4. /\ nsLock' \in [Names -> Jobs \cup {None}] /\ nsLock'[job[j].ns] = j
        /\ \A k \in Jobs \ {j}, n \in Names : nsLock[n] = k => nsLock'[n] = k
    BY <1>3, NoneFacts DEF LockNamespace, IInv, TypeOK
  <1>5. JobInv(j)'
    BY <1>0, <1>1, <1>2, <1>4 DEF LockNamespace, store, JobInv, PutInv, MergedInv, LockInv
  <1>6. imports' \in 0..MaxImports /\ UNCHANGED <<store, losses>>
    BY DEF LockNamespace, counts, IInv, TypeOK
  <1> HIDE DEF s
  <1> QED BY <1>1, <1>2, <1>4, <1>5, <1>6, QuietStep

(* Reading and merging under the lock: UpsertMember keeps what is there.   *)
LEMMA MergeStep ==
    ASSUME IInv, NEW j \in Jobs, existingMembers(j) PROVE IInv'
  <1> DEFINE c == current[job[j].ns]
             idx == IF c = None THEN EmptyIndex ELSE c
             up == Upsert(idx, job[j].members)
             s == [job[j] EXCEPT !.pc = "index", !.merged = up]
  <1>0. /\ job[j] \in JobState /\ JobInv(j) /\ job[j].pc = "read" /\ job[j].ns \in Names
        /\ job[j].members \in SUBSET Artifacts
    BY DEF IInv, TypeOK, existingMembers, JobInv, LockInv, JobState
  <1>1. /\ idx \in Index
        /\ \A q \in Quants : idx[q] # None => c # None /\ idx[q] = c[q] /\ c[q] \in links
        /\ c # None => idx = c
    <2>1. CASE c = None
      BY <2>1 DEF EmptyIndex, Index
    <2>2. CASE c # None
      BY <1>0, <2>2 DEF IInv, TypeOK, PublishedComplete
    <2> QED BY <2>1, <2>2
  <1> HIDE DEF idx
  <1>2. /\ up \in Index
        /\ \A q \in Quants : up[q] \in job[j].members \/ up[q] = idx[q]
        /\ \A q \in Quants : idx[q] # None => up[q] # None
        /\ \A a \in job[j].members : up[QuantOf[a]] # None
    BY <1>0, <1>1, UpsertFacts
  <1>3. job'[j] = s /\ Step(j, s)
    BY DEF existingMembers, Step, IInv, TypeOK, idx
  <1> HIDE DEF up
  <1>4. /\ s \in JobState /\ s.pc = "index" /\ s.kind = job[j].kind /\ s.merged = up
        /\ s.members = job[j].members /\ s.ns = job[j].ns
    BY <1>0, <1>2 DEF JobState
  <1>5. \A q \in Quants : up[q] # None => up[q] \in links
    BY <1>0, <1>1, <1>2 DEF JobInv
  <1>6. UNCHANGED <<store, nsLock, losses, imports>>
    BY DEF existingMembers, counts
  <1>7. JobInv(j)'
    <2>1. MergedInv(j)'
      BY <1>1, <1>2, <1>3, <1>4, <1>5, <1>6 DEF MergedInv, store
    <2> QED BY <1>0, <1>3, <1>4, <1>6, <2>1 DEF JobInv, PutInv, LockInv, store
  <1> HIDE DEF s
  <1>8. imports' \in 0..MaxImports /\ nsLock' \in [Names -> Jobs \cup {None}]
    BY <1>6 DEF IInv, TypeOK
  <1> QED BY <1>3, <1>4, <1>6, <1>7, <1>8, QuietStep

(* The stages: what each stores is what Passed asks of it.                 *)
LEMMA StageStep ==
    ASSUME IInv, NEW j \in Jobs,
           FilesStored(j) \/ PutMeta(j) \/ SetDistributionLink(j) \/ SetHints(j)
    PROVE  IInv'
  <1>0. /\ job[j] \in JobState /\ JobInv(j) /\ job[j].pc = "put" /\ job[j].art \in Artifacts
        /\ Step(j, Advanced(j))
    BY DEF IInv, TypeOK, FilesStored, PutMeta, SetDistributionLink, SetHints, InStage, JobInv,
           PutInv
  <1>1. /\ blobs \subseteq blobs' /\ blobs' \subseteq FileIds \cup Meta
        /\ links \subseteq links' /\ links' \subseteq Artifacts /\ hints' \subseteq Artifacts
        /\ UNCHANGED <<indexes, current, losses, imports, nsLock>>
    <2>1. ASSUME Stage(j) \in Metas PROVE [kind |-> Stage(j), of |-> job[j].art] \in Meta
      BY <1>0, <2>1 DEF Meta, Metas
    <2> QED BY <1>0, <2>1 DEF IInv, TypeOK, FilesStored, PutMeta, SetDistributionLink, SetHints,
              store, counts, Metas
  <1>2. Passed(job[j].art, Stage(j), blobs', links')
    BY <1>0 DEF FilesStored, PutMeta, SetDistributionLink, SetHints, InStage, Passed, Metas, store
  <1>3. LinkedComplete'
    <2>1. CASE SetDistributionLink(j)
      <3>1. Complete(job[j].art)
        BY <1>0, <2>1, LinkStageComplete DEF SetDistributionLink, IInv, JobInv
      <3>2. \A a \in links' : Complete(a)
        BY <2>1, <3>1 DEF SetDistributionLink, IInv, LinkedComplete
      <3> QED BY <3>2, <1>1, CompleteStable DEF LinkedComplete
    <2>2. CASE links' = links
      BY <1>1, <2>2, LinkedStable
    <2> QED BY <2>1, <2>2 DEF FilesStored, PutMeta, SetHints, store
  <1>4. /\ JobInv(j)' /\ Advanced(j) \in JobState
        /\ Advanced(j).pc # "ok" \/ Advanced(j).kind = "bt"
    BY <1>0, <1>1, <1>2, AdvancedFacts
  <1>5. /\ imports' \in 0..MaxImports /\ nsLock' \in [Names -> Jobs \cup {None}]
    BY <1>1 DEF IInv, TypeOK
  <1> QED BY <1>0, <1>1, <1>3, <1>4, <1>5, GrowStep

(* A job that fails leaves what it stored, all of it complete as linked.   *)
LEMMA FailStep ==
    ASSUME IInv, NEW j \in Jobs,
           \/ \E a \in Artifacts : QuantConflict(j, a)
           \/ RefuseRebuild(j) \/ ImportFails(j)
    PROVE  IInv'
  <1>1. Step(j, [Idle EXCEPT !.pc = "err"]) /\ UNCHANGED <<store, losses, imports>>
    BY DEF QuantConflict, RefuseRebuild, ImportFails, counts
  <1>2. nsLock' = nsLock \/ nsLock' = Unlocked(j)
    BY DEF QuantConflict, RefuseRebuild, ImportFails
  <1>3. imports' \in 0..MaxImports
    BY <1>1 DEF IInv, TypeOK
  <1>4. /\ nsLock' \in [Names -> Jobs \cup {None}]
        /\ \A k \in Jobs \ {j}, n \in Names : nsLock[n] = k => nsLock'[n] = k
    BY <1>1, <1>2, FailedFacts DEF IInv, TypeOK
  <1> DEFINE s == [Idle EXCEPT !.pc = "err"]
  <1>5. s \in JobState /\ s.pc # "ok" /\ JobInv(j)'
    BY <1>1, FailedFacts
  <1> HIDE DEF s
  <1>6. Step(j, s)
    BY <1>1 DEF s
  <1> QED BY <1>1, <1>3, <1>4, <1>5, <1>6, QuietStep

LEMMA PutFileStep ==
    ASSUME IInv, NEW j \in Jobs, NEW f \in FileIds, PutFile(j, f) PROVE IInv'
  <1>1. TypeOK'
    BY DEF IInv, TypeOK, PutFile, counts
  <1>2. blobs \subseteq blobs' /\ UNCHANGED <<indexes, current, links, nsLock, job, losses>>
    BY DEF PutFile, counts
  <1>3. \A k \in Jobs : JobInv(k)'
    BY <1>2, OtherJob DEF IInv
  <1>4. LinkedComplete' /\ PublishedComplete' /\ IndexStored'
    BY <1>2, LinkedStable, PublishedStable
  <1>5. ReportedPublished'
    BY <1>2 DEF IInv, ReportedPublished
  <1> QED BY <1>1, <1>3, <1>4, <1>5 DEF IInv

LEMMA PutIndexStep ==
    ASSUME IInv, NEW j \in Jobs, PutIndex(j) PROVE IInv'
  <1> DEFINE s == [job[j] EXCEPT !.pc = "setns"]
  <1>0. job[j] \in JobState /\ JobInv(j) /\ job[j].pc = "index" /\ job[j].merged \in Index
    BY DEF IInv, TypeOK, PutIndex, JobInv, MergedInv
  <1>1. /\ s \in JobState /\ s.pc = "setns" /\ s.kind = job[j].kind /\ s.merged = job[j].merged
        /\ s.members = job[j].members /\ s.ns = job[j].ns
    BY <1>0 DEF JobState
  <1>2. job'[j] = s /\ \A k \in Jobs \ {j} : job'[k] = job[k]
    BY DEF PutIndex, Step, IInv, TypeOK
  <1>3. /\ indexes' = indexes \cup {job[j].merged}
        /\ UNCHANGED <<blobs, current, links, hints, nsLock, imports, losses>>
    BY DEF PutIndex, counts
  <1>4. TypeOK'
    BY <1>0, <1>1, <1>3 DEF IInv, TypeOK, PutIndex, Step
  <1>5. JobInv(j)'
    BY <1>0, <1>1, <1>2, <1>3 DEF JobInv, PutInv, MergedInv, LockInv
  <1>6. \A k \in Jobs \ {j} : JobInv(k)'
    BY <1>2, <1>3, OtherJob DEF IInv
  <1>7. LinkedComplete' /\ PublishedComplete' /\ IndexStored'
    BY <1>3, LinkedStable, PublishedStable
  <1> HIDE DEF s
  <1>8. ReportedPublished'
    <2>1. ASSUME NEW k \in Jobs, job'[k].pc = "ok" PROVE job'[k] = job[k]
      BY <1>1, <1>2, <2>1
    <2> QED BY <1>3, <2>1 DEF IInv, ReportedPublished
  <1> QED BY <1>4, <1>5, <1>6, <1>7, <1>8 DEF IInv

(* No namespace loses a quant: what MembersKept says of a step.            *)
Kept ==
    \A n \in Names, q \in Quants :
        current[n] # None /\ current[n][q] # None
           => current'[n] # None /\ current'[n][q] # None

(* The namespace entry moves, to an index whose members are complete and   *)
(* which has every quant of the one it replaces.                           *)
LEMMA PublishFacts ==
    ASSUME IInv, NEW j \in Jobs, job[j].pc = "setns",
           current' = [current EXCEPT ![job[j].ns] = job[j].merged],
           UNCHANGED <<blobs, indexes, links, losses>>
    PROVE  /\ current' \in [Names -> Index \cup {None}]
           /\ job[j].ns \in Names /\ current'[job[j].ns] = job[j].merged
           /\ job[j].merged # None
           /\ \A n \in Names : nsLock[n] # j => current'[n] = current[n]
           /\ LinkedComplete' /\ PublishedComplete' /\ IndexStored' /\ Kept
  <1>0. /\ JobInv(j) /\ job[j].ns \in Names /\ job[j].merged \in Index
        /\ nsLock[job[j].ns] = j /\ current \in [Names -> Index \cup {None}]
    BY DEF IInv, TypeOK, JobInv, LockInv, MergedInv
  <1>1. /\ current' \in [Names -> Index \cup {None}] /\ current'[job[j].ns] = job[j].merged
        /\ \A n \in Names \ {job[j].ns} : current'[n] = current[n]
    BY <1>0
  <1>2. LinkedComplete'
    BY LinkedStable
  <1>3. PublishedComplete'
    <2>1. \A q \in Quants : job[j].merged[q] # None => job[j].merged[q] \in links
      BY <1>0 DEF JobInv, MergedInv
    <2>2. \A a \in links : Complete(a)'
      BY CompleteStable DEF IInv, LinkedComplete
    <2> QED BY <1>0, <1>1, <2>1, <2>2, CompleteStable DEF IInv, PublishedComplete
  <1>4. IndexStored'
    BY <1>0, <1>1 DEF IInv, IndexStored, JobInv, LockInv
  <1>5. Kept
    BY <1>0, <1>1, NoneFacts DEF Kept, JobInv, MergedInv
  <1> QED BY <1>0, <1>1, <1>2, <1>3, <1>4, <1>5, NoneFacts

LEMMA PublishStep ==
    ASSUME IInv, NEW j \in Jobs, NEW s \in JobState, job[j].pc = "setns",
           current' = [current EXCEPT ![job[j].ns] = job[j].merged],
           UNCHANGED <<blobs, indexes, links, hints, losses, imports>>,
           nsLock' = Unlocked(j), Step(j, s),
           \/ s.pc = "err" /\ s.members = {}
           \/ /\ s.pc = "ok" /\ s.kind = "import"
              /\ s.ns = job[j].ns /\ s.members = job[j].members
    PROVE  IInv'
  <1>0. job'[j] = s /\ \A k \in Jobs \ {j} : job'[k] = job[k]
    BY DEF Step, IInv, TypeOK
  <1>1. /\ current' \in [Names -> Index \cup {None}]
        /\ job[j].ns \in Names /\ current'[job[j].ns] = job[j].merged
        /\ job[j].merged # None
        /\ \A n \in Names : nsLock[n] # j => current'[n] = current[n]
        /\ LinkedComplete' /\ PublishedComplete' /\ IndexStored' /\ Kept
    BY PublishFacts
  <1>2. /\ nsLock' \in [Names -> Jobs \cup {None}]
        /\ \A k \in Jobs \ {j}, n \in Names : nsLock[n] = k => nsLock'[n] = k
    BY DEF Unlocked, IInv, TypeOK
  <1>3. TypeOK'
    BY <1>1, <1>2 DEF IInv, TypeOK, Step
  <1>4. JobInv(j)'
    BY <1>0, <1>1 DEF IInv, JobInv, PutInv, MergedInv, LockInv
  <1>5. \A k \in Jobs \ {j} : JobInv(k)'
    BY <1>0, <1>1, <1>2, OtherJob DEF IInv
  <1>6. ReportedPublished'
    <2>1. ASSUME NEW k \in Jobs \ {j}, job'[k].pc = "ok", job'[k].kind = "import"
          PROVE  /\ current'[job'[k].ns] # None
                 /\ \A a \in job'[k].members : current'[job'[k].ns][QuantOf[a]] # None
      <3>1. /\ job[k].ns \in Names /\ current[job[k].ns] # None
            /\ \A a \in job[k].members : current[job[k].ns][QuantOf[a]] # None
        BY <1>0, <2>1 DEF IInv, ReportedPublished, JobInv, LockInv
      <3>2. \A a \in job[k].members : QuantOf[a] \in Quants
        BY PublishAssumption DEF IInv, TypeOK, JobState
      <3>3. current'[job[k].ns] # None
        BY <1>1, <3>1 DEF IInv, JobInv, LockInv, TypeOK
      <3> QED BY <1>0, <1>1, <3>1, <3>2, <3>3 DEF Kept
    <2>2. \A a \in job[j].members : job[j].merged[QuantOf[a]] # None
      BY DEF IInv, JobInv, MergedInv
    <2> QED BY <1>0, <1>1, <2>1, <2>2 DEF ReportedPublished
  <1> QED BY <1>1, <1>3, <1>4, <1>5, <1>6 DEF IInv

LEMMA SetNamespaceStep ==
    ASSUME IInv, NEW j \in Jobs, SetNamespace(j) PROVE IInv'
  <1> DEFINE s == [Idle EXCEPT !.pc = "ok", !.ns = job[j].ns, !.members = job[j].members]
  <1>0. job[j].ns \in Names /\ job[j].members \in SUBSET Artifacts
    BY PublishFacts DEF IInv, TypeOK, JobState, SetNamespace, JobInv, LockInv
  <1>1. s.pc = "ok" /\ s.kind = "import" /\ s.ns = job[j].ns /\ s.members = job[j].members
    BY DEF Idle
  <1>2. s \in JobState
    <2> DEFINE r == [Idle EXCEPT !.pc = "ok", !.ns = job[j].ns]
    <2>1. r \in JobState
      BY <1>0, IdleFacts DEF JobState
    <2>2. s = [r EXCEPT !.members = job[j].members]
      BY DEF Idle
    <2> HIDE DEF r
    <2> QED BY <1>0, <2>1, <2>2, FieldUpdates
  <1>3. Step(j, s)
    BY DEF SetNamespace
  <1> HIDE DEF s
  <1> QED BY <1>1, <1>2, <1>3, PublishStep DEF SetNamespace, counts

(* An error behind the rename: the effect stays, and is a whole one.       *)
LEMMA LateFailStep ==
    ASSUME IInv, NEW j \in Jobs, ImportFailsLate(j) PROVE IInv'
  <1> DEFINE s == [Idle EXCEPT !.pc = "err"]
  <1>1. Step(j, s) /\ nsLock' = Unlocked(j) /\ UNCHANGED <<losses, imports>>
    BY DEF ImportFailsLate, counts
  <1>2. /\ s \in JobState /\ s.pc # "ok" /\ JobInv(j)'
        /\ nsLock' \in [Names -> Jobs \cup {None}]
        /\ \A k \in Jobs \ {j}, n \in Names : nsLock[n] = k => nsLock'[n] = k
    BY <1>1, FailedFacts
  <1>3. s.pc = "err" /\ s.members = {}
    BY DEF Idle
  <1> HIDE DEF s
  <1>4. imports' \in 0..MaxImports
    BY <1>1 DEF IInv, TypeOK
  <1>5. CASE job[j].pc = "setns"
    <2>1. /\ current' = [current EXCEPT ![job[j].ns] = job[j].merged]
          /\ UNCHANGED <<blobs, indexes, links, hints>>
      BY <1>5 DEF ImportFailsLate, InStage
    <2> QED BY <1>1, <1>2, <1>3, <1>5, <2>1, PublishStep
  <1>6. CASE job[j].pc = "put"
    <2>0. JobInv(j) /\ job[j].art \in Artifacts
      BY <1>6 DEF IInv, JobInv, PutInv
    <2>1. /\ blobs \subseteq blobs' /\ blobs' \subseteq FileIds \cup Meta
          /\ links \subseteq links' /\ links' \subseteq Artifacts /\ hints' \subseteq Artifacts
          /\ UNCHANGED <<indexes, current>>
      <3>1. ASSUME Stage(j) \in Metas PROVE [kind |-> Stage(j), of |-> job[j].art] \in Meta
        BY <2>0, <3>1 DEF Meta, Metas
      <3> QED BY <1>6, <2>0, <3>1 DEF IInv, TypeOK, ImportFailsLate, Metas
    <2>2. LinkedComplete'
      <3>1. CASE InStage(j, "link") /\ links' = links \cup {job[j].art}
        <4>1. Complete(job[j].art)
          BY <2>0, <3>1, LinkStageComplete DEF IInv, JobInv
        <4>2. \A a \in links' : Complete(a)
          BY <3>1, <4>1 DEF IInv, LinkedComplete
        <4> QED BY <2>1, <4>2, CompleteStable DEF LinkedComplete
      <3>2. CASE links' = links
        BY <2>1, <3>2, LinkedStable
      <3> QED BY <1>6, <3>1, <3>2 DEF ImportFailsLate
    <2> QED BY <1>1, <1>2, <1>4, <2>1, <2>2, GrowStep
  <1> QED BY <1>5, <1>6 DEF ImportFailsLate, InStage

(* The daemon dies with its jobs and locks; the store stays as it is.      *)
LEMMA CrashStep ==
    ASSUME IInv, Crash PROVE IInv'
  <1>1. TypeOK'
    BY IdleFacts DEF IInv, TypeOK, Crash, store, counts
  <1>2. \A j \in Jobs : JobInv(j)' /\ job'[j].pc = "idle"
    BY IdleFacts DEF Crash, JobInv, PutInv, MergedInv, LockInv
  <1>3. LinkedComplete' /\ PublishedComplete' /\ IndexStored'
    BY LinkedStable, PublishedStable DEF Crash, store, counts
  <1>4. ReportedPublished'
    BY <1>2 DEF ReportedPublished
  <1> QED BY <1>1, <1>2, <1>3, <1>4 DEF IInv

LEMMA LoseIndexStep ==
    ASSUME IInv, NEW x \in indexes, LoseIndex(x) PROVE IInv'
  <1>1. losses' \in 0..MaxLosses /\ losses' # 0
    BY PublishAssumption DEF IInv, TypeOK, LoseIndex
  <1>2. TypeOK'
    BY <1>1 DEF IInv, TypeOK, LoseIndex
  <1>3. \A j \in Jobs : JobInv(j)'
    BY <1>1, OtherJob DEF IInv, LoseIndex
  <1>4. LinkedComplete' /\ PublishedComplete' /\ IndexStored'
    BY <1>1, LinkedStable, PublishedStable DEF LoseIndex
  <1>5. ReportedPublished'
    BY DEF IInv, ReportedPublished, LoseIndex
  <1> QED BY <1>2, <1>3, <1>4, <1>5 DEF IInv

LEMMA ImportStep ==
    ASSUME IInv, NEW j \in Jobs, Import(j) PROVE IInv'
  <1>1. ASSUME NEW n \in Names, NEW as \in SUBSET Artifacts, StartImport(j, n, as) PROVE IInv'
    BY <1>1, StartStep
  <1>2. ASSUME NEW a \in Artifacts, StartBT(j, a) \/ NextGroup(j, a) \/ QuantConflict(j, a)
        PROVE  IInv'
    BY <1>2, StartStep, NextGroupStep, FailStep
  <1>3. ASSUME NEW f \in FileIds, PutFile(j, f) PROVE IInv'
    BY <1>3, PutFileStep
  <1>4. ASSUME FilesStored(j) \/ PutMeta(j) \/ SetDistributionLink(j) \/ SetHints(j) PROVE IInv'
    BY <1>4, StageStep
  <1>5. ASSUME \/ LockNamespace(j) \/ existingMembers(j) \/ RefuseRebuild(j) \/ PutIndex(j)
               \/ SetNamespace(j) \/ ImportFails(j) \/ ImportFailsLate(j)
        PROVE  IInv'
    BY <1>5, LockStep, MergeStep, FailStep, PutIndexStep, SetNamespaceStep, LateFailStep
  <1> QED BY <1>1, <1>2, <1>3, <1>4, <1>5 DEF Import

LEMMA Stutter == IInv /\ UNCHANGED vars => IInv'
  BY DEF vars, IInv, TypeOK, JobInv, PutInv, MergedInv, LockInv, Passed, LinkedComplete,
         PublishedComplete, IndexStored, ReportedPublished, Complete

LEMMA Inductive == IInv /\ [Next]_vars => IInv'
  BY ImportStep, CrashStep, LoseIndexStep, Stutter DEF Next

(* The only step that moves a namespace is a publication.                  *)
LEMMA KeptStep == ASSUME IInv, [Next]_vars PROVE Kept
  <1>1. CASE current' = current
    BY <1>1 DEF Kept
  <1>2. ASSUME NEW j \in Jobs, job[j].pc = "setns",
               SetNamespace(j) \/ ImportFailsLate(j)
        PROVE  Kept
    BY <1>2, PublishFacts DEF SetNamespace, ImportFailsLate, InStage, counts
  <1>3. ASSUME NEW j \in Jobs, Import(j) PROVE Kept
    <2>1. CASE SetNamespace(j) \/ (ImportFailsLate(j) /\ job[j].pc = "setns")
      BY <1>2, <2>1 DEF SetNamespace
    <2>2. CASE ImportFailsLate(j) /\ job[j].pc # "setns"
      BY <1>1, <2>2 DEF ImportFailsLate
    <2> QED BY <1>1, <1>3, <2>1, <2>2
          DEF Import, StartImport, StartBT, NextGroup, QuantConflict, PutFile, FilesStored, PutMeta,
              SetDistributionLink, SetHints, LockNamespace, existingMembers, RefuseRebuild,
              PutIndex, ImportFails, store
  <1> QED BY <1>1, <1>3 DEF Next, Crash, LoseIndex, vars, store

(* The inductive invariant holds in every reachable state.                 *)
THEOREM Invariance == Spec => []IInv
  BY InitIInv, Inductive, PTL DEF Spec

(* Jobs, links, namespaces and store keep their types.                     *)
THEOREM TypeCorrect == Spec => []TypeOK
  <1>1. IInv => TypeOK BY DEF IInv
  <1> QED BY Invariance, <1>1, PTL

(* "must leave no permanent record link behind" (fill.go:273-276): a link  *)
(* in distribution.json has its files, layers and record behind it.        *)
THEOREM LinksNeverDangle == Spec => []LinkedComplete
  <1>1. IInv => LinkedComplete BY DEF IInv
  <1> QED BY Invariance, <1>1, PTL

(* What resolve and pull offer is whole: content, then link, then index.   *)
THEOREM OnlyCompleteIsPublished == Spec => []PublishedComplete
  <1>1. IInv => PublishedComplete BY DEF IInv
  <1> QED BY Invariance, <1>1, PTL

(* The index blob is in the store before namespaces.json names it          *)
(* (importer.go:304-309), through every failure and crash.                 *)
THEOREM NamespacesNeverDangle == Spec => []IndexStored
  <1>1. IInv => IndexStored BY DEF IInv
  <1> QED BY Invariance, <1>1, PTL

(* An import that said ok stays visible, whatever other jobs do later.     *)
THEOREM SuccessStaysPublished == Spec => []ReportedPublished
  <1>1. IInv => ReportedPublished BY DEF IInv
  <1> QED BY Invariance, <1>1, PTL

(* "concurrent import jobs for the same as must not lose members"          *)
(* (importer.go:349-354): no step of any job takes a quant from a          *)
(* namespace, because the merge is published under the lock it read under. *)
THEOREM NoMemberLost == Spec => MembersKept
  <1>1. IInv /\ [Next]_vars =>
          [\A n \in Names, q \in Quants :
             current[n] # None /\ current[n][q] # None
               => current'[n] # None /\ current'[n][q] # None]_vars
    BY KeptStep DEF Kept
  <1> QED BY Invariance, <1>1, PTL DEF Spec, MembersKept
=============================================================================
