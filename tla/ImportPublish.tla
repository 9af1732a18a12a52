--------------------------- MODULE ImportPublish ---------------------------
(***************************************************************************)
(* How artifacts become visible: importer.Import (internal/importer/       *)
(* importer.go) and the pinned BT import (internal/swarm/fill.go,          *)
(* ImportBT), run by concurrent job goroutines of one daemon over one      *)
(* store.  Store.Put and the state updates are taken at what modules       *)
(* BlobStore and StateMaps show of them: atomic, and durable once they     *)
(* have returned nil.  Left out is the Put that finds a blob whose writer  *)
(* has not yet fsynced the directory (see AtomicBlobs).                    *)
(*                                                                         *)
(* A blob is named by what it is: a content file, or the manifest, piece   *)
(* layers or distribution record of an artifact (Seal is deterministic, so *)
(* an artifact fixes all three), or an index document.                     *)
(***************************************************************************)
EXTENDS Naturals, Sequences, FiniteSets

CONSTANTS
    Jobs,        \* import goroutines
    Names,       \* namespaces "ns/name"
    Artifacts,   \* sealed artifacts (identified by their manifest)
    Quants,      \* quant selectors
    QuantOf,     \* [Artifacts -> Quants]: DeriveQuant of the weights group
    FileIds,     \* content blobs
    FilesOf,     \* [Artifacts -> SUBSET FileIds]: shared companions overlap
    None,
    MaxImports,  \* bound on imports started
    MaxLosses    \* bound on index blobs lost to rot or deletion

ASSUME PublishAssumption ==
    /\ QuantOf \in [Artifacts -> Quants]
    /\ FilesOf \in [Artifacts -> SUBSET FileIds]
    /\ MaxImports \in Nat /\ MaxLosses \in Nat
    /\ None \notin Artifacts \cup Names \cup Jobs \cup [Quants -> Artifacts \cup {None}]

Index == [Quants -> Artifacts \cup {None}]  \* members, one per quant
EmptyIndex == [q \in Quants |-> None]
Meta == [kind : {"manifest", "layers", "record"}, of : Artifacts]

VARIABLES
    blobs,     \* content files and Meta blobs in the CAS
    indexes,   \* index blobs in the CAS
    current,   \* [Names -> Index \cup {None}]: namespaces.json
    links,     \* artifacts whose manifest is linked in distribution.json
    hints,     \* artifacts with an entry in swarm-hints.json
    nsLock,    \* [Names -> Jobs \cup {None}]: namespaceLocks
    job,       \* [Jobs -> JobState]
    imports,   \* imports started
    losses     \* index blobs lost

vars == <<blobs, indexes, current, links, hints, nsLock, job, imports, losses>>
store == <<blobs, indexes, current, links, hints>>
counts == <<imports, losses>>

(* Mutant of BTOrder: the record is linked before the swarm sealed files.  *)
BTOrderLinksEarly == <<"manifest", "layers", "record", "link", "files", "hints">>

(* What is put, in order.  Import seals content first; ImportBT stores the *)
(* pinned manifest, seals the files through the swarm, and persists layers, *)
(* record, link and hints only then.                                       *)
ImportOrder == <<"files", "manifest", "layers", "record", "link">>
BTOrder == <<"manifest", "files", "layers", "record", "link", "hints">>
Order == [import |-> ImportOrder, bt |-> BTOrder]

Idle == [pc |-> "idle", kind |-> "import", ns |-> None, rest |-> {}, art |-> None,
         at |-> 1, members |-> {}, merged |-> None]

JobState ==
    [pc : {"idle", "pick", "put", "lock", "read", "index", "setns", "ok", "err"},
     kind : DOMAIN Order, ns : Names \cup {None},
     rest : SUBSET Artifacts,             \* groups still to seal
     art : Artifacts \cup {None},         \* the group being sealed
     at : 1..6,                           \* position in Order
     members : SUBSET Artifacts,          \* res.Members
     merged : Index \cup {None}]          \* the index to publish

Init ==
    /\ blobs = {} /\ indexes = {} /\ links = {} /\ hints = {}
    /\ current = [n \in Names |-> None]
    /\ nsLock = [n \in Names |-> None]
    /\ job = [j \in Jobs |-> Idle]
    /\ imports = 0 /\ losses = 0

Stage(j) == Order[job[j].kind][job[j].at]
InStage(j, s) == job[j].pc = "put" /\ Stage(j) = s

(* Mutant of Advanced: one stage too far.                                  *)
AdvancedPastEnd(j) ==
    IF job[j].at <= Len(Order[job[j].kind]) THEN [job[j] EXCEPT !.at = @ + 1]
    ELSE [job[j] EXCEPT !.pc = "pick", !.art = None, !.at = 1,
                        !.members = @ \cup {job[j].art}]

(* To the next stage; behind the last one an import picks its next group   *)
(* and a BT import is done.                                                *)
Advanced(j) ==
    IF job[j].at < Len(Order[job[j].kind]) THEN [job[j] EXCEPT !.at = @ + 1]
    ELSE IF job[j].kind = "bt" THEN [Idle EXCEPT !.pc = "ok", !.kind = "bt"]
    ELSE [job[j] EXCEPT !.pc = "pick", !.art = None, !.at = 1,
                        !.members = @ \cup {job[j].art}]

Step(j, s) == job' = [job EXCEPT ![j] = s]

-----------------------------------------------------------------------------
(* Import: classification has grouped the sources into artifacts.          *)
StartImport(j, n, as) ==
    /\ job[j].pc \in {"idle", "ok", "err"} /\ imports < MaxImports
    /\ as # {}
    /\ Step(j, [Idle EXCEPT !.pc = "pick", !.ns = n, !.rest = as])
    /\ imports' = imports + 1
    /\ UNCHANGED <<store, nsLock, losses>>

(* ImportBT: layers and manifest fetched, the manifest hashes to the pin.  *)
StartBT(j, a) ==
    /\ job[j].pc \in {"idle", "ok", "err"} /\ imports < MaxImports
    /\ Step(j, [Idle EXCEPT !.pc = "put", !.kind = "bt", !.art = a])
    /\ imports' = imports + 1
    /\ UNCHANGED <<store, nsLock, losses>>

(* The next group: derive its quant, seal it.                              *)
NextGroup(j, a) ==
    /\ job[j].pc = "pick" /\ a \in job[j].rest
    /\ \A m \in job[j].members : QuantOf[m] # QuantOf[a]
    /\ Step(j, [job[j] EXCEPT !.pc = "put", !.art = a, !.rest = @ \ {a}])
    /\ UNCHANGED <<store, nsLock, counts>>

(* Two groups derive one quant: the import fails, earlier groups stay.     *)
QuantConflict(j, a) ==
    /\ job[j].pc = "pick" /\ a \in job[j].rest
    /\ \E m \in job[j].members : QuantOf[m] = QuantOf[a]
    /\ Step(j, [Idle EXCEPT !.pc = "err"])
    /\ UNCHANGED <<store, nsLock, counts>>

(* store.Put of one content file; the stage ends when all are there.       *)
PutFile(j, f) ==
    /\ InStage(j, "files") /\ f \in FilesOf[job[j].art] \ blobs
    /\ blobs' = blobs \cup {f}
    /\ UNCHANGED <<indexes, current, links, hints, nsLock, job, counts>>

(* Mutant of FilesStored: goes on before every file is in the store.       *)
FilesStoredEarly(j) ==
    /\ InStage(j, "files")
    /\ Step(j, Advanced(j))
    /\ UNCHANGED <<store, nsLock, counts>>

FilesStored(j) ==
    /\ InStage(j, "files") /\ FilesOf[job[j].art] \subseteq blobs
    /\ Step(j, Advanced(j))
    /\ UNCHANGED <<store, nsLock, counts>>

(* putCanonical of manifest, piece layers and distribution record.         *)
PutMeta(j) ==
    /\ job[j].pc = "put" /\ Stage(j) \in {"manifest", "layers", "record"}
    /\ blobs' = blobs \cup {[kind |-> Stage(j), of |-> job[j].art]}
    /\ Step(j, Advanced(j))
    /\ UNCHANGED <<indexes, current, links, hints, nsLock, counts>>

SetDistributionLink(j) ==
    /\ InStage(j, "link")
    /\ links' = links \cup {job[j].art}
    /\ Step(j, Advanced(j))
    /\ UNCHANGED <<blobs, indexes, current, hints, nsLock, counts>>

SetHints(j) ==
    /\ InStage(j, "hints")
    /\ hints' = hints \cup {job[j].art}
    /\ Step(j, Advanced(j))
    /\ UNCHANGED <<blobs, indexes, current, links, nsLock, counts>>

(* Mutant of LockNamespace: read-merge-publish without the lock.           *)
LockNamespaceIgnored(j) ==
    /\ job[j].pc = "pick" /\ job[j].rest = {}
    /\ Step(j, [job[j] EXCEPT !.pc = "read"])
    /\ UNCHANGED <<store, nsLock, counts>>

(* The index merge, under the namespace lock.                              *)
LockNamespace(j) ==
    /\ job[j].pc = "pick" /\ job[j].rest = {}
    /\ nsLock[job[j].ns] = None
    /\ nsLock' = [nsLock EXCEPT ![job[j].ns] = j]
    /\ Step(j, [job[j] EXCEPT !.pc = "read"])
    /\ UNCHANGED <<store, counts>>

Unlocked(j) == [n \in Names |-> IF nsLock[n] = j THEN None ELSE nsLock[n]]

(* Mutant of Upsert: replaces members and never appends one.               *)
UpsertReplacesOnly(idx, as) ==
    [q \in Quants |-> IF idx[q] # None /\ \E a \in as : QuantOf[a] = q
                      THEN CHOOSE a \in as : QuantOf[a] = q ELSE idx[q]]

(* UpsertMember replaces the member of the same quant.                     *)
Upsert(idx, as) ==
    [q \in Quants |-> IF \E a \in as : QuantOf[a] = q
                      THEN CHOOSE a \in as : QuantOf[a] = q ELSE idx[q]]

(* existingMembers: no namespace entry is an empty index; UpsertMember,    *)
(* SealIndex and ValidateIndexMembers follow.                              *)
existingMembers(j) ==
    /\ job[j].pc = "read"
    /\ LET n == job[j].ns IN
         /\ current[n] # None => current[n] \in indexes
         /\ Step(j, [job[j] EXCEPT !.pc = "index",
                !.merged = Upsert(IF current[n] = None THEN EmptyIndex ELSE current[n],
                                  job[j].members)])
    /\ UNCHANGED <<store, nsLock, counts>>

(* The current index blob is missing or invalid: refuse, never rebuild.    *)
RefuseRebuild(j) ==
    /\ job[j].pc = "read"
    /\ current[job[j].ns] # None /\ current[job[j].ns] \notin indexes
    /\ Step(j, [Idle EXCEPT !.pc = "err"])
    /\ nsLock' = Unlocked(j)
    /\ UNCHANGED <<store, counts>>

(* Mutant of PutIndex: the namespace is set first.                         *)
PutIndexSkipped(j) ==
    /\ job[j].pc = "index"
    /\ Step(j, [job[j] EXCEPT !.pc = "setns"])
    /\ UNCHANGED <<store, nsLock, counts>>

PutIndex(j) ==
    /\ job[j].pc = "index"
    /\ indexes' = indexes \cup {job[j].merged}
    /\ Step(j, [job[j] EXCEPT !.pc = "setns"])
    /\ UNCHANGED <<blobs, current, links, hints, nsLock, counts>>

(* SetNamespace, and the deferred Unlock.                                  *)
SetNamespace(j) ==
    /\ job[j].pc = "setns"
    /\ current' = [current EXCEPT ![job[j].ns] = job[j].merged]
    /\ nsLock' = Unlocked(j)
    /\ Step(j, [Idle EXCEPT !.pc = "ok", !.ns = job[j].ns, !.members = job[j].members])
    /\ UNCHANGED <<blobs, indexes, links, hints, counts>>

(* Any Put, state update or fetch may fail; the lock is deferred.          *)
ImportFails(j) ==
    /\ job[j].pc \in {"put", "read", "index", "setns"}
    /\ Step(j, [Idle EXCEPT !.pc = "err"])
    /\ nsLock' = Unlocked(j)
    /\ UNCHANGED <<store, counts>>

(* The same failure behind the rename (syncDir of Put or atomicWrite), or  *)
(* SeedArtifact failing after the hints of a BT import are written: an     *)
(* error is reported although the effect is visible.                       *)
ImportFailsLate(j) ==
    /\ \/ /\ job[j].pc = "put" /\ Stage(j) \in {"manifest", "layers", "record"}
          /\ blobs' = blobs \cup {[kind |-> Stage(j), of |-> job[j].art]}
          /\ UNCHANGED <<indexes, current, links, hints>>
       \/ /\ InStage(j, "link")
          /\ links' = links \cup {job[j].art}
          /\ UNCHANGED <<blobs, indexes, current, hints>>
       \/ /\ InStage(j, "hints")
          /\ hints' = hints \cup {job[j].art}
          /\ UNCHANGED <<blobs, indexes, current, links>>
       \/ /\ job[j].pc = "setns"
          /\ current' = [current EXCEPT ![job[j].ns] = job[j].merged]
          /\ UNCHANGED <<blobs, indexes, links, hints>>
    /\ Step(j, [Idle EXCEPT !.pc = "err"])
    /\ nsLock' = Unlocked(j)
    /\ UNCHANGED counts

(* The daemon dies: jobs and locks are memory.                             *)
Crash ==
    /\ \E j \in Jobs : job[j].pc \notin {"idle", "ok", "err"}
    /\ job' = [j \in Jobs |-> Idle]
    /\ nsLock' = [n \in Names |-> None]
    /\ UNCHANGED <<store, counts>>

(* An index blob is deleted under the store.                               *)
LoseIndex(x) ==
    /\ losses < MaxLosses
    /\ x \in indexes
    /\ indexes' = indexes \ {x}
    /\ losses' = losses + 1
    /\ UNCHANGED <<blobs, current, links, hints, nsLock, job, imports>>

Import(j) ==
    \/ \E n \in Names, as \in SUBSET Artifacts : StartImport(j, n, as)
    \/ \E a \in Artifacts : StartBT(j, a) \/ NextGroup(j, a) \/ QuantConflict(j, a)
    \/ \E f \in FileIds : PutFile(j, f)
    \/ FilesStored(j) \/ PutMeta(j) \/ SetDistributionLink(j) \/ SetHints(j)
    \/ LockNamespace(j) \/ existingMembers(j) \/ RefuseRebuild(j) \/ PutIndex(j)
    \/ SetNamespace(j) \/ ImportFails(j) \/ ImportFailsLate(j)

Next == (\E j \in Jobs : Import(j)) \/ Crash \/ (\E x \in indexes : LoseIndex(x))

Spec == Init /\ [][Next]_vars

-----------------------------------------------------------------------------
TypeOK ==
    /\ blobs \subseteq FileIds \cup Meta
    /\ indexes \subseteq Index
    /\ current \in [Names -> Index \cup {None}]
    /\ links \subseteq Artifacts /\ hints \subseteq Artifacts
    /\ nsLock \in [Names -> Jobs \cup {None}]
    /\ job \in [Jobs -> JobState]
    /\ imports \in 0..MaxImports /\ losses \in 0..MaxLosses

Complete(a) ==
    /\ FilesOf[a] \subseteq blobs
    /\ \A k \in {"manifest", "layers", "record"} : [kind |-> k, of |-> a] \in blobs

(* "a failure between here and success must leave no permanent record link *)
(* behind" (fill.go:273-276, importer.go:246-265): a linked manifest has   *)
(* its files, layers and record in the CAS, whatever failed or crashed, so *)
(* fill and seed never start from a dangling link.                         *)
LinkedComplete == \A a \in links : Complete(a)

(* A member of a current index (what resolve and pull offer) is complete   *)
(* and swarm-ready: content is stored before the index names it.           *)
PublishedComplete ==
    \A n \in Names : current[n] # None =>
        \A q \in Quants : current[n][q] # None =>
            Complete(current[n][q]) /\ current[n][q] \in links

(* namespaces.json names an index blob that was stored before it           *)
(* (importer.go:304-309); only outside damage makes one dangle.            *)
IndexStored ==
    losses = 0 => \A n \in Names : current[n] # None => current[n] \in indexes

(* "concurrent import jobs for the same as must not lose members"          *)
(* (importer.go:349-354), and a damaged index is "never silently rebuilt"  *)
(* (importer.go:377-379): once a namespace has a quant it keeps it.        *)
MembersKept ==
    [][\A n \in Names, q \in Quants :
         current[n] # None /\ current[n][q] # None
            => current'[n] # None /\ current'[n][q] # None]_vars

(* An import that reported success has every one of its quants in the      *)
(* current index, also after later imports of other jobs.                  *)
ReportedPublished ==
    \A j \in Jobs : job[j].pc = "ok" /\ job[j].kind = "import" =>
        /\ current[job[j].ns] # None
        /\ \A a \in job[j].members : current[job[j].ns][QuantOf[a]] # None
=============================================================================
