------------------------------ MODULE SwarmFill ------------------------------
(***************************************************************************)
(* The swarm side of one artifact (one v2 infohash): the CAS storage       *)
(* driver (storage.go), and the three operations that join its torrent -   *)
(* Fill, phase 2 of ImportBT, and SeedArtifact - each on a goroutine of    *)
(* its own (fill.go, swarm.go).  The operations share the torrent engine,  *)
(* which keeps at most one listed torrent per infohash, so any of them can *)
(* drop the torrent another one is waiting on.                             *)
(*                                                                         *)
(* A torrent instance and the driver OpenTorrent built for it have one     *)
(* number.  The engine is external: its steps are Unlist, CloseStorage and *)
(* the calls it makes on a driver while that driver is open.  Dropping a   *)
(* torrent unlists it and closes its driver, in either order, after Drop   *)
(* returned to the caller; Closed() is signalled when both have happened.  *)
(***************************************************************************)
EXTENDS Naturals, FiniteSets

CONSTANTS
    Ops,          \* goroutines running Fill, ImportBT or SeedArtifact
    Single,       \* files of one piece
    Multi,        \* files of several pieces
    Manifest,     \* the file manifest/sha256-<hex>, of one piece
    NPieces,      \* pieces of a file of Multi
    MaxTorrents,  \* bound: torrent instances the engine ever creates
    MaxHurt,      \* bound: blobs lost or rotted behind the store's back
    DropGivesUp,  \* whether the ten seconds of dropTorrent may run out
    CfgSeed       \* [swarm] seed

Files == Single \cup Multi
Torrents == 1..MaxTorrents

ASSUME FilesAssumption ==
    /\ Manifest \in Single
    /\ Single \cap Multi = {}
    /\ NPieces \in Nat \ {0, 1}
ASSUME BoundsAssumption ==
    /\ MaxTorrents \in Nat \ {0}
    /\ MaxHurt \in Nat
    /\ DropGivesUp \in BOOLEAN
    /\ CfgSeed \in BOOLEAN

Pieces(f) == IF f \in Single THEN {1} ELSE 1..NPieces

VARIABLES
    store,     \* content of each file's blob: "none", "good" or "bad"
    verified,  \* VerifyCache: files verified in this process
    \* the engine and its drivers
    next,      \* number of the next torrent instance
    listed,    \* torrents the client lists under the infohash
    dropping,  \* torrents Drop was called on
    opened,    \* drivers constructed and not closed
    openKey,   \* CASStorage.open[key]: a driver, or 0 for no entry
    sealed,    \* per driver: files promoted into the store
    failed,    \* per driver: files whose verify-write failed
    part,      \* per driver: files with an incoming part on disk
    done,      \* per driver: pieces marked complete, as <<file, piece>>
    \* the operations
    pc,        \* where the goroutine stands
    kind,      \* what it runs: "fill", "import" or "seed" (SeedArtifact)
    tr,        \* the torrent it holds, 0 before the add
    drv,       \* the driver it got from driverFor
    left,      \* files still to check (seed-start re-hash, VerifyPresent)
    then,      \* what follows the drop it waits for
    \* observations
    hurt,      \* per operation: files lost or rotted since it, or its seeding, began
    hurtSince, \* per driver: files lost or rotted since it was opened
    hurts      \* losses so far, for the bound

engineVars == <<next, listed, dropping, opened, openKey>>
driverVars == <<sealed, failed, part, done>>
opVars == <<pc, kind, tr, drv, left, then>>
obsVars == <<hurt, hurtSince, hurts>>
vars == <<store, verified, engineVars, driverVars, opVars, obsVars>>

PCs == {"idle", "rehash", "snap", "dropold", "add", "driver", "verify",
        "wait", "asleep", "announce", "drop", "ok", "err"}

TypeOK ==
    /\ store \in [Files -> {"none", "good", "bad"}]
    /\ verified \subseteq Files
    /\ next \in 1..(MaxTorrents + 1)
    /\ listed \subseteq Torrents /\ dropping \subseteq Torrents
    /\ opened \subseteq Torrents /\ openKey \in Torrents \cup {0}
    /\ sealed \in [Torrents -> SUBSET Files]
    /\ failed \in [Torrents -> SUBSET Files]
    /\ part \in [Torrents -> SUBSET Files]
    /\ done \in [Torrents -> SUBSET (Files \X (1..NPieces))]
    /\ pc \in [Ops -> PCs]
    /\ kind \in [Ops -> {"fill", "import", "seed"}]
    /\ tr \in [Ops -> Torrents \cup {0}] /\ drv \in [Ops -> Torrents \cup {0}]
    /\ left \in [Ops -> SUBSET Files]
    /\ then \in [Ops -> {"seed", "ok", "err"}]
    /\ hurt \in [Ops -> SUBSET Files]
    /\ hurtSince \in [Torrents -> SUBSET Files]
    /\ hurts \in 0..MaxHurt

(***************************************************************************)
(* A process starts with whatever the store holds.                         *)
(***************************************************************************)
Init ==
    /\ store \in [Files -> {"none", "good"}]
    /\ verified = {}
    /\ next = 1 /\ listed = {} /\ dropping = {} /\ opened = {} /\ openKey = 0
    /\ sealed = [i \in Torrents |-> {}]
    /\ failed = [i \in Torrents |-> {}]
    /\ part = [i \in Torrents |-> {}]
    /\ done = [i \in Torrents |-> {}]
    /\ pc = [g \in Ops |-> "idle"]
    /\ kind = [g \in Ops |-> "fill"]
    /\ tr = [g \in Ops |-> 0] /\ drv = [g \in Ops |-> 0]
    /\ left = [g \in Ops |-> {}]
    /\ then = [g \in Ops |-> "ok"]
    /\ hurt = [g \in Ops |-> {}]
    /\ hurtSince = [i \in Torrents |-> {}]
    /\ hurts = 0

-----------------------------------------------------------------------------
(* Helpers of the operations and of the driver.                            *)

Has(f) == store[f] # "none"

\* cas.Put: verified bytes land unless an entry exists, which wins.
PutInto(s, f) == [s EXCEPT ![f] = IF @ = "none" THEN "good" ELSE @]

Goto(g, where) == pc' = [pc EXCEPT ![g] = where]

\* The goroutine returns; its locals go with it.
Return(g, result) ==
    /\ Goto(g, result)
    /\ tr' = [tr EXCEPT ![g] = 0]
    /\ drv' = [drv EXCEPT ![g] = 0]
    /\ left' = [left EXCEPT ![g] = {}]
    /\ then' = [then EXCEPT ![g] = "ok"]

\* doneCond.Broadcast on driver i: every operation asleep on it wakes.
Woken(i) ==
    [g \in Ops |-> IF pc[g] = "asleep" /\ drv[g] = i THEN "wait" ELSE pc[g]]

\* t.Closed() of torrent i.
IsClosed(i) == i \notin listed /\ i \notin opened

\* t.Drop(): a torrent that is already going is left alone.
DropCall(i) == dropping' = dropping \cup ({i} \cap (listed \cup opened))

\* dropTorrent(t) followed by the result or the seeding.
DropThen(g, i, what) ==
    /\ DropCall(i)
    /\ Goto(g, "drop")
    /\ then' = [then EXCEPT ![g] = what]

\* Field x of all drivers when driver i gets value v: a closed driver that no
\* operation refers to any more is garbage, and forgotten.
Live == opened \cup {tr[g] : g \in Ops} \cup {drv[g] : g \in Ops}
Field(x, i, v) ==
    [j \in Torrents |-> IF j = i THEN v ELSE IF j \in Live THEN x[j] ELSE {}]

\* Mutant of NewDriver: a present file counts as complete, whatever its pieces.
NewDriverTrusting(i) ==
    LET present == {f \in Files : Has(f)} IN
    /\ opened' = opened \cup {i}
    /\ openKey' = i
    /\ sealed' = Field(sealed, i, present)
    /\ done' = Field(done, i, UNION {{f} \X Pieces(f) : f \in present})
    /\ hurtSince' = [hurtSince EXCEPT ![i] = {}]
    /\ failed' = Field(failed, i, {})
    /\ part' = Field(part, i, {})

\* newCASTorrent for driver i: a file whose blob is present is sealed from
\* the start; its pieces are complete only when there is a single one.
NewDriver(i) ==
    LET present == {f \in Files : Has(f)} IN
    /\ opened' = opened \cup {i}
    /\ openKey' = i
    /\ sealed' = Field(sealed, i, present)
    /\ done' = Field(done, i, (present \cap Single) \X {1})
    /\ hurtSince' = [hurtSince EXCEPT ![i] = {}]
    /\ failed' = Field(failed, i, {})
    /\ part' = Field(part, i, {})

-----------------------------------------------------------------------------
(* The operations, first to last step.                                     *)

\* Fill up to Register, from the manifest its handler read from the store:
\* a rotted manifest, an unlinked, corrupt or unbound record and missing
\* piece layers are errors; nothing missing is success.
Fill(g) ==
    /\ pc[g] = "idle"
    /\ Has(Manifest)
    /\ kind' = [kind EXCEPT ![g] = "fill"]
    /\ hurt' = [hurt EXCEPT ![g] = {}]
    /\ \/ Goto(g, "err")
       \/ /\ store[Manifest] = "good"
          /\ Goto(g, IF \A f \in Files : Has(f) THEN "ok" ELSE "snap")
    /\ UNCHANGED <<store, verified, engineVars, driverVars, tr, drv, left, then,
                   hurtSince, hurts>>

\* ImportBT: layers and manifest from the webseed hints, pin check, Put of
\* the manifest, validation and binding gate; each may fail.
ImportBT(g) ==
    /\ pc[g] = "idle"
    /\ kind' = [kind EXCEPT ![g] = "import"]
    /\ hurt' = [hurt EXCEPT ![g] = {}]
    /\ \/ Goto(g, "err") /\ UNCHANGED store
       \/ /\ store' = PutInto(store, Manifest)
          /\ \E where \in {"err", "snap"} : Goto(g, where)
    /\ UNCHANGED <<verified, engineVars, driverVars, tr, drv, left, then,
                   hurtSince, hurts>>

\* StartupSeed, one link: SeedArtifactFromCAS reads the manifest from the
\* store (a rotted one does not reconstruct to the linked record).
SeedArtifactFromCAS(g) ==
    /\ CfgSeed
    /\ pc[g] = "idle"
    /\ kind' = [kind EXCEPT ![g] = "seed"]
    /\ hurt' = [hurt EXCEPT ![g] = {}]
    /\ \/ Goto(g, "err") /\ UNCHANGED left
       \/ /\ store[Manifest] = "good"
          /\ Goto(g, "rehash")
          /\ left' = [left EXCEPT ![g] = Files \ {Manifest}]
    /\ UNCHANGED <<store, verified, engineVars, driverVars, tr, drv, then,
                   hurtSince, hurts>>

\* One file of the seed-start re-hash loop of SeedArtifact.
SeedRehash(g) ==
    /\ pc[g] = "rehash"
    /\ \E f \in left[g] :
        IF Has(f) /\ (f \in verified \/ store[f] = "good")
        THEN /\ verified' = verified \cup {f}
             /\ left' = [left EXCEPT ![g] = @ \ {f}]
             /\ UNCHANGED <<pc, tr, drv, then>>
        ELSE Return(g, "err") /\ UNCHANGED verified
    /\ UNCHANGED <<store, engineVars, driverVars, kind, obsVars>>

\* SeedArtifact: Register and layersFor, whose blob may be missing.
SeedRegister(g) ==
    /\ pc[g] = "rehash" /\ left[g] = {}
    /\ \/ Goto(g, "snap") /\ UNCHANGED <<tr, drv, left, then>>
       \/ Return(g, "err")
    /\ UNCHANGED <<store, verified, engineVars, driverVars, kind, obsVars>>

\* addFreshTorrent: drop the live torrent with this infohash, if any.
AddFreshDrop(g) ==
    /\ pc[g] = "snap"
    /\ \/ /\ listed = {}
          /\ Goto(g, "add")
          /\ UNCHANGED <<dropping, tr>>
       \/ \E i \in listed :
            /\ DropCall(i)
            /\ tr' = [tr EXCEPT ![g] = i]
            /\ Goto(g, "dropold")
    /\ UNCHANGED <<store, verified, next, listed, opened, openKey, driverVars,
                   kind, drv, left, then, obsVars>>

\* Mutant of AddFreshDropped: the re-add does not wait for the drop.
AddFreshDroppedAtOnce(g) ==
    /\ pc[g] = "dropold"
    /\ Goto(g, "add")
    /\ tr' = [tr EXCEPT ![g] = 0]
    /\ UNCHANGED <<store, verified, engineVars, driverVars, kind, drv,
                   left, then, obsVars>>

\* dropTorrent returns: the drop has finished, or ten seconds have passed.
AddFreshDropped(g) ==
    /\ pc[g] = "dropold"
    /\ IsClosed(tr[g]) \/ DropGivesUp
    /\ Goto(g, "add")
    /\ tr' = [tr EXCEPT ![g] = 0]
    /\ UNCHANGED <<store, verified, engineVars, driverVars, kind, drv,
                   left, then, obsVars>>

\* AddTorrentSpec: the listed torrent of this infohash if there is one, else
\* a new one, opened at once because the spec carries the info dict.
AddTorrent(g) ==
    /\ pc[g] = "add"
    /\ \/ Return(g, "err") /\ UNCHANGED <<engineVars, driverVars, hurtSince>>
       \/ \E i \in listed :
            /\ tr' = [tr EXCEPT ![g] = i]
            /\ Goto(g, "driver")
            /\ UNCHANGED <<engineVars, driverVars, drv, left, then, hurtSince>>
       \/ /\ listed = {} /\ next \in Torrents
          /\ tr' = [tr EXCEPT ![g] = next]
          /\ listed' = {next}
          /\ next' = next + 1
          /\ NewDriver(next)
          /\ Goto(g, "driver")
          /\ UNCHANGED <<dropping, drv, left, then>>
    /\ UNCHANGED <<store, verified, kind, hurt, hurts>>

\* driverFor: by key, so it may be the driver of another torrent instance.
\* Without an entry Fill returns and leaves its torrent, the others drop it.
GetDriver(g) ==
    /\ pc[g] = "driver"
    /\ IF openKey # 0
       THEN /\ drv' = [drv EXCEPT ![g] = openKey]
            /\ left' = [left EXCEPT ![g] = Multi]
            /\ Goto(g, "verify")
            /\ UNCHANGED <<dropping, tr, then>>
       ELSE IF kind[g] = "fill"
       THEN Return(g, "err") /\ UNCHANGED dropping
       ELSE DropThen(g, tr[g], "err") /\ UNCHANGED <<tr, drv, left>>
    /\ UNCHANGED <<store, verified, next, listed, opened, openKey, driverVars,
                   kind, obsVars>>

\* Mutant of PiecesChecked: the piece range is off by one at its end.
PiecesCheckedTooMany(i, f, k) ==
    /\ done' = [done EXCEPT ![i] = @ \cup ({f} \X (1..(k + 1)))]
    /\ UNCHANGED verified

\* The engine check of the pieces of sealed file f through torrent i calls
\* MarkComplete or MarkNotComplete on i's driver: the first k pieces pass.
PiecesChecked(i, f, k) ==
    LET now == (done[i] \cup ({f} \X (1..k))) \ ({f} \X {k + 1}) IN
    /\ done' = [done EXCEPT ![i] = now]
    /\ verified' = IF now # done[i] /\ {f} \X Pieces(f) \subseteq now
                   THEN verified \cup {f} ELSE verified

\* Mutant of VerifyPresent: a present file is taken on trust.
VerifyPresentSkipped(g) ==
    /\ pc[g] = "verify"
    /\ \E f \in left[g] : left' = [left EXCEPT ![g] = @ \ {f}]
    /\ UNCHANGED <<store, verified, engineVars, driverVars, pc, kind, tr, drv,
                   then, obsVars>>

\* VerifyPresent, one multi-piece file: checked when the driver the
\* operation got has it sealed; a piece that fails ends the operation, as
\* does a check on a torrent that was dropped meanwhile.
VerifyPresent(g) ==
    /\ pc[g] = "verify"
    /\ \E f \in left[g] :
        \/ /\ f \notin sealed[drv[g]]
           /\ left' = [left EXCEPT ![g] = @ \ {f}]
           /\ UNCHANGED <<pc, dropping, done, verified, then>>
        \/ /\ f \in sealed[drv[g]] /\ store[f] = "good" /\ f \in sealed[tr[g]]
           /\ PiecesChecked(tr[g], f, NPieces)
           /\ left' = [left EXCEPT ![g] = @ \ {f}]
           /\ UNCHANGED <<pc, dropping, then>>
        \/ /\ f \in sealed[drv[g]] /\ (store[f] # "good" \/ f \notin sealed[tr[g]])
           /\ \E k \in 0..(NPieces - 1) : PiecesChecked(tr[g], f, k)
           /\ DropThen(g, tr[g], "err")
           /\ UNCHANGED left
        \/ /\ f \in sealed[drv[g]] /\ tr[g] \in dropping
           /\ DropThen(g, tr[g], "err")
           /\ UNCHANGED <<left, done, verified>>
    /\ UNCHANGED <<store, next, listed, opened, openKey, sealed, failed, part,
                   kind, tr, drv, obsVars>>

VerifiedPresent(g) ==
    /\ pc[g] = "verify" /\ left[g] = {}
    /\ Goto(g, IF kind[g] # "seed" THEN "wait" ELSE "announce")
    /\ UNCHANGED <<store, verified, engineVars, driverVars, kind, tr, drv,
                   left, then, obsVars>>

\* One turn of the loop of WaitSealed, under the driver's lock: a failed
\* file first, then the count, then closed, else sleep on the condition.
WaitSealed(g) ==
    /\ pc[g] = "wait"
    /\ LET d == drv[g] IN
       CASE failed[d] # {} -> DropThen(g, tr[g], "err")
         [] failed[d] = {} /\ sealed[d] = Files ->
              DropThen(g, tr[g], IF CfgSeed THEN "seed" ELSE "ok")
         [] failed[d] = {} /\ sealed[d] # Files /\ d \notin opened ->
              DropThen(g, tr[g], "err")
         [] OTHER -> Goto(g, "asleep") /\ UNCHANGED <<dropping, then>>
    /\ UNCHANGED <<store, verified, next, listed, opened, openKey, driverVars,
                   kind, tr, drv, left, obsVars>>

\* The drop has finished (or timed out): return, or seed what was fetched.
Dropped(g) ==
    /\ pc[g] = "drop"
    /\ IsClosed(tr[g]) \/ DropGivesUp
    /\ IF then[g] = "seed"
       THEN /\ Goto(g, "rehash")
            /\ kind' = [kind EXCEPT ![g] = "seed"]
            /\ hurt' = [hurt EXCEPT ![g] = {}]
            /\ left' = [left EXCEPT ![g] = Files \ {Manifest}]
            /\ tr' = [tr EXCEPT ![g] = 0] /\ drv' = [drv EXCEPT ![g] = 0]
            /\ then' = [then EXCEPT ![g] = "ok"]
       ELSE Return(g, then[g]) /\ UNCHANGED <<kind, hurt>>
    /\ UNCHANGED <<store, verified, engineVars, driverVars, hurtSince, hurts>>

\* seeds[ih] = t and the webseed maps; the torrent stays.
Announce(g) ==
    /\ pc[g] = "announce"
    /\ Return(g, "ok")
    /\ UNCHANGED <<store, verified, engineVars, driverVars, kind, obsVars>>

-----------------------------------------------------------------------------
(* The driver as the engine calls it, while it is open.                    *)

\* WriteAt: refused for a sealed or failed file, else the part exists.
WriteAt(i, f) ==
    /\ f \notin sealed[i] \cup failed[i]
    /\ part' = [part EXCEPT ![i] = @ \cup {f}]

\* sealLocked: the part goes through Put; either way it is removed.
SealLocked(i, f) ==
    /\ part' = [part EXCEPT ![i] = @ \ {f}]
    /\ \/ /\ store' = PutInto(store, f)
          /\ sealed' = [sealed EXCEPT ![i] = @ \cup {f}]
          /\ verified' = verified \cup {f}
          /\ UNCHANGED failed
       \/ /\ failed' = [failed EXCEPT ![i] = @ \cup {f}]
          /\ UNCHANGED <<store, sealed, verified>>

\* A piece is received: written, hashed by the engine and marked complete;
\* the last one seals the file.
MarkComplete(i, f, p) ==
    /\ i \in opened
    /\ f \notin sealed[i] \cup failed[i]
    /\ <<f, p>> \notin done[i]
    /\ done' = [done EXCEPT ![i] = @ \cup {<<f, p>>}]
    /\ pc' = Woken(i)
    /\ IF {f} \X Pieces(f) \subseteq done[i] \cup {<<f, p>>}
       THEN SealLocked(i, f)
       ELSE WriteAt(i, f) /\ UNCHANGED <<store, verified, sealed, failed>>
    /\ UNCHANGED <<engineVars, kind, tr, drv, left, then, obsVars>>

\* Mutant of CloseStorage: close does not broadcast.
CloseStorageSilent(i) ==
    /\ i \in dropping \cap opened
    /\ opened' = opened \ {i}
    /\ openKey' = 0
    /\ part' = [part EXCEPT ![i] = @ \cap sealed[i]]
    /\ hurtSince' = [hurtSince EXCEPT ![i] = {}]
    /\ UNCHANGED <<store, verified, next, listed, dropping, sealed, failed, done,
                   opVars, hurt, hurts>>

\* The engine closes the driver of a dropped torrent: unsealed parts are
\* removed, waiters woken, the entry under the key deleted whoever owns it.
CloseStorage(i) ==
    /\ i \in dropping \cap opened
    /\ opened' = opened \ {i}
    /\ openKey' = 0
    /\ part' = [part EXCEPT ![i] = @ \cap sealed[i]]
    /\ pc' = Woken(i)
    /\ hurtSince' = [hurtSince EXCEPT ![i] = {}]
    /\ UNCHANGED <<store, verified, next, listed, dropping, sealed, failed, done,
                   kind, tr, drv, left, then, hurt, hurts>>

\* The engine takes a dropped torrent off its list.
Unlist(i) ==
    /\ i \in dropping \cap listed
    /\ listed' = listed \ {i}
    /\ UNCHANGED <<store, verified, next, dropping, opened, openKey, driverVars,
                   opVars, obsVars>>

\* A blob is deleted or rots on disk.
Hurt(f, how) ==
    /\ hurts < MaxHurt
    /\ Has(f) /\ store[f] # how
    /\ store' = [store EXCEPT ![f] = how]
    /\ hurts' = hurts + 1
    /\ hurt' = [g \in Ops |-> IF pc[g] \in {"idle", "err"} THEN {} ELSE hurt[g] \cup {f}]
    /\ hurtSince' = [i \in Torrents |-> IF i \in opened THEN hurtSince[i] \cup {f} ELSE {}]
    /\ UNCHANGED <<verified, engineVars, driverVars, opVars>>

\* Every operation has returned: the process goes on serving other requests.
Quiet ==
    /\ \A g \in Ops : pc[g] \in {"ok", "err"}
    /\ UNCHANGED vars

OpStart(g) == Fill(g) \/ ImportBT(g) \/ SeedArtifactFromCAS(g)

OpStep(g) ==
    \/ SeedRehash(g) \/ SeedRegister(g)
    \/ AddFreshDrop(g) \/ AddFreshDropped(g) \/ AddTorrent(g) \/ GetDriver(g)
    \/ VerifyPresent(g) \/ VerifiedPresent(g) \/ WaitSealed(g)
    \/ Dropped(g) \/ Announce(g)

Next ==
    \/ \E g \in Ops : OpStart(g)
    \/ \E g \in Ops : OpStep(g)
    \/ \E i \in Torrents, f \in Files : \E p \in Pieces(f) : MarkComplete(i, f, p)
    \/ \E i \in Torrents : CloseStorage(i) \/ Unlist(i)
    \/ \E f \in Files, how \in {"none", "bad"} : Hurt(f, how)
    \/ Quiet

Spec == Init /\ [][Next]_vars

-----------------------------------------------------------------------------
(* Properties.                                                             *)

\* A Fill or an ImportBT whose wait for the files ended well has the whole
\* artifact: every file is in the store or was lost or rotted after the
\* operation began.  Nothing another operation does to the shared torrent -
\* dropping it, replacing it, sharing its driver - lets a wait on a stale
\* driver pass (fill.go addFreshTorrent, storage.go WaitSealed).
FillOkComplete ==
    \A g \in Ops :
        (kind[g] # "seed" /\ (pc[g] = "ok" \/ (pc[g] = "drop" /\ then[g] = "seed")))
            => \A f \in Files : Has(f) \/ f \in hurt[g]

\* An artifact is announced only after the engine hashed every multi-piece
\* file for this very seeding: a blob that was corrupt before it began is
\* never seeded, whatever the verify cache remembers (SeedArtifact and
\* VerifyPresent, "disk corruption must never become swarm corruption").
SeedOkClean ==
    \A g \in Ops :
        (kind[g] = "seed" /\ pc[g] \in {"announce", "ok"})
            => \A f \in Multi : store[f] = "good" \/ f \in hurt[g]

\* A driver never offers a multi-piece file as complete on the strength of
\* its presence alone: if all its pieces are complete the blob was good
\* when the driver opened or was stored by it (Completion, newCASTorrent).
CompleteWasHashed ==
    \A i \in opened, f \in Multi :
        (f \in sealed[i] /\ {f} \X Pieces(f) \subseteq done[i])
            => store[f] = "good" \/ f \in hurtSince[i]

\* No operation sleeps on a driver that can no longer change its answer:
\* whatever closes a driver, fails one of its files or seals the last one
\* has woken every WaitSealed on it (storage.go close, MarkComplete,
\* sealLocked), so no Fill is left waiting by another one's drop.
NoLostWakeup ==
    \A g \in Ops :
        pc[g] = "asleep" =>
            drv[g] \in opened /\ failed[drv[g]] = {} /\ sealed[drv[g]] # Files

=============================================================================
