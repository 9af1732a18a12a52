----------------------------- MODULE CatalogPull -----------------------------
(***************************************************************************)
(* The catalog strand for one community (v1) torrent: the foreign storage  *)
(* driver (foreign.go), whose pieces span files, and ImportCatalog         *)
(* (catalog.go), run by any number of import-catalog jobs at once - the    *)
(* job table does not deduplicate them.  Unlike the native path the pull   *)
(* adds its magnet with plain AddTorrentSpec, so it may join the torrent   *)
(* of another pull, or the one an earlier pull left seeding, together with *)
(* the driver, the sealed state and the file priorities that come with it. *)
(*                                                                         *)
(* A torrent instance and its driver have one number.  The engine is       *)
(* external: it delivers the info dict (which opens the driver), writes    *)
(* and hashes pieces, and finishes drops.  Byte offsets are left out: a    *)
(* file is the set of pieces it overlaps and its place in the stream.      *)
(***************************************************************************)
EXTENDS Naturals, FiniteSets

CONSTANTS
    Pulls,        \* import-catalog jobs
    Files,        \* files of the torrent
    NPieces,      \* pieces of the torrent
    PiecesOf,     \* file -> pieces overlapping it; {} for an empty file
    Pos,          \* file -> position in the stream
    GitOnly,      \* non-LFS files: the live anchor has a git id, no sha256
    Worlds,       \* torrents considered: how they differ from the anchors, below
    Earlier,      \* files an earlier process may have left in the store
    Wants,        \* what wantedFiles may select; {}: the quant matches none
    MaxTorrents,  \* bound: torrent instances the engine ever creates
    MaxHurt       \* bound: blobs lost or rotted behind the store's back

Pieces == 1..NPieces
Torrents == 1..MaxTorrents
Empty == {f \in Files : PiecesOf[f] = {}}
FilesAt(p) == {f \in Files : p \in PiecesOf[f]}

ASSUME TreeAssumption ==
    /\ PiecesOf \in [Files -> SUBSET Pieces]
    /\ Pos \in [Files -> Nat]
    /\ \A f, g \in Files : f # g => Pos[f] # Pos[g]
    /\ GitOnly \subseteq Files /\ Earlier \subseteq Files /\ Wants \subseteq SUBSET Files
    /\ Worlds \subseteq [outside : SUBSET Files, resized : SUBSET Files,
                          wrong : SUBSET Files, differ : SUBSET (Files \X Pieces)]
    /\ \A w \in Worlds : \A f \in Files \ Empty :
          f \in w.wrong <=> \E p \in PiecesOf[f] : <<f, p>> \in w.differ
ASSUME BoundsAssumption ==
    NPieces \in Nat /\ MaxTorrents \in Nat \ {0} /\ MaxHurt \in Nat

VARIABLES
    store,     \* each file's blob: "none", "good" or "bad" (see Differs)
    outside,   \* files of the torrent that no anchor mentions
    resized,   \* files whose size is not the one a live anchor records
    wrong,     \* files whose torrent bytes are not what their anchor pins,
    differ,    \* and <<file, piece>> where the two differ
    reg,       \* ForeignStorage.reg[key].strict
    \* the engine and its drivers
    next, listed, dropping, opened,
    hasInfo,   \* torrents whose GotInfo has fired
    openKey,   \* ForeignStorage.open[key]: a driver, or 0 for no entry
    strict,    \* drivers opened under a strict registration
    prio,      \* per torrent: files with a download priority
    sealed,    \* per driver: files sealed into the store
    failed,    \* per driver: files whose seal failed
    frag,      \* per driver: <<file, piece>> written to a part on disk
    bits,      \* per driver: <<file, piece>> marked complete
    \* the pulls
    pc, want, tr, drv, left,
    \* observations
    hurt,      \* per pull: wanted files lost or rotted since it began
    hurts      \* losses so far, for the bound

engineVars == <<next, listed, dropping, opened, hasInfo, openKey, strict>>
driverVars == <<sealed, failed, frag, bits>>
pullVars == <<pc, want, tr, drv, left>>
world == <<outside, resized, wrong, differ>>
obsVars == <<hurt, hurts>>
vars == <<store, world, reg, engineVars, prio, driverVars, pullVars, obsVars>>

TypeOK ==
    /\ store \in [Files -> {"none", "good", "bad"}]
    /\ outside \subseteq Files /\ resized \subseteq Files
    /\ wrong \subseteq Files /\ differ \subseteq Files \X Pieces
    /\ reg \in BOOLEAN
    /\ next \in 1..(MaxTorrents + 1)
    /\ listed \subseteq Torrents /\ dropping \subseteq Torrents
    /\ opened \subseteq Torrents /\ hasInfo \subseteq Torrents
    /\ openKey \in Torrents \cup {0} /\ strict \subseteq Torrents
    /\ prio \in [Torrents -> SUBSET Files]
    /\ sealed \in [Torrents -> SUBSET Files]
    /\ failed \in [Torrents -> SUBSET Files]
    /\ frag \in [Torrents -> SUBSET (Files \X Pieces)]
    /\ bits \in [Torrents -> SUBSET (Files \X Pieces)]
    /\ pc \in [Pulls -> {"idle", "add", "info", "preverify", "wait",
                         "asleep", "verify", "drop", "ok", "err"}]
    /\ want \in [Pulls -> Wants \cup {{}}]
    /\ tr \in [Pulls -> Torrents \cup {0}] /\ drv \in [Pulls -> Torrents \cup {0}]
    /\ left \in [Pulls -> SUBSET Pieces]
    /\ hurt \in [Pulls -> SUBSET Files] /\ hurts \in 0..MaxHurt

(***************************************************************************)
(* A fresh process: blobs may be in the store from an earlier run.         *)
(* Empty files have one blob between them.                                 *)
(***************************************************************************)
Init ==
    /\ \E w \in Worlds : /\ outside = w.outside /\ resized = w.resized
                         /\ wrong = w.wrong /\ differ = w.differ
    /\ reg = FALSE
    /\ store \in [Files -> {"none", "good"}]
    /\ \A f \in Files \ Earlier : store[f] = "none"
    /\ \A e, f \in Empty : store[e] = store[f]
    /\ next = 1 /\ listed = {} /\ dropping = {} /\ opened = {} /\ hasInfo = {}
    /\ openKey = 0 /\ strict = {}
    /\ prio = [i \in Torrents |-> {}]
    /\ sealed = [i \in Torrents |-> {}]
    /\ failed = [i \in Torrents |-> {}]
    /\ frag = [i \in Torrents |-> {}]
    /\ bits = [i \in Torrents |-> {}]
    /\ pc = [g \in Pulls |-> "idle"]
    /\ want = [g \in Pulls |-> {}]
    /\ tr = [g \in Pulls |-> 0] /\ drv = [g \in Pulls |-> 0]
    /\ left = [g \in Pulls |-> {}]
    /\ hurt = [g \in Pulls |-> {}]
    /\ hurts = 0

-----------------------------------------------------------------------------
(* The driver.                                                             *)

Bits(f) == {f} \X PiecesOf[f]

Goto(g, where) == pc' = [pc EXCEPT ![g] = where]

Woken(i) ==
    [g \in Pulls |-> IF pc[g] = "asleep" /\ drv[g] = i THEN "wait" ELSE pc[g]]

IsClosed(i) == i \notin listed /\ i \notin opened

DropCall(i) == dropping' = dropping \cup ({i} \cap (listed \cup opened))

\* A pull fails: its locals, what it wanted and what is noted of it go.
\* The other pulls are where pcs says.
Fail(g, pcs, where) ==
    /\ pc' = [pcs EXCEPT ![g] = where]
    /\ drv' = [drv EXCEPT ![g] = 0]
    /\ left' = [left EXCEPT ![g] = {}]
    /\ want' = [want EXCEPT ![g] = {}]
    /\ hurt' = [hurt EXCEPT ![g] = {}]
    /\ UNCHANGED hurts

\* dropTorrent(t), on the way to returning an error.
DropErr(g, pcs) == DropCall(tr[g]) /\ Fail(g, pcs, "drop")

\* Files with a sha256 pin, under a live anchor and under the catalog's.
ShaPinned == Files \ (GitOnly \cup outside)

\* Files that a live anchor, or the catalog's, pins by any digest.
PinnedBy(isLive) == IF isLive THEN Files \ outside ELSE ShaPinned

\* The blob of a file with a sha256 pin has that name: a good one holds the
\* anchor's bytes.  Any other file is stored under the digest of the bytes
\* the torrent has.  So a piece of the torrent may differ from a good blob.
Differs(f, p) == f \in ShaPinned /\ <<f, p>> \in differ

\* newForeignTorrent refuses a file outside a live anchor or of another size
\* (the catalog's anchor records none), and an empty file pinned as another.
OpenRefused ==
    \/ reg /\ outside \cup resized # {}
    \/ Empty \cap wrong \cap PinnedBy(reg) # {}

EmptyStored == [f \in Files |-> IF f \in Empty THEN "good" ELSE store[f]]

\* newForeignTorrent: an empty file is stored and sealed at once, a file
\* whose pinned sha256 is in the store is sealed without any complete piece.
OpenTorrent(i) ==
    LET hit == {f \in ShaPinned \ Empty : store[f] # "none"} IN
    /\ opened' = opened \cup {i}
    /\ openKey' = i
    /\ strict' = IF reg THEN strict \cup {i} ELSE strict
    /\ store' = EmptyStored
    /\ sealed' = [sealed EXCEPT ![i] = hit \cup Empty]

\* newForeignTorrent returns an error, or Put of the empty blob does; by
\* then the empty blob may have been stored.
OpenFails ==
    /\ OpenRefused \/ \E f \in Empty : store[f] = "none"
    /\ store' \in {store, EmptyStored}
    /\ UNCHANGED <<opened, openKey, strict, sealed>>

\* ReadAt of a whole piece, given the fragments written: a sealed file is
\* read from its blob, an unsealed one from its part.  Only the torrent's
\* own bytes pass the hash.
Readable(i, p, written) ==
    \A f \in FilesAt(p) :
        IF f \in sealed[i] THEN store[f] = "good" /\ ~Differs(f, p)
                           ELSE <<f, p>> \in written

\* Completion of piece p, given the failed files and the bits of its driver.
Complete(p, fail, bit) == fail = {} /\ FilesAt(p) \X {p} \subseteq bit

\* Mutant of Mismatch: the git id of a live anchor is not checked.
MismatchShaOnly(i) == wrong \cap PinnedBy(FALSE)

\* The anchor gate of sealLocked: sha256 always, the git id of a live one.
Mismatch(i) == wrong \cap PinnedBy(i \in strict)

\* Mutant of MarkComplete: the bit of the next piece is set.
MarkCompleteShifted(i, p, written) ==
    /\ bits' = [bits EXCEPT ![i] = @ \cup (FilesAt(p) \X {p + 1})]
    /\ frag' = [frag EXCEPT ![i] = written]
    /\ UNCHANGED <<store, sealed, failed>>

\* MarkComplete of piece p on driver i.  Files are taken in stream order;
\* a file whose last bit this is goes through sealLocked, and the first
\* seal that fails (anchor mismatch, Put error) ends the call.  (The
\* blob that a Put stored before it failed, at its last fsync, is left out.)
MarkComplete(i, p, written) ==
    LET last == {f \in FilesAt(p) \ sealed[i] :
                    /\ <<f, p>> \notin bits[i]
                    /\ Bits(f) \subseteq bits[i] \cup {<<f, p>>}}
    IN \E broken \in SUBSET last :
        /\ last \cap Mismatch(i) \subseteq broken
        /\ LET reached == {f \in FilesAt(p) : \A b \in broken : Pos[f] <= Pos[b]}
               sealing == (last \cap reached) \ broken
               removed == sealing \cup (broken \cap Mismatch(i) \cap reached)
           IN /\ bits' = [bits EXCEPT ![i] = @ \cup (reached \X {p})]
              /\ sealed' = [sealed EXCEPT ![i] = @ \cup sealing]
              /\ failed' = [failed EXCEPT ![i] = @ \cup (broken \cap reached)]
              /\ store' = [f \in Files |-> IF f \in sealing /\ store[f] = "none"
                                           THEN "good" ELSE store[f]]
              /\ frag' = [frag EXCEPT ![i] = written \ (removed \X Pieces)]

\* MarkNotComplete retracts the piece from every file it spans.
MarkNotComplete(i, p, written) ==
    /\ bits' = [bits EXCEPT ![i] = @ \ (Files \X {p})]
    /\ frag' = [frag EXCEPT ![i] = written]
    /\ UNCHANGED <<store, sealed, failed>>

\* One engine hash of piece p, on receipt or asked for by a pull.  Only
\* MarkComplete broadcasts.
Check(i, p, written) ==
    \/ Readable(i, p, written) /\ MarkComplete(i, p, written) /\ pc' = Woken(i)
    \/ ~Readable(i, p, written) /\ MarkNotComplete(i, p, written) /\ UNCHANGED pc

\* Pieces overlapping a sealed file: what both verify loops go through.
SealedPieces(d) == UNION {PiecesOf[f] : f \in sealed[d]}
First(g) == CHOOSE p \in left[g] : \A q \in left[g] : p <= q

-----------------------------------------------------------------------------
(* ImportCatalog, first to last step.                                      *)

\* ResolveAnchor, then engine start and Register.  The anchor is live if
\* Hugging Face has the repository; otherwise the pull is refused or, with
\* trustCatalog, goes by the catalog's checksums.  The registration of an
\* earlier pull is replaced even if its torrent still waits for its info.
ImportCatalog(g) ==
    /\ pc[g] = "idle"
    /\ \/ \E isLive \in BOOLEAN, w \in Wants :
            /\ reg' = isLive
            /\ want' = [want EXCEPT ![g] = w]
            /\ Goto(g, "add")
       \/ Goto(g, "err") /\ UNCHANGED <<reg, want>>
    /\ UNCHANGED <<store, world, engineVars, prio, driverVars, tr, drv, left, hurt, hurts>>

\* AddTorrentSpec with the magnet: a torrent of this infohash is reused.
AddTorrent(g) ==
    /\ pc[g] = "add"
    /\ \/ \E i \in listed :
            /\ tr' = [tr EXCEPT ![g] = i]
            /\ Goto(g, "info")
            /\ UNCHANGED <<next, listed, drv, left, want, obsVars>>
       \/ /\ listed = {} /\ next \in Torrents
          /\ tr' = [tr EXCEPT ![g] = next]
          /\ listed' = {next}
          /\ next' = next + 1
          /\ Goto(g, "info")
          /\ UNCHANGED <<drv, left, want, obsVars>>
       \/ Fail(g, pc, "err") /\ UNCHANGED <<next, listed, tr>>
    /\ UNCHANGED <<store, world, reg, dropping, opened, hasInfo, openKey, strict, prio,
                   driverVars>>

\* GotInfo (or two minutes without it, or a v2 torrent), then driverFor and
\* the pieces VerifyPreSealed will try.
GotInfo(g) ==
    /\ pc[g] = "info"
    /\ \/ /\ tr[g] \in hasInfo /\ openKey # 0
          /\ drv' = [drv EXCEPT ![g] = openKey]
          /\ left' = [left EXCEPT ![g] = SealedPieces(openKey)]
          /\ Goto(g, "preverify")
          /\ UNCHANGED <<dropping, want, obsVars>>
       \/ /\ tr[g] \in hasInfo => openKey = 0
          /\ DropErr(g, pc)
    /\ UNCHANGED <<store, world, reg, next, listed, opened, hasInfo, openKey, strict,
                   prio, driverVars, tr>>

\* VerifyPreSealed, best effort: one piece, whatever the check says.
VerifyPreSealed(g) ==
    /\ pc[g] = "preverify" /\ left[g] # {}
    /\ left' = [left EXCEPT ![g] = @ \ {First(g)}]
    /\ Check(tr[g], First(g), frag[tr[g]])
    /\ UNCHANGED <<world, reg, engineVars, prio, want, tr, drv, obsVars>>

\* wantedFiles, then SetPriority on every file of the torrent: Normal for
\* the wanted ones, None for all others, whoever else wants them.
SetPriorities(g) ==
    /\ pc[g] = "preverify" /\ left[g] = {}
    /\ IF want[g] = {}
       THEN DropErr(g, pc) /\ UNCHANGED prio
       ELSE /\ prio' = [prio EXCEPT ![tr[g]] = want[g]]
            /\ Goto(g, "wait")
            /\ UNCHANGED <<dropping, want, drv, left, obsVars>>
    /\ UNCHANGED <<store, world, reg, next, listed, opened, hasInfo, openKey, strict,
                   driverVars, tr>>

\* One turn of WaitSealedWanted: any failed file, the wanted files, closed.
WaitSealedWanted(g) ==
    /\ pc[g] = "wait"
    /\ LET d == drv[g] IN
       CASE failed[d] # {} -> DropErr(g, pc)
         [] failed[d] = {} /\ want[g] \subseteq sealed[d] ->
              /\ Goto(g, "verify")
              /\ left' = [left EXCEPT ![g] = SealedPieces(d)]
              /\ UNCHANGED <<dropping, want, drv, obsVars>>
         [] failed[d] = {} /\ ~(want[g] \subseteq sealed[d]) /\ d \notin opened ->
              DropErr(g, pc)
         [] OTHER ->
              Goto(g, "asleep") /\ UNCHANGED <<dropping, want, drv, left, obsVars>>
    /\ UNCHANGED <<store, world, reg, next, listed, opened, hasInfo, openKey, strict,
                   prio, driverVars, tr>>

\* Mutant of VerifySealed: a piece that fails its check does not fail the pull.
VerifySealedLenient(g) ==
    /\ pc[g] = "verify" /\ left[g] # {}
    /\ left' = [left EXCEPT ![g] = @ \ {First(g)}]
    /\ Check(tr[g], First(g), frag[tr[g]])
    /\ UNCHANGED <<world, reg, engineVars, prio, want, tr, drv, obsVars>>

\* VerifySealed, one piece: the engine hashes it, or the pull fails.  A
\* check on a torrent that was dropped meanwhile may fail for that alone.
VerifySealed(g) ==
    /\ pc[g] = "verify" /\ left[g] # {}
    /\ LET i == tr[g]  p == First(g) IN
        \/ /\ Readable(i, p, frag[i])
           /\ MarkComplete(i, p, frag[i])
           /\ IF Complete(p, failed'[i], bits'[i])
              THEN /\ left' = [left EXCEPT ![g] = @ \ {p}]
                   /\ pc' = Woken(i)
                   /\ UNCHANGED <<dropping, want, drv, obsVars>>
              ELSE DropErr(g, Woken(i))
        \/ /\ ~Readable(i, p, frag[i])
           /\ MarkNotComplete(i, p, frag[i])
           /\ DropErr(g, pc)
        \/ /\ i \in dropping
           /\ DropErr(g, pc)
           /\ UNCHANGED <<store, driverVars>>
    /\ UNCHANGED <<world, reg, next, listed, opened, hasInfo, openKey, strict, prio, tr>>

\* SealedFiles and importer.Import, which opens the blob of every sealed
\* file, wanted or not: on success the handle stays and seeds, together
\* with the driver's files, on failure the torrent is dropped.
Import(g) ==
    /\ pc[g] = "verify" /\ left[g] = {}
    /\ \/ /\ \A f \in sealed[drv[g]] : store[f] # "none"
          /\ Goto(g, "ok")
          /\ UNCHANGED <<dropping, want, drv, left, obsVars>>
       \/ DropErr(g, pc)
    /\ UNCHANGED <<store, world, reg, next, listed, opened, hasInfo, openKey, strict,
                   prio, driverVars, tr>>

\* dropTorrent returns (its ten-second limit is modelled in SwarmFill).
Dropped(g) ==
    /\ pc[g] = "drop"
    /\ IsClosed(tr[g])
    /\ Goto(g, "err")
    /\ tr' = [tr EXCEPT ![g] = 0]
    /\ UNCHANGED <<store, world, reg, engineVars, prio, driverVars, want, drv, left, obsVars>>

-----------------------------------------------------------------------------
(* The engine.                                                             *)

\* The info dict arrives: OpenTorrent under the registration of that moment.
InfoArrives(i) ==
    /\ i \in listed \ (hasInfo \cup dropping)
    /\ hasInfo' = hasInfo \cup {i}
    /\ (~OpenRefused /\ OpenTorrent(i)) \/ OpenFails
    /\ UNCHANGED <<world, reg, next, listed, dropping, prio, failed, frag, bits,
                   pullVars, obsVars>>

\* Mutant of Written: a write that overlaps a sealed range is refused as a whole.
WrittenRefused(i, p) ==
    IF FilesAt(p) \cap sealed[i] = {} THEN frag[i] \cup (FilesAt(p) \X {p}) ELSE frag[i]

\* What writeAtLocked leaves of piece p: it splits over the files it spans,
\* and what falls into a sealed one is dropped and acknowledged.
Written(i, p) == frag[i] \cup ((FilesAt(p) \ sealed[i]) \X {p})

\* A piece with a download priority is received, written and hashed.
ReceivePiece(i, p) ==
    /\ i \in opened \ dropping
    /\ failed[i] = {}
    /\ FilesAt(p) \cap prio[i] # {}
    /\ ~Complete(p, failed[i], bits[i])
    /\ Check(i, p, Written(i, p))
    /\ UNCHANGED <<world, reg, engineVars, prio, want, tr, drv, left, obsVars>>

\* close: parts of unsealed files go, waiters wake, the entry is deleted.
CloseStorage(i) ==
    /\ i \in dropping \cap opened
    /\ opened' = opened \ {i}
    /\ openKey' = 0
    /\ frag' = [frag EXCEPT ![i] = {}]
    /\ pc' = Woken(i)
    /\ UNCHANGED <<store, world, reg, next, listed, dropping, hasInfo, strict, prio,
                   sealed, failed, bits, want, tr, drv, left, obsVars>>

Unlist(i) ==
    /\ i \in dropping \cap listed
    /\ listed' = listed \ {i}
    /\ UNCHANGED <<store, world, reg, next, dropping, opened, hasInfo, openKey, strict,
                   prio, driverVars, pullVars, obsVars>>

\* A blob is deleted or rots on disk.
Hurt(f, how) ==
    /\ hurts < MaxHurt
    /\ store[f] \notin {"none", how}
    /\ store' = [store EXCEPT ![f] = how]
    /\ hurts' = hurts + 1
    /\ hurt' = [g \in Pulls |-> hurt[g] \cup ({f} \cap want[g])]
    /\ UNCHANGED <<world, reg, engineVars, prio, driverVars, pullVars>>

Quiet ==
    /\ \A g \in Pulls : pc[g] \in {"ok", "err"}
    /\ UNCHANGED vars

PullStep(g) ==
    \/ AddTorrent(g) \/ GotInfo(g) \/ VerifyPreSealed(g)
    \/ SetPriorities(g) \/ WaitSealedWanted(g) \/ VerifySealed(g)
    \/ Import(g) \/ Dropped(g)

Next ==
    \/ \E g \in Pulls : ImportCatalog(g) \/ PullStep(g)
    \/ \E i \in Torrents :
        \/ InfoArrives(i) \/ CloseStorage(i) \/ Unlist(i)
        \/ \E p \in Pieces : ReceivePiece(i, p)
    \/ \E f \in Files \ Empty, how \in {"none", "bad"} : Hurt(f, how)
    \/ Quiet

Spec == Init /\ [][Next]_vars

-----------------------------------------------------------------------------
(* Properties.                                                             *)

\* A pull that succeeds has every wanted file.  The blob is good, or was lost
\* or rotted only after the pull began, although it may have been served by
\* the driver of an earlier pull whose sealed state is stale: the engine
\* check before the import is what makes that safe (VerifySealed).  And no
\* wanted file differs from what the driver's anchor pins, by sha256 or, if
\* it was opened under a live anchor, by git id (sealLocked).  That anchor
\* need not be the pull's own: see ImportCatalog.
\* driverFor goes by infohash: a pull whose torrent was dropped and replaced
\* while it waited for its info imports from a driver that its own handle
\* does not check, and is excepted (tr[g] # drv[g]).
PullOkClean ==
    \A g \in Pulls :
        pc[g] = "ok" /\ tr[g] = drv[g]
            => \A f \in want[g] : /\ store[f] = "good" \/ f \in hurt[g]
                                  /\ f \notin wrong \cap PinnedBy(drv[g] \in strict)

\* A sealed blob holds the anchor's bytes where the torrent has others.
Clash(i, p) == \E f \in FilesAt(p) \cap sealed[i] : Differs(f, p)

\* A sleeping pull can still be served.  Its driver is open and has not
\* failed a file, wanted by this pull or not: whatever closes a driver,
\* fails a file or seals the last wanted one wakes every WaitSealedWanted.
\* And each file it waits for has a piece the engine does not count as
\* complete, which passes its check once received although it may overlap
\* sealed files: that is what dropping, not refusing, the bytes of a sealed
\* range is for (writeAtLocked), and why a pre-sealed file has no complete
\* pieces at open.  Two things can spoil that: a blob was damaged (hurts), or
\* the store has the anchor's bytes where the torrent has others (Clash).
\* The engine asks for that piece unless another pull took the priority of
\* the file (SetPriorities).
SleeperServable ==
    \A g \in Pulls : pc[g] = "asleep" =>
        LET d == drv[g]  waiting == want[g] \ sealed[d] IN
        /\ d \in opened /\ failed[d] = {} /\ waiting # {}
        /\ hurts = 0 =>
            \A f \in waiting : \E p \in PiecesOf[f] :
                /\ ~Complete(p, failed[d], bits[d])
                /\ Clash(d, p) \/ Readable(d, p, Written(d, p))

\* The error VerifySealed reports says "corrupt or anchor mismatch": a pull
\* fails its piece check only if a blob was damaged, the torrent's bytes
\* differ from the anchor, a seal failed, or the torrent was dropped meanwhile.
VerifyFailureMeansCorrupt ==
    [][\A g \in Pulls :
        (/\ pc[g] = "verify" /\ left[g] # {} /\ pc'[g] = "drop"
         /\ tr[g] = drv[g] /\ tr[g] \in opened \ dropping)
            => hurts > 0 \/ wrong # {} \/ failed'[tr[g]] # {}]_vars

=============================================================================
