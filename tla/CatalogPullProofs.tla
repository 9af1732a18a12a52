-------------------------- MODULE CatalogPullProofs --------------------------
(***************************************************************************)
(* Proofs about module CatalogPull, for every tree of files and pieces,    *)
(* any number of pulls, torrent instances and damaged blobs.               *)
(***************************************************************************)
EXTENDS CatalogPull, TLAPS, WellFoundedInduction

(* Where a pull has a torrent and a driver, both with their info.          *)
Joined == {"preverify", "wait", "asleep", "verify", "ok"}

(* A file the torrent has wrong differs in one of its pieces.              *)
WorldInv ==
    \A f \in Files \ Empty : f \in wrong => \E p \in PiecesOf[f] : <<f, p>> \in differ

(* A driver opens with its torrent's info, and only once: what it sealed   *)
(* stays sealed.  The open-driver entry is of an open driver.              *)
EngineInv ==
    /\ opened \subseteq hasInfo /\ strict \subseteq hasInfo
    /\ openKey = 0 \/ openKey \in opened
    /\ \A i \in opened : Empty \subseteq sealed[i]
    /\ \A i \in Torrents \ hasInfo : sealed[i] = {}

JoinedInv(g) == pc[g] \in Joined => tr[g] \in hasInfo /\ drv[g] \in hasInfo

(* The blob of an empty file is never damaged, and without damage every    *)
(* sealed file is in the store.                                            *)
BlobInv ==
    /\ \A f \in Empty : store[f] # "bad"
    /\ hurts = 0 => \A f \in Files : store[f] # "bad"
    /\ hurts = 0 => \A i \in Torrents : \A f \in sealed[i] : store[f] = "good"

(* What a driver sealed against its own anchor it sealed at open, because  *)
(* the store has the bytes of the sha256 the anchor pins.                  *)
GateInv ==
    \A i \in Torrents : \A f \in sealed[i] \cap Mismatch(i) : f \in ShaPinned \ Empty

(* A driver that failed no file sealed every file whose pieces are all     *)
(* complete.                                                               *)
BitsInv ==
    \A i \in Torrents : failed[i] = {} =>
        \A f \in Files \ (sealed[i] \cup Empty) : \E p \in PiecesOf[f] : <<f, p>> \notin bits[i]

(* A sleeping pull's driver is open, failed no file and misses one.        *)
AsleepInv(g) ==
    pc[g] = "asleep" => /\ drv[g] \in opened /\ failed[drv[g]] = {}
                        /\ ~(want[g] \subseteq sealed[drv[g]])

(* Through the final check a wanted file is sealed, once one of its pieces *)
(* passed it is good, or was hurt since the pull began, and a piece that   *)
(* passed is the same in blob and torrent.                                 *)
Sound(g, f) == store[f] = "good" \/ f \in hurt[g]
CheckedInv(g) ==
    pc[g] = "verify" /\ tr[g] = drv[g] => \A f \in want[g] :
        /\ f \in sealed[drv[g]] /\ (PiecesOf[f] \subseteq left[g] \/ Sound(g, f))
        /\ \A p \in PiecesOf[f] \ left[g] : ~Differs(f, p)
OkInv(g) ==
    pc[g] = "ok" /\ tr[g] = drv[g] =>
        \A f \in want[g] : Sound(g, f) /\ f \notin Mismatch(drv[g])

PullInv(g) == JoinedInv(g) /\ AsleepInv(g) /\ CheckedInv(g) /\ OkInv(g)

SharedInv == WorldInv /\ EngineInv /\ GateInv /\ BlobInv /\ BitsInv
IInv == TypeOK /\ SharedInv /\ \A g \in Pulls : PullInv(g)

-----------------------------------------------------------------------------
(* The operators.                                                          *)

LEMMA MinExists ==
    ASSUME NEW S \in SUBSET Nat, S # {}
    PROVE  \E p \in S : \A q \in S : p <= q
  <1>1. PICK p \in S : \A q \in S : ~(<<q, p>> \in OpToRel(<, Nat))
    BY NatLessThanWellFounded, WFMin
  <1>2. \A q \in S : ~(q < p)
    BY <1>1 DEF OpToRel
  <1> QED BY <1>2

(* The verify loops take the pieces that are left in ascending order.      *)
LEMMA FirstIsLeft ==
    ASSUME NEW g \in Pulls, left[g] \in SUBSET Pieces, left[g] # {}
    PROVE  First(g) \in left[g] /\ First(g) \in Pieces
  <1>1. left[g] \in SUBSET Nat
    BY BoundsAssumption DEF Pieces
  <1>2. \E p \in left[g] : \A q \in left[g] : p <= q
    BY <1>1, MinExists
  <1> QED BY <1>2 DEF First

LEMMA PieceFacts ==
    /\ \A f \in Files : PiecesOf[f] \in SUBSET Pieces
    /\ \A p : FilesAt(p) \subseteq Files /\ \A f \in FilesAt(p) : p \in PiecesOf[f]
    /\ Empty \subseteq Files /\ \A f \in Empty : PiecesOf[f] = {}
    /\ \A f \in Files \ Empty : PiecesOf[f] # {}
    /\ ShaPinned \subseteq Files
  BY TreeAssumption DEF FilesAt, Empty, ShaPinned

(* The anchors and the torrent stay what they are.                         *)
LEMMA PinsFixed ==
    ASSUME UNCHANGED world
    PROVE  /\ ShaPinned' = ShaPinned
           /\ \A f, p : Differs(f, p)' <=> Differs(f, p)
           /\ \A i : (i \in strict' <=> i \in strict) => Mismatch(i)' = Mismatch(i)
           /\ WorldInv' <=> WorldInv
  <1>1. ShaPinned' = ShaPinned
    BY DEF world, ShaPinned
  <1>2. \A f, p : Differs(f, p)' <=> Differs(f, p)
    BY <1>1 DEF world, Differs
  <1>3. \A i : (i \in strict' <=> i \in strict) => Mismatch(i)' = Mismatch(i)
    BY <1>1 DEF world, Mismatch, PinnedBy
  <1>4. WorldInv' <=> WorldInv
    BY DEF world, WorldInv
  <1> QED BY <1>1, <1>2, <1>3, <1>4

LEMMA SharedFixed ==
    ASSUME SharedInv, UNCHANGED <<store, world, opened, hasInfo, openKey, strict, sealed, failed,
                                  bits, hurts>>
    PROVE  SharedInv'
  <1>1. WorldInv' /\ GateInv'
    BY PinsFixed DEF SharedInv, GateInv
  <1>2. EngineInv' /\ BlobInv' /\ BitsInv'
    BY DEF SharedInv, EngineInv, BlobInv, BitsInv
  <1> QED BY <1>1, <1>2 DEF SharedInv

(* What a check of a piece does to its driver i, to the others and to the  *)
(* store: blobs appear, nothing is unsealed, and a file that becomes full  *)
(* is sealed or failed.                                                    *)
DriverMoves(i) ==
    /\ store' \in [Files -> {"none", "good", "bad"}]
    /\ sealed' \in [Torrents -> SUBSET Files] /\ failed' \in [Torrents -> SUBSET Files]
    /\ frag' \in [Torrents -> SUBSET (Files \X Pieces)]
    /\ bits' \in [Torrents -> SUBSET (Files \X Pieces)]
    /\ \A f \in Files : store'[f] = store[f] \/ (store[f] = "none" /\ store'[f] = "good")
    /\ \A j \in Torrents : sealed[j] \subseteq sealed'[j]
    /\ \A j \in Torrents \ {i} : sealed'[j] = sealed[j] /\ failed'[j] = failed[j]
    /\ \A j \in Torrents : \A f \in sealed'[j] \ sealed[j] :
          store'[f] # "none" /\ f \notin Mismatch(j)
    /\ BitsInv'

LEMMA MarkCompleteMoves ==
    ASSUME TypeOK, BitsInv, NEW i \in Torrents, NEW p \in Pieces,
           NEW written \in SUBSET (Files \X Pieces), MarkComplete(i, p, written)
    PROVE  DriverMoves(i)
  <1> DEFINE last == {f \in FilesAt(p) \ sealed[i] :
                        /\ <<f, p>> \notin bits[i]
                        /\ Bits(f) \subseteq bits[i] \cup {<<f, p>>}}
             reached(broken) == {f \in FilesAt(p) : \A b \in broken : Pos[f] <= Pos[b]}
             sealing(broken) == (last \cap reached(broken)) \ broken
             removed(broken) == sealing(broken) \cup (broken \cap Mismatch(i) \cap reached(broken))
  <1>1. PICK broken \in SUBSET last :
          /\ last \cap Mismatch(i) \subseteq broken
          /\ bits' = [bits EXCEPT ![i] = @ \cup (reached(broken) \X {p})]
          /\ sealed' = [sealed EXCEPT ![i] = @ \cup sealing(broken)]
          /\ failed' = [failed EXCEPT ![i] = @ \cup (broken \cap reached(broken))]
          /\ store' = [f \in Files |-> IF f \in sealing(broken) /\ store[f] = "none"
                                       THEN "good" ELSE store[f]]
          /\ frag' = [frag EXCEPT ![i] = written \ (removed(broken) \X Pieces)]
    BY DEF MarkComplete
  <1> DEFINE R == reached(broken)
             S == sealing(broken)
             G == broken \cap R
  <1>2. R \subseteq FilesAt(p) /\ S \subseteq R /\ R \subseteq Files /\ S \subseteq Files
        /\ G \subseteq Files /\ S = (last \cap R) \ broken
    BY PieceFacts
  <1> HIDE DEF reached, sealing, removed
  <1>3. /\ bits' \in [Torrents -> SUBSET (Files \X Pieces)]
        /\ bits'[i] = bits[i] \cup (R \X {p})
        /\ \A j \in Torrents \ {i} : bits'[j] = bits[j]
    BY <1>1, <1>2 DEF TypeOK
  <1>4. /\ sealed' \in [Torrents -> SUBSET Files] /\ sealed'[i] = sealed[i] \cup S
        /\ \A j \in Torrents \ {i} : sealed'[j] = sealed[j]
    BY <1>1, <1>2 DEF TypeOK
  <1>5. /\ failed' \in [Torrents -> SUBSET Files] /\ failed'[i] = failed[i] \cup G
        /\ \A j \in Torrents \ {i} : failed'[j] = failed[j]
    BY <1>1, <1>2 DEF TypeOK
  <1>6. frag' \in [Torrents -> SUBSET (Files \X Pieces)]
    BY <1>1 DEF TypeOK
  <1>7. /\ store' \in [Files -> {"none", "good", "bad"}]
        /\ \A f \in Files : store'[f] = store[f] \/ (store[f] = "none" /\ store'[f] = "good")
        /\ \A f \in S : store'[f] # "none"
    BY <1>1, <1>2 DEF TypeOK
  <1>9. \A f \in S : f \notin Mismatch(i)
    BY <1>1, <1>2
  <1>8. BitsInv'
    <2> SUFFICES ASSUME NEW j \in Torrents, failed'[j] = {},
                        NEW f \in Files \ (sealed'[j] \cup Empty),
                        \A q \in PiecesOf[f] : <<f, q>> \in bits'[j]
                 PROVE  FALSE
      BY DEF BitsInv
    <2>1. j = i
      BY <1>3, <1>4, <1>5 DEF BitsInv
    <2>2. PICK q \in PiecesOf[f] : <<f, q>> \notin bits[i]
      BY <2>1, <1>4, <1>5 DEF BitsInv
    <2>3. q = p /\ f \in R
      BY <2>1, <2>2, <1>3
    <2>4. f \in last
      BY <2>1, <2>2, <2>3, <1>2, <1>3, <1>4 DEF Bits
    <2> QED BY <2>1, <2>3, <2>4, <1>2, <1>4, <1>5
  <1> QED BY <1>3, <1>4, <1>5, <1>6, <1>7, <1>8, <1>9 DEF DriverMoves

LEMMA CheckMoves ==
    ASSUME TypeOK, BitsInv, NEW i \in Torrents, NEW p \in Pieces,
           NEW written \in SUBSET (Files \X Pieces),
           MarkComplete(i, p, written) \/ MarkNotComplete(i, p, written)
    PROVE  DriverMoves(i)
  <1>1. CASE MarkComplete(i, p, written)
    BY <1>1, MarkCompleteMoves
  <1>2. CASE MarkNotComplete(i, p, written)
    <2>1. /\ bits' \in [Torrents -> SUBSET (Files \X Pieces)]
          /\ \A j \in Torrents : bits'[j] \subseteq bits[j]
          /\ frag' \in [Torrents -> SUBSET (Files \X Pieces)]
          /\ UNCHANGED <<store, sealed, failed>>
      BY <1>2 DEF MarkNotComplete, TypeOK
    <2>2. BitsInv'
      BY <2>1 DEF BitsInv
    <2> QED BY <2>1, <2>2 DEF DriverMoves, TypeOK
  <1> QED BY <1>1, <1>2

-----------------------------------------------------------------------------
(* What keeps the invariant of a pull that does not act.                   *)

Kept(g) ==
    /\ pc'[g] = pc[g] \/ (pc[g] = "asleep" /\ pc'[g] = "wait")
    /\ want'[g] = want[g] /\ tr'[g] = tr[g] /\ drv'[g] = drv[g] /\ left'[g] = left[g]
    /\ UNCHANGED world /\ hasInfo \subseteq hasInfo'
    /\ \A i \in hasInfo : sealed[i] \subseteq sealed'[i] /\ (i \in strict' <=> i \in strict)
    /\ \A f \in want[g] : Sound(g, f) => store'[f] = "good" \/ f \in hurt'[g]
    /\ pc'[g] = "asleep" => /\ drv[g] \in opened => drv[g] \in opened'
                            /\ failed'[drv[g]] = failed[drv[g]]
                            /\ sealed'[drv[g]] = sealed[drv[g]]

LEMMA KeptPull ==
    ASSUME NEW g \in Pulls, PullInv(g), Kept(g)
    PROVE  PullInv(g)'
  <1>1. JoinedInv(g)'
    BY DEF PullInv, JoinedInv, Joined, Kept
  <1>2. AsleepInv(g)'
    BY DEF PullInv, AsleepInv, Kept
  <1>3. CheckedInv(g)'
    BY PinsFixed DEF PullInv, JoinedInv, Joined, CheckedInv, Kept, Sound
  <1>4. OkInv(g)'
    BY PinsFixed DEF PullInv, JoinedInv, Joined, OkInv, Kept, Sound
  <1> QED BY <1>1, <1>2, <1>3, <1>4 DEF PullInv

(* A step of pull g that touches neither drivers nor blobs.                *)
PullOnly(g) ==
    /\ UNCHANGED <<store, world, opened, hasInfo, openKey, strict, driverVars, hurts>>
    /\ \A h \in Pulls \ {g} : /\ pc'[h] = pc[h] /\ want'[h] = want[h] /\ tr'[h] = tr[h]
                              /\ drv'[h] = drv[h] /\ left'[h] = left[h] /\ hurt'[h] = hurt[h]

LEMMA PullOnlyStep ==
    ASSUME IInv, TypeOK', NEW g \in Pulls, PullOnly(g), PullInv(g)'
    PROVE  IInv'
  <1>1. ASSUME NEW h \in Pulls \ {g} PROVE PullInv(h)'
    <2>1. Kept(h)
      BY DEF PullOnly, Kept, driverVars, Sound
    <2> QED BY <2>1, KeptPull DEF IInv
  <1>2. SharedInv'
    BY SharedFixed DEF IInv, PullOnly, driverVars
  <1> QED BY <1>1, <1>2 DEF IInv

(* A check of a piece on driver i, as the invariant sees it.               *)
LEMMA DriverStep ==
    ASSUME IInv, NEW i \in Torrents, i \in hasInfo, DriverMoves(i),
           UNCHANGED <<world, opened, hasInfo, openKey, strict, hurts>>
    PROVE  SharedInv'
  <1> USE DEF SharedInv
  <1>1. EngineInv'
    BY DEF IInv, TypeOK, EngineInv, DriverMoves
  <1>4. WorldInv' /\ GateInv'
    BY PinsFixed DEF IInv, GateInv, DriverMoves
  <1>2. BlobInv'
    <2>1. \A f \in Files : store[f] # "bad" => store'[f] # "bad"
      BY DEF DriverMoves
    <2>2. ASSUME hurts = 0, NEW j \in Torrents, NEW f \in sealed'[j] PROVE store'[f] = "good"
      <3>1. f \in Files /\ store'[f] \in {"none", "good", "bad"} /\ store'[f] # "bad"
        BY <2>1, <2>2 DEF IInv, BlobInv, DriverMoves
      <3>2. store'[f] # "none"
        BY <3>1, <2>2 DEF IInv, BlobInv, DriverMoves
      <3> QED BY <3>1, <3>2
    <2> QED BY <2>1, <2>2, PieceFacts DEF IInv, BlobInv
  <1>3. BitsInv'
    BY DEF DriverMoves
  <1> QED BY <1>1, <1>2, <1>3, <1>4

(* ... and the pulls whose driver it may be are woken, unless all it did   *)
(* was to take back bits.                                                  *)
Settled(i, h) ==
    \/ pc'[h] = Woken(i)[h]
    \/ pc'[h] = pc[h] /\ UNCHANGED <<sealed, failed>>

LEMMA WokenKept ==
    ASSUME IInv, NEW i \in Torrents, DriverMoves(i),
           UNCHANGED <<world, opened, hasInfo, strict, hurt>>,
           NEW h \in Pulls, Settled(i, h),
           want'[h] = want[h], tr'[h] = tr[h], drv'[h] = drv[h], left'[h] = left[h]
    PROVE  Kept(h)
  <1>1. pc'[h] = pc[h] \/ (pc[h] = "asleep" /\ pc'[h] = "wait")
    BY DEF Settled, Woken
  <1>2. pc'[h] = "asleep" => \/ drv[h] \in Torrents \ {i}
                             \/ UNCHANGED <<sealed, failed>>
    BY DEF Settled, Woken, IInv, TypeOK, PullInv, JoinedInv, Joined
  <1>3. \A f \in want[h] : Sound(h, f) => store'[f] = "good" \/ f \in hurt'[h]
    <2>1. want[h] \subseteq Files
      BY TreeAssumption DEF IInv, TypeOK
    <2> QED BY <2>1 DEF Sound, DriverMoves
  <1>4. \A j \in hasInfo : sealed[j] \subseteq sealed'[j]
    BY DEF IInv, TypeOK, DriverMoves
  <1> QED BY <1>1, <1>2, <1>3, <1>4 DEF Kept, DriverMoves

LEMMA InitIInv == Init => IInv
  <1> SUFFICES ASSUME Init PROVE IInv OBVIOUS
  <1>1. TypeOK
    <2>1. PICK w \in Worlds : /\ outside = w.outside /\ resized = w.resized
                              /\ wrong = w.wrong /\ differ = w.differ
      BY DEF Init
    <2>3. /\ outside \subseteq Files /\ resized \subseteq Files
          /\ wrong \subseteq Files /\ differ \subseteq Files \X Pieces
      BY <2>1, TreeAssumption
    <2>2. next \in 1..(MaxTorrents + 1) /\ hurts \in 0..MaxHurt
      BY BoundsAssumption DEF Init
    <2> QED BY <2>2, <2>3 DEF Init, TypeOK
  <1>2. EngineInv /\ BlobInv /\ GateInv
    BY PieceFacts DEF Init, EngineInv, BlobInv, GateInv
  <1>5. WorldInv
    BY TreeAssumption DEF Init, WorldInv
  <1>3. BitsInv
    BY PieceFacts DEF Init, BitsInv
  <1>4. ASSUME NEW g \in Pulls PROVE PullInv(g)
    BY DEF Init, PullInv, JoinedInv, AsleepInv, CheckedInv, OkInv, Joined
  <1> QED BY <1>1, <1>2, <1>3, <1>4, <1>5 DEF IInv, SharedInv

-----------------------------------------------------------------------------
(* One lemma per action.                                                   *)

LEMMA OutsidePull ==
    ASSUME NEW g \in Pulls, pc'[g] \notin Joined
    PROVE  PullInv(g)'
  BY DEF PullInv, JoinedInv, AsleepInv, CheckedInv, OkInv, Joined

(* A pull that fails, having called Drop on its torrent or not.            *)
LEMMA FailStep ==
    ASSUME IInv, NEW g \in Pulls, NEW where \in {"drop", "err"}, Fail(g, pc, where),
           dropping' \in SUBSET Torrents, tr' \in [Pulls -> Torrents \cup {0}],
           \A h \in Pulls \ {g} : tr'[h] = tr[h],
           UNCHANGED <<store, world, reg, next, listed, opened, hasInfo, openKey, strict, prio,
                       driverVars>>
    PROVE  IInv'
  <1>1. TypeOK'
    <2>1. /\ pc' \in [Pulls -> {"idle", "add", "info", "preverify", "wait",
                                "asleep", "verify", "drop", "ok", "err"}]
          /\ want' \in [Pulls -> Wants \cup {{}}] /\ drv' \in [Pulls -> Torrents \cup {0}]
          /\ left' \in [Pulls -> SUBSET Pieces]
          /\ hurt' \in [Pulls -> SUBSET Files] /\ hurts' \in 0..MaxHurt
      BY DEF IInv, TypeOK, Fail
    <2> QED BY <2>1 DEF IInv, TypeOK, driverVars, world
  <1>2. PullOnly(g)
    BY DEF IInv, TypeOK, Fail, PullOnly
  <1>3. PullInv(g)'
    <2>1. pc'[g] = where
      BY DEF IInv, TypeOK, Fail
    <2> QED BY <2>1, OutsidePull DEF Joined
  <1> QED BY <1>1, <1>2, <1>3, PullOnlyStep

LEMMA DropErrStep ==
    ASSUME IInv, NEW g \in Pulls, DropErr(g, pc),
           UNCHANGED <<store, world, reg, next, listed, opened, hasInfo, openKey, strict, prio,
                       driverVars, tr>>
    PROVE  IInv'
  <1>1. Fail(g, pc, "drop") /\ dropping' \in SUBSET Torrents
    BY DEF IInv, TypeOK, DropErr, DropCall
  <1>2. tr' \in [Pulls -> Torrents \cup {0}] /\ \A h \in Pulls \ {g} : tr'[h] = tr[h]
    BY DEF IInv, TypeOK
  <1> QED BY <1>1, <1>2, FailStep

LEMMA ImportCatalogStep ==
    ASSUME IInv, NEW g \in Pulls, ImportCatalog(g)
    PROVE  IInv'
  <1>1. TypeOK'
    <2>1. /\ reg' \in BOOLEAN
          /\ want' \in [Pulls -> Wants \cup {{}}]
      BY DEF IInv, TypeOK, ImportCatalog
    <2>2. pc' \in [Pulls -> {"idle", "add", "info", "preverify", "wait",
                            "asleep", "verify", "drop", "ok", "err"}]
      BY DEF IInv, TypeOK, ImportCatalog, Goto
    <2> QED BY <2>1, <2>2 DEF ImportCatalog, IInv, TypeOK, engineVars, driverVars, world
  <1>2. PullOnly(g) /\ pc'[g] \in {"add", "err"}
    BY DEF IInv, TypeOK, ImportCatalog, Goto, PullOnly, engineVars
  <1> QED BY <1>1, <1>2, OutsidePull, PullOnlyStep DEF Joined

LEMMA AddTorrentStep ==
    ASSUME IInv, NEW g \in Pulls, AddTorrent(g)
    PROVE  IInv'
  <1> USE DEF IInv, TypeOK
  <1>1. CASE Fail(g, pc, "err") /\ UNCHANGED <<next, listed, tr>>
    BY <1>1, FailStep DEF AddTorrent
  <1>2. CASE ~(Fail(g, pc, "err") /\ UNCHANGED <<next, listed, tr>>)
    <2>1. PICK i \in Torrents : tr' = [tr EXCEPT ![g] = i]
      BY <1>2 DEF AddTorrent
    <2>2. /\ listed' \subseteq Torrents /\ Goto(g, "info")
          /\ UNCHANGED <<drv, left, want, obsVars>>
      BY <1>2 DEF AddTorrent
    <2>3. next' \in 1..(MaxTorrents + 1)
      BY <1>2, BoundsAssumption DEF AddTorrent, Torrents
    <2>4. TypeOK'
      BY <2>1, <2>2, <2>3 DEF AddTorrent, Goto, driverVars, obsVars, world
    <2>5. PullOnly(g) /\ pc'[g] = "info"
      BY <2>1, <2>2 DEF AddTorrent, Goto, PullOnly, obsVars
    <2> QED BY <2>4, <2>5, OutsidePull, PullOnlyStep DEF Joined
  <1> QED BY <1>1, <1>2

LEMMA GotInfoStep ==
    ASSUME IInv, NEW g \in Pulls, GotInfo(g)
    PROVE  IInv'
  <1>1. CASE DropErr(g, pc)
    BY <1>1, DropErrStep DEF GotInfo
  <1>2. CASE ~DropErr(g, pc)
    <2>1. /\ tr[g] \in hasInfo /\ openKey # 0
          /\ drv' = [drv EXCEPT ![g] = openKey]
          /\ left' = [left EXCEPT ![g] = SealedPieces(openKey)]
          /\ Goto(g, "preverify")
          /\ UNCHANGED <<store, world, reg, engineVars, prio, driverVars, tr, want, obsVars>>
      BY <1>2 DEF GotInfo, engineVars
    <2>2. openKey \in Torrents /\ openKey \in hasInfo
      BY <2>1 DEF IInv, SharedInv, TypeOK, EngineInv
    <2>3. SealedPieces(openKey) \subseteq Pieces
      <3>1. sealed[openKey] \subseteq Files
        BY <2>2 DEF IInv, TypeOK
      <3> QED BY <3>1, PieceFacts DEF SealedPieces
    <2>4. TypeOK'
      BY <2>1, <2>2, <2>3 DEF IInv, TypeOK, Goto, engineVars, driverVars, obsVars, world
    <2>5. PullOnly(g)
      BY <2>1 DEF IInv, TypeOK, Goto, PullOnly, engineVars, obsVars
    <2>6. PullInv(g)'
      BY <2>1, <2>2 DEF IInv, TypeOK, Goto, engineVars, PullInv, JoinedInv, AsleepInv, CheckedInv,
                        OkInv, Joined
    <2> QED BY <2>4, <2>5, <2>6, PullOnlyStep
  <1> QED BY <1>1, <1>2

LEMMA SetPrioritiesStep ==
    ASSUME IInv, NEW g \in Pulls, SetPriorities(g)
    PROVE  IInv'
  <1>1. CASE want[g] = {}
    BY <1>1, DropErrStep DEF SetPriorities
  <1>2. CASE want[g] # {}
    <2>1. /\ prio' = [prio EXCEPT ![tr[g]] = want[g]] /\ Goto(g, "wait")
          /\ pc[g] = "preverify"
          /\ UNCHANGED <<store, world, reg, engineVars, driverVars, tr, want, drv, left, obsVars>>
      BY <1>2 DEF SetPriorities, engineVars
    <2>2. want[g] \subseteq Files
      BY TreeAssumption DEF IInv, TypeOK
    <2>3. TypeOK'
      BY <2>1, <2>2 DEF IInv, TypeOK, Goto, engineVars, driverVars, obsVars, world
    <2>4. PullOnly(g)
      BY <2>1 DEF IInv, TypeOK, Goto, PullOnly, engineVars, obsVars
    <2>5. PullInv(g)'
      BY <2>1 DEF IInv, TypeOK, Goto, engineVars, PullInv, JoinedInv, AsleepInv, CheckedInv,
                  OkInv, Joined
    <2> QED BY <2>3, <2>4, <2>5, PullOnlyStep
  <1> QED BY <1>1, <1>2

LEMMA WaitStep ==
    ASSUME IInv, NEW g \in Pulls, WaitSealedWanted(g)
    PROVE  IInv'
  <1> DEFINE d == drv[g]
             Frame == UNCHANGED <<store, world, reg, engineVars, prio, driverVars, tr, want, drv,
                                  obsVars>>
  <1>1. d \in hasInfo /\ d \in Torrents /\ tr[g] \in hasInfo /\ pc[g] = "wait"
    BY DEF WaitSealedWanted, IInv, TypeOK, PullInv, JoinedInv, Joined
  <1>2. CASE DropErr(g, pc)
    BY <1>2, DropErrStep DEF WaitSealedWanted
  <1>3. CASE /\ Frame /\ Goto(g, "verify") /\ want[g] \subseteq sealed[d]
             /\ left' = [left EXCEPT ![g] = SealedPieces(d)]
    <2>1. SealedPieces(d) \subseteq Pieces
      <3>1. sealed[d] \subseteq Files
        BY <1>1 DEF IInv, TypeOK
      <3> QED BY <3>1, PieceFacts DEF SealedPieces
    <2>2. TypeOK'
      BY <1>3, <2>1 DEF IInv, TypeOK, Goto, engineVars, driverVars, obsVars, world
    <2>3. PullOnly(g)
      BY <1>3 DEF IInv, TypeOK, Goto, PullOnly, engineVars, obsVars
    <2>4. CheckedInv(g)'
      <3>1. \A f \in want[g] : PiecesOf[f] \subseteq SealedPieces(d)
        BY <1>3 DEF SealedPieces
      <3>2. left'[g] = SealedPieces(d)
        BY <1>3 DEF IInv, TypeOK
      <3> QED BY <1>3, <3>1, <3>2 DEF CheckedInv, driverVars
    <2>5. JoinedInv(g)' /\ AsleepInv(g)' /\ OkInv(g)'
      BY <1>1, <1>3 DEF IInv, TypeOK, Goto, engineVars, JoinedInv, AsleepInv, OkInv
    <2> QED BY <2>2, <2>3, <2>4, <2>5, PullOnlyStep DEF PullInv
  <1>4. CASE /\ Frame /\ Goto(g, "asleep") /\ UNCHANGED left
             /\ failed[d] = {} /\ ~(want[g] \subseteq sealed[d]) /\ d \in opened
    <2>1. TypeOK'
      BY <1>4 DEF IInv, TypeOK, Goto, engineVars, driverVars, obsVars, world
    <2>2. PullOnly(g)
      BY <1>4 DEF IInv, TypeOK, Goto, PullOnly, engineVars, obsVars
    <2>3. PullInv(g)'
      BY <1>1, <1>4 DEF IInv, TypeOK, Goto, engineVars, driverVars, PullInv, JoinedInv, AsleepInv,
                        CheckedInv, OkInv
    <2> QED BY <2>1, <2>2, <2>3, PullOnlyStep
  <1>5. CASE failed[d] # {}
    BY <1>2, <1>5 DEF WaitSealedWanted
  <1>6. CASE failed[d] = {} /\ want[g] \subseteq sealed[d]
    BY <1>3, <1>6 DEF WaitSealedWanted, engineVars
  <1>7. CASE failed[d] = {} /\ ~(want[g] \subseteq sealed[d]) /\ d \notin opened
    BY <1>2, <1>7 DEF WaitSealedWanted
  <1>8. CASE failed[d] = {} /\ ~(want[g] \subseteq sealed[d]) /\ d \in opened
    BY <1>4, <1>8 DEF WaitSealedWanted, engineVars
  <1> QED BY <1>5, <1>6, <1>7, <1>8

(* The import of a checked pull: an empty file is good because it is there,*)
(* any other because one of its pieces is no longer left.                  *)
LEMMA ImportStep ==
    ASSUME IInv, NEW g \in Pulls, Import(g)
    PROVE  IInv'
  <1>1. CASE DropErr(g, pc)
    BY <1>1, DropErrStep DEF Import
  <1>2. CASE ~DropErr(g, pc)
    <2>1. /\ pc[g] = "verify" /\ left[g] = {} /\ Goto(g, "ok")
          /\ \A f \in sealed[drv[g]] : store[f] # "none"
          /\ UNCHANGED <<store, world, reg, engineVars, prio, driverVars, tr, want, drv, left,
                         obsVars>>
      BY <1>2 DEF Import, engineVars
    <2>2. TypeOK'
      BY <2>1 DEF IInv, TypeOK, Goto, engineVars, driverVars, obsVars, world
    <2>3. PullOnly(g)
      BY <2>1 DEF IInv, TypeOK, Goto, PullOnly, engineVars, obsVars
    <2>4. ASSUME tr[g] = drv[g], NEW f \in want[g] PROVE Sound(g, f) /\ f \notin Mismatch(drv[g])
      <3>1. f \in Files
        BY TreeAssumption DEF IInv, TypeOK
      <3>2. f \in sealed[drv[g]] /\ (PiecesOf[f] = {} \/ Sound(g, f))
        BY <2>1, <2>4, <3>1, PieceFacts DEF IInv, PullInv, CheckedInv
      <3>3. CASE f \in Empty
        <4>1. Sound(g, f)
          BY <2>1, <3>1, <3>2, <3>3 DEF IInv, SharedInv, TypeOK, BlobInv, Sound
        <4>2. drv[g] \in Torrents
          BY <2>1 DEF IInv, TypeOK, PullInv, JoinedInv, Joined
        <4>3. f \notin Mismatch(drv[g])
          BY <3>2, <3>3, <4>2 DEF IInv, SharedInv, GateInv
        <4> QED BY <4>1, <4>3
      <3>4. CASE f \notin Empty
        <4>1. Sound(g, f)
          BY <3>1, <3>2, <3>4, PieceFacts
        <4>2. \A p \in PiecesOf[f] : ~Differs(f, p)
          BY <2>1, <2>4 DEF IInv, PullInv, CheckedInv
        <4>3. drv[g] \in Torrents
          BY <2>1 DEF IInv, TypeOK, PullInv, JoinedInv, Joined
        <4>4. f \in Mismatch(drv[g]) => f \in wrong /\ f \in ShaPinned
          BY <3>2, <4>3 DEF IInv, SharedInv, GateInv, Mismatch
        <4>5. f \in wrong /\ f \in ShaPinned => FALSE
          BY <3>1, <3>4, <4>2 DEF IInv, SharedInv, WorldInv, Differs
        <4> QED BY <4>1, <4>4, <4>5
      <3> QED BY <3>3, <3>4
    <2>7. Mismatch(drv[g])' = Mismatch(drv[g])
      BY <2>1 DEF Mismatch, PinnedBy, ShaPinned, world, engineVars
    <2>5. OkInv(g)'
      <3> SUFFICES ASSUME tr'[g] = drv'[g], NEW f \in want'[g]
                   PROVE  Sound(g, f)' /\ f \notin Mismatch(drv[g])'
        BY DEF OkInv
      <3>1. Sound(g, f) /\ f \notin Mismatch(drv[g])
        BY <2>1, <2>4
      <3> QED BY <2>1, <2>7, <3>1 DEF Sound, obsVars
    <2>6. JoinedInv(g)' /\ AsleepInv(g)' /\ CheckedInv(g)'
      BY <2>1 DEF IInv, TypeOK, PullInv, Goto, engineVars, JoinedInv, AsleepInv, CheckedInv, Joined
    <2> QED BY <2>2, <2>3, <2>5, <2>6, PullOnlyStep DEF PullInv
  <1> QED BY <1>1, <1>2

LEMMA DroppedStep ==
    ASSUME IInv, NEW g \in Pulls, Dropped(g)
    PROVE  IInv'
  <1>1. TypeOK'
    BY DEF IInv, TypeOK, Dropped, Goto, engineVars, driverVars, obsVars, world
  <1>2. PullOnly(g) /\ pc'[g] = "err"
    BY DEF IInv, TypeOK, Dropped, Goto, PullOnly, engineVars, obsVars
  <1> QED BY <1>1, <1>2, OutsidePull, PullOnlyStep DEF Joined

(* A check of a piece by the engine or on behalf of pull g, which goes on. *)
LEMMA CheckedPieceStep ==
    ASSUME IInv, NEW i \in Torrents, i \in hasInfo, NEW g \in Pulls, DriverMoves(i),
           \/ pc' = Woken(i)
           \/ UNCHANGED <<pc, sealed, failed>>,
           left' \in [Pulls -> SUBSET Pieces], \A h \in Pulls \ {g} : left'[h] = left[h],
           UNCHANGED <<world, reg, engineVars, prio, want, tr, drv, obsVars>>,
           PullInv(g)'
    PROVE  IInv'
  <1>1. TypeOK'
    <2>1. pc' \in [Pulls -> {"idle", "add", "info", "preverify", "wait",
                            "asleep", "verify", "drop", "ok", "err"}]
      BY DEF IInv, TypeOK, Woken
    <2> QED BY <2>1 DEF IInv, TypeOK, DriverMoves, world, engineVars, obsVars
  <1>2. SharedInv'
    BY DriverStep DEF engineVars, obsVars
  <1>3. ASSUME NEW h \in Pulls \ {g} PROVE PullInv(h)'
    <2>1. Settled(i, h)
      BY DEF Settled
    <2>2. Kept(h)
      BY <2>1, WokenKept DEF engineVars, obsVars
    <2> QED BY <2>2, KeptPull DEF IInv
  <1> QED BY <1>1, <1>2, <1>3 DEF IInv

LEMMA PreVerifyStep ==
    ASSUME IInv, NEW g \in Pulls, VerifyPreSealed(g)
    PROVE  IInv'
  <1> DEFINE i == tr[g]
             p == First(g)
  <1>1. i \in Torrents /\ i \in hasInfo /\ frag[i] \in SUBSET (Files \X Pieces)
    BY DEF VerifyPreSealed, IInv, TypeOK, PullInv, JoinedInv, Joined
  <1>2. p \in Pieces
    BY FirstIsLeft DEF VerifyPreSealed, IInv, TypeOK
  <1>3. /\ DriverMoves(i)
        /\ \/ pc' = Woken(i)
           \/ UNCHANGED <<pc, sealed, failed>>
    BY <1>1, <1>2, CheckMoves DEF VerifyPreSealed, Check, MarkNotComplete, IInv, SharedInv
  <1>4. left' \in [Pulls -> SUBSET Pieces] /\ \A h \in Pulls \ {g} : left'[h] = left[h]
    BY DEF VerifyPreSealed, IInv, TypeOK
  <1>5. PullInv(g)'
    BY <1>3 DEF VerifyPreSealed, IInv, TypeOK, Woken, engineVars, PullInv, JoinedInv, AsleepInv,
                CheckedInv, OkInv, Joined
  <1> QED BY <1>1, <1>3, <1>4, <1>5, CheckedPieceStep DEF VerifyPreSealed

(* A piece that passes its check makes every sealed file it overlaps sound.*)
LEMMA VerifyStep ==
    ASSUME IInv, NEW g \in Pulls, VerifySealed(g)
    PROVE  IInv'
  <1> DEFINE i == tr[g]
             p == First(g)
  <1>1. /\ i \in Torrents /\ i \in hasInfo /\ drv[g] \in hasInfo
        /\ frag[i] \in SUBSET (Files \X Pieces)
    BY DEF VerifySealed, IInv, TypeOK, PullInv, JoinedInv, Joined
  <1>2. p \in Pieces
    BY FirstIsLeft DEF VerifySealed, IInv, TypeOK
  <1>3. CASE /\ Readable(i, p, frag[i]) /\ MarkComplete(i, p, frag[i])
             /\ left' = [left EXCEPT ![g] = @ \ {p}] /\ pc' = Woken(i)
             /\ UNCHANGED <<dropping, want, drv, obsVars>>
    <2>1. DriverMoves(i)
      BY <1>1, <1>2, <1>3, CheckMoves DEF IInv, SharedInv
    <2>2. /\ left' \in [Pulls -> SUBSET Pieces] /\ left'[g] = left[g] \ {p}
          /\ \A h \in Pulls \ {g} : left'[h] = left[h]
      BY <1>3 DEF IInv, TypeOK
    <2>3. UNCHANGED <<world, reg, engineVars, prio, want, tr, drv, obsVars>>
      BY <1>3 DEF VerifySealed, engineVars
    <2>4. pc[g] = "verify" /\ pc'[g] = "verify"
      BY <1>3 DEF VerifySealed, Woken
    <2>5. ASSUME tr[g] = drv[g], NEW f \in want[g]
          PROVE  /\ f \in sealed'[i] /\ (PiecesOf[f] \subseteq left'[g]
                                           \/ store'[f] = "good" \/ f \in hurt'[g])
                 /\ \A q \in PiecesOf[f] \ left'[g] : ~Differs(f, q)
      <3>1. f \in Files /\ f \in sealed[i] /\ (PiecesOf[f] \subseteq left[g] \/ Sound(g, f))
        BY <2>4, <2>5, TreeAssumption DEF IInv, TypeOK, PullInv, CheckedInv
      <3>2. f \in sealed'[i] /\ (store[f] = "good" => store'[f] = "good")
        BY <1>1, <2>1, <3>1 DEF DriverMoves
      <3>3. Sound(g, f) => store'[f] = "good" \/ f \in hurt'[g]
        BY <2>3, <3>2 DEF Sound, obsVars
      <3>4. p \in PiecesOf[f] => store'[f] = "good"
        BY <1>3, <3>1, <3>2 DEF Readable, FilesAt
      <3>5. \A q \in PiecesOf[f] \ left'[g] : q \in PiecesOf[f] \ left[g] \/ q = p
        BY <2>2
      <3>6. p \in PiecesOf[f] => ~Differs(f, p)
        BY <1>3, <3>1 DEF Readable, FilesAt
      <3>7. \A q \in PiecesOf[f] \ left[g] : ~Differs(f, q)
        BY <2>4, <2>5 DEF IInv, PullInv, CheckedInv
      <3> QED BY <2>2, <3>1, <3>2, <3>3, <3>4, <3>5, <3>6, <3>7
    <2>6. CheckedInv(g)'
      BY <2>3, <2>5, PinsFixed DEF CheckedInv, Sound
    <2>7. JoinedInv(g)' /\ AsleepInv(g)' /\ OkInv(g)'
      BY <1>1, <2>3, <2>4 DEF JoinedInv, AsleepInv, OkInv, engineVars
    <2> QED BY <1>1, <1>3, <2>1, <2>2, <2>3, <2>6, <2>7, CheckedPieceStep DEF PullInv
  <1>4. ASSUME \/ MarkNotComplete(i, p, frag[i]) /\ DropErr(g, pc)
               \/ MarkComplete(i, p, frag[i]) /\ DropErr(g, Woken(i))
        PROVE  IInv'
    <2>1. DriverMoves(i)
      BY <1>1, <1>2, <1>4, CheckMoves DEF IInv, SharedInv
    <2>2. /\ UNCHANGED <<world, reg, next, listed, opened, hasInfo, openKey, strict, prio, tr>>
          /\ dropping' \in SUBSET Torrents
      BY <1>4 DEF VerifySealed, DropErr, DropCall, IInv, TypeOK
    <2>3. PICK pcs : /\ Fail(g, pcs, "drop")
                     /\ pcs = Woken(i) \/ (pcs = pc /\ UNCHANGED <<sealed, failed>>)
      BY <1>4 DEF MarkNotComplete, DropErr
    <2>4. /\ pcs \in [Pulls -> {"idle", "add", "info", "preverify", "wait",
                                "asleep", "verify", "drop", "ok", "err"}]
          /\ pc' \in [Pulls -> {"idle", "add", "info", "preverify", "wait",
                                "asleep", "verify", "drop", "ok", "err"}]
          /\ pc'[g] = "drop" /\ \A h \in Pulls \ {g} : pc'[h] = pcs[h]
      BY <2>3 DEF IInv, TypeOK, Fail, Woken
    <2>5. /\ want' \in [Pulls -> Wants \cup {{}}] /\ drv' \in [Pulls -> Torrents \cup {0}]
          /\ left' \in [Pulls -> SUBSET Pieces]
          /\ hurt' \in [Pulls -> SUBSET Files] /\ hurts' = hurts
          /\ \A h \in Pulls \ {g} : /\ want'[h] = want[h] /\ drv'[h] = drv[h]
                                    /\ left'[h] = left[h] /\ hurt'[h] = hurt[h]
      BY <2>3 DEF IInv, TypeOK, Fail
    <2>6. TypeOK'
      BY <2>1, <2>2, <2>4, <2>5 DEF IInv, TypeOK, DriverMoves, world
    <2>7. SharedInv'
      BY <1>1, <2>1, <2>2, <2>5, DriverStep
    <2>8. ASSUME NEW h \in Pulls \ {g} PROVE PullInv(h)'
      <3>1. /\ pc'[h] = pc[h] \/ (pc[h] = "asleep" /\ pc'[h] = "wait")
            /\ pc'[h] = "asleep" => \/ drv[h] \in Torrents \ {i}
                                    \/ UNCHANGED <<sealed, failed>>
        BY <2>3, <2>4 DEF Woken, IInv, TypeOK, PullInv, JoinedInv, Joined
      <3>2. want[h] \subseteq Files
        BY TreeAssumption DEF IInv, TypeOK
      <3>3. \A f \in want[h] : Sound(h, f) => store'[f] = "good" \/ f \in hurt'[h]
        BY <2>1, <2>5, <3>2 DEF Sound, DriverMoves
      <3>4. \A k \in hasInfo : sealed[k] \subseteq sealed'[k] /\ (k \in strict' <=> k \in strict)
        BY <2>1, <2>2 DEF IInv, TypeOK, DriverMoves
      <3>5. Kept(h)
        BY <2>1, <2>2, <2>5, <3>1, <3>3, <3>4 DEF Kept, DriverMoves
      <3> QED BY <3>5, KeptPull DEF IInv
    <2>9. PullInv(g)'
      BY <2>4, OutsidePull DEF Joined
    <2> QED BY <2>6, <2>7, <2>8, <2>9 DEF IInv
  <1>5. CASE DropErr(g, pc) /\ UNCHANGED <<store, driverVars>>
    BY <1>5, DropErrStep DEF VerifySealed
  <1> QED BY <1>3, <1>4, <1>5 DEF VerifySealed

(* An open does not touch a driver some pull already has.                  *)
LEMMA InfoStep ==
    ASSUME IInv, NEW i \in Torrents, InfoArrives(i)
    PROVE  IInv'
  <1>0. /\ i \notin hasInfo /\ hasInfo' = hasInfo \cup {i}
        /\ UNCHANGED <<world, reg, next, listed, dropping, prio, failed, frag, bits, pullVars,
                       obsVars>>
    BY DEF InfoArrives
  <1>3. ASSUME store' = EmptyStored
        PROVE  /\ store' \in [Files -> {"none", "good", "bad"}]
               /\ \A f \in Files : store'[f] = store[f] \/ (store[f] = "none" /\ store'[f] = "good")
               /\ \A f \in Empty : store'[f] # "none"
    BY <1>3, PieceFacts DEF EmptyStored, IInv, SharedInv, TypeOK, BlobInv
  <1>1. CASE OpenFails
    <2>0. /\ UNCHANGED <<opened, openKey, strict, sealed>>
          /\ store' \in [Files -> {"none", "good", "bad"}]
          /\ \A f \in Files : store'[f] = store[f] \/ (store[f] = "none" /\ store'[f] = "good")
      BY <1>1, <1>3 DEF OpenFails, IInv, TypeOK
    <2>1. TypeOK'
      BY <1>0, <2>0 DEF IInv, TypeOK, world, pullVars, obsVars
    <2>2. EngineInv' /\ BlobInv' /\ BitsInv'
      <3>1. EngineInv' /\ BitsInv'
        BY <1>0, <2>0 DEF IInv, SharedInv, EngineInv, BitsInv
      <3>2. \A k \in Torrents : sealed[k] \subseteq Files
        BY DEF IInv, TypeOK
      <3>3. BlobInv'
        BY <1>0, <2>0, <3>2, PieceFacts DEF IInv, SharedInv, BlobInv, obsVars
      <3> QED BY <3>1, <3>3
    <2>4. WorldInv' /\ GateInv'
      BY <1>0, <2>0, PinsFixed DEF IInv, SharedInv, GateInv
    <2>3. ASSUME NEW g \in Pulls PROVE PullInv(g)'
      <3>1. \A f \in want[g] : Sound(g, f) => store'[f] = "good" \/ f \in hurt'[g]
        <4>1. want[g] \subseteq Files
          BY TreeAssumption DEF IInv, TypeOK
        <4> QED BY <4>1, <1>0, <2>0 DEF Sound, obsVars
      <3>2. Kept(g)
        BY <1>0, <2>0, <3>1 DEF Kept, pullVars
      <3> QED BY <3>2, KeptPull DEF IInv
    <2> QED BY <2>1, <2>2, <2>3, <2>4 DEF IInv, SharedInv
  <1>2. CASE ~OpenRefused /\ OpenTorrent(i)
    <2>1. PICK hit \in SUBSET (ShaPinned \ Empty) :
            /\ \A f \in hit : store[f] # "none"
            /\ sealed' = [sealed EXCEPT ![i] = hit \cup Empty]
      BY <1>2 DEF OpenTorrent
    <2>2. /\ opened' = opened \cup {i} /\ openKey' = i /\ strict' \subseteq Torrents
          /\ \A k : k # i => (k \in strict' <=> k \in strict)
          /\ i \in strict' <=> reg
      BY <1>0, <1>2 DEF OpenTorrent, IInv, SharedInv, EngineInv, TypeOK
    <2>3. /\ sealed' \in [Torrents -> SUBSET Files] /\ sealed'[i] = hit \cup Empty
          /\ \A j \in Torrents \ {i} : sealed'[j] = sealed[j]
      BY <2>1, PieceFacts DEF IInv, TypeOK
    <2>4. /\ store' \in [Files -> {"none", "good", "bad"}]
          /\ \A f \in Files : store'[f] = store[f] \/ (store[f] = "none" /\ store'[f] = "good")
          /\ \A f \in Empty : store'[f] # "none"
      BY <1>2, <1>3 DEF OpenTorrent
    <2>5. TypeOK'
      BY <1>0, <2>2, <2>3, <2>4 DEF IInv, TypeOK, world, pullVars, obsVars
    <2>6. EngineInv'
      BY <1>0, <2>2, <2>3 DEF IInv, SharedInv, TypeOK, EngineInv
    <2>10. WorldInv' /\ GateInv'
      <3>1. WorldInv'
        BY <1>0, PinsFixed DEF IInv, SharedInv
      <3>2. ASSUME NEW k \in Torrents, NEW f \in sealed'[k] \cap Mismatch(k)'
            PROVE  f \in ShaPinned \ Empty
        <4>1. CASE k # i
          BY <4>1, <3>2, <1>0, <2>2, <2>3, PinsFixed DEF IInv, SharedInv, GateInv
        <4>2. CASE k = i
          <5>1. f \in wrong \cap PinnedBy(reg)
            BY <3>2, <4>2, <1>0, <2>2 DEF Mismatch, PinnedBy, ShaPinned, world
          <5>2. f \notin Empty
            BY <5>1, <1>2 DEF OpenRefused
          <5> QED BY <3>2, <4>2, <5>2, <2>1, <2>3
        <4> QED BY <4>1, <4>2
      <3>3. ShaPinned' = ShaPinned
        BY <1>0, PinsFixed
      <3> QED BY <3>1, <3>2, <3>3 DEF GateInv
    <2>7. BlobInv'
      <3>1. \A f \in Files : store[f] # "bad" => store'[f] # "bad"
        BY <2>4
      <3>2. ASSUME hurts = 0, NEW j \in Torrents, NEW f \in sealed'[j] PROVE store'[f] = "good"
        <4>1. f \in Files /\ store'[f] \in {"none", "good", "bad"} /\ store'[f] # "bad"
          BY <3>1, <3>2, <2>3, <2>4, <1>0 DEF IInv, SharedInv, BlobInv, obsVars
        <4>2. store'[f] # "none"
          BY <3>2, <4>1, <2>1, <2>3, <2>4, <1>0 DEF IInv, SharedInv, BlobInv, obsVars
        <4> QED BY <4>1, <4>2
      <3> QED BY <1>0, <3>1, <3>2, PieceFacts DEF IInv, SharedInv, BlobInv, obsVars
    <2>8. BitsInv'
      <3> SUFFICES ASSUME NEW j \in Torrents, failed[j] = {},
                          NEW f \in Files \ (sealed'[j] \cup Empty)
                   PROVE  \E p \in PiecesOf[f] : <<f, p>> \notin bits[j]
        BY <1>0 DEF BitsInv
      <3>1. CASE j # i
        BY <3>1, <2>3 DEF IInv, SharedInv, BitsInv
      <3>2. CASE j = i
        BY <3>2, <1>0 DEF IInv, SharedInv, EngineInv, BitsInv
      <3> QED BY <3>1, <3>2
    <2>9. ASSUME NEW g \in Pulls PROVE PullInv(g)'
      <3>1. pc'[g] = "asleep" => drv[g] \in hasInfo /\ drv[g] \in Torrents /\ drv[g] # i
        BY <1>0 DEF pullVars, IInv, TypeOK, PullInv, JoinedInv, Joined
      <3>2. \A f \in want[g] : Sound(g, f) => store'[f] = "good" \/ f \in hurt'[g]
        <4>1. want[g] \subseteq Files
          BY TreeAssumption DEF IInv, TypeOK
        <4> QED BY <4>1, <1>0, <2>4 DEF Sound, obsVars
      <3>3. \A j \in hasInfo : sealed[j] \subseteq sealed'[j] /\ (j \in strict' <=> j \in strict)
        BY <1>0, <2>2, <2>3 DEF IInv, SharedInv, EngineInv, TypeOK
      <3>4. Kept(g)
        BY <1>0, <2>2, <2>3, <3>1, <3>2, <3>3 DEF Kept, pullVars
      <3> QED BY <3>4, KeptPull DEF IInv
    <2> QED BY <2>5, <2>6, <2>7, <2>8, <2>9, <2>10 DEF IInv, SharedInv
  <1> QED BY <1>1, <1>2 DEF InfoArrives

LEMMA ReceiveStep ==
    ASSUME IInv, NEW i \in Torrents, NEW p \in Pieces, ReceivePiece(i, p)
    PROVE  IInv'
  <1>1. i \in hasInfo /\ Written(i, p) \in SUBSET (Files \X Pieces)
    <2>1. frag[i] \in SUBSET (Files \X Pieces) /\ FilesAt(p) \subseteq Files
      BY PieceFacts DEF IInv, TypeOK
    <2> QED BY <2>1 DEF ReceivePiece, IInv, SharedInv, EngineInv, Written
  <1>2. /\ DriverMoves(i)
        /\ \/ pc' = Woken(i)
           \/ UNCHANGED <<pc, sealed, failed>>
    BY <1>1, CheckMoves DEF ReceivePiece, Check, MarkNotComplete, IInv, SharedInv
  <1>3. UNCHANGED <<world, reg, engineVars, prio, want, tr, drv, left, obsVars>>
    BY DEF ReceivePiece
  <1>4. TypeOK'
    <2>1. pc' \in [Pulls -> {"idle", "add", "info", "preverify", "wait",
                            "asleep", "verify", "drop", "ok", "err"}]
      BY <1>2 DEF IInv, TypeOK, Woken
    <2> QED BY <1>2, <1>3, <2>1 DEF IInv, TypeOK, DriverMoves, world, engineVars, obsVars
  <1>5. SharedInv'
    BY <1>1, <1>2, <1>3, DriverStep DEF engineVars, obsVars
  <1>6. ASSUME NEW g \in Pulls PROVE PullInv(g)'
    <2>1. Settled(i, g)
      BY <1>2 DEF Settled
    <2>2. Kept(g)
      BY <1>2, <1>3, <2>1, WokenKept DEF engineVars, obsVars
    <2> QED BY <2>2, KeptPull DEF IInv
  <1> QED BY <1>4, <1>5, <1>6 DEF IInv

LEMMA CloseStep ==
    ASSUME IInv, NEW i \in Torrents, CloseStorage(i)
    PROVE  IInv'
  <1>1. TypeOK'
    <2>1. pc' \in [Pulls -> {"idle", "add", "info", "preverify", "wait",
                            "asleep", "verify", "drop", "ok", "err"}]
      BY DEF IInv, TypeOK, CloseStorage, Woken
    <2> QED BY <2>1 DEF IInv, TypeOK, CloseStorage, world, obsVars
  <1>2. EngineInv' /\ BlobInv' /\ BitsInv'
    BY DEF IInv, SharedInv, CloseStorage, EngineInv, BlobInv, BitsInv, obsVars
  <1>4. WorldInv' /\ GateInv'
    BY PinsFixed DEF IInv, SharedInv, CloseStorage, GateInv
  <1>3. ASSUME NEW g \in Pulls PROVE PullInv(g)'
    <2>1. /\ pc'[g] = pc[g] \/ (pc[g] = "asleep" /\ pc'[g] = "wait")
          /\ pc'[g] = "asleep" => drv[g] # i
      BY DEF CloseStorage, Woken
    <2>2. Kept(g)
      BY <2>1 DEF CloseStorage, Kept, Sound, obsVars
    <2> QED BY <2>2, KeptPull DEF IInv
  <1> QED BY <1>1, <1>2, <1>3, <1>4 DEF IInv, SharedInv

LEMMA UnlistStep ==
    ASSUME IInv, NEW i \in Torrents, Unlist(i)
    PROVE  IInv'
  <1>1. TypeOK'
    BY DEF IInv, TypeOK, Unlist, world, driverVars, pullVars, obsVars
  <1>2. SharedInv'
    BY SharedFixed DEF IInv, Unlist, driverVars, obsVars
  <1>3. ASSUME NEW g \in Pulls PROVE PullInv(g)'
    <2>1. Kept(g)
      BY DEF Unlist, Kept, Sound, driverVars, pullVars, obsVars
    <2> QED BY <2>1, KeptPull DEF IInv
  <1> QED BY <1>1, <1>2, <1>3 DEF IInv

(* Damage to a wanted file is on the account of every pull that wants it.  *)
LEMMA HurtStep ==
    ASSUME IInv, NEW f \in Files \ Empty, NEW how \in {"none", "bad"}, Hurt(f, how)
    PROVE  IInv'
  <1>1. hurts' \in 0..MaxHurt /\ hurts' # 0
    BY BoundsAssumption DEF IInv, TypeOK, Hurt
  <1>2. /\ store' \in [Files -> {"none", "good", "bad"}]
        /\ \A e \in Files \ {f} : store'[e] = store[e]
        /\ hurt' \in [Pulls -> SUBSET Files]
        /\ \A g \in Pulls : hurt'[g] = hurt[g] \cup ({f} \cap want[g])
    BY DEF IInv, TypeOK, Hurt
  <1>3. TypeOK'
    BY <1>1, <1>2 DEF IInv, TypeOK, Hurt, world, engineVars, driverVars, pullVars
  <1>4. EngineInv' /\ BlobInv' /\ BitsInv'
    BY <1>1, <1>2, PieceFacts DEF IInv, SharedInv, Hurt, EngineInv, BlobInv, BitsInv, engineVars,
                                  driverVars
  <1>6. WorldInv' /\ GateInv'
    BY PinsFixed DEF IInv, SharedInv, Hurt, GateInv, engineVars, driverVars
  <1>5. ASSUME NEW g \in Pulls PROVE PullInv(g)'
    <2>1. \A e \in want[g] : Sound(g, e) => store'[e] = "good" \/ e \in hurt'[g]
      <3>1. want[g] \subseteq Files
        BY TreeAssumption DEF IInv, TypeOK
      <3> QED BY <3>1, <1>2 DEF Sound
    <2>2. Kept(g)
      BY <2>1 DEF Hurt, Kept, engineVars, driverVars, pullVars
    <2> QED BY <2>2, KeptPull DEF IInv
  <1> QED BY <1>3, <1>4, <1>5, <1>6 DEF IInv, SharedInv

LEMMA StutterStep ==
    ASSUME IInv, UNCHANGED vars
    PROVE  IInv'
  <1> USE DEF vars, world, engineVars, driverVars, pullVars, obsVars
  <1>1. TypeOK'
    BY DEF IInv, TypeOK
  <1>2. SharedInv'
    BY SharedFixed DEF IInv
  <1>3. ASSUME NEW g \in Pulls PROVE PullInv(g)'
    <2>1. Kept(g)
      BY DEF Kept, Sound
    <2> QED BY <2>1, KeptPull DEF IInv
  <1> QED BY <1>1, <1>2, <1>3 DEF IInv

LEMMA NextIInv == IInv /\ [Next]_vars => IInv'
  <1> SUFFICES ASSUME IInv, [Next]_vars PROVE IInv' OBVIOUS
  <1>1. CASE UNCHANGED vars
    BY <1>1, StutterStep
  <1>2. ASSUME NEW g \in Pulls, ImportCatalog(g) \/ PullStep(g) PROVE IInv'
    BY <1>2, ImportCatalogStep, AddTorrentStep, GotInfoStep, PreVerifyStep, SetPrioritiesStep,
       WaitStep, VerifyStep, ImportStep, DroppedStep DEF PullStep
  <1>3. ASSUME NEW i \in Torrents, InfoArrives(i) \/ CloseStorage(i) \/ Unlist(i) PROVE IInv'
    BY <1>3, InfoStep, CloseStep, UnlistStep
  <1>4. ASSUME NEW i \in Torrents, NEW p \in Pieces, ReceivePiece(i, p) PROVE IInv'
    BY <1>4, ReceiveStep
  <1>5. ASSUME NEW f \in Files \ Empty, NEW how \in {"none", "bad"}, Hurt(f, how) PROVE IInv'
    BY <1>5, HurtStep
  <1>6. CASE Quiet
    BY <1>6, StutterStep DEF Quiet
  <1> QED BY <1>1, <1>2, <1>3, <1>4, <1>5, <1>6 DEF Next

LEMMA Invariance == Spec => []IInv
  BY InitIInv, NextIInv, PTL DEF Spec

-----------------------------------------------------------------------------
(* The variables keep their types.                                         *)
THEOREM TypeCorrect == Spec => []TypeOK
  <1>1. IInv => TypeOK BY DEF IInv
  <1> QED BY Invariance, <1>1, PTL

(* A pull that succeeds on the torrent its driver belongs to has every     *)
(* wanted file, as the driver's anchor pins it, whatever drivers,          *)
(* priorities and blobs other pulls left it (sealLocked, VerifySealed).    *)
THEOREM SuccessfulPullsClean == Spec => []PullOkClean
  <1>1. IInv => PullOkClean
    BY DEF IInv, PullInv, OkInv, Sound, Mismatch, PullOkClean
  <1> QED BY Invariance, <1>1, PTL

(* A sleeping WaitSealedWanted is never lost: its driver is open and sound,*)
(* and a piece it waits for is outstanding and would pass its check, unless*)
(* a blob was damaged or holds the anchor's bytes where the torrent has    *)
(* others (ReadAt, writeAtLocked).                                         *)
THEOREM SleepersServable == Spec => []SleeperServable
  <1>1. IInv => SleeperServable
    <2> SUFFICES ASSUME IInv, NEW g \in Pulls, pc[g] = "asleep"
                 PROVE  LET d == drv[g]  waiting == want[g] \ sealed[d] IN
                        /\ d \in opened /\ failed[d] = {} /\ waiting # {}
                        /\ hurts = 0 =>
                            \A f \in waiting : \E p \in PiecesOf[f] :
                                /\ ~Complete(p, failed[d], bits[d])
                                /\ Clash(d, p) \/ Readable(d, p, Written(d, p))
      BY DEF SleeperServable
    <2> DEFINE d == drv[g]
               waiting == want[g] \ sealed[d]
    <2>1. d \in opened /\ d \in Torrents /\ failed[d] = {} /\ waiting # {}
      BY DEF IInv, TypeOK, PullInv, AsleepInv
    <2>2. ASSUME hurts = 0, NEW f \in waiting
          PROVE  \E p \in PiecesOf[f] : /\ ~Complete(p, failed[d], bits[d])
                                        /\ Clash(d, p) \/ Readable(d, p, Written(d, p))
      <3>1. f \in Files \ (sealed[d] \cup Empty)
        BY <2>1, TreeAssumption DEF IInv, SharedInv, TypeOK, EngineInv
      <3>2. PICK p \in PiecesOf[f] : <<f, p>> \notin bits[d]
        BY <2>1, <3>1 DEF IInv, SharedInv, BitsInv
      <3>3. ~Complete(p, failed[d], bits[d])
        BY <3>1, <3>2 DEF Complete, FilesAt
      <3>4. Clash(d, p) \/ Readable(d, p, Written(d, p))
        BY <2>1, <2>2 DEF IInv, SharedInv, BlobInv, Clash, Readable, Written
      <3> QED BY <3>3, <3>4
    <2> QED BY <2>1, <2>2
  <1> QED BY Invariance, <1>1, PTL

(* The final check of a pull on its own, live torrent fails.               *)
CheckFails(g) ==
    /\ pc[g] = "verify" /\ left[g] # {} /\ pc'[g] = "drop"
    /\ tr[g] = drv[g] /\ tr[g] \in opened \ dropping

(* A piece still to be checked overlaps a file the driver has no bytes of, *)
(* or a blob with the anchor's bytes where the torrent has others.         *)
HasGap(g) ==
    \E p \in left[g] : \E f \in FilesAt(p) \ sealed[tr[g]] : <<f, p>> \notin frag[tr[g]]
HasClash(g) == \E p \in left[g] : Clash(tr[g], p)

(* Why a check may fail.                                                   *)
Explained(g) == hurts > 0 \/ HasGap(g) \/ HasClash(g) \/ failed'[tr[g]] # {}

(* After MarkComplete a piece is complete unless a seal failed.            *)
LEMMA MarkCompleteCompletes ==
    ASSUME TypeOK, NEW i \in Torrents, NEW p \in Pieces, NEW written,
           MarkComplete(i, p, written), failed'[i] = {}
    PROVE  Complete(p, failed'[i], bits'[i])
  <1> DEFINE reached(broken) == {f \in FilesAt(p) : \A b \in broken : Pos[f] <= Pos[b]}
  <1>1. PICK broken \in SUBSET FilesAt(p) :
          /\ bits' = [bits EXCEPT ![i] = @ \cup (reached(broken) \X {p})]
          /\ failed' = [failed EXCEPT ![i] = @ \cup (broken \cap reached(broken))]
    BY DEF MarkComplete
  <1>2. broken \cap reached(broken) = {}
    BY <1>1 DEF TypeOK
  <1>3. broken = {}
    <2> SUFFICES ASSUME broken # {} PROVE FALSE OBVIOUS
    <2>1. \A f \in broken : f \in Files /\ Pos[f] \in Nat
      BY <1>1, PieceFacts, TreeAssumption
    <2> DEFINE S == {Pos[f] : f \in broken}
    <2>2. S \in SUBSET Nat /\ S # {}
      BY <2>1
    <2>3. PICK m \in S : \A q \in S : m <= q
      BY <2>2, MinExists
    <2>4. PICK f \in broken : m = Pos[f]
      OBVIOUS
    <2>5. f \in reached(broken)
      BY <1>1, <2>3, <2>4
    <2> QED BY <1>2, <2>4, <2>5
  <1>4. reached(broken) = FilesAt(p)
    BY <1>3
  <1>5. bits'[i] = bits[i] \cup (FilesAt(p) \X {p})
    BY <1>1, <1>4 DEF TypeOK
  <1> QED BY <1>5 DEF Complete

(* The causes behind the message "corrupt or anchor mismatch" of           *)
(* VerifySealed: the final check of a pull on its own, live torrent fails  *)
(* only if a blob was damaged, a piece overlaps a file without bytes, the  *)
(* store has the anchor's bytes where the torrent has others, or a file    *)
(* failed to seal.                                                         *)
THEOREM FailedCheckExplained ==
    Spec => [][\A g \in Pulls : CheckFails(g) => Explained(g)]_vars
  <1>1. ASSUME IInv, [Next]_vars, NEW g \in Pulls, CheckFails(g), ~(hurts > 0), failed'[tr[g]] = {}
        PROVE  HasGap(g) \/ HasClash(g)
    <2>1. hurts = 0
      BY <1>1, BoundsAssumption DEF IInv, TypeOK
    <2>2. VerifySealed(g)
      <3>1. \A i : Woken(i)[g] = "verify"
        BY <1>1 DEF CheckFails, Woken
      <3>2. ASSUME NEW h \in Pulls, ImportCatalog(h) \/ PullStep(h) PROVE VerifySealed(g)
        <4>1. CASE h = g
          BY <1>1, <3>2, <4>1 DEF CheckFails, PullStep, ImportCatalog, AddTorrent,
             GotInfo, VerifyPreSealed,
             SetPriorities, WaitSealedWanted, Import, Dropped
        <4>2. CASE h # g
          <5>1. CASE ImportCatalog(h) \/ AddTorrent(h) \/ GotInfo(h) \/ SetPriorities(h)
                       \/ WaitSealedWanted(h) \/ Import(h) \/ Dropped(h)
            BY <1>1, <4>2, <5>1 DEF CheckFails, IInv, TypeOK, ImportCatalog, AddTorrent, GotInfo,
               SetPriorities, WaitSealedWanted, Import, Dropped, DropErr, Fail, Goto
          <5>2. CASE VerifyPreSealed(h)
            BY <1>1, <3>1, <5>2 DEF CheckFails, VerifyPreSealed, Check
          <5>3. CASE VerifySealed(h)
            <6>1. PICK j : \/ pc' = Woken(j)
                           \/ pc' = [Woken(j) EXCEPT ![h] = "drop"]
                           \/ pc' = [pc EXCEPT ![h] = "drop"]
              BY <5>3 DEF VerifySealed, DropErr, Fail
            <6>2. Woken(j) \in [Pulls -> {"idle", "add", "info", "preverify", "wait",
                                         "asleep", "verify", "drop", "ok", "err"}]
              BY <1>1 DEF IInv, TypeOK, Woken
            <6> QED BY <1>1, <3>1, <4>2, <6>1, <6>2 DEF CheckFails, IInv, TypeOK
          <5> QED BY <3>2, <5>1, <5>2, <5>3 DEF PullStep
        <4> QED BY <4>1, <4>2
      <3>3. ASSUME NEW i \in Torrents,
                   \/ InfoArrives(i) \/ CloseStorage(i) \/ Unlist(i)
                   \/ \E p \in Pieces : ReceivePiece(i, p)
            PROVE  pc'[g] # "drop"
        BY <1>1, <3>1, <3>3 DEF CheckFails, InfoArrives, CloseStorage, Unlist, ReceivePiece, Check,
           pullVars
      <3>4. ASSUME NEW f, NEW how, Hurt(f, how) PROVE pc'[g] # "drop"
        BY <1>1, <3>4 DEF CheckFails, Hurt, pullVars
      <3>5. UNCHANGED vars => pc'[g] # "drop"
        BY <1>1 DEF CheckFails, vars, pullVars
      <3>6. pc'[g] = "drop"
        BY <1>1 DEF CheckFails
      <3> QED BY <1>1, <3>2, <3>3, <3>4, <3>5, <3>6 DEF Next, Quiet
    <2> DEFINE i == tr[g]
               p == First(g)
    <2>3. i \in Torrents /\ p \in left[g] /\ p \in Pieces
      BY <1>1, FirstIsLeft DEF CheckFails, IInv, TypeOK, SharedInv, EngineInv
    <2>4. ASSUME Readable(i, p, frag[i]) PROVE FALSE
      <3>1. /\ MarkComplete(i, p, frag[i])
            /\ Complete(p, failed'[i], bits'[i]) => pc' = Woken(i)
        BY <1>1, <2>2, <2>4 DEF CheckFails, VerifySealed
      <3>2. Complete(p, failed'[i], bits'[i])
        BY <1>1, <2>3, <3>1, MarkCompleteCompletes DEF IInv
      <3> QED BY <1>1, <3>1, <3>2 DEF CheckFails, Woken
    <2>5. \A f \in sealed[i] : store[f] = "good"
      BY <1>1, <2>1, <2>3 DEF IInv, SharedInv, BlobInv
    <2> QED BY <2>3, <2>4, <2>5 DEF Readable, HasGap, HasClash, Clash
  <1>2. IInv /\ [Next]_vars => [\A g \in Pulls : CheckFails(g) => Explained(g)]_vars
    BY <1>1 DEF Explained
  <1> QED BY Invariance, <1>2, PTL DEF Spec
=============================================================================
