--------------------------- MODULE SwarmFillProofs ---------------------------
(***************************************************************************)
(* Proofs about module SwarmFill, for every number of operations, files,   *)
(* pieces, torrent instances and losses: no operation sleeps past the last *)
(* broadcast, no driver offers what was not hashed, and, when a drop is    *)
(* awaited to its end, an operation that reports success waited on a       *)
(* driver opened after it began.                                           *)
(***************************************************************************)
EXTENDS SwarmFill, TLAPS

(* Only the newest torrent instance is listed or has the driver entry.     *)
EngineInv ==
    /\ listed \subseteq {next - 1} /\ openKey \in {0, next - 1}
    /\ \A i \in opened : i < next
    /\ \A g \in Ops : tr[g] < next /\ drv[g] < next

(* An open driver has not sealed a file that rotted before it opened.      *)
UnsealedInv ==
    \A i \in opened, f \in Files :
        f \notin sealed[i] => store[f] # "bad" \/ f \in hurtSince[i]

IInv == TypeOK /\ EngineInv /\ UnsealedInv /\ CompleteWasHashed /\ NoLostWakeup

-----------------------------------------------------------------------------
(* With drops awaited to their end.                                        *)

Kept(g, f) == Has(f) \/ f \in hurt[g]
Good(g, f) == store[f] = "good" \/ f \in hurt[g]

(* Driver i opened after g began: what it sealed was there, and what a     *)
(* seeding re-hashed and i has not sealed was lost since.                  *)
Fresh(i, g) ==
    /\ \A f \in Files : f \in sealed[i] => Kept(g, f)
    /\ kind[g] = "seed" => \A f \in Multi : f \in sealed[i] \/ f \in hurt[g]

WaitInv(g) ==
    /\ pc[g] = "dropold" => \A i \in listed : i = tr[g] \/ Fresh(i, g)
    /\ pc[g] = "add" => \A i \in listed : Fresh(i, g)
    /\ pc[g] = "driver" /\ openKey # 0 => Fresh(openKey, g)
    /\ pc[g] \in {"verify", "wait", "asleep"} => drv[g] # 0 /\ Fresh(drv[g], g)

SeedInv(g) ==
    /\ pc[g] \in {"wait", "asleep"} => kind[g] # "seed"
    /\ pc[g] = "drop" /\ kind[g] = "seed" => then[g] = "err"
    /\ pc[g] = "rehash" => kind[g] = "seed" /\ \A f \in Multi : f \in left[g] \/ Kept(g, f)
    /\ pc[g] \in {"snap", "dropold", "add", "driver"} /\ kind[g] = "seed" =>
         \A f \in Multi : Kept(g, f)
    /\ pc[g] = "verify" /\ kind[g] = "seed" => \A f \in Multi : f \in left[g] \/ Good(g, f)
    /\ pc[g] \in {"announce", "ok"} /\ kind[g] = "seed" => \A f \in Multi : Good(g, f)
    /\ pc[g] = "announce" => kind[g] = "seed"

FillInv(g) ==
    kind[g] # "seed" /\ (pc[g] = "ok" \/ (pc[g] = "drop" /\ then[g] # "err"))
        => \A f \in Files : Kept(g, f)

OpInv(g) == WaitInv(g) /\ SeedInv(g) /\ FillInv(g)
FreshInv == \A g \in Ops : OpInv(g)

BothInv == IInv /\ FreshInv

-----------------------------------------------------------------------------
(* Put only ever adds a good blob where there was none.                    *)
Improves == \A f \in Files : store'[f] = store[f] \/ (store[f] = "none" /\ store'[f] = "good")

LEMMA ConstFacts ==
    /\ Files = Single \cup Multi /\ Manifest \in Files /\ Manifest \notin Multi
    /\ NPieces \in Nat /\ NPieces > 1 /\ Torrents = 1..MaxTorrents /\ MaxTorrents \in Nat
    /\ MaxTorrents > 0 /\ 0 \notin Torrents
  BY FilesAssumption, BoundsAssumption DEF Files, Torrents

LEMMA PieceFacts ==
    /\ \A f \in Files : Pieces(f) \subseteq 1..NPieces
    /\ \A f \in Multi : Pieces(f) = 1..NPieces
  <1>1. \A f \in Multi : f \notin Single
    BY FilesAssumption
  <1> QED BY <1>1, ConstFacts DEF Pieces

LEMMA PutFacts ==
    ASSUME TypeOK, NEW f \in Files, store' = PutInto(store, f)
    PROVE  /\ store' \in [Files -> {"none", "good", "bad"}] /\ Improves /\ store'[f] # "none"
  BY DEF TypeOK, PutInto, Improves

(* A step that leaves the engine alone, and at most completes the pieces   *)
(* of a file whose blob is good.                                           *)
LEMMA CheckStep ==
    ASSUME IInv, TypeOK', UNCHANGED <<next, listed, opened, openKey, sealed, failed, hurtSince>>,
           Improves, \A h \in Ops : tr'[h] < next /\ drv'[h] < next,
           \A j \in Torrents, e \in Multi : {e} \X Pieces(e) \subseteq done'[j] =>
               {e} \X Pieces(e) \subseteq done[j] \/ store[e] = "good",
           \A h \in Ops : pc'[h] = "asleep" =>
               \/ pc[h] = "asleep" /\ drv'[h] = drv[h]
               \/ drv'[h] \in opened /\ failed[drv'[h]] = {} /\ sealed[drv'[h]] # Files
    PROVE  IInv'
  <1>1. EngineInv'
    BY DEF IInv, EngineInv
  <1>2. UnsealedInv'
    BY DEF IInv, UnsealedInv, Improves
  <1>3. CompleteWasHashed'
    <2>1. Multi \subseteq Files /\ opened \subseteq Torrents
      BY ConstFacts DEF IInv, TypeOK
    <2> QED BY <2>1 DEF IInv, CompleteWasHashed, Improves
  <1>4. NoLostWakeup'
    BY DEF IInv, NoLostWakeup
  <1> QED BY <1>1, <1>2, <1>3, <1>4 DEF IInv

(* A step that leaves engine and drivers alone.                            *)
LEMMA QuietStep ==
    ASSUME IInv, TypeOK', UNCHANGED <<next, listed, opened, openKey, sealed, failed, done, hurtSince>>,
           Improves, \A h \in Ops : tr'[h] < next /\ drv'[h] < next,
           \A h \in Ops : pc'[h] = "asleep" =>
               \/ pc[h] = "asleep" /\ drv'[h] = drv[h]
               \/ drv'[h] \in opened /\ failed[drv'[h]] = {} /\ sealed[drv'[h]] # Files
    PROVE  IInv'
  <1>1. \A j \in Torrents, e \in Multi : {e} \X Pieces(e) \subseteq done'[j] =>
               {e} \X Pieces(e) \subseteq done[j] \/ store[e] = "good"
    OBVIOUS
  <1> QED BY <1>1, CheckStep

LEMMA InitIInv == Init => IInv
  <1> SUFFICES ASSUME Init PROVE IInv OBVIOUS
  <1>1. TypeOK
    BY ConstFacts, BoundsAssumption DEF Init, TypeOK, PCs
  <1>2. EngineInv
    BY DEF Init, EngineInv
  <1>3. UnsealedInv /\ CompleteWasHashed /\ NoLostWakeup
    BY DEF Init, UnsealedInv, CompleteWasHashed, NoLostWakeup
  <1> QED BY <1>1, <1>2, <1>3 DEF IInv

LEMMA StartStep ==
    ASSUME IInv, NEW g \in Ops, OpStart(g) PROVE IInv'
  <1>1. CASE Fill(g)
    <2>1. TypeOK'
      BY <1>1 DEF IInv, TypeOK, Fill, Goto, PCs, engineVars, driverVars
    <2> QED BY <1>1, <2>1, QuietStep
          DEF Fill, Goto, IInv, TypeOK, EngineInv, Improves, engineVars, driverVars
  <1>2. CASE ImportBT(g)
    <2>1. store' \in [Files -> {"none", "good", "bad"}] /\ Improves
      BY <1>2, PutFacts, ConstFacts DEF ImportBT, IInv, TypeOK, Improves
    <2>2. TypeOK'
      BY <1>2, <2>1 DEF IInv, TypeOK, ImportBT, Goto, PCs, engineVars, driverVars
    <2> QED BY <1>2, <2>1, <2>2, QuietStep
          DEF ImportBT, Goto, IInv, TypeOK, EngineInv, engineVars, driverVars
  <1>3. CASE SeedArtifactFromCAS(g)
    <2>1. TypeOK'
      BY <1>3 DEF IInv, TypeOK, SeedArtifactFromCAS, Goto, PCs, engineVars, driverVars
    <2> QED BY <1>3, <2>1, QuietStep
          DEF SeedArtifactFromCAS, Goto, IInv, TypeOK, EngineInv, Improves, engineVars, driverVars
  <1> QED BY <1>1, <1>2, <1>3 DEF OpStart

(* The goroutine returns.                                                  *)
LEMMA ReturnFacts ==
    ASSUME IInv, NEW g \in Ops, NEW r \in {"ok", "err"}, Return(g, r)
    PROVE  /\ pc' \in [Ops -> PCs] /\ tr' \in [Ops -> Torrents \cup {0}]
           /\ drv' \in [Ops -> Torrents \cup {0}] /\ left' \in [Ops -> SUBSET Files]
           /\ then' \in [Ops -> {"seed", "ok", "err"}]
           /\ pc'[g] = r /\ tr'[g] = 0 /\ drv'[g] = 0
           /\ \A h \in Ops \ {g} : /\ pc'[h] = pc[h] /\ tr'[h] = tr[h] /\ drv'[h] = drv[h]
                                   /\ left'[h] = left[h] /\ then'[h] = then[h]
           /\ \A h \in Ops : tr'[h] < next /\ drv'[h] < next
  <1>1. /\ pc' \in [Ops -> PCs] /\ tr' \in [Ops -> Torrents \cup {0}]
        /\ drv' \in [Ops -> Torrents \cup {0}] /\ left' \in [Ops -> SUBSET Files]
        /\ then' \in [Ops -> {"seed", "ok", "err"}]
    BY DEF IInv, TypeOK, Return, Goto, PCs
  <1>2. /\ pc'[g] = r /\ tr'[g] = 0 /\ drv'[g] = 0
        /\ \A h \in Ops \ {g} : /\ pc'[h] = pc[h] /\ tr'[h] = tr[h] /\ drv'[h] = drv[h]
                                /\ left'[h] = left[h] /\ then'[h] = then[h]
    BY DEF IInv, TypeOK, Return, Goto
  <1>3. next \in Nat /\ 0 < next
    BY BoundsAssumption DEF IInv, TypeOK
  <1>4. \A h \in Ops : tr'[h] < next /\ drv'[h] < next
    BY <1>2, <1>3 DEF IInv, EngineInv
  <1> QED BY <1>1, <1>2, <1>4

(* DropThen: on to the drop, with what follows it.                         *)
LEMMA DropFacts ==
    ASSUME IInv, NEW g \in Ops, NEW i, NEW w \in {"seed", "ok", "err"}, DropThen(g, i, w)
    PROVE  /\ pc' \in [Ops -> PCs] /\ then' \in [Ops -> {"seed", "ok", "err"}]
           /\ dropping' \subseteq Torrents
           /\ pc'[g] = "drop" /\ then'[g] = w
           /\ \A h \in Ops \ {g} : pc'[h] = pc[h] /\ then'[h] = then[h]
  BY DEF IInv, TypeOK, DropThen, DropCall, Goto, PCs

LEMMA SeedingStep ==
    ASSUME IInv, NEW g \in Ops, SeedRehash(g) \/ SeedRegister(g) PROVE IInv'
  <1>1. CASE Return(g, "err") /\ UNCHANGED <<store, verified, engineVars, driverVars, kind, obsVars>>
    <2>1. TypeOK'
      BY <1>1, ReturnFacts DEF IInv, TypeOK, engineVars, driverVars, obsVars
    <2> QED BY <1>1, <2>1, ReturnFacts, QuietStep DEF Improves, engineVars, driverVars, obsVars
  <1>2. ASSUME NEW f \in left[g], verified' = verified \cup {f}, left' = [left EXCEPT ![g] = @ \ {f}],
               UNCHANGED <<pc, tr, drv, then, store, engineVars, driverVars, kind, obsVars>>
        PROVE  IInv'
    <2>1. TypeOK'
      BY <1>2 DEF IInv, TypeOK, engineVars, driverVars, obsVars
    <2> QED BY <1>2, <2>1, QuietStep DEF Improves, IInv, EngineInv, engineVars, driverVars, obsVars
  <1>3. CASE Goto(g, "snap") /\ UNCHANGED <<tr, drv, left, then, store, verified, engineVars, driverVars,
                                            kind, obsVars>>
    <2>1. TypeOK'
      BY <1>3 DEF IInv, TypeOK, Goto, PCs, engineVars, driverVars, obsVars
    <2> QED BY <1>3, <2>1, QuietStep
          DEF Improves, IInv, TypeOK, EngineInv, Goto, engineVars, driverVars, obsVars
  <1> QED BY <1>1, <1>2, <1>3 DEF SeedRehash, SeedRegister

LEMMA FreshDropStep ==
    ASSUME IInv, NEW g \in Ops, AddFreshDrop(g) \/ AddFreshDropped(g) PROVE IInv'
  <1>0. next \in Nat /\ 0 < next /\ \A i \in listed : i < next
    BY BoundsAssumption DEF IInv, TypeOK, EngineInv
  <1>1. PICK i \in listed \cup {0}, where \in {"add", "dropold"} :
          /\ tr' = tr \/ tr' = [tr EXCEPT ![g] = i]
          /\ Goto(g, where) /\ dropping' \subseteq Torrents
          /\ UNCHANGED <<store, verified, next, listed, opened, openKey, driverVars,
                         kind, drv, left, then, obsVars>>
    BY DEF AddFreshDrop, AddFreshDropped, DropCall, IInv, TypeOK, engineVars
  <1>2. /\ tr' \in [Ops -> Torrents \cup {0}] /\ \A h \in Ops : tr'[h] < next
    BY <1>0, <1>1 DEF IInv, TypeOK, EngineInv
  <1>3. TypeOK'
    BY <1>1, <1>2 DEF IInv, TypeOK, Goto, PCs, driverVars, obsVars
  <1>4. /\ \A h \in Ops : pc'[h] = "asleep" => pc[h] = "asleep" /\ drv'[h] = drv[h]
        /\ \A h \in Ops : drv'[h] < next
        /\ Improves
    BY <1>1 DEF Goto, Improves, IInv, TypeOK, EngineInv
  <1> QED BY <1>1, <1>2, <1>3, <1>4, QuietStep DEF driverVars, obsVars

LEMMA GetDriverStep ==
    ASSUME IInv, NEW g \in Ops, GetDriver(g) PROVE IInv'
  <1>0. next \in Nat /\ 0 < next /\ openKey < next
    BY BoundsAssumption DEF IInv, TypeOK, EngineInv
  <1>1. /\ UNCHANGED <<store, verified, next, listed, opened, openKey, driverVars, kind, obsVars>>
        /\ Improves
    BY DEF GetDriver, Improves
  <1>2. CASE openKey # 0
    <2>0. /\ drv' = [drv EXCEPT ![g] = openKey] /\ left' = [left EXCEPT ![g] = Multi]
          /\ pc' = [pc EXCEPT ![g] = "verify"] /\ UNCHANGED <<dropping, tr, then>>
          /\ Multi \subseteq Files
      BY <1>2, ConstFacts DEF GetDriver, Goto
    <2>1. TypeOK'
      BY <1>1, <2>0 DEF IInv, TypeOK, PCs, driverVars, obsVars
    <2>2. /\ \A h \in Ops : tr'[h] < next /\ drv'[h] < next
          /\ \A h \in Ops : pc'[h] = "asleep" => pc[h] = "asleep" /\ drv'[h] = drv[h]
      BY <1>0, <1>2 DEF GetDriver, IInv, TypeOK, EngineInv, Goto
    <2> QED BY <1>1, <2>1, <2>2, QuietStep DEF driverVars, obsVars
  <1>3. CASE openKey = 0 /\ kind[g] = "fill"
    <2>1. Return(g, "err") /\ dropping' = dropping
      BY <1>3 DEF GetDriver
    <2>2. TypeOK'
      BY <1>1, <2>1, ReturnFacts DEF IInv, TypeOK, driverVars, obsVars
    <2> QED BY <1>1, <2>1, <2>2, ReturnFacts, QuietStep DEF driverVars, obsVars
  <1>4. CASE openKey = 0 /\ kind[g] # "fill"
    <2>1. DropThen(g, tr[g], "err") /\ UNCHANGED <<tr, drv, left>>
      BY <1>4 DEF GetDriver
    <2>2. TypeOK'
      BY <1>1, <2>1, DropFacts DEF IInv, TypeOK, driverVars, obsVars
    <2>3. \A h \in Ops : tr'[h] < next /\ drv'[h] < next
      BY <2>1 DEF IInv, EngineInv
    <2> QED BY <1>1, <2>1, <2>2, <2>3, DropFacts, QuietStep DEF driverVars, obsVars
  <1> QED BY <1>2, <1>3, <1>4

LEMMA WaitStep ==
    ASSUME IInv, NEW g \in Ops, VerifiedPresent(g) \/ WaitSealed(g) PROVE IInv'
  <1>1. /\ UNCHANGED <<store, verified, next, listed, opened, openKey, driverVars, kind, tr, drv, left,
                       obsVars>>
        /\ Improves /\ \A h \in Ops : tr'[h] < next /\ drv'[h] < next
    BY DEF VerifiedPresent, WaitSealed, Improves, engineVars, IInv, EngineInv
  <1>2. ASSUME NEW w \in {"seed", "ok", "err"}, DropThen(g, tr[g], w) PROVE IInv'
    <2>1. TypeOK'
      BY <1>1, <1>2, DropFacts DEF IInv, TypeOK, driverVars, obsVars
    <2> QED BY <1>1, <1>2, <2>1, DropFacts, QuietStep DEF driverVars, obsVars
  <1>3. ASSUME NEW where \in {"wait", "announce", "asleep"}, Goto(g, where),
               UNCHANGED <<dropping, then>>,
               where = "asleep" =>
                 drv[g] \in opened /\ failed[drv[g]] = {} /\ sealed[drv[g]] # Files
        PROVE  IInv'
    <2>1. TypeOK'
      BY <1>1, <1>3 DEF IInv, TypeOK, Goto, PCs, driverVars, obsVars
    <2>2. \A h \in Ops : pc'[h] = "asleep" =>
               \/ pc[h] = "asleep" /\ drv'[h] = drv[h]
               \/ drv'[h] \in opened /\ failed[drv'[h]] = {} /\ sealed[drv'[h]] # Files
      BY <1>1, <1>3 DEF IInv, TypeOK, Goto
    <2> QED BY <1>1, <2>1, <2>2, QuietStep DEF driverVars, obsVars
  <1>4. CASE VerifiedPresent(g)
    BY <1>3, <1>4 DEF VerifiedPresent, engineVars
  <1>5. CASE WaitSealed(g)
    <2> DEFINE d == drv[g]
    <2>1. CASE failed[d] # {}
      BY <1>2, <1>5, <2>1 DEF WaitSealed
    <2>2. CASE failed[d] = {} /\ sealed[d] = Files
      BY <1>2, <1>5, <2>2 DEF WaitSealed
    <2>3. CASE failed[d] = {} /\ sealed[d] # Files /\ d \notin opened
      BY <1>2, <1>5, <2>3 DEF WaitSealed
    <2>4. CASE failed[d] = {} /\ sealed[d] # Files /\ d \in opened
      BY <1>3, <1>5, <2>4 DEF WaitSealed
    <2> QED BY <2>1, <2>2, <2>3, <2>4
  <1> QED BY <1>4, <1>5

LEMMA DroppedStep ==
    ASSUME IInv, NEW g \in Ops, Dropped(g) \/ Announce(g) PROVE IInv'
  <1>0. next \in Nat /\ 0 < next
    BY BoundsAssumption DEF IInv, TypeOK
  <1>1. CASE Dropped(g) /\ then[g] = "seed"
    <2>1. TypeOK'
      BY <1>1 DEF Dropped, IInv, TypeOK, Goto, PCs, engineVars, driverVars
    <2>2. /\ \A h \in Ops : tr'[h] < next /\ drv'[h] < next
          /\ \A h \in Ops : pc'[h] = "asleep" => pc[h] = "asleep" /\ drv'[h] = drv[h]
          /\ Improves
      BY <1>0, <1>1 DEF Dropped, IInv, TypeOK, EngineInv, Goto, Improves
    <2> QED BY <1>1, <2>1, <2>2, QuietStep DEF Dropped, engineVars, driverVars
  <1>2. ASSUME NEW r \in {"ok", "err"}, Return(g, r),
               UNCHANGED <<store, verified, engineVars, driverVars, kind, obsVars>>
        PROVE  IInv'
    <2>1. TypeOK'
      BY <1>2, ReturnFacts DEF IInv, TypeOK, engineVars, driverVars, obsVars
    <2> QED BY <1>2, <2>1, ReturnFacts, QuietStep DEF Improves, engineVars, driverVars, obsVars
  <1>3. then[g] \in {"seed", "ok", "err"}
    BY DEF IInv, TypeOK
  <1> QED BY <1>1, <1>2, <1>3 DEF Dropped, Announce, obsVars

-----------------------------------------------------------------------------
(* Piece checks: all pieces of a file are complete only if all passed.     *)
LEMMA CheckedFacts ==
    ASSUME IInv, NEW i \in Torrents \cup {0}, NEW f \in Files, NEW k \in 0..NPieces,
           PiecesChecked(i, f, k)
    PROVE  /\ done' \in [Torrents -> SUBSET (Files \X (1..NPieces))]
           /\ verified' \subseteq Files
           /\ \A j \in Torrents, e \in Multi :
                {e} \X Pieces(e) \subseteq done'[j] =>
                  \/ {e} \X Pieces(e) \subseteq done[j] /\ ~(j = i /\ e = f)
                  \/ j = i /\ e = f /\ k = NPieces
  <1> DEFINE now == (done[i] \cup ({f} \X (1..k))) \ ({f} \X {k + 1})
  <1>0. 1..k \subseteq 1..NPieces /\ done \in [Torrents -> SUBSET (Files \X (1..NPieces))]
    BY ConstFacts DEF IInv, TypeOK
  <1>1. i \in Torrents => now \in SUBSET (Files \X (1..NPieces))
    BY <1>0
  <1>2. done' = [done EXCEPT ![i] = now]
    BY DEF PiecesChecked
  <1>3. done' \in [Torrents -> SUBSET (Files \X (1..NPieces))]
    <2>1. CASE i \in Torrents
      BY <1>0, <1>1, <1>2, <2>1
    <2>2. CASE i \notin Torrents
      BY <1>0, <1>2, <2>2
    <2> QED BY <2>1, <2>2
  <1>4. verified' \subseteq Files
    BY <1>0 DEF PiecesChecked, IInv, TypeOK
  <1>5. ASSUME NEW j \in Torrents, NEW e \in Multi, {e} \X Pieces(e) \subseteq done'[j]
        PROVE  \/ {e} \X Pieces(e) \subseteq done[j] /\ ~(j = i /\ e = f)
               \/ j = i /\ e = f /\ k = NPieces
    <2>1. CASE j # i
      BY <1>0, <1>2, <1>5, <2>1
    <2>2. CASE j = i /\ e # f
      <3>1. done'[j] = now
        BY <1>0, <1>2, <2>2
      <3>2. \A x \in {e} \X Pieces(e) : x \in done[j]
        BY <1>5, <2>2, <3>1
      <3> QED BY <2>2, <3>2
    <2>3. CASE j = i /\ e = f
      <3>1. done'[j] = now
        BY <1>0, <1>2, <2>3
      <3>2. k < NPieces => k + 1 \in Pieces(f)
        BY <2>3, PieceFacts, ConstFacts
      <3>3. <<f, k + 1>> \notin now
        OBVIOUS
      <3>4. k + 1 \in Pieces(f) => <<f, k + 1>> \in {e} \X Pieces(e)
        BY <2>3
      <3>5. ~(k < NPieces)
        BY <1>5, <3>1, <3>2, <3>3, <3>4
      <3> QED BY <2>3, <3>5, ConstFacts
    <2> QED BY <2>1, <2>2, <2>3
  <1> QED BY <1>3, <1>4, <1>5

LEMMA VerifyPresentStep ==
    ASSUME IInv, NEW g \in Ops, VerifyPresent(g) PROVE IInv'
  <1>0. /\ UNCHANGED <<store, next, listed, opened, openKey, sealed, failed, part, kind, tr, drv,
                       obsVars>>
        /\ Improves /\ \A h \in Ops : tr'[h] < next /\ drv'[h] < next
        /\ left[g] \subseteq Files
    BY DEF VerifyPresent, Improves, IInv, TypeOK, EngineInv
  <1>2. /\ pc' \in [Ops -> PCs] /\ then' \in [Ops -> {"seed", "ok", "err"}]
        /\ dropping' \subseteq Torrents
        /\ \A h \in Ops : pc'[h] = "asleep" => pc[h] = "asleep"
    <2>1. UNCHANGED <<pc, dropping, then>> \/ DropThen(g, tr[g], "err")
      BY DEF VerifyPresent
    <2> QED BY <2>1, DropFacts DEF IInv, TypeOK
  <1>3. left' \in [Ops -> SUBSET Files]
    BY <1>0 DEF VerifyPresent, IInv, TypeOK
  <1>4. /\ done' \in [Torrents -> SUBSET (Files \X (1..NPieces))] /\ verified' \subseteq Files
        /\ \A j \in Torrents, e \in Multi :
             {e} \X Pieces(e) \subseteq done'[j] =>
               {e} \X Pieces(e) \subseteq done[j] \/ store[e] = "good"
    <2>1. \/ UNCHANGED <<done, verified>>
          \/ \E f \in left[g], k \in 0..NPieces :
               PiecesChecked(tr[g], f, k) /\ (k = NPieces => store[f] = "good")
      <3>1. NPieces \in 0..NPieces /\ \A k \in 0..(NPieces - 1) : k \in 0..NPieces /\ k # NPieces
        BY ConstFacts
      <3> QED BY <3>1 DEF VerifyPresent
    <2>2. CASE UNCHANGED <<done, verified>>
      BY <2>2 DEF IInv, TypeOK
    <2>3. CASE \E f \in left[g], k \in 0..NPieces :
                 PiecesChecked(tr[g], f, k) /\ (k = NPieces => store[f] = "good")
      <3>1. PICK f \in Files, k \in 0..NPieces :
              PiecesChecked(tr[g], f, k) /\ (k = NPieces => store[f] = "good")
        BY <1>0, <2>3
      <3>2. tr[g] \in Torrents \cup {0}
        BY DEF IInv, TypeOK
      <3> QED BY <3>1, <3>2, CheckedFacts
    <2> QED BY <2>1, <2>2, <2>3
  <1>5. TypeOK'
    BY <1>0, <1>2, <1>3, <1>4 DEF IInv, TypeOK, obsVars
  <1> QED BY <1>0, <1>2, <1>4, <1>5, CheckStep DEF obsVars

-----------------------------------------------------------------------------
(* A new driver starts from what is present, and disturbs no live one.     *)
LEMMA NewDriverFacts ==
    ASSUME IInv, NEW i \in Torrents, NewDriver(i)
    PROVE  /\ opened' = opened \cup {i} /\ openKey' = i
           /\ sealed' \in [Torrents -> SUBSET Files] /\ failed' \in [Torrents -> SUBSET Files]
           /\ part' \in [Torrents -> SUBSET Files]
           /\ done' \in [Torrents -> SUBSET (Files \X (1..NPieces))]
           /\ hurtSince' \in [Torrents -> SUBSET Files]
           /\ sealed'[i] = {f \in Files : Has(f)}
           /\ \A e \in Multi : ~({e} \X Pieces(e) \subseteq done'[i])
           /\ \A j \in Torrents \ {i} : hurtSince'[j] = hurtSince[j]
           /\ \A j \in Live \ {i} : j \in Torrents =>
                sealed'[j] = sealed[j] /\ failed'[j] = failed[j] /\ done'[j] = done[j]
  <1> DEFINE present == {f \in Files : Has(f)}
             first == (present \cap Single) \X {1}
  <1>0. first \in SUBSET (Files \X (1..NPieces)) /\ \A e \in Multi : <<e, 1>> \notin first
    <2>1. 1 \in 1..NPieces /\ \A e \in Multi : e \notin Single
      BY ConstFacts, FilesAssumption
    <2> QED BY <2>1
  <1>1. /\ opened' = opened \cup {i} /\ openKey' = i /\ sealed' = Field(sealed, i, present)
        /\ done' = Field(done, i, first) /\ failed' = Field(failed, i, {})
        /\ part' = Field(part, i, {}) /\ hurtSince' = [hurtSince EXCEPT ![i] = {}]
    BY DEF NewDriver
  <1> HIDE DEF first
  <1>2. /\ sealed' \in [Torrents -> SUBSET Files] /\ failed' \in [Torrents -> SUBSET Files]
        /\ part' \in [Torrents -> SUBSET Files] /\ hurtSince' \in [Torrents -> SUBSET Files]
        /\ done' \in [Torrents -> SUBSET (Files \X (1..NPieces))]
    BY <1>0, <1>1 DEF Field, IInv, TypeOK
  <1>3. ASSUME NEW e \in Multi PROVE ~({e} \X Pieces(e) \subseteq done'[i])
    <2>1. done'[i] = first
      BY <1>1 DEF Field
    <2>2. <<e, 1>> \in {e} \X Pieces(e)
      BY PieceFacts, ConstFacts
    <2> QED BY <1>0, <2>1, <2>2
  <1> QED BY <1>1, <1>2, <1>3 DEF Field, IInv, TypeOK

LEMMA AddTorrentStep ==
    ASSUME IInv, NEW g \in Ops, AddTorrent(g) PROVE IInv'
  <1>0. /\ next \in Nat /\ 0 < next /\ \A i \in listed : i < next /\ i \in Torrents
        /\ UNCHANGED <<store, verified, kind, hurt, hurts>> /\ Improves
    BY BoundsAssumption DEF IInv, TypeOK, EngineInv, AddTorrent, Improves
  <1>1. CASE Return(g, "err") /\ UNCHANGED <<engineVars, driverVars, hurtSince>>
    <2>1. TypeOK'
      BY <1>0, <1>1, ReturnFacts DEF IInv, TypeOK, engineVars, driverVars
    <2> QED BY <1>0, <1>1, <2>1, ReturnFacts, QuietStep DEF engineVars, driverVars
  <1>2. ASSUME NEW i \in listed, tr' = [tr EXCEPT ![g] = i], Goto(g, "driver"),
               UNCHANGED <<engineVars, driverVars, drv, left, then, hurtSince>>
        PROVE  IInv'
    <2>1. TypeOK'
      BY <1>0, <1>2 DEF IInv, TypeOK, Goto, PCs, engineVars, driverVars
    <2>2. /\ \A h \in Ops : tr'[h] < next /\ drv'[h] < next
          /\ \A h \in Ops : pc'[h] = "asleep" => pc[h] = "asleep" /\ drv'[h] = drv[h]
      BY <1>0, <1>2 DEF IInv, TypeOK, EngineInv, Goto
    <2> QED BY <1>0, <1>2, <2>1, <2>2, QuietStep DEF engineVars, driverVars
  <1>3. ASSUME listed = {}, next \in Torrents, tr' = [tr EXCEPT ![g] = next], listed' = {next},
               next' = next + 1, NewDriver(next), Goto(g, "driver"),
               UNCHANGED <<dropping, drv, left, then>>
        PROVE  IInv'
    <2>a. next' \in 1..(MaxTorrents + 1) /\ next' - 1 = next
      BY <1>0, <1>3, ConstFacts
    <2>b. /\ tr' \in [Ops -> Torrents \cup {0}] /\ pc' \in [Ops -> PCs]
          /\ \A h \in Ops : pc'[h] = "asleep" => pc[h] = "asleep"
          /\ \A h \in Ops : tr'[h] < next' /\ drv'[h] < next'
      <3>1. /\ tr' \in [Ops -> Torrents \cup {0}] /\ pc' \in [Ops -> PCs]
            /\ \A h \in Ops : pc'[h] = "asleep" => pc[h] = "asleep"
            /\ \A h \in Ops : tr'[h] \in {tr[h], next} /\ drv'[h] = drv[h]
        BY <1>3 DEF IInv, TypeOK, Goto, PCs
      <3>2. \A h \in Ops : tr[h] \in Nat /\ drv[h] \in Nat /\ tr[h] < next /\ drv[h] < next
        BY ConstFacts DEF IInv, TypeOK, EngineInv
      <3> QED BY <1>0, <1>3, <3>1, <3>2
    <2>c. /\ opened' = opened \cup {next} /\ openKey' = next
          /\ sealed' \in [Torrents -> SUBSET Files] /\ failed' \in [Torrents -> SUBSET Files]
          /\ part' \in [Torrents -> SUBSET Files]
          /\ done' \in [Torrents -> SUBSET (Files \X (1..NPieces))]
          /\ hurtSince' \in [Torrents -> SUBSET Files]
          /\ sealed'[next] = {f \in Files : Has(f)}
          /\ \A e \in Multi : ~({e} \X Pieces(e) \subseteq done'[next])
          /\ \A j \in Torrents \ {next} : hurtSince'[j] = hurtSince[j]
          /\ \A j \in Live \ {next} : j \in Torrents =>
                sealed'[j] = sealed[j] /\ failed'[j] = failed[j] /\ done'[j] = done[j]
      BY <1>3, NewDriverFacts
    <2>d. \A j \in opened : j \in Live /\ j # next /\ j \in Torrents
      BY <1>0 DEF IInv, TypeOK, EngineInv, Live
    <2>1. TypeOK'
      <3>1. listed' \subseteq Torrents /\ opened' \subseteq Torrents /\ openKey' \in Torrents
        BY <1>3, <2>c DEF IInv, TypeOK
      <3> QED BY <1>0, <1>3, <2>a, <2>b, <2>c, <3>1 DEF IInv, TypeOK
    <2>2. EngineInv'
      <3>1. \A i \in opened' : i < next'
        BY <1>0, <1>3, <2>c, <2>d DEF IInv, EngineInv, TypeOK
      <3> QED BY <1>3, <2>a, <2>b, <2>c, <3>1 DEF EngineInv
    <2>3. UnsealedInv'
      <3>1. \A j \in opened, f \in Files :
              f \notin sealed'[j] => store'[f] # "bad" \/ f \in hurtSince'[j]
        BY <1>0, <2>c, <2>d DEF IInv, UnsealedInv
      <3>2. \A f \in Files : f \notin sealed'[next] => store'[f] # "bad"
        BY <1>0, <2>c DEF Has
      <3> QED BY <2>c, <3>1, <3>2 DEF UnsealedInv
    <2>4. CompleteWasHashed'
      BY <1>0, <2>c, <2>d DEF IInv, CompleteWasHashed
    <2>5. NoLostWakeup'
      <3>1. ASSUME NEW h \in Ops, pc[h] = "asleep"
            PROVE  drv[h] \in opened /\ failed[drv[h]] = {} /\ sealed[drv[h]] # Files
        BY <3>1 DEF IInv, NoLostWakeup
      <3>2. ASSUME NEW h \in Ops, pc'[h] = "asleep"
            PROVE  drv'[h] \in opened' /\ failed'[drv'[h]] = {} /\ sealed'[drv'[h]] # Files
        <4>1. /\ drv'[h] = drv[h] /\ drv[h] \in opened /\ failed[drv[h]] = {}
              /\ sealed[drv[h]] # Files
          BY <1>3, <2>b, <3>1, <3>2
        <4> QED BY <2>c, <2>d, <4>1
      <3> QED BY <3>2 DEF NoLostWakeup
    <2> QED BY <2>1, <2>2, <2>3, <2>4, <2>5 DEF IInv
  <1> QED BY <1>1, <1>2, <1>3 DEF AddTorrent

(* The broadcast of a driver wakes all who sleep on it, and nobody else.   *)
LEMMA WokenFacts ==
    ASSUME IInv, NEW i, pc' = Woken(i)
    PROVE  /\ pc' \in [Ops -> PCs]
           /\ \A h \in Ops : pc'[h] = "asleep" => pc[h] = "asleep" /\ drv[h] # i
           /\ \A h \in Ops : pc'[h] = pc[h] \/ (pc[h] = "asleep" /\ pc'[h] = "wait")
  BY DEF IInv, TypeOK, Woken, PCs

LEMMA SealFacts ==
    ASSUME IInv, NEW i \in Torrents, NEW f \in Files, NEW p \in Pieces(f), MarkComplete(i, f, p)
    PROVE  /\ store' \in [Files -> {"none", "good", "bad"}] /\ Improves
           /\ verified' \subseteq Files
           /\ sealed' \in [Torrents -> SUBSET Files] /\ failed' \in [Torrents -> SUBSET Files]
           /\ part' \in [Torrents -> SUBSET Files]
           /\ \A j \in Torrents \ {i} : sealed'[j] = sealed[j] /\ failed'[j] = failed[j]
           /\ sealed'[i] = sealed[i] \/ (sealed'[i] = sealed[i] \cup {f} /\ store'[f] # "none")
  <1>1. CASE SealLocked(i, f)
    <2>1. CASE store' = PutInto(store, f) /\ sealed' = [sealed EXCEPT ![i] = @ \cup {f}]
               /\ verified' = verified \cup {f} /\ UNCHANGED failed
      <3>1. store' \in [Files -> {"none", "good", "bad"}] /\ Improves /\ store'[f] # "none"
        BY <2>1, PutFacts DEF IInv
      <3> QED BY <1>1, <2>1, <3>1 DEF SealLocked, IInv, TypeOK
    <2>2. CASE failed' = [failed EXCEPT ![i] = @ \cup {f}] /\ UNCHANGED <<store, sealed, verified>>
      BY <1>1, <2>2 DEF SealLocked, IInv, TypeOK, Improves
    <2> QED BY <1>1, <2>1, <2>2 DEF SealLocked
  <1>2. CASE WriteAt(i, f) /\ UNCHANGED <<store, verified, sealed, failed>>
    BY <1>2 DEF WriteAt, IInv, TypeOK, Improves
  <1> QED BY <1>1, <1>2 DEF MarkComplete

LEMMA MarkCompleteStep ==
    ASSUME IInv, NEW i \in Torrents, NEW f \in Files, NEW p \in Pieces(f), MarkComplete(i, f, p)
    PROVE  IInv'
  <1>0. /\ i \in opened /\ f \notin sealed[i] /\ pc' = Woken(i)
        /\ done' = [done EXCEPT ![i] = @ \cup {<<f, p>>}] /\ p \in 1..NPieces
        /\ UNCHANGED <<engineVars, kind, tr, drv, left, then, obsVars>>
    BY PieceFacts DEF MarkComplete
  <1>1. /\ store' \in [Files -> {"none", "good", "bad"}] /\ Improves
        /\ verified' \subseteq Files
        /\ sealed' \in [Torrents -> SUBSET Files] /\ failed' \in [Torrents -> SUBSET Files]
        /\ part' \in [Torrents -> SUBSET Files]
        /\ \A j \in Torrents \ {i} : sealed'[j] = sealed[j] /\ failed'[j] = failed[j]
        /\ sealed'[i] = sealed[i] \/ (sealed'[i] = sealed[i] \cup {f} /\ store'[f] # "none")
    BY SealFacts
  <1>2. /\ pc' \in [Ops -> PCs]
        /\ \A h \in Ops : pc'[h] = "asleep" => pc[h] = "asleep" /\ drv[h] # i
    BY <1>0, WokenFacts
  <1>3. /\ done' \in [Torrents -> SUBSET (Files \X (1..NPieces))]
        /\ \A j \in Torrents \ {i} : done'[j] = done[j]
        /\ \A e \in Files \ {f} : {e} \X Pieces(e) \subseteq done'[i] => {e} \X Pieces(e) \subseteq done[i]
    BY <1>0 DEF IInv, TypeOK
  <1>4. TypeOK'
    BY <1>0, <1>1, <1>2, <1>3 DEF IInv, TypeOK, engineVars, obsVars
  <1>5. EngineInv'
    BY <1>0 DEF IInv, EngineInv, engineVars
  <1>6. UnsealedInv'
    <2>1. \A j \in Torrents : sealed[j] \subseteq sealed'[j]
      BY <1>1
    <2>2. opened' = opened /\ opened \subseteq Torrents /\ hurtSince' = hurtSince
      BY <1>0 DEF engineVars, obsVars, IInv, TypeOK
    <2> QED BY <1>1, <2>1, <2>2 DEF IInv, UnsealedInv, Improves
  <1>7. CompleteWasHashed'
    <2>0. opened' = opened /\ opened \subseteq Torrents /\ hurtSince' = hurtSince /\ Multi \subseteq Files
      BY <1>0, ConstFacts DEF engineVars, obsVars, IInv, TypeOK
    <2>1. ASSUME NEW j \in opened, NEW e \in Multi, e \in sealed'[j],
                 {e} \X Pieces(e) \subseteq done'[j]
          PROVE  store'[e] = "good" \/ e \in hurtSince[j]
      <3>1. CASE j = i /\ e = f
        <4>1. store'[f] # "none" /\ (store[f] # "bad" \/ f \in hurtSince[i])
          BY <1>0, <1>1, <2>1, <3>1 DEF IInv, UnsealedInv
        <4> QED BY <1>1, <3>1, <4>1 DEF Improves
      <3>2. CASE ~(j = i /\ e = f)
        <4>1. e \in sealed[j] /\ {e} \X Pieces(e) \subseteq done[j]
          BY <1>1, <1>3, <2>0, <2>1, <3>2
        <4> QED BY <1>1, <2>0, <4>1 DEF IInv, CompleteWasHashed, Improves
      <3> QED BY <3>1, <3>2
    <2> QED BY <2>0, <2>1 DEF CompleteWasHashed
  <1>8. NoLostWakeup'
    <2>1. ASSUME NEW h \in Ops, pc'[h] = "asleep"
          PROVE  /\ drv[h] \in opened /\ drv[h] \in Torrents \ {i}
                 /\ failed[drv[h]] = {} /\ sealed[drv[h]] # Files
      BY <1>2, <2>1 DEF IInv, NoLostWakeup, TypeOK
    <2> QED BY <1>0, <1>1, <2>1 DEF NoLostWakeup, engineVars
  <1> QED BY <1>4, <1>5, <1>6, <1>7, <1>8 DEF IInv

LEMMA CloseStep ==
    ASSUME IInv, NEW i \in Torrents, CloseStorage(i) PROVE IInv'
  <1>1. /\ pc' \in [Ops -> PCs]
        /\ \A h \in Ops : pc'[h] = "asleep" => pc[h] = "asleep" /\ drv[h] # i
    BY WokenFacts DEF CloseStorage
  <1>2. TypeOK'
    BY <1>1 DEF IInv, TypeOK, CloseStorage
  <1>3. EngineInv'
    BY DEF IInv, EngineInv, CloseStorage
  <1>4. /\ opened' = opened \ {i} /\ UNCHANGED <<store, sealed, failed, done, drv>>
        /\ \A j \in opened' : hurtSince'[j] = hurtSince[j]
    BY DEF CloseStorage, IInv, TypeOK
  <1>5. UnsealedInv' /\ CompleteWasHashed'
    BY <1>4 DEF IInv, UnsealedInv, CompleteWasHashed
  <1>6. NoLostWakeup'
    BY <1>1, <1>4 DEF IInv, NoLostWakeup
  <1> QED BY <1>2, <1>3, <1>5, <1>6 DEF IInv

LEMMA UnlistStep ==
    ASSUME IInv, NEW i \in Torrents, Unlist(i) PROVE IInv'
  <1>1. TypeOK'
    BY DEF IInv, TypeOK, Unlist, driverVars, opVars, obsVars
  <1>2. EngineInv'
    BY DEF IInv, EngineInv, Unlist, driverVars, opVars, obsVars
  <1>3. UnsealedInv' /\ CompleteWasHashed' /\ NoLostWakeup'
    BY DEF IInv, UnsealedInv, CompleteWasHashed, NoLostWakeup, Unlist, driverVars, opVars, obsVars
  <1> QED BY <1>1, <1>2, <1>3 DEF IInv

LEMMA HurtFacts ==
    ASSUME IInv, NEW f \in Files, NEW how \in {"none", "bad"}, Hurt(f, how)
    PROVE  /\ store' \in [Files -> {"none", "good", "bad"}] /\ store'[f] = how
           /\ \A e \in Files \ {f} : store'[e] = store[e]
           /\ hurt' \in [Ops -> SUBSET Files] /\ hurtSince' \in [Torrents -> SUBSET Files]
           /\ \A g \in Ops : pc[g] \notin {"idle", "err"} => hurt'[g] = hurt[g] \cup {f}
           /\ \A i \in opened : hurtSince'[i] = hurtSince[i] \cup {f}
           /\ hurts' \in 0..MaxHurt
  <1>1. hurts' \in 0..MaxHurt
    BY BoundsAssumption DEF IInv, TypeOK, Hurt
  <1> QED BY <1>1 DEF IInv, TypeOK, Hurt

LEMMA HurtStep ==
    ASSUME IInv, NEW f \in Files, NEW how \in {"none", "bad"}, Hurt(f, how) PROVE IInv'
  <1>0. /\ store' \in [Files -> {"none", "good", "bad"}]
        /\ \A e \in Files \ {f} : store'[e] = store[e]
        /\ hurt' \in [Ops -> SUBSET Files] /\ hurtSince' \in [Torrents -> SUBSET Files]
        /\ \A i \in opened : hurtSince'[i] = hurtSince[i] \cup {f}
        /\ hurts' \in 0..MaxHurt
        /\ UNCHANGED <<verified, engineVars, driverVars, opVars>>
    BY HurtFacts DEF Hurt
  <1>1. TypeOK'
    BY <1>0 DEF IInv, TypeOK, engineVars, driverVars, opVars
  <1>2. EngineInv' /\ NoLostWakeup'
    BY <1>0 DEF IInv, EngineInv, NoLostWakeup, engineVars, driverVars, opVars
  <1>3. UnsealedInv'
    BY <1>0 DEF IInv, UnsealedInv, engineVars, driverVars
  <1>4. CompleteWasHashed'
    BY <1>0, ConstFacts DEF IInv, CompleteWasHashed, engineVars, driverVars
  <1> QED BY <1>1, <1>2, <1>3, <1>4 DEF IInv

LEMMA Stutter == IInv /\ UNCHANGED vars => IInv'
  BY DEF IInv, TypeOK, EngineInv, UnsealedInv, CompleteWasHashed, NoLostWakeup, vars, engineVars,
         driverVars, opVars, obsVars

LEMMA Inductive == IInv /\ [Next]_vars => IInv'
  <1> SUFFICES ASSUME IInv, [Next]_vars PROVE IInv' OBVIOUS
  <1>1. ASSUME NEW g \in Ops, OpStart(g) \/ OpStep(g) PROVE IInv'
    BY <1>1, StartStep, SeedingStep, FreshDropStep, AddTorrentStep, GetDriverStep,
       VerifyPresentStep, WaitStep, DroppedStep DEF OpStep
  <1>2. ASSUME NEW i \in Torrents, NEW f \in Files, NEW p \in Pieces(f), MarkComplete(i, f, p)
        PROVE  IInv'
    BY <1>2, MarkCompleteStep
  <1>3. ASSUME NEW i \in Torrents, CloseStorage(i) \/ Unlist(i) PROVE IInv'
    BY <1>3, CloseStep, UnlistStep
  <1>4. ASSUME NEW f \in Files, NEW how \in {"none", "bad"}, Hurt(f, how) PROVE IInv'
    BY <1>4, HurtStep
  <1> QED BY <1>1, <1>2, <1>3, <1>4, Stutter DEF Next, Quiet

-----------------------------------------------------------------------------
(* What a step of others leaves of operation h: its locals, perhaps woken. *)
SameOp(h) ==
    /\ kind'[h] = kind[h] /\ tr'[h] = tr[h] /\ drv'[h] = drv[h] /\ left'[h] = left[h]
    /\ then'[h] = then[h] /\ (pc'[h] = pc[h] \/ (pc[h] = "asleep" /\ pc'[h] = "wait"))

(* Every loss since h began is in its record.                              *)
Recorded(h) ==
    pc[h] \notin {"idle", "err"} =>
        /\ hurt[h] \subseteq hurt'[h]
        /\ \A f \in Files : \/ store'[f] = store[f] \/ f \in hurt'[h]
                            \/ store[f] = "none" /\ store'[f] = "good"

(* A driver seals what it stores; a new one starts from what is present.   *)
SealsStored(i) == /\ sealed[i] \subseteq sealed'[i]
                  /\ \A f \in sealed'[i] \ sealed[i] : store'[f] # "none"
StartsFresh(i) == sealed'[i] = {f \in Files : store'[f] # "none"}

LEMMA FreshKept ==
    ASSUME NEW h \in Ops, NEW i, Fresh(i, h), pc[h] \notin {"idle", "err"}, kind'[h] = kind[h],
           Recorded(h), SealsStored(i)
    PROVE  Fresh(i, h)'
  BY DEF Fresh, Kept, Has, Recorded, SealsStored

LEMMA KeptStable ==
    ASSUME NEW h \in Ops, pc[h] \notin {"idle", "err"}, Recorded(h), NEW f \in Files
    PROVE  (Kept(h, f) => Kept(h, f)') /\ (Good(h, f) => Good(h, f)')
  BY DEF Kept, Good, Has, Recorded

LEMMA FreshStart ==
    ASSUME NEW h \in Ops, NEW i, StartsFresh(i),
           kind'[h] = "seed" => \A f \in Multi : Kept(h, f)'
    PROVE  Fresh(i, h)'
  BY ConstFacts DEF Fresh, Kept, Has, StartsFresh

LEMMA OtherOp ==
    ASSUME NEW h \in Ops, OpInv(h), SameOp(h), Recorded(h),
           drv[h] # 0 => SealsStored(drv[h]),
           \A i \in listed' : StartsFresh(i) \/ (i \in listed /\ SealsStored(i)),
           openKey' # 0 => StartsFresh(openKey') \/ (openKey' = openKey /\ SealsStored(openKey))
    PROVE  OpInv(h)'
  <1>0. Multi \subseteq Files
    BY ConstFacts
  <1>1. SeedInv(h)'
    BY <1>0, KeptStable DEF SameOp, OpInv, SeedInv
  <1>2. FillInv(h)'
    BY KeptStable DEF SameOp, OpInv, FillInv
  <1>3. pc[h] \in {"dropold", "add", "driver"} /\ kind'[h] = "seed" => \A f \in Multi : Kept(h, f)'
    BY <1>0, KeptStable DEF SameOp, OpInv, SeedInv
  <1>4. ASSUME pc'[h] = "dropold" PROVE \A i \in listed' : i = tr'[h] \/ Fresh(i, h)'
    BY <1>3, <1>4, FreshKept, FreshStart DEF SameOp, OpInv, WaitInv
  <1>5. ASSUME pc'[h] = "add" PROVE \A i \in listed' : Fresh(i, h)'
    BY <1>3, <1>5, FreshKept, FreshStart DEF SameOp, OpInv, WaitInv
  <1>6. ASSUME pc'[h] = "driver", openKey' # 0 PROVE Fresh(openKey, h)'
    <2>1. ASSUME NEW i, i = openKey' PROVE Fresh(i, h)'
      BY <1>3, <1>6, <2>1, FreshKept, FreshStart DEF SameOp, OpInv, WaitInv
    <2> QED BY <2>1 DEF Fresh
  <1>7. ASSUME pc'[h] \in {"verify", "wait", "asleep"} PROVE drv'[h] # 0 /\ Fresh(drv[h], h)'
    <2>1. pc[h] \in {"verify", "wait", "asleep"} /\ drv'[h] = drv[h] /\ drv[h] # 0
      BY <1>7 DEF SameOp, OpInv, WaitInv
    <2>2. ASSUME NEW i, i = drv[h] PROVE Fresh(i, h)'
      BY <2>1, <2>2, FreshKept DEF SameOp, OpInv, WaitInv
    <2> QED BY <2>1, <2>2 DEF Fresh
  <1>8. WaitInv(h)'
    BY <1>4, <1>5, <1>6, <1>7 DEF WaitInv
  <1> QED BY <1>1, <1>2, <1>8 DEF OpInv

(* A step of g that leaves the engine, the seals and the others alone.     *)
LEMMA OpStepFresh ==
    ASSUME FreshInv, NEW g \in Ops, OpInv(g)', UNCHANGED <<listed, openKey, sealed>>, Improves,
           \A h \in Ops \ {g} : SameOp(h) /\ hurt'[h] = hurt[h]
    PROVE  FreshInv'
  <1>1. ASSUME NEW h \in Ops \ {g} PROVE OpInv(h)'
    <2>1. Recorded(h)
      BY DEF Recorded, Improves
    <2>2. \A i : SealsStored(i)
      BY DEF SealsStored
    <2> QED BY <2>1, <2>2, OtherOp DEF FreshInv
  <1> QED BY <1>1 DEF FreshInv

LEMMA InitFresh == Init => FreshInv
  BY DEF Init, FreshInv, OpInv, WaitInv, SeedInv, FillInv

(* An operation that has failed owes nothing.                              *)
LEMMA FailedOp ==
    ASSUME NEW g \in Ops, pc'[g] = "err" PROVE OpInv(g)'
  BY DEF OpInv, WaitInv, SeedInv, FillInv

LEMMA DroppingOp ==
    ASSUME NEW g \in Ops, pc'[g] = "drop", then'[g] = "err" PROVE OpInv(g)'
  BY DEF OpInv, WaitInv, SeedInv, FillInv

LEMMA StartFresh ==
    ASSUME IInv, FreshInv, NEW g \in Ops, OpStart(g) PROVE FreshInv'
  <1>1. /\ UNCHANGED <<listed, openKey, sealed>>
        /\ \A h \in Ops \ {g} : SameOp(h) /\ hurt'[h] = hurt[h]
    BY DEF OpStart, Fill, ImportBT, SeedArtifactFromCAS, Goto, SameOp, IInv, TypeOK, engineVars,
           driverVars
  <1>2. Improves
    BY PutFacts, ConstFacts DEF OpStart, Fill, ImportBT, SeedArtifactFromCAS, IInv, Improves
  <1>3. OpInv(g)'
    <2>1. CASE pc'[g] = "err"
      BY <2>1, FailedOp
    <2>2. CASE pc'[g] = "snap" /\ kind'[g] # "seed"
      BY <2>2 DEF OpInv, WaitInv, SeedInv, FillInv
    <2>3. CASE pc'[g] = "ok" /\ kind'[g] = "fill" /\ store' = store /\ \A f \in Files : Has(f)
      BY <2>3 DEF OpInv, WaitInv, SeedInv, FillInv, Kept, Has
    <2>4. CASE pc'[g] = "rehash" /\ kind'[g] = "seed" /\ left'[g] = Files \ {Manifest}
      BY <2>4, ConstFacts DEF OpInv, WaitInv, SeedInv, FillInv
    <2> QED BY <2>1, <2>2, <2>3, <2>4
          DEF OpStart, Fill, ImportBT, SeedArtifactFromCAS, Goto, IInv, TypeOK
  <1> QED BY <1>1, <1>2, <1>3, OpStepFresh

LEMMA ReturnOthers ==
    ASSUME IInv, NEW g \in Ops, NEW r \in {"ok", "err"}, Return(g, r), UNCHANGED <<kind, hurt>>
    PROVE  \A h \in Ops \ {g} : SameOp(h) /\ hurt'[h] = hurt[h]
  BY ReturnFacts DEF SameOp

LEMMA SeedingFresh ==
    ASSUME IInv, FreshInv, NEW g \in Ops, SeedRehash(g) \/ SeedRegister(g) PROVE FreshInv'
  <1>0. /\ UNCHANGED <<store, kind, hurt, listed, openKey, sealed>> /\ Improves
        /\ pc[g] = "rehash" /\ OpInv(g)
    BY DEF SeedRehash, SeedRegister, Improves, engineVars, driverVars, obsVars, FreshInv
  <1>1. CASE Return(g, "err")
    BY <1>0, <1>1, ReturnFacts, ReturnOthers, FailedOp, OpStepFresh
  <1>2. ASSUME NEW f \in left[g], Has(f), left' = [left EXCEPT ![g] = @ \ {f}],
               UNCHANGED <<pc, tr, drv, then>>
        PROVE  FreshInv'
    <2>1. \A h \in Ops \ {g} : SameOp(h) /\ hurt'[h] = hurt[h]
      BY <1>0, <1>2 DEF SameOp, IInv, TypeOK
    <2>2. left'[g] = left[g] \ {f}
      BY <1>2 DEF IInv, TypeOK
    <2>3. OpInv(g)'
      BY <1>0, <1>2, <2>2 DEF OpInv, WaitInv, SeedInv, FillInv, Kept, Has
    <2> QED BY <1>0, <2>1, <2>3, OpStepFresh
  <1>3. CASE left[g] = {} /\ Goto(g, "snap") /\ UNCHANGED <<tr, drv, left, then>>
    <2>1. \A h \in Ops \ {g} : SameOp(h) /\ hurt'[h] = hurt[h]
      BY <1>0, <1>3 DEF SameOp, IInv, TypeOK, Goto
    <2>2. pc'[g] = "snap"
      BY <1>3 DEF IInv, TypeOK, Goto
    <2>3. OpInv(g)'
      BY <1>0, <1>3, <2>2 DEF OpInv, WaitInv, SeedInv, FillInv, Kept, Has
    <2> QED BY <1>0, <2>1, <2>3, OpStepFresh
  <1> QED BY <1>1, <1>2, <1>3 DEF SeedRehash, SeedRegister

(* Awaited to its end, the drop leaves no torrent listed that was there    *)
(* when the operation looked.                                              *)
LEMMA FreshDropFresh ==
    ASSUME ~DropGivesUp, IInv, FreshInv, NEW g \in Ops, AddFreshDrop(g) \/ AddFreshDropped(g)
    PROVE  FreshInv'
  <1>0. /\ UNCHANGED <<store, kind, hurt, left, listed, openKey, sealed>> /\ Improves
        /\ \A h \in Ops \ {g} : SameOp(h) /\ hurt'[h] = hurt[h]
        /\ OpInv(g) /\ \A i, j \in listed : i = j
    BY DEF AddFreshDrop, AddFreshDropped, Improves, engineVars, driverVars, obsVars, FreshInv,
           SameOp, Goto, IInv, TypeOK, EngineInv
  <1>1. CASE AddFreshDrop(g)
    <2>0. /\ pc[g] = "snap"
          /\ \/ listed = {} /\ pc'[g] = "add"
             \/ pc'[g] = "dropold" /\ tr'[g] \in listed
      BY <1>1 DEF AddFreshDrop, Goto, IInv, TypeOK
    <2>1. ASSUME listed = {}, pc'[g] = "add" PROVE OpInv(g)'
      BY <1>0, <2>0, <2>1 DEF OpInv, WaitInv, SeedInv, FillInv, Kept, Has
    <2>2. ASSUME pc'[g] = "dropold", tr'[g] \in listed PROVE OpInv(g)'
      BY <1>0, <2>0, <2>2 DEF OpInv, WaitInv, SeedInv, FillInv, Kept, Has
    <2>3. OpInv(g)'
      BY <2>0, <2>1, <2>2
    <2> QED BY <1>0, <2>3, OpStepFresh
  <1>2. CASE AddFreshDropped(g)
    <2>1. tr[g] \notin listed /\ pc[g] = "dropold" /\ pc'[g] = "add"
      BY <1>2 DEF AddFreshDropped, IsClosed, Goto, IInv, TypeOK
    <2>2. \A i \in listed : Fresh(i, g)'
      BY <1>0, <2>1 DEF OpInv, WaitInv, Fresh, Kept, Has
    <2>3. OpInv(g)'
      BY <1>0, <2>1, <2>2 DEF OpInv, WaitInv, SeedInv, FillInv, Kept, Has
    <2> QED BY <1>0, <2>3, OpStepFresh
  <1> QED BY <1>1, <1>2

LEMMA AddTorrentFresh ==
    ASSUME IInv, FreshInv, NEW g \in Ops, AddTorrent(g) PROVE FreshInv'
  <1>0. /\ UNCHANGED <<store, kind, hurt>> /\ Improves /\ OpInv(g) /\ pc[g] = "add"
    BY DEF AddTorrent, Improves, FreshInv
  <1>1. CASE Return(g, "err") /\ UNCHANGED <<engineVars, driverVars, hurtSince>>
    BY <1>0, <1>1, ReturnFacts, ReturnOthers, FailedOp, OpStepFresh DEF engineVars, driverVars
  <1>2. ASSUME NEW i \in listed, tr' = [tr EXCEPT ![g] = i], Goto(g, "driver"),
               UNCHANGED <<engineVars, driverVars, drv, left, then, hurtSince>>
        PROVE  FreshInv'
    <2>1. /\ UNCHANGED <<listed, openKey, sealed>> /\ openKey \in {0, i}
          /\ \A h \in Ops \ {g} : SameOp(h) /\ hurt'[h] = hurt[h]
          /\ pc'[g] = "driver"
      BY <1>0, <1>2 DEF engineVars, driverVars, SameOp, Goto, IInv, TypeOK, EngineInv
    <2>2. openKey # 0 => Fresh(openKey, g)
      BY <1>0, <1>2, <2>1 DEF OpInv, WaitInv
    <2>3. OpInv(g)'
      BY <1>0, <2>1, <2>2 DEF OpInv, WaitInv, SeedInv, FillInv, Fresh, Kept, Has
    <2> QED BY <1>0, <2>1, <2>3, OpStepFresh
  <1>3. ASSUME next \in Torrents, tr' = [tr EXCEPT ![g] = next], listed' = {next},
               NewDriver(next), Goto(g, "driver"), UNCHANGED <<dropping, drv, left, then>>
        PROVE  FreshInv'
    <2>1. /\ openKey' = next /\ StartsFresh(next)
          /\ \A j \in Live \ {next} : j \in Torrents => sealed'[j] = sealed[j]
      BY <1>0, <1>3, NewDriverFacts DEF StartsFresh, Has
    <2>2. ASSUME NEW h \in Ops \ {g} PROVE OpInv(h)'
      <3>1. SameOp(h) /\ Recorded(h) /\ OpInv(h)
        BY <1>0, <1>3 DEF SameOp, Recorded, Goto, IInv, TypeOK, FreshInv
      <3>2. drv[h] # 0 => drv[h] \in Live \ {next} /\ drv[h] \in Torrents
        BY <1>3, ConstFacts DEF Live, IInv, TypeOK, EngineInv, Torrents
      <3>3. drv[h] # 0 => SealsStored(drv[h])
        BY <2>1, <3>2 DEF SealsStored
      <3>4. StartsFresh(openKey')
        BY <2>1 DEF StartsFresh
      <3> QED BY <1>3, <2>1, <3>1, <3>3, <3>4, OtherOp
    <2>3. pc'[g] = "driver"
      BY <1>3 DEF Goto, IInv, TypeOK
    <2>4. kind'[g] = "seed" => \A f \in Multi : Kept(g, f)'
      BY <1>0 DEF OpInv, SeedInv, Kept, Has
    <2>5. Fresh(openKey, g)'
      <3>1. ASSUME NEW i, i = next PROVE Fresh(i, g)'
        BY <2>1, <2>4, <3>1, FreshStart DEF StartsFresh
      <3> QED BY <2>1, <3>1 DEF Fresh
    <2>6. OpInv(g)'
      BY <2>3, <2>4, <2>5 DEF OpInv, WaitInv, SeedInv, FillInv
    <2> QED BY <2>2, <2>6 DEF FreshInv
  <1> QED BY <1>1, <1>2, <1>3 DEF AddTorrent

LEMMA DropOthers ==
    ASSUME IInv, NEW g \in Ops, NEW i, NEW w \in {"seed", "ok", "err"}, DropThen(g, i, w),
           \A h \in Ops \ {g} : left'[h] = left[h], UNCHANGED <<kind, hurt, tr, drv>>
    PROVE  \A h \in Ops \ {g} : SameOp(h) /\ hurt'[h] = hurt[h]
  BY DropFacts DEF SameOp

LEMMA GetDriverFresh ==
    ASSUME IInv, FreshInv, NEW g \in Ops, GetDriver(g) PROVE FreshInv'
  <1>0. /\ UNCHANGED <<store, kind, hurt, listed, openKey, sealed>> /\ Improves
        /\ OpInv(g) /\ pc[g] = "driver"
    BY DEF GetDriver, Improves, FreshInv, driverVars, obsVars
  <1>1. CASE openKey # 0
    <2>1. /\ drv'[g] = openKey /\ left'[g] = Multi /\ pc'[g] = "verify"
          /\ \A h \in Ops \ {g} : SameOp(h) /\ hurt'[h] = hurt[h]
      BY <1>0, <1>1 DEF GetDriver, Goto, SameOp, IInv, TypeOK
    <2>2. Fresh(drv[g], g)'
      BY <1>0, <1>1, <2>1 DEF OpInv, WaitInv, Fresh, Kept, Has
    <2>3. OpInv(g)'
      BY <1>1, <2>1, <2>2 DEF OpInv, WaitInv, SeedInv, FillInv
    <2> QED BY <1>0, <2>1, <2>3, OpStepFresh
  <1>2. CASE Return(g, "err")
    BY <1>0, <1>2, ReturnFacts, ReturnOthers, FailedOp, OpStepFresh
  <1>3. CASE DropThen(g, tr[g], "err") /\ UNCHANGED <<tr, drv, left>>
    BY <1>0, <1>3, DropFacts, DropOthers, DroppingOp, OpStepFresh
  <1> QED BY <1>1, <1>2, <1>3 DEF GetDriver

(* A file VerifyPresent skips was not sealed by a fresh driver: a seeding  *)
(* lost it; a file it checks is good.                                      *)
LEMMA VerifyPresentFresh ==
    ASSUME IInv, FreshInv, NEW g \in Ops, VerifyPresent(g) PROVE FreshInv'
  <1>0. /\ UNCHANGED <<store, kind, hurt, tr, drv, listed, openKey, sealed>> /\ Improves
        /\ OpInv(g) /\ pc[g] = "verify"
    BY DEF VerifyPresent, Improves, FreshInv, obsVars
  <1>1. CASE DropThen(g, tr[g], "err") /\ UNCHANGED left
    BY <1>0, <1>1, DropFacts, DropOthers, DroppingOp, OpStepFresh
  <1>2. ASSUME NEW f \in left[g], f \notin sealed[drv[g]] \/ store[f] = "good",
               left' = [left EXCEPT ![g] = @ \ {f}], UNCHANGED <<pc, then>>
        PROVE  FreshInv'
    <2>1. /\ left'[g] = left[g] \ {f}
          /\ \A h \in Ops \ {g} : SameOp(h) /\ hurt'[h] = hurt[h]
      BY <1>0, <1>2 DEF SameOp, IInv, TypeOK
    <2>2. kind[g] = "seed" => \A e \in Multi : e \in left[g] \ {f} \/ Good(g, e)
      BY <1>0, <1>2 DEF OpInv, WaitInv, SeedInv, Fresh, Good
    <2>3. drv[g] # 0 /\ Fresh(drv[g], g)
      BY <1>0 DEF OpInv, WaitInv
    <2>4. OpInv(g)'
      BY <1>0, <1>2, <2>1, <2>2, <2>3 DEF OpInv, WaitInv, SeedInv, FillInv, Fresh, Kept, Has, Good
    <2> QED BY <1>0, <2>1, <2>4, OpStepFresh
  <1> QED BY <1>1, <1>2 DEF VerifyPresent

LEMMA WaitFresh ==
    ASSUME IInv, FreshInv, NEW g \in Ops, VerifiedPresent(g) \/ WaitSealed(g) PROVE FreshInv'
  <1>0. /\ UNCHANGED <<store, kind, hurt, tr, drv, left, listed, openKey, sealed>> /\ Improves
        /\ OpInv(g)
    BY DEF VerifiedPresent, WaitSealed, Improves, FreshInv, engineVars, driverVars, obsVars
  <1>1. CASE VerifiedPresent(g)
    <2>1. /\ pc[g] = "verify" /\ left[g] = {}
          /\ pc'[g] = IF kind[g] # "seed" THEN "wait" ELSE "announce"
          /\ \A h \in Ops \ {g} : SameOp(h) /\ hurt'[h] = hurt[h]
      BY <1>0, <1>1 DEF VerifiedPresent, Goto, SameOp, IInv, TypeOK
    <2>2. OpInv(g)'
      BY <1>0, <2>1 DEF OpInv, WaitInv, SeedInv, FillInv, Fresh, Kept, Has, Good
    <2> QED BY <1>0, <2>1, <2>2, OpStepFresh
  <1>2. CASE WaitSealed(g)
    <2>0. pc[g] = "wait" /\ kind[g] # "seed" /\ drv[g] # 0 /\ Fresh(drv[g], g)
      BY <1>0, <1>2 DEF WaitSealed, OpInv, WaitInv, SeedInv
    <2>1. CASE DropThen(g, tr[g], "err")
      BY <1>0, <2>1, DropFacts, DropOthers, DroppingOp, OpStepFresh
    <2>2. ASSUME NEW w \in {"seed", "ok"}, sealed[drv[g]] = Files, DropThen(g, tr[g], w)
          PROVE  FreshInv'
      <3>1. pc'[g] = "drop" /\ \A h \in Ops \ {g} : SameOp(h) /\ hurt'[h] = hurt[h]
        BY <1>0, <2>2, DropFacts, DropOthers
      <3>2. \A f \in Files : Kept(g, f)'
        BY <1>0, <2>0, <2>2 DEF Fresh, Kept, Has
      <3>3. OpInv(g)'
        BY <1>0, <2>0, <3>1, <3>2 DEF OpInv, WaitInv, SeedInv, FillInv
      <3> QED BY <1>0, <3>1, <3>3, OpStepFresh
    <2>3. CASE Goto(g, "asleep") /\ UNCHANGED <<dropping, then>>
      <3>1. pc'[g] = "asleep" /\ \A h \in Ops \ {g} : SameOp(h) /\ hurt'[h] = hurt[h]
        BY <1>0, <2>3 DEF Goto, SameOp, IInv, TypeOK
      <3>2. OpInv(g)'
        BY <1>0, <2>0, <3>1 DEF OpInv, WaitInv, SeedInv, FillInv, Fresh, Kept, Has
      <3> QED BY <1>0, <3>1, <3>2, OpStepFresh
    <2> DEFINE d == drv[g]
    <2>4. CASE failed[d] # {}
      BY <1>2, <2>1, <2>4 DEF WaitSealed
    <2>5. CASE failed[d] = {} /\ sealed[d] = Files
      BY <1>2, <2>2, <2>5 DEF WaitSealed
    <2>6. CASE failed[d] = {} /\ sealed[d] # Files /\ d \notin opened
      BY <1>2, <2>1, <2>6 DEF WaitSealed
    <2>7. CASE failed[d] = {} /\ sealed[d] # Files /\ d \in opened
      BY <1>2, <2>3, <2>7 DEF WaitSealed
    <2> QED BY <2>4, <2>5, <2>6, <2>7
  <1> QED BY <1>1, <1>2

LEMMA DroppedFresh ==
    ASSUME IInv, FreshInv, NEW g \in Ops, Dropped(g) \/ Announce(g) PROVE FreshInv'
  <1>0. /\ UNCHANGED <<store, listed, openKey, sealed>> /\ Improves /\ OpInv(g)
    BY DEF Dropped, Announce, Improves, FreshInv, engineVars, driverVars
  <1>1. CASE Dropped(g) /\ then[g] = "seed"
    <2>1. /\ pc'[g] = "rehash" /\ kind'[g] = "seed" /\ left'[g] = Files \ {Manifest}
          /\ \A h \in Ops \ {g} : SameOp(h) /\ hurt'[h] = hurt[h]
      BY <1>1 DEF Dropped, Goto, SameOp, IInv, TypeOK
    <2>2. OpInv(g)'
      BY <2>1, ConstFacts DEF OpInv, WaitInv, SeedInv, FillInv
    <2> QED BY <1>0, <2>1, <2>2, OpStepFresh
  <1>2. ASSUME Return(g, "err"), UNCHANGED <<kind, hurt>> PROVE FreshInv'
    BY <1>0, <1>2, ReturnFacts, ReturnOthers, FailedOp, OpStepFresh
  <1>3. ASSUME Return(g, "ok"), UNCHANGED <<kind, hurt>>,
               pc[g] = "announce" \/ (pc[g] = "drop" /\ then[g] = "ok")
        PROVE  FreshInv'
    <2>1. pc'[g] = "ok" /\ \A h \in Ops \ {g} : SameOp(h) /\ hurt'[h] = hurt[h]
      BY <1>3, ReturnFacts, ReturnOthers
    <2>2. OpInv(g)'
      BY <1>0, <1>3, <2>1 DEF OpInv, WaitInv, SeedInv, FillInv, Kept, Has, Good
    <2> QED BY <1>0, <2>1, <2>2, OpStepFresh
  <1>4. then[g] \in {"seed", "ok", "err"}
    BY DEF IInv, TypeOK
  <1> QED BY <1>1, <1>2, <1>3, <1>4 DEF Dropped, Announce, obsVars

LEMMA EngineFresh ==
    ASSUME IInv, FreshInv, NEW i \in Torrents,
           \/ CloseStorage(i) \/ Unlist(i)
           \/ \E f \in Files : \E p \in Pieces(f) : MarkComplete(i, f, p)
    PROVE  FreshInv'
  <1>1. /\ UNCHANGED <<kind, tr, drv, left, then, hurt>> /\ listed' \subseteq listed
        /\ openKey' \in {0, openKey}
        /\ \A h \in Ops : pc'[h] = pc[h] \/ (pc[h] = "asleep" /\ pc'[h] = "wait")
    BY WokenFacts DEF CloseStorage, Unlist, MarkComplete, engineVars, opVars, obsVars
  <1>2. Improves /\ \A j \in Torrents : SealsStored(j)
    <2>1. CASE CloseStorage(i) \/ Unlist(i)
      BY <2>1 DEF CloseStorage, Unlist, driverVars, Improves, SealsStored
    <2>2. ASSUME NEW f \in Files, NEW p \in Pieces(f), MarkComplete(i, f, p)
          PROVE  Improves /\ \A j \in Torrents : SealsStored(j)
      <3>1. /\ Improves /\ \A j \in Torrents \ {i} : sealed'[j] = sealed[j]
            /\ sealed'[i] = sealed[i] \/ (sealed'[i] = sealed[i] \cup {f} /\ store'[f] # "none")
        BY <2>2, SealFacts
      <3> QED BY <3>1 DEF SealsStored
    <2> QED BY <2>1, <2>2
  <1>3. ASSUME NEW h \in Ops PROVE OpInv(h)'
    <2>1. SameOp(h) /\ Recorded(h) /\ OpInv(h)
      BY <1>1, <1>2 DEF SameOp, Recorded, Improves, FreshInv
    <2>2. drv[h] # 0 => SealsStored(drv[h])
      BY <1>2 DEF IInv, TypeOK
    <2>3. \A j \in listed' : j \in listed /\ SealsStored(j)
      BY <1>1, <1>2 DEF IInv, TypeOK
    <2>4. openKey' # 0 => openKey' = openKey /\ SealsStored(openKey)
      BY <1>1, <1>2 DEF IInv, TypeOK
    <2> QED BY <2>1, <2>2, <2>3, <2>4, OtherOp
  <1> QED BY <1>3 DEF FreshInv

LEMMA HurtFresh ==
    ASSUME IInv, FreshInv, NEW f \in Files, NEW how \in {"none", "bad"}, Hurt(f, how)
    PROVE  FreshInv'
  <1>1. ASSUME NEW h \in Ops PROVE OpInv(h)'
    <2>1. SameOp(h) /\ OpInv(h) /\ UNCHANGED <<listed, openKey, sealed>>
      BY DEF Hurt, SameOp, FreshInv, engineVars, driverVars, opVars
    <2>2. Recorded(h)
      BY HurtFacts DEF Recorded
    <2>3. \A i : SealsStored(i)
      BY <2>1 DEF SealsStored
    <2> QED BY <2>1, <2>2, <2>3, OtherOp
  <1> QED BY <1>1 DEF FreshInv

LEMMA StutterFresh == FreshInv /\ UNCHANGED vars => FreshInv'
  BY DEF FreshInv, OpInv, WaitInv, SeedInv, FillInv, Fresh, Kept, Good, Has, vars, engineVars,
         driverVars, opVars, obsVars

LEMMA FreshInductive ==
    ASSUME ~DropGivesUp, IInv, FreshInv, [Next]_vars PROVE FreshInv'
  <1>1. ASSUME NEW g \in Ops, OpStart(g) \/ OpStep(g) PROVE FreshInv'
    BY <1>1, StartFresh, SeedingFresh, FreshDropFresh, AddTorrentFresh, GetDriverFresh,
       VerifyPresentFresh, WaitFresh, DroppedFresh DEF OpStep
  <1>2. ASSUME NEW i \in Torrents, NEW f \in Files, NEW p \in Pieces(f), MarkComplete(i, f, p)
        PROVE  FreshInv'
    BY <1>2, EngineFresh
  <1>3. ASSUME NEW i \in Torrents, CloseStorage(i) \/ Unlist(i) PROVE FreshInv'
    BY <1>3, EngineFresh
  <1>4. ASSUME NEW f \in Files, NEW how \in {"none", "bad"}, Hurt(f, how) PROVE FreshInv'
    BY <1>4, HurtFresh
  <1> QED BY <1>1, <1>2, <1>3, <1>4, StutterFresh DEF Next, Quiet

-----------------------------------------------------------------------------
(* The inductive invariant holds in every reachable state, also when       *)
(* dropTorrent gives up after its ten seconds.                             *)
THEOREM Invariance == Spec => []IInv
  BY InitIInv, Inductive, PTL DEF Spec

(* The swarm state keeps its types.                                        *)
THEOREM TypeCorrect == Spec => []TypeOK
  <1>1. IInv => TypeOK
    BY DEF IInv
  <1> QED BY <1>1, Invariance, PTL

(* No operation sleeps in WaitSealed on a driver that was closed, has a    *)
(* failed file or has sealed its last one: every such change came with a   *)
(* broadcast (storage.go close, MarkComplete, sealLocked).                 *)
THEOREM NobodySleepsOn == Spec => []NoLostWakeup
  <1>1. IInv => NoLostWakeup
    BY DEF IInv
  <1> QED BY <1>1, Invariance, PTL

(* An open driver offers a multi-piece file as complete only if its blob   *)
(* was hashed through it, or went bad after it opened (newCASTorrent,      *)
(* MarkComplete, VerifyPresent).                                           *)
THEOREM OnlyHashedIsComplete == Spec => []CompleteWasHashed
  <1>1. IInv => CompleteWasHashed
    BY DEF IInv
  <1> QED BY <1>1, Invariance, PTL

(* When dropTorrent waits for the drop to end, a Fill or an ImportBT that  *)
(* reports success, or goes on to seed, has every file of the artifact,    *)
(* whatever the other operations did to the torrent it waited on.          *)
THEOREM SuccessIsComplete ==
    ASSUME ~DropGivesUp PROVE Spec => []FillOkComplete
  <1>1. Init => FreshInv
    BY InitFresh
  <1>2. IInv /\ FreshInv /\ [Next]_vars => FreshInv'
    BY FreshInductive
  <1>3. FreshInv => FillOkComplete
    BY DEF FreshInv, OpInv, FillInv, FillOkComplete, Kept
  <1> QED BY <1>1, <1>2, <1>3, Invariance, PTL DEF Spec

(* Under the same condition an artifact is announced only if every         *)
(* multi-piece file was good during this very seeding.                     *)
THEOREM AnnouncedIsClean ==
    ASSUME ~DropGivesUp PROVE Spec => []SeedOkClean
  <1>1. Init => FreshInv
    BY InitFresh
  <1>2. IInv /\ FreshInv /\ [Next]_vars => FreshInv'
    BY FreshInductive
  <1>3. FreshInv => SeedOkClean
    BY DEF FreshInv, OpInv, SeedInv, SeedOkClean, Good
  <1> QED BY <1>1, <1>2, <1>3, Invariance, PTL DEF Spec

=============================================================================
