--------------------------- MODULE StateMapsProofs ---------------------------
(***************************************************************************)
(* Theorems about the state files: they always parse, and they implement   *)
(* AtomicMaps, for every number of goroutines, files and keys.             *)
(***************************************************************************)
EXTENDS StateMaps, TLAPS

(* The steps of an update behind Lock.                                     *)
Inside == {"load", "sync", "rename", "syncdir"}

(* stateMu: a goroutine is inside an update exactly when it holds the lock. *)
MutexInv == \A c \in Clients : pc[c] \in Inside <=> stateMu = c

(* The temporary file holds what the update is about to make visible, and  *)
(* it is on disk before the rename.                                        *)
Frame(c) ==
    /\ pc[c] # "idle" => op[c] \in Op
    /\ pc[c] \in {"sync", "rename"} =>
         /\ tmp[c] \in File /\ tmp[c].doc # Corrupt
         /\ op[c].file \notin rotted =>
              tmp[c].doc = [disk[op[c].file].doc EXCEPT ![op[c].key] = op[c].val]
    /\ pc[c] = "rename" => tmp[c].synced = TRUE

FrameInv == \A c \in Clients : Frame(c)

(* Both copies of a file nobody damaged are whole, and the crash-proof one *)
(* is the acknowledged one.                                                *)
DiskInv ==
    \A m \in Maps :
        /\ disk[m].synced /\ dur[m].synced
        /\ m \notin rotted => /\ disk[m].doc # Corrupt /\ dur[m].doc # Corrupt
                              /\ stable[m] = dur[m].doc

IInv == TypeOK /\ MutexInv /\ FrameInv /\ DiskInv

(* None and Corrupt are none of the things they stand in for.              *)
LEMMA NoneFacts == None \notin Clients /\ None \notin File /\ Corrupt \notin Doc
  BY MapsAssumption

(* Writing one key of a document gives a document.                         *)
LEMMA DocUpdate ==
    ASSUME NEW d \in Doc, NEW k \in Keys, NEW v \in Values \cup {None}
    PROVE  [d EXCEPT ![k] = v] \in Doc
  BY DEF Doc

(* Init: empty maps, synced, nobody inside.                                *)
LEMMA InitIInv == Init => IInv
  <1> SUFFICES ASSUME Init PROVE IInv
    OBVIOUS
  <1>1. Empty \in Doc /\ Empty # Corrupt
    BY NoneFacts DEF Empty, Doc
  <1>2. TypeOK
    BY <1>1, MapsAssumption DEF Init, TypeOK, File, Steps
  <1>3. MutexInv
    BY NoneFacts DEF Init, MutexInv, Inside
  <1>4. FrameInv
    BY DEF Init, FrameInv, Frame
  <1>5. DiskInv
    BY <1>1 DEF Init, DiskInv
  <1> QED BY <1>2, <1>3, <1>4, <1>5 DEF IInv

(* An update before its rename: only the goroutine's own frame changes.    *)
LEMMA PrepareIInv ==
    ASSUME IInv, NEW c \in Clients,
           (\E o \in Op : Call(c, o)) \/ Lock(c) \/ LoadMutate(c) \/ SyncTemp(c)
    PROVE  IInv'
  <1>1. CASE \E o \in Op : Call(c, o)
    <2>1. TypeOK'
      BY <1>1 DEF IInv, TypeOK, Call, Steps
    <2>2. MutexInv'
      BY <1>1 DEF IInv, TypeOK, MutexInv, Call, Inside
    <2>3. FrameInv'
      BY <1>1 DEF IInv, TypeOK, FrameInv, Frame, Call
    <2>4. DiskInv'
      BY <1>1 DEF IInv, DiskInv, Call
    <2> QED BY <2>1, <2>2, <2>3, <2>4 DEF IInv
  <1>2. CASE Lock(c)
    <2>1. TypeOK'
      BY <1>2 DEF IInv, TypeOK, Lock, Steps
    <2>2. MutexInv'
      BY <1>2, NoneFacts DEF IInv, TypeOK, MutexInv, Lock, Inside
    <2>3. FrameInv'
      BY <1>2 DEF IInv, TypeOK, FrameInv, Frame, Lock
    <2>4. DiskInv'
      BY <1>2 DEF IInv, DiskInv, Lock
    <2> QED BY <2>1, <2>2, <2>3, <2>4 DEF IInv
  <1>3. CASE LoadMutate(c)
    <2> DEFINE m == op[c].file
               new == [disk[m].doc EXCEPT ![op[c].key] = op[c].val]
    <2>1. op[c] \in Op
      BY <1>3 DEF IInv, FrameInv, Frame, LoadMutate
    <2>2. m \in Maps /\ op[c].key \in Keys /\ op[c].val \in Values \cup {None}
      BY <2>1 DEF Op
    <2>3. disk[m].doc \in Doc
      BY <1>3, <2>2 DEF IInv, TypeOK, LoadMutate, File
    <2>4. new \in Doc
      BY <2>2, <2>3, DocUpdate
    <2>5. tmp' = [tmp EXCEPT ![c] = [doc |-> new, synced |-> FALSE]]
      BY <1>3 DEF LoadMutate
    <2> HIDE DEF new
    <2>6. TypeOK'
      <3>1. [doc |-> new, synced |-> FALSE] \in File
        BY <2>4 DEF File
      <3>2. tmp' \in [Clients -> File \cup {None}]
        BY <2>5, <3>1 DEF IInv, TypeOK
      <3> QED BY <1>3, <3>2 DEF IInv, TypeOK, LoadMutate, Steps
    <2>7. MutexInv'
      BY <1>3 DEF IInv, TypeOK, MutexInv, LoadMutate, Inside
    <2>8. FrameInv'
      <3>1. tmp'[c] = [doc |-> new, synced |-> FALSE] /\ pc'[c] = "sync"
        BY <1>3, <2>5 DEF IInv, TypeOK, LoadMutate
      <3>2. tmp'[c] \in File /\ tmp'[c].doc = new /\ new # Corrupt
        BY <2>4, <3>1, NoneFacts DEF File
      <3>3. \A d \in Clients \ {c} : pc'[d] = pc[d] /\ tmp'[d] = tmp[d]
        BY <1>3, <2>5 DEF IInv, TypeOK, LoadMutate
      <3> QED BY <1>3, <2>1, <3>1, <3>2, <3>3 DEF IInv, FrameInv, Frame, LoadMutate, new
    <2>9. DiskInv'
      BY <1>3 DEF IInv, DiskInv, LoadMutate
    <2> QED BY <2>6, <2>7, <2>8, <2>9 DEF IInv
  <1>4. CASE SyncTemp(c)
    <2>1. tmp[c] \in File /\ pc[c] = "sync"
      BY <1>4 DEF IInv, FrameInv, Frame, SyncTemp
    <2>2. tmp'[c] \in File /\ tmp'[c].synced /\ tmp'[c].doc = tmp[c].doc /\ pc'[c] = "rename"
      BY <1>4, <2>1 DEF IInv, TypeOK, SyncTemp, File
    <2>3. \A d \in Clients \ {c} : pc'[d] = pc[d] /\ tmp'[d] = tmp[d]
      BY <1>4 DEF IInv, TypeOK, SyncTemp
    <2>4. TypeOK'
      BY <1>4, <2>2 DEF IInv, TypeOK, SyncTemp, Steps
    <2>5. MutexInv'
      BY <1>4 DEF IInv, TypeOK, MutexInv, SyncTemp, Inside
    <2>6. FrameInv'
      <3>1. Frame(c)'
        BY <1>4, <2>1, <2>2 DEF IInv, FrameInv, Frame, SyncTemp
      <3>2. ASSUME NEW d \in Clients \ {c} PROVE Frame(d)'
        BY <1>4, <2>3 DEF IInv, FrameInv, Frame, SyncTemp
      <3> QED BY <3>1, <3>2 DEF FrameInv
    <2>7. DiskInv'
      BY <1>4 DEF IInv, DiskInv, SyncTemp
    <2> QED BY <2>4, <2>5, <2>6, <2>7 DEF IInv
  <1> QED BY <1>1, <1>2, <1>3, <1>4

(* Every return of updateMap unlocks and drops the temporary file.         *)
LEMMA ReturnFrames ==
    ASSUME IInv, NEW c \in Clients, pc[c] \in Inside, Return(c), rotted' = rotted, disk' = disk
    PROVE  /\ stateMu' \in Clients \cup {None} /\ pc' \in [Clients -> Steps]
           /\ op' \in [Clients -> Op \cup {None}] /\ tmp' \in [Clients -> File \cup {None}]
           /\ MutexInv' /\ FrameInv'
  <1> USE DEF IInv, TypeOK, Return
  <1>1. pc'[c] = "idle" /\ \A d \in Clients \ {c} : pc'[d] = pc[d] /\ tmp'[d] = tmp[d] /\ op'[d] = op[d]
    OBVIOUS
  <1>2. MutexInv'
    BY <1>1, NoneFacts DEF MutexInv, Inside
  <1>3. FrameInv'
    BY <1>1 DEF FrameInv, Frame
  <1> QED BY <1>2, <1>3 DEF Steps

(* Error returns touch no file, also behind the rename.                    *)
LEMMA ErrorIInv ==
    ASSUME IInv, NEW c \in Clients, LoadCorrupt(c) \/ UpdateFails(c)
    PROVE  IInv'
  <1>1. pc[c] \in Inside /\ Return(c) /\ UNCHANGED <<disk, dur, stable, crashes, rotted>>
    BY DEF LoadCorrupt, UpdateFails, Inside
  <1>2. TypeOK' /\ MutexInv' /\ FrameInv'
    BY <1>1, ReturnFrames DEF IInv, TypeOK
  <1>3. DiskInv'
    BY <1>1 DEF IInv, DiskInv
  <1> QED BY <1>2, <1>3 DEF IInv

(* os.Rename: the only other goroutine that could mind is not inside.      *)
LEMMA RenameIInv ==
    ASSUME IInv, NEW c \in Clients, RenameTemp(c)
    PROVE  IInv'
  <1> DEFINE m == op[c].file
  <1>1. m \in Maps /\ tmp[c] \in File /\ tmp[c].doc # Corrupt /\ tmp[c].synced
    BY DEF IInv, FrameInv, Frame, RenameTemp, Op
  <1>2. disk'[m] = tmp[c] /\ \A n \in Maps \ {m} : disk'[n] = disk[n]
    BY <1>1 DEF IInv, TypeOK, RenameTemp
  <1>3. pc'[c] = "syncdir" /\ \A d \in Clients \ {c} : pc'[d] = pc[d] /\ pc[d] \notin Inside
    BY DEF IInv, TypeOK, MutexInv, RenameTemp, Inside
  <1>4. TypeOK'
    BY <1>1 DEF IInv, TypeOK, RenameTemp, Steps
  <1>5. MutexInv'
    BY <1>3 DEF IInv, MutexInv, RenameTemp, Inside
  <1>6. FrameInv'
    <2>1. Frame(c)'
      BY <1>3 DEF IInv, FrameInv, Frame, RenameTemp
    <2>2. ASSUME NEW d \in Clients \ {c} PROVE Frame(d)'
      BY <1>3 DEF IInv, FrameInv, Frame, RenameTemp, Inside
    <2> QED BY <2>1, <2>2 DEF FrameInv
  <1>7. DiskInv'
    BY <1>1, <1>2 DEF IInv, DiskInv, RenameTemp
  <1> QED BY <1>4, <1>5, <1>6, <1>7 DEF IInv

(* syncDir: what is visible becomes crash-proof and acknowledged.          *)
LEMMA SyncStateIInv ==
    ASSUME IInv, NEW c \in Clients, SyncState(c)
    PROVE  IInv'
  <1>1. pc[c] \in Inside /\ Return(c) /\ UNCHANGED <<disk, crashes, rotted>>
    BY DEF SyncState, Inside
  <1>2. dur' = disk /\ stable' = [m \in Maps |-> disk[m].doc]
    BY DEF SyncState
  <1>3. stable' \in [Maps -> Doc \cup {Corrupt}]
    BY <1>2 DEF IInv, TypeOK, File
  <1>4. TypeOK' /\ MutexInv' /\ FrameInv'
    BY <1>1, <1>2, <1>3, ReturnFrames DEF IInv, TypeOK
  <1>5. DiskInv'
    BY <1>1, <1>2 DEF IInv, DiskInv
  <1> QED BY <1>4, <1>5 DEF IInv

(* What a crash leaves of each file is the visible or the durable version. *)
LEMMA CrashChoice ==
    ASSUME IInv, Crash
    PROVE  /\ DOMAIN disk' = Maps
           /\ \A m \in Maps : disk'[m] \in {disk[m], dur[m]}
  <1>1. PICK lost \in SUBSET Maps :
          disk' = [m \in Maps |-> Survivor(IF m \in lost THEN dur[m] ELSE disk[m])]
    BY DEF Crash
  <1>2. \A m \in Maps : disk[m].synced /\ dur[m].synced
    BY DEF IInv, DiskInv
  <1> QED BY <1>1, <1>2 DEF Survivor

LEMMA CrashIInv == ASSUME IInv, Crash PROVE IInv'
  <1>1. disk' \in [Maps -> File]
    <2>1. \A m \in Maps : disk'[m] \in File
      BY CrashChoice DEF IInv, TypeOK
    <2>2. disk' = [m \in Maps |-> disk'[m]]
      BY DEF Crash
    <2> QED BY <2>1, <2>2
  <1>2. stable' = [m \in Maps |-> disk'[m].doc] /\ dur' = disk'
    BY DEF Crash
  <1>3. TypeOK'
    BY <1>1, <1>2, MapsAssumption DEF IInv, TypeOK, Crash, Steps, File
  <1>4. MutexInv' /\ FrameInv'
    BY NoneFacts DEF MutexInv, FrameInv, Frame, Crash, Inside
  <1>5. DiskInv'
    BY <1>2, CrashChoice DEF IInv, DiskInv, Crash
  <1> QED BY <1>3, <1>4, <1>5 DEF IInv

(* Damage from outside takes the file out of the promise.                  *)
LEMMA RotIInv == ASSUME IInv, NEW m \in Maps, Rot(m) PROVE IInv'
  <1> DEFINE bad == [doc |-> Corrupt, synced |-> TRUE]
  <1>1. bad \in File
    BY DEF File
  <1>2. TypeOK'
    BY <1>1 DEF IInv, TypeOK, Rot
  <1>3. MutexInv'
    BY DEF IInv, MutexInv, Rot
  <1>4. \A n \in Maps \ {m} : disk'[n] = disk[n] /\ dur'[n] = dur[n]
    BY DEF IInv, TypeOK, Rot
  <1>5. disk'[m] = bad /\ dur'[m] = bad
    BY DEF IInv, TypeOK, Rot
  <1>6. FrameInv'
    <2> SUFFICES ASSUME NEW c \in Clients PROVE Frame(c)'
      BY DEF FrameInv
    <2>1. Frame(c) /\ UNCHANGED <<pc[c], op[c], tmp[c]>> /\ rotted' = {m} /\ rotted = {}
      BY DEF IInv, FrameInv, Rot
    <2>2. CASE pc[c] \in {"sync", "rename"} /\ op[c].file \notin rotted'
      <3>1. op[c].file \in Maps \ {m}
        BY <2>1, <2>2 DEF Frame, Op
      <3> QED BY <1>4, <2>1, <2>2, <3>1 DEF Frame
    <2>3. CASE ~(pc[c] \in {"sync", "rename"} /\ op[c].file \notin rotted')
      BY <2>1, <2>3 DEF Frame
    <2> QED BY <2>2, <2>3
  <1>7. DiskInv'
    BY <1>4, <1>5 DEF IInv, DiskInv, Rot
  <1> QED BY <1>2, <1>3, <1>6, <1>7 DEF IInv

LEMMA NextIInv == IInv /\ [Next]_vars => IInv'
  <1> SUFFICES ASSUME IInv, [Next]_vars PROVE IInv'
    OBVIOUS
  <1>1. ASSUME NEW c \in Clients, updateMap(c) PROVE IInv'
    BY <1>1, PrepareIInv, ErrorIInv, RenameIInv, SyncStateIInv DEF updateMap
  <1>2. CASE Crash
    BY <1>2, CrashIInv
  <1>3. ASSUME NEW m \in Maps, Rot(m) PROVE IInv'
    BY <1>3, RotIInv
  <1>4. CASE UNCHANGED vars
    BY <1>4 DEF vars, IInv, TypeOK, MutexInv, FrameInv, Frame, DiskInv
  <1> QED BY <1>1, <1>2, <1>3, <1>4 DEF Next

LEMMA SpecIInv == Spec => []IInv
  BY InitIInv, NextIInv, PTL DEF Spec

(* The variables of StateMaps keep their types.                            *)
THEOREM TypeCorrect == Spec => []TypeOK
  <1>1. IInv => TypeOK BY DEF IInv
  <1> QED BY <1>1, SpecIInv, PTL

(* temp + fsync + rename (state.go:185-208): no interleaving, failing step *)
(* or crash leaves a state file that loadMap cannot parse.                 *)
THEOREM FilesAlwaysParse == Spec => []NeverCorrupt
  <1>1. IInv => NeverCorrupt BY DEF IInv, DiskInv, NeverCorrupt
  <1> QED BY <1>1, SpecIInv, PTL

-----------------------------------------------------------------------------
(* The refinement mapping, and the step of AtomicMaps each step maps to.   *)
Cur == Promised([m \in Maps |-> disk[m].doc])
Stab == Promised(stable)

(* A step that leaves documents, acknowledgements and damage alone.        *)
LEMMA StutterStep ==
    ASSUME UNCHANGED <<disk, stable, rotted>>
    PROVE  UNCHANGED <<Cur, Stab>>
  BY DEF Cur, Stab, Promised

(* The rename is the update; on a damaged file nothing is promised.        *)
LEMMA RenameUpdates ==
    ASSUME IInv, NEW c \in Clients, RenameTemp(c)
    PROVE  Atomic!Update(op[c].file, op[c].key, op[c].val) \/ UNCHANGED <<Cur, Stab>>
  <1> DEFINE m == op[c].file
  <1>1. m \in Maps /\ op[c].key \in Keys /\ op[c].val \in Values \cup {None}
    BY DEF IInv, FrameInv, Frame, RenameTemp, Op
  <1>2. UNCHANGED <<stable, rotted>>
    BY DEF RenameTemp
  <1>3. disk'[m] = tmp[c] /\ \A n \in Maps \ {m} : disk'[n] = disk[n]
    BY <1>1 DEF IInv, TypeOK, RenameTemp
  <1>4. CASE m \in rotted
    BY <1>2, <1>3, <1>4 DEF Cur, Stab, Promised
  <1>5. CASE m \notin rotted
    <2>1. tmp[c].doc = [disk[m].doc EXCEPT ![op[c].key] = op[c].val]
      BY <1>5 DEF IInv, FrameInv, Frame, RenameTemp
    <2>2. Cur[m] = disk[m].doc /\ Cur[m] # Corrupt
      BY <1>1, <1>5 DEF IInv, DiskInv, Cur, Promised
    <2>3. Cur' = [Cur EXCEPT ![m] = [Cur[m] EXCEPT ![op[c].key] = op[c].val]]
      BY <1>1, <1>2, <1>3, <1>5, <2>1, <2>2 DEF Cur, Promised
    <2>4. Stab' = Stab
      BY <1>2 DEF Stab, Promised
    <2> QED BY <2>2, <2>3, <2>4 DEF Atomic!Update, Cur, Stab
  <1> QED BY <1>4, <1>5

(* The directory fsync and return acknowledge every update so far.         *)
LEMMA SyncAcknowledges ==
    ASSUME NEW c \in Clients, SyncState(c)
    PROVE  Atomic!Acknowledge
  BY DEF SyncState, Return, Atomic!Acknowledge, Promised

(* A crash keeps each file's visible or acknowledged document.             *)
LEMMA CrashKeepsAcknowledged == ASSUME IInv, Crash PROVE Atomic!Crash
  <1>1. IInv' /\ stable' = [m \in Maps |-> disk'[m].doc] /\ rotted' = rotted
    BY CrashIInv DEF Crash
  <1>2. Cur' \in [Maps -> Atomic!Doc \cup {Corrupt}]
    BY <1>1 DEF IInv, TypeOK, File, Doc, Atomic!Doc, Cur, Promised
  <1>3. \A m \in Maps : Cur'[m] \in {Cur[m], Stab[m]}
    BY <1>1, CrashChoice DEF IInv, DiskInv, Cur, Stab, Promised
  <1>4. Stab' = Cur'
    BY <1>1 DEF Cur, Stab, Promised
  <1> QED BY <1>2, <1>3, <1>4 DEF Atomic!Crash, Cur, Stab

(* Damage from outside is the only step that takes a file out.             *)
LEMMA RotDamages == ASSUME IInv, NEW m \in Maps, Rot(m) PROVE Atomic!Damage(m)
  <1>1. rotted = {} /\ rotted' = {m} /\ stable' = stable
    BY DEF Rot
  <1>2. \A n \in Maps \ {m} : disk'[n] = disk[n]
    BY DEF IInv, TypeOK, Rot
  <1>3. Cur' = [Cur EXCEPT ![m] = Corrupt] /\ Stab' = [Stab EXCEPT ![m] = Corrupt]
    BY <1>1, <1>2 DEF Cur, Stab, Promised
  <1> QED BY <1>3 DEF Atomic!Damage, Cur, Stab

(* stateMu, rename and syncDir (state.go:161-208) implement AtomicMaps:    *)
(* concurrent updates of any number of files that share one directory      *)
(* fsync never lose each other's keys, and a crash takes back only what    *)
(* was not acknowledged.                                                   *)
THEOREM AtomicMapsImplemented == Spec => ImplementsAtomicMaps
  <1>1. Init => Atomic!Init
    BY DEF Init, Empty, Promised, Atomic!Init
  <1>2. IInv /\ [Next]_vars => [Atomic!Next]_<<Cur, Stab>>
    <2> SUFFICES ASSUME IInv, [Next]_vars PROVE Atomic!Next \/ UNCHANGED <<Cur, Stab>>
      OBVIOUS
    <2>1. ASSUME NEW c \in Clients, updateMap(c)
          PROVE  Atomic!Next \/ UNCHANGED <<Cur, Stab>>
      <3>1. CASE RenameTemp(c)
        <4>1. op[c].file \in Maps /\ op[c].key \in Keys /\ op[c].val \in Values \cup {None}
          BY <3>1 DEF IInv, FrameInv, Frame, RenameTemp, Op
        <4> QED BY <3>1, <4>1, RenameUpdates DEF Atomic!Next
      <3>2. CASE SyncState(c)
        BY <3>2, SyncAcknowledges DEF Atomic!Next
      <3>3. CASE ~RenameTemp(c) /\ ~SyncState(c)
        <4>1. UNCHANGED <<disk, stable, rotted>>
          BY <2>1, <3>3 DEF updateMap, Call, Lock, LoadMutate, LoadCorrupt, SyncTemp, UpdateFails
        <4> QED BY <4>1, StutterStep
      <3> QED BY <3>1, <3>2, <3>3
    <2>2. CASE Crash
      BY <2>2, CrashKeepsAcknowledged DEF Atomic!Next
    <2>3. ASSUME NEW m \in Maps, Rot(m) PROVE Atomic!Next
      BY <2>3, RotDamages DEF Atomic!Next
    <2>4. CASE UNCHANGED vars
      BY <2>4, StutterStep DEF vars
    <2> QED BY <2>1, <2>2, <2>3, <2>4 DEF Next
  <1> QED BY <1>1, <1>2, SpecIInv, PTL DEF Spec, ImplementsAtomicMaps, Atomic!Spec, Cur, Stab
=============================================================================
