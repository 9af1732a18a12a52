------------------------------ MODULE StateMaps ------------------------------
(***************************************************************************)
(* The state files of the store (internal/cas/state.go): namespaces, tags, *)
(* distribution links and source hints, each a JSON map rewritten whole by *)
(* updateMap under the process-wide stateMu through a temporary file.      *)
(* Readers (loadMap) take no lock: they see whatever the last rename left. *)
(* One action is one file-system step of updateMap/atomicWrite.            *)
(***************************************************************************)
EXTENDS Naturals

CONSTANTS
    Clients,    \* goroutines of the daemon that update state
    Maps,       \* the files: namespaces.json, tags.json, ...
    Keys,       \* map keys
    Values,     \* digests / hint documents
    None,       \* key absent, nothing held
    Corrupt,    \* a file that does not parse
    MaxCrashes, \* bound on crashes
    MayRot      \* BOOLEAN: a state file may break under the store

Doc == [Keys -> Values \cup {None}]
File == [doc : Doc \cup {Corrupt}, synced : BOOLEAN]

ASSUME MapsAssumption ==
    /\ MaxCrashes \in Nat /\ MayRot \in BOOLEAN
    /\ None \notin Clients \cup Maps \cup File
    /\ Corrupt \notin Doc

VARIABLES
    stateMu,  \* Clients \cup {None}: the lock's holder
    pc,       \* [Clients -> Steps]
    op,       \* [Clients -> Op \cup {None}]: the update asked for
    tmp,      \* [Clients -> File \cup {None}]: the temporary file
    disk,     \* [Maps -> File]: state/<file> as processes see it
    dur,      \* [Maps -> File]: state/<file> as a crash would leave it
    stable,   \* [Maps -> Doc]: the maps at the last acknowledged update
    crashes,
    rotted    \* the files a media fault or an editor broke

vars == <<stateMu, pc, op, tmp, disk, dur, stable, crashes, rotted>>

Steps == {"idle", "lock", "load", "sync", "rename", "syncdir"}
Op == [file : Maps, key : Keys, val : Values \cup {None}]

Empty == [k \in Keys |-> None]

Init ==
    /\ stateMu = None
    /\ pc = [c \in Clients |-> "idle"]
    /\ op = [c \in Clients |-> None]
    /\ tmp = [c \in Clients |-> None]
    /\ disk = [m \in Maps |-> [doc |-> Empty, synced |-> TRUE]]
    /\ dur = disk
    /\ stable = [m \in Maps |-> Empty]
    /\ crashes = 0 /\ rotted = {}

-----------------------------------------------------------------------------
(* SetNamespace, SetTagAlias, SetDistributionLink, SetHints and their      *)
(* deletions (val None): validate the key, then updateMap.                 *)
Call(c, o) ==
    /\ pc[c] = "idle"
    /\ pc' = [pc EXCEPT ![c] = "lock"]
    /\ op' = [op EXCEPT ![c] = o]
    /\ UNCHANGED <<stateMu, tmp, disk, dur, stable, crashes, rotted>>

(* Mutant of Lock: load-mutate-save without the lock.                      *)
LockIgnored(c) ==
    /\ pc[c] = "lock"
    /\ stateMu' = c
    /\ pc' = [pc EXCEPT ![c] = "load"]
    /\ UNCHANGED <<op, tmp, disk, dur, stable, crashes, rotted>>

Lock(c) ==
    /\ pc[c] = "lock"
    /\ stateMu = None
    /\ stateMu' = c
    /\ pc' = [pc EXCEPT ![c] = "load"]
    /\ UNCHANGED <<op, tmp, disk, dur, stable, crashes, rotted>>

(* Return from updateMap: the deferred os.Remove(tmp) and Unlock.          *)
Return(c) ==
    /\ pc' = [pc EXCEPT ![c] = "idle"]
    /\ op' = [op EXCEPT ![c] = None]
    /\ tmp' = [tmp EXCEPT ![c] = None]
    /\ stateMu' = None

(* loadMap, mutate, json.Marshal, CreateTemp and Write.                    *)
LoadMutate(c) ==
    /\ pc[c] = "load"
    /\ disk[op[c].file].doc # Corrupt
    /\ tmp' = [tmp EXCEPT ![c] =
                 [doc |-> [disk[op[c].file].doc EXCEPT ![op[c].key] = op[c].val],
                  synced |-> FALSE]]
    /\ pc' = [pc EXCEPT ![c] = "sync"]
    /\ UNCHANGED <<stateMu, op, disk, dur, stable, crashes, rotted>>

(* Mutant of LoadCorrupt: the error return keeps the lock.                 *)
LoadCorruptKeepsLock(c) ==
    /\ pc[c] = "load"
    /\ disk[op[c].file].doc = Corrupt
    /\ pc' = [pc EXCEPT ![c] = "idle"]
    /\ op' = [op EXCEPT ![c] = None]
    /\ UNCHANGED <<stateMu, tmp, disk, dur, stable, crashes, rotted>>

(* loadMap's parse error aborts the update: nothing is rebuilt silently.   *)
LoadCorrupt(c) ==
    /\ pc[c] = "load"
    /\ disk[op[c].file].doc = Corrupt
    /\ Return(c)
    /\ UNCHANGED <<disk, dur, stable, crashes, rotted>>

(* Mutant of SyncTemp: close without fsync.                                *)
SyncTempSkipped(c) ==
    /\ pc[c] = "sync"
    /\ pc' = [pc EXCEPT ![c] = "rename"]
    /\ UNCHANGED <<stateMu, op, tmp, disk, dur, stable, crashes, rotted>>

(* tmp.Sync and tmp.Close.                                                 *)
SyncTemp(c) ==
    /\ pc[c] = "sync"
    /\ tmp' = [tmp EXCEPT ![c].synced = TRUE]
    /\ pc' = [pc EXCEPT ![c] = "rename"]
    /\ UNCHANGED <<stateMu, op, disk, dur, stable, crashes, rotted>>

(* Mutant of RenameTemp: the old file is unlinked and the rename forgotten. *)
RenameTempUnlinks(c) ==
    /\ pc[c] = "rename"
    /\ disk' = [disk EXCEPT ![op[c].file] = None]
    /\ pc' = [pc EXCEPT ![c] = "syncdir"]
    /\ UNCHANGED <<stateMu, op, tmp, dur, stable, crashes, rotted>>

(* os.Rename over the state file.                                          *)
RenameTemp(c) ==
    /\ pc[c] = "rename"
    /\ disk' = [disk EXCEPT ![op[c].file] = tmp[c]]
    /\ pc' = [pc EXCEPT ![c] = "syncdir"]
    /\ UNCHANGED <<stateMu, op, tmp, dur, stable, crashes, rotted>>

(* syncDir(state/) and the nil return: every rename so far is durable.     *)
SyncState(c) ==
    /\ pc[c] = "syncdir"
    /\ dur' = disk
    /\ stable' = [m \in Maps |-> disk[m].doc]
    /\ Return(c)
    /\ UNCHANGED <<disk, crashes, rotted>>

(* A failing step returns an error; behind the rename the update is        *)
(* visible all the same.                                                   *)
UpdateFails(c) ==
    /\ pc[c] \in {"load", "sync", "rename", "syncdir"}
    /\ Return(c)
    /\ UNCHANGED <<disk, dur, stable, crashes, rotted>>

updateMap(c) ==
    \/ \E o \in Op : Call(c, o)
    \/ Lock(c) \/ LoadMutate(c) \/ LoadCorrupt(c) \/ SyncTemp(c) \/ RenameTemp(c)
    \/ SyncState(c) \/ UpdateFails(c)

(* Unsynced data does not survive as data.                                 *)
Survivor(f) == IF f.synced THEN f ELSE [f EXCEPT !.doc = Corrupt]

(* Power loss: each rename not covered by a directory fsync survives or    *)
(* not; the daemon restarts with no update under way.                      *)
Crash ==
    /\ crashes < MaxCrashes
    /\ crashes' = crashes + 1
    /\ \E lost \in SUBSET Maps :
         disk' = [m \in Maps |-> Survivor(IF m \in lost THEN dur[m] ELSE disk[m])]
    /\ dur' = disk'
    /\ stable' = [m \in Maps |-> disk'[m].doc]
    /\ stateMu' = None
    /\ pc' = [c \in Clients |-> "idle"]
    /\ op' = [c \in Clients |-> None]
    /\ tmp' = [c \in Clients |-> None]
    /\ UNCHANGED rotted

(* Bit rot, or a hand edit, of one state file.                             *)
Rot(m) ==
    /\ MayRot /\ rotted = {}
    /\ rotted' = {m}
    /\ disk' = [disk EXCEPT ![m] = [doc |-> Corrupt, synced |-> TRUE]]
    /\ dur' = [dur EXCEPT ![m] = [doc |-> Corrupt, synced |-> TRUE]]
    /\ UNCHANGED <<stateMu, pc, op, tmp, stable, crashes>>

Next == (\E c \in Clients : updateMap(c)) \/ Crash \/ (\E m \in Maps : Rot(m))

(* A started update is scheduled; sync.Mutex does not starve a waiter.     *)
Fairness ==
    \A c \in Clients :
        /\ SF_vars(Lock(c))
        /\ WF_vars(LoadMutate(c) \/ LoadCorrupt(c) \/ SyncTemp(c) \/ RenameTemp(c) \/ SyncState(c))

Spec == Init /\ [][Next]_vars
FairSpec == Spec /\ Fairness

-----------------------------------------------------------------------------
TypeOK ==
    /\ stateMu \in Clients \cup {None}
    /\ pc \in [Clients -> Steps]
    /\ op \in [Clients -> Op \cup {None}]
    /\ tmp \in [Clients -> File \cup {None}]
    /\ disk \in [Maps -> File] /\ dur \in [Maps -> File]
    /\ stable \in [Maps -> Doc \cup {Corrupt}]
    /\ crashes \in 0..MaxCrashes
    /\ rotted \subseteq Maps

(* temp + fsync + rename (state.go:185-208): no crash, at any point of an  *)
(* update, leaves a state file that does not parse; loadMap's error path   *)
(* is never the store's own doing.                                         *)
NeverCorrupt == \A m \in Maps \ rotted : disk[m].doc # Corrupt /\ dur[m].doc # Corrupt

(* stateMu makes load-mutate-save atomic (state.go:161-183), renames make  *)
(* it visible at once and syncDir makes the acknowledged part crash-proof: *)
(* concurrent updates never lose each other's keys.  This is module        *)
(* AtomicMaps; a file that was damaged from outside is Corrupt there.      *)
Promised(doc) == [m \in Maps |-> IF m \in rotted THEN Corrupt ELSE doc[m]]
Atomic == INSTANCE AtomicMaps
            WITH cur <- Promised([m \in Maps |-> disk[m].doc]), stable <- Promised(stable)
ImplementsAtomicMaps == Atomic!Spec

(* Every update returns: the lock is released on every path, errors and    *)
(* corrupt files included.                                                 *)
UpdateReturns == \A c \in Clients : pc[c] = "lock" ~> pc[c] = "idle"
=============================================================================
