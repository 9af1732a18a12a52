-------------------------- MODULE BlobStoreProofs --------------------------
(***************************************************************************)
(* Proofs about module BlobStore, for every number of writers, digests,    *)
(* prefix directories, crashes and media faults.                           *)
(***************************************************************************)
EXTENDS BlobStore, TLAPS

(* What a writer's frame guarantees at each system call: the part is       *)
(* fsynced before it is checked, and it hashes to the expected digest from *)
(* the Stat on.                                                            *)
Checked == {"mkdir", "chmod", "rename", "syncdir"}

FrameInv ==
    \A w \in Writers :
        /\ pc[w] = "idle" => want[w] = None
        /\ pc[w] # "idle" => want[w] \in Digests /\ inode[w] \in File /\ ret[w] = "none"
        /\ pc[w] \in {"check"} \cup Checked => inode[w].synced
        /\ pc[w] \in Checked => Hash[inode[w].data] = want[w]
        /\ pc[w] = "syncdir" => Has(want[w])
        /\ pc[w] \in {"idle", "syncdir"} => part[w] = None

(* What a directory entry guarantees: its data is on disk and hashes to    *)
(* its name unless the medium rotted.                                      *)
Sound(f, d) == f # None => f.synced /\ (f.rot \/ Hash[f.data] = d)

(* A crash forgets an entry or restores the last durable one, so the       *)
(* durable tree has to be as sound as the visible one.                     *)
TreeInv == \A d \in Digests : Sound(blob[d], d) /\ Sound(durBlob[d], d)

IInv == TypeOK /\ FrameInv /\ TreeInv /\ NoLeakedPart

-----------------------------------------------------------------------------
LEMMA NoneFacts == None \notin File /\ None \notin Parts /\ None \notin Digests
  BY StoreAssumption

(* Initially nothing is stored and no Put is under way.                    *)
LEMMA InitIInv == Init => IInv
  <1> SUFFICES ASSUME Init PROVE IInv OBVIOUS
  <1>1. TypeOK
    BY StoreAssumption DEF Init, TypeOK, Steps, Results, Entry
  <1>2. FrameInv BY DEF Init, FrameInv, Checked
  <1>3. TreeInv /\ NoLeakedPart
    BY DEF Init, TreeInv, Sound, NoLeakedPart
  <1> QED BY <1>1, <1>2, <1>3 DEF IInv

-----------------------------------------------------------------------------
(* Put's steps.  The four returns that remove the part change the writer's *)
(* frame and incoming/ and leave the tree alone.                           *)
LEMMA ReturnRemovingIInv ==
    ASSUME IInv, NEW w \in Writers, NEW r \in Results, pc[w] # "idle", ReturnRemoving(w, r)
    PROVE  IInv'
  <1> USE DEF ReturnRemoving, Leave, Goto, treeVars, IInv
  <1>1. TypeOK'
    BY DEF TypeOK, FrameInv, Steps, Entry
  <1>2. FrameInv'
    BY NoneFacts DEF TypeOK, FrameInv, Checked, Has
  <1>3. TreeInv'
    BY DEF TypeOK, TreeInv, Sound
  <1>4. NoLeakedPart'
    BY DEF TypeOK, NoLeakedPart
  <1> QED BY <1>1, <1>2, <1>3, <1>4

LEMMA BeginPutIInv ==
    ASSUME IInv, NEW w \in Writers, NEW d \in Digests, NEW p \in Parts, BeginPut(w, d, p)
    PROVE  IInv'
  <1> USE DEF BeginPut, Goto, treeVars, IInv
  <1> DEFINE fresh == [data |-> Torn, synced |-> FALSE, rot |-> FALSE]
  <1>0. fresh \in File /\ ~fresh.rot
    BY StoreAssumption DEF File
  <1>1. TypeOK'
    BY <1>0, StoreAssumption DEF TypeOK, Steps, Results, Entry
  <1>2. FrameInv'
    BY <1>0, NoneFacts DEF TypeOK, FrameInv, Checked, Has
  <1>3. TreeInv'
    BY <1>0 DEF TypeOK, TreeInv, Sound
  <1>4. NoLeakedPart'
    BY NoneFacts DEF TypeOK, FrameInv, NoLeakedPart
  <1> QED BY <1>1, <1>2, <1>3, <1>4

LEMMA CopyIInv ==
    ASSUME IInv, NEW w \in Writers, NEW c \in Contents, Copy(w, c)
    PROVE  IInv'
  <1> USE DEF Copy, Goto, treeVars, IInv
  <1>0. inode[w] \in File /\ inode'[w] \in File /\ inode'[w].rot = inode[w].rot
    BY DEF TypeOK, FrameInv, File
  <1>1. TypeOK'
    BY <1>0 DEF TypeOK, Steps, Entry
  <1>2. FrameInv'
    BY <1>0 DEF TypeOK, FrameInv, Checked, Has
  <1>3. TreeInv'
    BY <1>0 DEF TypeOK, TreeInv, Sound
  <1>4. NoLeakedPart'
    BY DEF NoLeakedPart
  <1> QED BY <1>1, <1>2, <1>3, <1>4

LEMMA SyncPartIInv ==
    ASSUME IInv, NEW w \in Writers, SyncPart(w)
    PROVE  IInv'
  <1> USE DEF SyncPart, Goto, partVars, treeVars, IInv
  <1>0. inode'[w] \in File /\ inode'[w].synced /\ inode'[w].rot = inode[w].rot
    BY DEF TypeOK, FrameInv, File
  <1>1. TypeOK'
    BY <1>0 DEF TypeOK, Steps, Entry
  <1>2. FrameInv'
    BY <1>0 DEF TypeOK, FrameInv, Checked, Has
  <1>3. TreeInv'
    BY <1>0 DEF TypeOK, TreeInv, Sound
  <1>4. NoLeakedPart'
    BY DEF NoLeakedPart
  <1> QED BY <1>1, <1>2, <1>3, <1>4

(* Steps that only move on: Stat of an absent target, MkdirAll, Chmod.     *)
LEMMA ForwardIInv ==
    ASSUME IInv, NEW w \in Writers, StatAbsent(w) \/ MkPrefixDir(w) \/ Chmod(w)
    PROVE  IInv'
  <1> USE DEF StatAbsent, MkPrefixDir, Chmod, Goto, partVars, treeVars, IInv
  <1>1. TypeOK'
    BY StoreAssumption DEF TypeOK, FrameInv, Steps
  <1>2. FrameInv'
    BY DEF TypeOK, FrameInv, Checked, Has
  <1>3. TreeInv'
    BY DEF TypeOK, TreeInv, Sound
  <1>4. NoLeakedPart'
    BY DEF NoLeakedPart
  <1> QED BY <1>1, <1>2, <1>3, <1>4

(* The rename publishes an inode that is fsynced and verified.             *)
LEMMA RenameIInv ==
    ASSUME IInv, NEW w \in Writers, Rename(w)
    PROVE  IInv'
  <1> USE DEF Rename, Goto, IInv
  <1>1. TypeOK'
    BY DEF TypeOK, FrameInv, Steps, Entry
  <1>2. FrameInv'
    BY NoneFacts DEF TypeOK, FrameInv, Checked, Has
  <1>3. TreeInv'
    BY DEF TypeOK, FrameInv, Checked, TreeInv, Sound
  <1>4. NoLeakedPart'
    BY DEF TypeOK, NoLeakedPart
  <1> QED BY <1>1, <1>2, <1>3, <1>4

LEMMA SyncDirIInv ==
    ASSUME IInv, NEW w \in Writers, SyncDir(w) \/ SyncDirFails(w)
    PROVE  IInv'
  <1> USE DEF SyncDir, SyncDirFails, Leave, Goto, partVars, treeVars, IInv
  <1>1. TypeOK'
    BY DEF TypeOK, FrameInv, Steps, Results, Entry
  <1>2. FrameInv'
    BY NoneFacts DEF TypeOK, FrameInv, Checked, Has
  <1>3. TreeInv'
    BY DEF TypeOK, TreeInv, Sound
  <1>4. NoLeakedPart'
    BY DEF NoLeakedPart
  <1> QED BY <1>1, <1>2, <1>3, <1>4

-----------------------------------------------------------------------------
(* The cleaner only ever takes names out of incoming/.                     *)
LEMMA CleanerIInv ==
    ASSUME IInv, NEW p \in Parts, Age(p) \/ FindStale(p) \/ RemoveStale(p)
    PROVE  IInv'
  <1> USE DEF Age, FindStale, RemoveStale, putVars, treeVars, IInv
  <1>1. TypeOK'
    BY DEF TypeOK
  <1>2. FrameInv' /\ TreeInv'
    BY DEF TypeOK, FrameInv, Has, TreeInv, Sound
  <1>3. NoLeakedPart'
    BY DEF NoLeakedPart
  <1> QED BY <1>1, <1>2, <1>3

LEMMA WritebackIInv ==
    ASSUME IInv, NEW x \in Prefixes, Writeback(x)
    PROVE  IInv'
  <1> USE DEF Writeback, putVars, partVars, IInv
  <1>1. TypeOK'
    BY DEF TypeOK
  <1>2. FrameInv' /\ NoLeakedPart'
    BY DEF FrameInv, Has, NoLeakedPart
  <1>3. TreeInv'
    BY DEF TypeOK, TreeInv, Sound
  <1> QED BY <1>1, <1>2, <1>3

(* Every entry of either tree is fsynced, so a crash tears none.           *)
LEMMA CrashIInv ==
    ASSUME IInv, Crash
    PROVE  IInv'
  <1> USE DEF IInv
  <1>1. PICK lost \in SUBSET Digests, gone \in SUBSET (dirs \ durDirs) :
          /\ blob' = [d \in Digests |->
                        IF PrefixOf[d] \in gone THEN None
                        ELSE Survivor(IF d \in lost THEN durBlob[d] ELSE blob[d])]
          /\ dirs' = dirs \ gone
    BY DEF Crash
  <1>2. \A d \in Digests : blob'[d] \in {None, blob[d], durBlob[d]}
    BY <1>1 DEF TreeInv, Sound, Survivor
  <1>3. blob' = [d \in Digests |-> blob'[d]]
    BY <1>1
  <1>4. TypeOK'
    <2>1. blob' \in [Digests -> Entry]
      BY <1>2, <1>3 DEF TypeOK, Entry
    <2>2. dirs' \subseteq Prefixes
      BY <1>1 DEF TypeOK
    <2>3. crashes' \in 0..MaxCrashes
      BY StoreAssumption DEF Crash, TypeOK
    <2> QED
      BY <2>1, <2>2, <2>3 DEF Crash, TypeOK, Steps, Results, Entry
  <1>5. FrameInv'
    BY DEF Crash, FrameInv, Checked
  <1>6. TreeInv'
    BY <1>2 DEF Crash, TypeOK, TreeInv, Sound
  <1>7. NoLeakedPart'
    BY StoreAssumption DEF Crash, TypeOK, NoLeakedPart
  <1> QED BY <1>4, <1>5, <1>6, <1>7

LEMMA RotIInv ==
    ASSUME IInv, NEW d \in Digests, NEW c \in Contents, Rot(d, c)
    PROVE  IInv'
  <1> USE DEF Rot, putVars, partVars, IInv
  <1> DEFINE f == [data |-> c, synced |-> TRUE, rot |-> TRUE]
  <1>0. f \in File /\ f.synced /\ f.rot
    BY DEF File
  <1>1. TypeOK'
    BY <1>0, StoreAssumption DEF TypeOK, Entry
  <1>2. FrameInv'
    BY <1>0, NoneFacts DEF TypeOK, FrameInv, Has
  <1>3. TreeInv'
    BY <1>0, StoreAssumption DEF TypeOK, TreeInv, Sound
  <1>4. NoLeakedPart'
    BY DEF NoLeakedPart
  <1> QED BY <1>1, <1>2, <1>3, <1>4

-----------------------------------------------------------------------------
LEMMA NextIInv == IInv /\ [Next]_vars => IInv'
  <1> SUFFICES ASSUME IInv, [Next]_vars PROVE IInv' OBVIOUS
  <1>1. ASSUME NEW w \in Writers, Put(w) PROVE IInv'
    <2>1. ASSUME NEW r \in Results, pc[w] # "idle", ReturnRemoving(w, r) PROVE IInv'
      BY <2>1, ReturnRemovingIInv
    <2>2. CASE Mismatch(w) \/ ExistingWins(w) \/ PartVanished(w) \/ PutFails(w)
      BY <2>2, <2>1 DEF Mismatch, ExistingWins, PartVanished, PutFails, Results
    <2>3. CASE \E d \in Digests, p \in Parts : BeginPut(w, d, p)
      BY <2>3, BeginPutIInv
    <2>4. CASE \E c \in Contents : Copy(w, c)
      BY <2>4, CopyIInv
    <2>5. CASE SyncPart(w)
      BY <2>5, SyncPartIInv
    <2>6. CASE StatAbsent(w) \/ MkPrefixDir(w) \/ Chmod(w)
      BY <2>6, ForwardIInv
    <2>7. CASE Rename(w)
      BY <2>7, RenameIInv
    <2>8. CASE SyncDir(w) \/ SyncDirFails(w)
      BY <2>8, SyncDirIInv
    <2> QED
      BY <1>1, <2>2, <2>3, <2>4, <2>5, <2>6, <2>7, <2>8 DEF Put
  <1>2. CASE Environment
    BY <1>2, CleanerIInv, WritebackIInv, CrashIInv, RotIInv DEF Environment
  <1>3. CASE UNCHANGED vars
    <2> USE <1>3 DEF vars, putVars, partVars, treeVars, IInv
    <2>1. TypeOK' BY DEF TypeOK
    <2>2. FrameInv' BY DEF FrameInv, Has
    <2>3. TreeInv' /\ NoLeakedPart'
      BY DEF TreeInv, Sound, NoLeakedPart
    <2> QED BY <2>1, <2>2, <2>3
  <1> QED BY <1>1, <1>2, <1>3 DEF Next

LEMMA SpecIInv == Spec => []IInv
  BY InitIInv, NextIInv, PTL DEF Spec

-----------------------------------------------------------------------------
(* Every variable keeps its type, for every instance of the store.         *)
THEOREM TypeCorrect == Spec => []TypeOK
  <1>1. IInv => TypeOK BY DEF IInv
  <1> QED BY <1>1, SpecIInv, PTL

(* Put (cas.go:153-218) never promotes unverified or unsynced bytes: a     *)
(* blob that fails re-hashing rotted after it was stored, however many     *)
(* writers, cleaners and crashes interleave.                               *)
THEOREM BlobsAlwaysVerified == Spec => []BlobsVerified
  <1>1. IInv => BlobsVerified
    BY DEF IInv, TreeInv, Sound, BlobsVerified, Mismatched, Verify, Rehash
  <1> QED BY <1>1, SpecIInv, PTL

(* Every return path of Put removes its part (cas.go:171-209): parts leak  *)
(* only through crashes, which is what cleanStaleParts is for.             *)
THEOREM PartsNeverLeak == Spec => []NoLeakedPart
  <1>1. IInv => NoLeakedPart BY DEF IInv
  <1> QED BY <1>1, SpecIInv, PTL

(* A nil return of Put means that the blob is there and verifies clean     *)
(* (cas.go:153-156) unless a medium fault spoiled it, also when another    *)
(* writer won the race and when crashes came before.                       *)
THEOREM PutOkMeansStored == Spec => OkMeansStored
  <1>1. ASSUME IInv, IInv', [Next]_vars, NEW w \in Writers, NEW d \in Digests,
               want[w] = d, ret'[w] = "ok"
        PROVE  Verify(d)' = "clean" \/ (Has(d)' /\ blob'[d].rot)
    <2>1. pc[w] # "idle" /\ ret[w] = "none"
      BY <1>1, NoneFacts DEF IInv, FrameInv
    <2>3. (Put(w) /\ pc[w] # "idle") /\ pc'[w] = "idle"
      <3>1. CASE UNCHANGED vars
        BY <3>1, <1>1, <2>1 DEF vars, putVars
      <3>2. CASE Environment
        BY <3>2, <1>1, <2>1 DEF Environment, Age, FindStale, RemoveStale, Writeback,
             Crash, Rot, putVars
      <3>3. ASSUME NEW v \in Writers, Put(v), v # w PROVE FALSE
        BY <3>3, <1>1, <2>1 DEF IInv, TypeOK, Put, BeginPut, Copy, SyncPart, Mismatch,
             ExistingWins, StatAbsent, MkPrefixDir, Chmod, Rename, PartVanished, SyncDir,
             PutFails, SyncDirFails, ReturnRemoving, Leave
      <3>4. Put(w)
        BY <3>1, <3>2, <3>3, <1>1 DEF Next
      <3> QED
        BY <3>4, <1>1, <2>1 DEF IInv, TypeOK, Put, BeginPut, Copy, SyncPart, Mismatch,
             ExistingWins, StatAbsent, MkPrefixDir, Chmod, Rename, PartVanished, SyncDir,
             PutFails, SyncDirFails, ReturnRemoving, Leave, Goto
    <2>4. ExistingWins(w) \/ SyncDir(w)
      BY <2>3, <1>1, <2>1 DEF IInv, TypeOK, Put, BeginPut, Copy, SyncPart, Mismatch,
           StatAbsent, MkPrefixDir, Chmod, Rename, PartVanished,
           PutFails, SyncDirFails, ReturnRemoving, Leave
    <2>5. Has(d)'
      BY <2>4, <1>1 DEF IInv, FrameInv, ExistingWins, SyncDir, ReturnRemoving, treeVars, Has
    <2> QED
      BY <2>5, <1>1 DEF IInv, TreeInv, Sound, Verify, Rehash, Has
  <1>2. IInv /\ IInv' /\ [Next]_vars =>
          [\A w \in Writers, d \in Digests :
             want[w] = d /\ ret'[w] = "ok"
               => Verify(d)' = "clean" \/ (Has(d)' /\ blob'[d].rot)]_vars
    BY <1>1
  <1> QED BY <1>2, SpecIInv, PTL DEF Spec, OkMeansStored

-----------------------------------------------------------------------------
(* Durability of acknowledged blobs, where the prefix directories are      *)
(* already durable.  An acknowledged digest has an entry in both trees;    *)
(* later renames, failed fsyncs and crashes exchange the entry, none       *)
(* removes it.                                                             *)
DurableInv ==
    /\ durDirs = Prefixes
    /\ \A d \in acked : blob[d] # None /\ durBlob[d] # None

LEMMA SpecDurableInv ==
    ASSUME OldDirs = Prefixes
    PROVE  Spec => []DurableInv
  <1>1. Init => DurableInv
    BY DEF Init, DurableInv
  <1>2. ASSUME IInv, DurableInv, [Next]_vars PROVE DurableInv'
    <2> USE <1>2 DEF IInv
    <2>1. ASSUME NEW w \in Writers, \E d \in Digests, p \in Parts : BeginPut(w, d, p)
          PROVE  DurableInv'
      BY <2>1 DEF BeginPut, treeVars, DurableInv
    <2>2. ASSUME NEW w \in Writers, (\E c \in Contents : Copy(w, c)) \/ SyncPart(w)
          PROVE  DurableInv'
      BY <2>2 DEF Copy, SyncPart, treeVars, DurableInv
    <2>3. ASSUME NEW w \in Writers,
                 Mismatch(w) \/ ExistingWins(w) \/ PartVanished(w) \/ PutFails(w)
          PROVE  DurableInv'
      BY <2>3 DEF Mismatch, ExistingWins, PartVanished, PutFails, ReturnRemoving,
           treeVars, DurableInv
    <2>4. ASSUME NEW w \in Writers, StatAbsent(w) \/ MkPrefixDir(w) \/ Chmod(w)
          PROVE  DurableInv'
      BY <2>4 DEF StatAbsent, MkPrefixDir, Chmod, treeVars, DurableInv
    <2>5. ASSUME NEW w \in Writers, Rename(w)
          PROVE  DurableInv'
      BY <2>5, NoneFacts DEF Rename, TypeOK, FrameInv, DurableInv
    <2>6. ASSUME NEW w \in Writers, SyncDir(w)
          PROVE  DurableInv'
      BY <2>6 DEF SyncDir, TypeOK, FrameInv, Has, DurableInv
    <2>7. ASSUME NEW w \in Writers, SyncDirFails(w)
          PROVE  DurableInv'
      BY <2>7 DEF SyncDirFails, treeVars, DurableInv
    <2>8. ASSUME NEW p \in Parts, Age(p) \/ FindStale(p) \/ RemoveStale(p)
          PROVE  DurableInv'
      BY <2>8 DEF Age, FindStale, RemoveStale, putVars, treeVars, DurableInv
    <2>9. ASSUME NEW x \in Prefixes, Writeback(x)
          PROVE  DurableInv'
      BY <2>9 DEF Writeback, putVars, TypeOK, DurableInv
    <2>10. CASE Crash
      <3>1. PICK lost \in SUBSET Digests, gone \in SUBSET (dirs \ durDirs) :
              /\ blob' = [d \in Digests |->
                            IF PrefixOf[d] \in gone THEN None
                            ELSE Survivor(IF d \in lost THEN durBlob[d] ELSE blob[d])]
              /\ dirs' = dirs \ gone
        BY <2>10 DEF Crash
      <3>2. gone = {}
        BY <3>1 DEF TypeOK, DurableInv
      <3>3. \A d \in Digests : blob'[d] \in {blob[d], durBlob[d]}
        BY <3>1, <3>2 DEF TreeInv, Sound, Survivor
      <3> QED
        BY <2>10, <3>1, <3>2, <3>3 DEF Crash, TypeOK, DurableInv
    <2>11. ASSUME NEW d \in Digests, NEW c \in Contents, Rot(d, c)
           PROVE  DurableInv'
      <3> DEFINE f == [data |-> c, synced |-> TRUE, rot |-> TRUE]
      <3>0. f \in File
        BY DEF File
      <3>1. f # None
        BY <3>0, NoneFacts
      <3>2. \A e \in Digests : /\ blob'[e] = (IF e = d THEN f ELSE blob[e])
                              /\ (durBlob'[e] = None) <=> (durBlob[e] = None)
        BY <2>11, <3>1 DEF Rot, Has, TypeOK
      <3> QED
        BY <2>11, <3>1, <3>2 DEF Rot, Has, putVars, DurableInv
    <2>12. CASE UNCHANGED vars
      BY <2>12 DEF vars, putVars, treeVars, DurableInv
    <2> QED
      BY <2>1, <2>2, <2>3, <2>4, <2>5, <2>6, <2>7, <2>8, <2>9, <2>10, <2>11, <2>12
         DEF Next, Put, Environment
  <1> QED BY <1>1, <1>2, SpecIInv, PTL DEF Spec

(* A blob that a Put promoted and acknowledged survives power loss         *)
(* (cas.go:211-213), whoever else writes the same digest and whatever      *)
(* system calls fail.  The assumption on the prefix directories is         *)
(* necessary: TLC exhibits the loss without it.                            *)
THEOREM AckedSurvivesCrash ==
    ASSUME OldDirs = Prefixes
    PROVE  Spec => []AckedPresent
  <1>1. IInv /\ DurableInv => AckedPresent
    BY DEF IInv, TypeOK, DurableInv, AckedPresent, Has
  <1> QED BY <1>1, SpecIInv, SpecDurableInv, PTL

-----------------------------------------------------------------------------
(* BlobStore implements AtomicBlobs.  What the abstract store sees of a    *)
(* state:                                                                  *)
Storers == {w \in Writers : pc[w] = "syncdir"}
Tree == Rehashed(blob)
DurableTree == Rehashed(durBlob)
Seen == <<<<want, Storers, ret>>, Tree, DurableTree>>

(* A clean entry is no missing one, and nothing else is missing.           *)
LEMMA RehashFacts ==
    /\ \A f, d : Rehash(f, d) \in Atomic!Blob
    /\ \A f, d : (Rehash(f, d) = "missing") <=> (f = None)
  BY DEF Rehash, Atomic!Blob

LEMMA CallStep ==
    ASSUME IInv, NEW w \in Writers, NEW d \in Digests, NEW p \in Parts, BeginPut(w, d, p)
    PROVE  Atomic!Call(w, d)
  <1>1. Storers' = Storers
    BY DEF IInv, TypeOK, BeginPut, Goto, Storers
  <1>2. want[w] = None /\ Tree' = Tree /\ DurableTree' = DurableTree
    BY DEF IInv, FrameInv, BeginPut, treeVars, Tree, DurableTree, Rehashed
  <1> QED BY <1>1, <1>2 DEF BeginPut, Atomic!Call, Storers, Tree, DurableTree

(* Before the rename nothing a Put does is visible.                        *)
LEMMA HiddenStep ==
    ASSUME IInv, NEW w \in Writers,
           \/ \E c \in Contents : Copy(w, c)
           \/ SyncPart(w) \/ StatAbsent(w) \/ MkPrefixDir(w) \/ Chmod(w)
    PROVE  UNCHANGED Seen
  <1>1. Storers' = Storers
    BY DEF IInv, TypeOK, Copy, SyncPart, StatAbsent, MkPrefixDir, Chmod, Goto, Storers
  <1>2. UNCHANGED <<want, ret, blob, durBlob>>
    BY DEF Copy, SyncPart, StatAbsent, MkPrefixDir, Chmod, treeVars
  <1> QED BY <1>1, <1>2 DEF Seen, Tree, DurableTree, Rehashed

(* The rename is the moment the blob appears, with verified bytes.         *)
LEMMA StoreStep ==
    ASSUME IInv, NEW w \in Writers, Rename(w)
    PROVE  Atomic!Store(w)
  <1>1. want[w] \in Digests /\ inode[w] # None /\ Hash[inode[w].data] = want[w]
    BY NoneFacts DEF IInv, FrameInv, Checked, Rename
  <1>2. Storers' = Storers \cup {w} /\ w \notin Storers
    BY DEF IInv, TypeOK, Rename, Goto, Storers
  <1>3. Tree' = [Tree EXCEPT ![want[w]] = "clean"]
    BY <1>1 DEF IInv, TypeOK, Rename, Tree, Rehashed, Rehash
  <1>4. DurableTree' = DurableTree
    BY DEF Rename, DurableTree, Rehashed
  <1> QED
    BY <1>1, <1>2, <1>3, <1>4, NoneFacts DEF Rename, Atomic!Store, Storers, Tree, DurableTree

(* fsync of a prefix directory, asked for or not.                          *)
LEMMA SettleStep ==
    ASSUME NEW x, NEW S \in SUBSET Digests, \A d \in S : PrefixOf[d] = x,
           durBlob' = [d \in Digests |-> IF PrefixOf[d] = x THEN blob[d] ELSE durBlob[d]]
    PROVE  Atomic!Settle(S)
  <1> DEFINE T == {d \in Digests : PrefixOf[d] = x}
  <1>1. T \in SUBSET Digests /\ S \subseteq T
    OBVIOUS
  <1>2. DurableTree' = [d \in Digests |-> IF d \in T THEN Tree[d] ELSE DurableTree[d]]
    BY DEF Tree, DurableTree, Rehashed
  <1> QED BY <1>1, <1>2 DEF Atomic!Settle, Tree, DurableTree

LEMMA NothingSettles ==
    ASSUME UNCHANGED durBlob
    PROVE  Atomic!Settle({})
  <1> DEFINE T == {d \in Digests : FALSE}
  <1>1. DurableTree' = [d \in Digests |-> IF d \in T THEN Tree[d] ELSE DurableTree[d]]
    BY DEF DurableTree, Rehashed
  <1>2. T \in SUBSET Digests
    OBVIOUS
  <1> HIDE DEF T
  <1> QED BY <1>1, <1>2 DEF Atomic!Settle, Tree, DurableTree

(* A return without the rename: an existing blob, bad bytes, an error.     *)
LEMMA ReturnStep ==
    ASSUME IInv, NEW w \in Writers,
           Mismatch(w) \/ ExistingWins(w) \/ PartVanished(w) \/ PutFails(w)
    PROVE  \E r \in {"ok", "mismatch", "error"} : Atomic!PutReturns(w, r)
  <1>1. PICK r \in {"ok", "mismatch", "error"} :
          ReturnRemoving(w, r) /\ (r = "ok" => Has(want[w]))
    BY DEF Mismatch, ExistingWins, PartVanished, PutFails
  <1>2. pc[w] \notin {"idle", "syncdir"}
    BY DEF Mismatch, ExistingWins, PartVanished, PutFails
  <1>3. want[w] # None /\ want[w] \in Digests
    BY <1>2, NoneFacts DEF IInv, FrameInv
  <1>4. Storers' = Storers \ {w} /\ w \notin Storers
    BY <1>1, <1>2 DEF IInv, TypeOK, ReturnRemoving, Leave, Goto, Storers
  <1>5. Tree' = Tree /\ DurableTree' = DurableTree
    BY <1>1 DEF ReturnRemoving, treeVars, Tree, DurableTree, Rehashed
  <1>6. r = "ok" => Tree[want[w]] # "missing"
    BY <1>1, <1>3, RehashFacts DEF Has, Tree, Rehashed
  <1>7. Atomic!Return(w, r)
    BY <1>1, <1>3, <1>4, <1>6 DEF ReturnRemoving, Leave, Atomic!Return, Storers, Tree
  <1>8. Atomic!Settle({})
    BY <1>1, NothingSettles DEF ReturnRemoving, treeVars
  <1> QED BY <1>4, <1>5, <1>7, <1>8 DEF Atomic!PutReturns, Storers, Tree

(* The return behind the rename: an acknowledgement, or an error.          *)
LEMMA AcknowledgeStep ==
    ASSUME IInv, NEW w \in Writers, SyncDir(w) \/ SyncDirFails(w)
    PROVE  \E r \in {"ok", "mismatch", "error"} : Atomic!PutReturns(w, r)
  <1>1. want[w] # None /\ want[w] \in Digests /\ Has(want[w])
    BY NoneFacts DEF IInv, FrameInv, SyncDir, SyncDirFails
  <1>2. Storers' = Storers \ {w}
    BY DEF IInv, TypeOK, SyncDir, SyncDirFails, Leave, Goto, Storers
  <1>3. Tree' = Tree /\ Tree[want[w]] # "missing"
    BY <1>1, RehashFacts DEF SyncDir, SyncDirFails, treeVars, Has, Tree, Rehashed
  <1>4. ASSUME NEW r \in {"ok", "error"}, Leave(w, r) PROVE Atomic!Return(w, r)
    BY <1>1, <1>2, <1>3, <1>4 DEF Leave, Atomic!Return, Storers, Tree
  <1>5. CASE SyncDir(w)
    <2>1. Atomic!Settle({want[w]}) /\ Atomic!Settle({})
      BY <1>1, <1>5, SettleStep DEF SyncDir
    <2>2. Atomic!Return(w, "ok")
      BY <1>4, <1>5 DEF SyncDir
    <2> QED BY <1>3, <2>1, <2>2 DEF Atomic!PutReturns, Tree
  <1>6. CASE SyncDirFails(w)
    <2>1. Atomic!Settle({})
      BY <1>6, NothingSettles DEF SyncDirFails, treeVars
    <2>2. Atomic!Return(w, "error")
      BY <1>4, <1>6 DEF SyncDirFails
    <2> QED BY <1>3, <2>1, <2>2 DEF Atomic!PutReturns, Tree
  <1> QED BY <1>5, <1>6

LEMMA WritebackStep ==
    ASSUME NEW x \in Prefixes, Writeback(x)
    PROVE  Atomic!Next \/ UNCHANGED Seen
  <1>1. UNCHANGED <<want, Storers, ret, Tree>>
    BY DEF Writeback, putVars, Storers, Tree, Rehashed
  <1>2. CASE UNCHANGED durBlob
    BY <1>1, <1>2 DEF Seen, DurableTree, Rehashed
  <1>3. CASE durBlob' = [d \in Digests |-> IF PrefixOf[d] = x THEN blob[d] ELSE durBlob[d]]
    <2>1. Atomic!Settle({})
      BY <1>3, SettleStep
    <2> QED BY <1>1, <2>1 DEF Atomic!Next, Atomic!callVars, Storers, Tree
  <1> QED BY <1>2, <1>3 DEF Writeback

(* Every entry is synced and every prefix directory durable, so a crash    *)
(* leaves of each digest the visible or the durable blob, whole.           *)
LEMMA CrashStep ==
    ASSUME IInv, DurableInv, Crash
    PROVE  Atomic!Crash
  <1>1. PICK lost \in SUBSET Digests, gone \in SUBSET (dirs \ durDirs) :
          blob' = [d \in Digests |->
                     IF PrefixOf[d] \in gone THEN None
                     ELSE Survivor(IF d \in lost THEN durBlob[d] ELSE blob[d])]
    BY DEF Crash
  <1>2. gone = {}
    BY <1>1 DEF IInv, TypeOK, DurableInv
  <1>3. \A d \in Digests : blob'[d] \in {blob[d], durBlob[d]}
    BY <1>1, <1>2 DEF IInv, TreeInv, Sound, Survivor
  <1>4. Tree' \in [Digests -> Atomic!Blob]
    BY RehashFacts DEF Tree, Rehashed
  <1>5. \A d \in Digests : Tree'[d] \in {Tree[d], DurableTree[d]}
    BY <1>3 DEF Tree, DurableTree, Rehashed
  <1>6. DurableTree' = Tree' /\ Storers' = {}
    BY DEF Crash, Tree, DurableTree, Rehashed, Storers
  <1> QED BY <1>4, <1>5, <1>6 DEF Crash, Atomic!Crash, Storers, Tree, DurableTree

LEMMA SpoilStep ==
    ASSUME IInv, NEW d \in Digests, NEW c \in Contents, Rot(d, c)
    PROVE  Atomic!Spoil(d)
  <1> DEFINE f == [data |-> c, synced |-> TRUE, rot |-> TRUE]
  <1>1. f # None /\ Rehash(f, d) = "mismatch"
    <2>1. f \in File /\ f.data = c
      BY DEF File
    <2> QED BY <2>1, NoneFacts DEF Rot, Rehash
  <1>2. blob' = [blob EXCEPT ![d] = f] /\ blob'[d] = f
    BY DEF Rot, IInv, TypeOK
  <1> HIDE DEF f
  <1>3. Tree' = [Tree EXCEPT ![d] = "mismatch"]
    BY <1>1, <1>2 DEF IInv, TypeOK, Tree, Rehashed
  <1>4. DurableTree' \in {DurableTree, [DurableTree EXCEPT ![d] = "mismatch"]}
    <2>1. CASE durBlob[d] = blob[d]
      <3>1. durBlob' = [durBlob EXCEPT ![d] = f]
        BY <1>2, <2>1 DEF Rot, IInv, TypeOK
      <3> QED BY <1>1, <3>1 DEF IInv, TypeOK, DurableTree, Rehashed
    <2>2. CASE durBlob[d] # blob[d]
      <3>1. durBlob' = durBlob
        BY <2>2 DEF Rot, IInv, TypeOK
      <3> QED BY <3>1 DEF DurableTree, Rehashed
    <2> QED BY <2>1, <2>2
  <1>5. Tree[d] # "missing"
    BY RehashFacts DEF Rot, Has, Tree, Rehashed
  <1>6. UNCHANGED <<want, Storers, ret>>
    BY DEF Rot, putVars, Storers
  <1> QED
    BY <1>3, <1>4, <1>5, <1>6 DEF Atomic!Spoil, Atomic!callVars, Storers, Tree, DurableTree

(* To its callers Put is atomic (cas.go:153-218), for any number of        *)
(* writers and digests: every step of every Put, cleaner and crash is one  *)
(* step of AtomicBlobs or none.  Prefix directories are assumed durable,   *)
(* as for AckedSurvivesCrash and for the same reason.                      *)
THEOREM AtomicBlobsImplemented ==
    ASSUME OldDirs = Prefixes
    PROVE  Spec => ImplementsAtomicBlobs
  <1>1. Init => Atomic!Init
    BY DEF Init, Atomic!Init, Rehashed, Rehash
  <1>2. IInv /\ DurableInv /\ [Next]_vars => [Atomic!Next]_Seen
    <2> SUFFICES ASSUME IInv, DurableInv, [Next]_vars PROVE Atomic!Next \/ UNCHANGED Seen
      OBVIOUS
    <2>1. ASSUME NEW w \in Writers, Put(w) PROVE Atomic!Next \/ UNCHANGED Seen
      <3>1. CASE \E d \in Digests, p \in Parts : BeginPut(w, d, p)
        BY <3>1, CallStep DEF Atomic!Next
      <3>2. CASE Rename(w)
        BY <3>2, StoreStep DEF Atomic!Next
      <3>3. CASE Mismatch(w) \/ ExistingWins(w) \/ PartVanished(w) \/ PutFails(w)
        BY <3>3, ReturnStep DEF Atomic!Next
      <3>4. CASE SyncDir(w) \/ SyncDirFails(w)
        BY <3>4, AcknowledgeStep DEF Atomic!Next
      <3>5. CASE \/ \E c \in Contents : Copy(w, c)
                 \/ SyncPart(w) \/ StatAbsent(w) \/ MkPrefixDir(w) \/ Chmod(w)
        BY <3>5, HiddenStep
      <3> QED BY <2>1, <3>1, <3>2, <3>3, <3>4, <3>5 DEF Put
    <2>2. ASSUME NEW p \in Parts, Age(p) \/ FindStale(p) \/ RemoveStale(p)
          PROVE  UNCHANGED Seen
      BY <2>2 DEF Age, FindStale, RemoveStale, putVars, treeVars, Seen, Storers, Tree,
         DurableTree, Rehashed
    <2>3. CASE Crash
      BY <2>3, CrashStep DEF Atomic!Next
    <2>4. ASSUME NEW d \in Digests, NEW c \in Contents, Rot(d, c) PROVE Atomic!Next
      BY <2>4, SpoilStep DEF Atomic!Next
    <2>5. CASE UNCHANGED vars
      BY <2>5 DEF vars, putVars, treeVars, Seen, Storers, Tree, DurableTree, Rehashed
    <2> QED
      BY <2>1, <2>2, <2>3, <2>4, <2>5, WritebackStep DEF Next, Environment
  <1> QED
    BY <1>1, <1>2, SpecIInv, SpecDurableInv, PTL
       DEF Spec, ImplementsAtomicBlobs, Atomic!Spec, Atomic!callVars, Seen, Storers, Tree,
           DurableTree
=============================================================================
