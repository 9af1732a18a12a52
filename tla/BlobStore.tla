----------------------------- MODULE BlobStore -----------------------------
(***************************************************************************)
(* The blob half of the content-addressed store (internal/cas/cas.go):     *)
(* concurrent writers run the verifying, atomic write path of Store.Put    *)
(* against one directory tree, a second Store (another process, or a       *)
(* second Open in the daemon) cleans stale parts, the machine crashes and  *)
(* media rot.  One action is one system call of Put.                       *)
(*                                                                         *)
(* The file system is the one POSIX promises: what the running processes   *)
(* see (blob, dirs) may be newer than what a crash leaves (durBlob,        *)
(* durDirs); fsync of a directory makes its own entries durable and        *)
(* nothing else; file data that was not fsynced is torn by a crash; the    *)
(* kernel may write anything back at any time.                             *)
(***************************************************************************)
EXTENDS Naturals, FiniteSets

CONSTANTS
    Writers,    \* goroutines that call Put
    Digests,    \* the digests written to
    Targets,    \* [Writers -> SUBSET Digests]: what each writer may put
    Prefixes,   \* the two-hex-digit directories under blobs/sha256
    PrefixOf,   \* [Digests -> Prefixes]: digest[:2]
    OldDirs,    \* prefix directories that are already there, durably
    Contents,   \* byte streams
    Hash,       \* [Contents -> ...]: SHA-256
    Torn,       \* what a crash leaves of data that was never fsynced
    Parts,      \* names for incoming/<random>.part
    None,       \* no directory entry, no part held, no Put under way
    IOFaults,   \* BOOLEAN: system calls of Put may fail
    MaxCrashes, \* bound on crashes
    MaxRots     \* bound on media faults

File == [data : Contents, synced : BOOLEAN, rot : BOOLEAN]

ASSUME StoreAssumption ==
    /\ Targets \in [Writers -> SUBSET Digests]
    /\ PrefixOf \in [Digests -> Prefixes]
    /\ OldDirs \subseteq Prefixes
    /\ Torn \in Contents
    /\ None \notin File \cup Parts \cup Digests
    /\ IOFaults \in BOOLEAN
    /\ MaxCrashes \in Nat /\ MaxRots \in Nat

VARIABLES
    pc,       \* [Writers -> Steps]: the system call Put makes next
    want,     \* [Writers -> Digests \cup {None}]: expectedDigest
    part,     \* [Writers -> Parts \cup {None}]: the name of the open part
    inode,    \* [Writers -> Entry]: the file behind it, linked or not
    incoming, \* part names present in incoming/
    stale,    \* parts whose mtime is older than stalePartAge
    doomed,   \* parts a cleaner found stale and is about to remove
    blob,     \* [Digests -> File \cup {None}]: blobs/sha256 as processes see it
    durBlob,  \* ... as a crash would leave it
    dirs,     \* prefix directories as processes see them
    durDirs,  \* ... as a crash would leave them
    ret,      \* [Writers -> Results]: what the last Put returned
    acked,    \* digests some Put promoted, fsynced and returned nil for (history)
    crashes, rots

putVars == <<pc, want, part, inode, ret, acked>>
partVars == <<incoming, stale, doomed>>
treeVars == <<blob, durBlob, dirs, durDirs>>
vars == <<putVars, partVars, treeVars, crashes, rots>>

Steps == {"idle", "copy", "sync", "check", "mkdir", "chmod", "rename", "syncdir"}
Results == {"none", "ok", "mismatch", "error"}
Entry == File \cup {None}

Has(d) == blob[d] # None

(* Store.Verify: re-hash and compare, for an entry f under the name d.     *)
Rehash(f, d) == IF f = None THEN "missing"
                ELSE IF Hash[f.data] = d THEN "clean" ELSE "mismatch"
Verify(d) == Rehash(blob[d], d)

(* VerifyAll's walk: every blob in the tree that does not hash to its name. *)
Mismatched == {d \in Digests : Verify(d) = "mismatch"}

Init ==
    /\ pc = [w \in Writers |-> "idle"]
    /\ want = [w \in Writers |-> None]
    /\ part = [w \in Writers |-> None]
    /\ inode = [w \in Writers |-> None]
    /\ incoming = {} /\ stale = {} /\ doomed = {}
    /\ blob = [d \in Digests |-> None] /\ durBlob = blob
    /\ dirs = OldDirs /\ durDirs = OldDirs
    /\ ret = [w \in Writers |-> "none"] /\ acked = {}
    /\ crashes = 0 /\ rots = 0

-----------------------------------------------------------------------------
(* The ways Put returns.                                                   *)

Goto(w, step) == pc' = [pc EXCEPT ![w] = step]

(* Put's frame is gone; r is what its caller sees.                         *)
Leave(w, r) ==
    /\ Goto(w, "idle")
    /\ want' = [want EXCEPT ![w] = None]
    /\ inode' = [inode EXCEPT ![w] = None]
    /\ ret' = [ret EXCEPT ![w] = r]

(* Return r from Put after os.Remove(part.Name()): every return but the    *)
(* two behind the rename removes the part, whether or not it still exists. *)
ReturnRemoving(w, r) ==
    /\ Leave(w, r)
    /\ part' = [part EXCEPT ![w] = None]
    /\ incoming' = incoming \ {part[w]}
    /\ stale' = stale \ {part[w]}
    /\ doomed' = doomed \ {part[w]}
    /\ UNCHANGED <<acked, treeVars, crashes, rots>>

-----------------------------------------------------------------------------
(* Store.Put, one action per system call.                                  *)

(* BlobPath, MkdirAll(incoming), newPart: O_EXCL on a random name, so no   *)
(* other writer holds it.                                                  *)
BeginPut(w, d, p) ==
    /\ pc[w] = "idle"
    /\ d \in Targets[w]
    /\ p \notin incoming \cup doomed \cup {part[v] : v \in Writers}
    /\ Goto(w, "copy")
    /\ want' = [want EXCEPT ![w] = d]
    /\ part' = [part EXCEPT ![w] = p]
    /\ inode' = [inode EXCEPT ![w] = [data |-> Torn, synced |-> FALSE, rot |-> FALSE]]
    /\ incoming' = incoming \cup {p}
    /\ ret' = [ret EXCEPT ![w] = "none"]
    /\ UNCHANGED <<stale, doomed, acked, treeVars, crashes, rots>>

(* io.Copy to the end of r, which delivers c: the bytes are in the page    *)
(* cache, mtime is now.                                                    *)
Copy(w, c) ==
    /\ pc[w] = "copy"
    /\ Goto(w, "sync")
    /\ inode' = [inode EXCEPT ![w].data = c]
    /\ stale' = stale \ {part[w]}
    /\ UNCHANGED <<want, part, ret, acked, incoming, doomed, treeVars, crashes, rots>>

(* Mutant of SyncPart: close without fsync.                                *)
SyncPartSkipped(w) ==
    /\ pc[w] = "sync"
    /\ Goto(w, "check")
    /\ UNCHANGED <<want, part, inode, ret, acked, partVars, treeVars, crashes, rots>>

(* part.Sync and part.Close.                                               *)
SyncPart(w) ==
    /\ pc[w] = "sync"
    /\ Goto(w, "check")
    /\ inode' = [inode EXCEPT ![w].synced = TRUE]
    /\ UNCHANGED <<want, part, ret, acked, partVars, treeVars, crashes, rots>>

(* got != expectedDigest: never promote unverified bytes.                  *)
Mismatch(w) ==
    /\ pc[w] = "check"
    /\ Hash[inode[w].data] # want[w]
    /\ ReturnRemoving(w, "mismatch")

(* os.Stat(target) succeeds: the existing blob wins, nothing is written.   *)
ExistingWins(w) ==
    /\ pc[w] = "check"
    /\ Hash[inode[w].data] = want[w]
    /\ Has(want[w])
    /\ ReturnRemoving(w, "ok")

(* os.Stat(target) fails: go on to promote the part.                       *)
StatAbsent(w) ==
    /\ pc[w] = "check"
    /\ Hash[inode[w].data] = want[w]
    /\ ~Has(want[w])
    /\ Goto(w, "mkdir")
    /\ UNCHANGED <<want, part, inode, ret, acked, partVars, treeVars, crashes, rots>>

(* Mutant of MkPrefixDir: MkdirAll of the target, not of its parent.       *)
MkPrefixDirOfTarget(w) ==
    /\ pc[w] = "mkdir"
    /\ Goto(w, "chmod")
    /\ dirs' = dirs \cup {want[w]}
    /\ UNCHANGED <<want, part, inode, ret, acked, partVars, blob, durBlob, durDirs,
                   crashes, rots>>

(* MkdirAll of the prefix directory; its entry in blobs/sha256 is not fsynced. *)
MkPrefixDir(w) ==
    /\ pc[w] = "mkdir"
    /\ Goto(w, "chmod")
    /\ dirs' = dirs \cup {PrefixOf[want[w]]}
    /\ UNCHANGED <<want, part, inode, ret, acked, partVars, blob, durBlob, durDirs,
                   crashes, rots>>

(* os.Chmod by name: a part the cleaner unlinked is an error.              *)
Chmod(w) ==
    /\ pc[w] = "chmod"
    /\ part[w] \in incoming
    /\ Goto(w, "rename")
    /\ UNCHANGED <<want, part, inode, ret, acked, partVars, treeVars, crashes, rots>>

(* os.Rename onto the target, replacing whatever a concurrent writer put   *)
(* there since the Stat.                                                   *)
Rename(w) ==
    /\ pc[w] = "rename"
    /\ part[w] \in incoming
    /\ Goto(w, "syncdir")
    /\ blob' = [blob EXCEPT ![want[w]] = inode[w]]
    /\ incoming' = incoming \ {part[w]}
    /\ stale' = stale \ {part[w]}
    /\ doomed' = doomed \ {part[w]}
    /\ part' = [part EXCEPT ![w] = None]
    /\ UNCHANGED <<want, inode, ret, acked, durBlob, dirs, durDirs, crashes, rots>>

(* The part vanished under Chmod or Rename: an error, nothing promoted.    *)
PartVanished(w) ==
    /\ pc[w] \in {"chmod", "rename"}
    /\ part[w] \notin incoming
    /\ ReturnRemoving(w, "error")

(* Mutant of SyncDir: nil without the directory fsync.                     *)
SyncDirSkipped(w) ==
    /\ pc[w] = "syncdir"
    /\ Leave(w, "ok")
    /\ acked' = acked \cup {want[w]}
    /\ UNCHANGED <<part, partVars, treeVars, crashes, rots>>

(* syncDir of the prefix directory: its entries are durable; return nil.   *)
SyncDir(w) ==
    /\ pc[w] = "syncdir"
    /\ Leave(w, "ok")
    /\ acked' = acked \cup {want[w]}
    /\ durBlob' = [d \in Digests |->
                     IF PrefixOf[d] = PrefixOf[want[w]] THEN blob[d] ELSE durBlob[d]]
    /\ UNCHANGED <<part, partVars, blob, dirs, durDirs, crashes, rots>>

(* Mutant of PutFails: an error return that forgets os.Remove.             *)
PutFailsLeaking(w) ==
    /\ IOFaults
    /\ pc[w] \in {"copy", "sync", "mkdir", "chmod", "rename"}
    /\ Leave(w, "error")
    /\ part' = [part EXCEPT ![w] = None]
    /\ UNCHANGED <<acked, partVars, treeVars, crashes, rots>>

(* Any step before the rename may fail (a failing reader, a full disk).    *)
PutFails(w) ==
    /\ IOFaults
    /\ pc[w] \in {"copy", "sync", "mkdir", "chmod", "rename"}
    /\ ReturnRemoving(w, "error")

(* Mutant of SyncDirFails: the error of syncDir is swallowed.              *)
SyncDirFailsIgnored(w) ==
    /\ IOFaults
    /\ pc[w] = "syncdir"
    /\ Leave(w, "ok")
    /\ UNCHANGED <<part, acked, partVars, treeVars, crashes, rots>>

(* syncDir fails after the rename: an error, but the blob is there.        *)
SyncDirFails(w) ==
    /\ IOFaults
    /\ pc[w] = "syncdir"
    /\ Leave(w, "error")
    /\ UNCHANGED <<part, acked, partVars, treeVars, crashes, rots>>

Put(w) ==
    \/ \E d \in Digests, p \in Parts : BeginPut(w, d, p)
    \/ \E c \in Contents : Copy(w, c)
    \/ SyncPart(w) \/ Mismatch(w) \/ ExistingWins(w) \/ StatAbsent(w)
    \/ MkPrefixDir(w) \/ Chmod(w) \/ Rename(w) \/ PartVanished(w) \/ SyncDir(w)
    \/ PutFails(w) \/ SyncDirFails(w)

-----------------------------------------------------------------------------
(* cleanStaleParts of any Open on the same root, and the environment.      *)

(* A part nobody wrote to for stalePartAge: a crashed writer's, or one     *)
(* whose reader stalled.                                                   *)
Age(p) ==
    /\ p \in incoming \ stale
    /\ stale' = stale \cup {p}
    /\ UNCHANGED <<putVars, incoming, doomed, treeVars, crashes, rots>>

(* e.Info() says the part is stale ...                                     *)
FindStale(p) ==
    /\ p \in (incoming \cap stale) \ doomed
    /\ doomed' = doomed \cup {p}
    /\ UNCHANGED <<putVars, incoming, stale, treeVars, crashes, rots>>

(* ... and os.Remove unlinks it, whatever its writer did in between.       *)
RemoveStale(p) ==
    /\ p \in doomed
    /\ incoming' = incoming \ {p}
    /\ stale' = stale \ {p}
    /\ doomed' = doomed \ {p}
    /\ UNCHANGED <<putVars, treeVars, crashes, rots>>

(* The kernel writes a directory back unasked.                             *)
Writeback(x) ==
    /\ \/ durDirs' = durDirs \cup ({x} \cap dirs)
          /\ UNCHANGED durBlob
       \/ durBlob' = [d \in Digests |-> IF PrefixOf[d] = x THEN blob[d] ELSE durBlob[d]]
          /\ UNCHANGED durDirs
    /\ UNCHANGED <<putVars, partVars, blob, dirs, crashes, rots>>

(* What a crash leaves of a file an entry survives for.                    *)
Survivor(f) == IF f = None \/ f.synced THEN f
               ELSE [f EXCEPT !.data = Torn]

(* Power loss: every Put dies where it is; entries and directories that no *)
(* fsync covered survive or not, independently.                            *)
Crash ==
    /\ crashes < MaxCrashes
    /\ crashes' = crashes + 1
    /\ \E lost \in SUBSET Digests, gone \in SUBSET (dirs \ durDirs) :
         /\ blob' = [d \in Digests |->
                       IF PrefixOf[d] \in gone THEN None
                       ELSE Survivor(IF d \in lost THEN durBlob[d] ELSE blob[d])]
         /\ dirs' = dirs \ gone
    /\ durBlob' = blob' /\ durDirs' = dirs'
    /\ pc' = [w \in Writers |-> "idle"]
    /\ part' = [w \in Writers |-> None]
    /\ want' = [w \in Writers |-> None]
    /\ inode' = [w \in Writers |-> None]
    /\ ret' = [w \in Writers |-> "none"]
    /\ doomed' = {}
    /\ UNCHANGED <<acked, incoming, stale, rots>>

(* Bit rot or tampering: a blob's bytes change under its name.             *)
Rot(d, c) ==
    /\ rots < MaxRots
    /\ Has(d) /\ Hash[c] # d
    /\ blob' = [blob EXCEPT ![d] = [data |-> c, synced |-> TRUE, rot |-> TRUE]]
    /\ durBlob' = [durBlob EXCEPT ![d] = IF @ = blob[d] THEN blob'[d] ELSE @]
    /\ rots' = rots + 1
    /\ UNCHANGED <<putVars, partVars, dirs, durDirs, crashes>>

Environment ==
    \/ \E p \in Parts : Age(p) \/ FindStale(p) \/ RemoveStale(p)
    \/ \E x \in Prefixes : Writeback(x)
    \/ Crash
    \/ \E d \in Digests, c \in Contents : Rot(d, c)

Next == (\E w \in Writers : Put(w)) \/ Environment

Spec == Init /\ [][Next]_vars

-----------------------------------------------------------------------------
TypeOK ==
    /\ pc \in [Writers -> Steps]
    /\ want \in [Writers -> Digests \cup {None}]
    /\ part \in [Writers -> Parts \cup {None}]
    /\ inode \in [Writers -> Entry]
    /\ incoming \subseteq Parts /\ stale \subseteq incoming /\ doomed \subseteq Parts
    /\ blob \in [Digests -> Entry] /\ durBlob \in [Digests -> Entry]
    /\ dirs \subseteq Prefixes /\ durDirs \subseteq dirs
    /\ ret \in [Writers -> Results]
    /\ acked \subseteq Digests
    /\ crashes \in 0..MaxCrashes /\ rots \in 0..MaxRots

(* "never promote unverified bytes" (cas.go:188): whatever the interleaving *)
(* of writers of one digest, stale-part cleaning and power loss, a re-hash  *)
(* of the tree finds a bad blob only where a medium rotted, never because   *)
(* Put renamed a part that was unverified or not yet fsynced.               *)
BlobsVerified == \A d \in Mismatched : blob[d].rot

(* Every return of Put removes its part (cas.go:171-209): as long as no     *)
(* writer was killed, incoming/ holds only parts of Puts under way.         *)
NoLeakedPart == crashes = 0 => incoming \subseteq {part[w] : w \in Writers}

(* A Put that returns nil leaves a blob that verifies clean under its name  *)
(* (cas.go:153-156), or one that some medium fault spoiled: the caller may  *)
(* publish a reference to it, whichever of two racing writers won.          *)
OkMeansStored ==
    [][\A w \in Writers, d \in Digests :
         want[w] = d /\ ret'[w] = "ok"
           => Verify(d)' = "clean" \/ (Has(d)' /\ blob'[d].rot)]_vars

(* A blob that a Put promoted and reported stored is there for good, also   *)
(* after power loss: "syncing the parent directory makes the completed      *)
(* rename + entry durable across crashes" (cas.go:211-213).                 *)
AckedPresent == \A d \in acked : Has(d)

(* To its callers Put is atomic: the rename is the moment the blob appears, *)
(* the directory fsync the acknowledgement, everything else is invisible,   *)
(* however writers, cleaners, failing calls and crashes interleave.  This   *)
(* is what importer and swarm drivers take Put for (AtomicBlobs).           *)
Rehashed(tree) == [d \in Digests |-> Rehash(tree[d], d)]
Atomic == INSTANCE AtomicBlobs
            WITH doing <- want, storers <- {w \in Writers : pc[w] = "syncdir"},
                 result <- ret, content <- Rehashed(blob), durable <- Rehashed(durBlob)
ImplementsAtomicBlobs == Atomic!Spec
=============================================================================
