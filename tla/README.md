# A TLA+ model of shardr

shardr stores AI models in a content-addressed store, imports them from
Hugging Face, local directories, catalogs and BitTorrent v2 swarms, and runs
them with llama.cpp. `shardhive` is the daemon (store, importer, swarm, HTTP API
on a Unix socket); `shardr` is the CLI (API client, runner).

The modules here model the parts of it where interleavings, crashes and failing
system calls decide whether the program is right. `PROJECT.json` lists the
components, the runs, the source lines of every definition, the hazards the
properties are aimed at, and the findings.

## 1. Inventory

| Component | State | Operations | What is hard | What makes it correct |
|---|---|---|---|---|
| Blob store, `internal/cas/cas.go` | `blobs/sha256/<xx>/<hex>`, `.part-*` files | `Put`, `Has`, `Open`, `Verify`, `VerifyAll`, cleaning of stale parts at open | writers racing for one digest, cleaner against a slow writer, failing calls, power loss between rename and fsync, rot | a blob hashes to its name; a nil `Put` means stored; an acknowledged blob survives; no part leaks |
| State files, `internal/cas/state.go` | `namespaces.json`, `tags.json`, `distribution.json`, `swarm-hints.json` | setters and deleters through `updateMap`/`atomicWrite`, unlocked readers | read-modify-write of a whole file by concurrent jobs, crash in the middle | one update changes one key at once; a file always parses |
| Importer, `internal/importer/importer.go` | in-process namespace locks; blobs and state files | seal groups, link, merge the index, publish the namespace | concurrent imports into one namespace, one of several groups failing, crash between persistent effects | only complete artifacts become visible; members of others are kept |
| BT import and fill, `internal/swarm/fill.go` | torrents of the client, progress pollers | `Fill`, `ImportBT` | order of persistent effects, poller outliving the call, one operation dropping the torrent of another | as the importer's; no progress after the end; success means complete |
| Swarm storage driver, `internal/swarm/storage.go` | per torrent: parts, piece maps, sealed and failed files; the open driver per infohash | piece reads and writes, completion, sealing, close | completions in any order, replacement of a driver under a waiter, failing seals, blobs lost or rotted behind it | a file enters the CAS only verified; a blob is offered to peers only hashed; no waiter is forgotten |
| Seeding, `internal/swarm/swarm.go` | seeds, verify cache, webseed maps | `SeedArtifact`, `StartupSeed` | the verify cache is stale when a blob rots | disk corruption does not become swarm corruption |
| Foreign driver and catalog pull, `internal/swarm/foreign.go`, `catalog.go` | registration per infohash, drivers whose pieces span files, file priorities | `ImportCatalog` by concurrent jobs | pulls that share torrent, driver, registration and priorities, pieces half sealed, wrong bytes, a lost anchor | a successful pull has what the anchor of its driver pins; a waiting pull can be served |
| Job table, `internal/api/server.go` | `s.jobs`, per-job mutex and flag | the asynchronous endpoints, progress callbacks, `WaitJob` in the client | a tick that was computed before the end and is published after it, restart of the daemon under a waiting client | terminal states stay, progress is monotone, a waiter returns |
| Control socket, `internal/api/server.go` | the socket path | `Listen`, `Close` | two daemons starting at once, leftovers of a crash | one daemon serves the path; user data is never removed |
| Runner lifecycle, `internal/cli/run.go`, `internal/runner` | registry file under `flock`, scratch directories, child processes | `run`, `serve`, `stop` | pid reuse between check and signal, concurrent CLIs, killed CLIs, failing teardown | no foreign process is signalled; no runtime or scratch directory is orphaned |
| Reference resolution, `internal/ref`, `internal/api/server.go` | namespaces and tags of the store | `Parse`, `Resolve`, `resolveLocal`, `ensure`, `open` | a reference is resolved twice while the index moves | a launch serves what its reference means; no silent rebinding |
| Artifact formats, `internal/artifact` | none | manifests, indexes, merkle roots | encodings | pure |
| Classification, sources, `internal/importer` | none | file names, GGUF headers, HTTP, tar | parsing | pure or I/O |
| Runner configuration, `internal/runner/overlay.go`, `userconfig.go` | four layers | `AddSet`, `Merge`, `Argv` | precedence over six tables, keys hidden by a higher layer | the highest layer wins per key; every key is validated |
| Catalog provider, configuration, front ends, llama.cpp pinning | files, flags | parsing, HTTP, download | sequential | I/O |

How they interact: an API handler publishes a job and starts a goroutine; the
goroutine calls the importer, the swarm or the verifier; these write blobs
through the blob store and names through the state files; the poller of a fill
publishes progress through the job table; the client polls the table. The store
has no lock between processes: that only one daemon serves it is what the
control socket is for, and every in-process lock (state files, namespaces,
jobs) relies on it. The CLI reads the daemon's API, links blobs into a scratch
directory and keeps the runtimes it started in its own registry.

## 2. Modules

| Module | Models | Composition |
|---|---|---|
| `BlobStore` | `cas.go` | implements `AtomicBlobs` |
| `AtomicBlobs` | what callers of `Put` rely on | abstract |
| `BlobStoreProofs` | theorems about it | extends `BlobStore` |
| `StateMaps` | `state.go` | implements `AtomicMaps` |
| `AtomicMaps` | what users of the state files rely on | abstract |
| `StateMapsProofs` | theorems about it | extends `StateMaps` |
| `JobTable` | job goroutines, pollers, `WaitJob` | implements `JobLifecycle` |
| `JobLifecycle` | the states a client may see a job take | abstract |
| `ImportPublish` | `importer.Import`, `ImportBT`, index merge | takes `Put` and state updates as the atomic, durable steps that `BlobStore` and `StateMaps` show them to be, except for the nil of a `Put` that found the blob (section 4) |
| `ImportPublishProofs` | theorems about it | extends `ImportPublish` |
| `SocketListen` | `Listen`, `Close`, daemon crashes | |
| `ServerProofs` | theorems about both parts of `server.go` | extends `JobTable` and `SocketListen`, which share no names |
| `ServeLifecycle` | `run`, `serve`, `stop`, registry, signalling | |
| `ServeLifecycleProofs` | theorems about it | extends `ServeLifecycle` |
| `SwarmFill` | `storage.go`, `Fill`, `ImportBT`, seeding | takes `Put` as atomic (`BlobStore`); what it does is the "files" step of `ImportPublish` and the engine call of `JobTable` |
| `SwarmFillProofs` | theorems about it | extends `SwarmFill` |
| `CatalogPull` | `foreign.go`, `ImportCatalog`, `ResolveAnchor` | as `SwarmFill`, with the importer as its last step |
| `CatalogPullProofs` | theorems about it | extends `CatalogPull` |
| `Overlay` | configuration layers as operators | |
| `LaunchPrepare` | resolution chain and `prepare` up to the spawn | extends `Overlay`; a fill is `SwarmFill`, a publication `ImportPublish`, what follows the spawn `ServeLifecycle` |
| `LaunchPrepareProofs` | theorems about it | extends `LaunchPrepare` |

`MC<Module>` extends `<Module>` with the values of its function-valued constants
and its symmetry sets; the `.cfg` files give every constant a value. A
definition whose comment begins "Mutant of X" is X with a plausible bug; no
specification uses it, it exists to show that a property can fail.

### BlobStore

One action is one system call of `Put`: create the part, copy while hashing,
fsync, compare the digest, stat of the target, mkdir of the prefix directory,
chmod, rename, fsync of the directory, return. The tree is kept twice, as processes see it and as a power loss would
leave it; `Crash` lets each unsynced rename survive or not. `Targets` says which
digests a writer may be asked to write; any call may fail when `IOFaults` is
TRUE; `Rot` spoils a stored blob; cleaning removes parts that have gone stale,
also one of a slow writer that is still at work. `acked` collects the digests whose `Put`
renamed the blob, fsynced the directory and returned nil. The early nil of a
`Put` that finds its target present (`cas.go:192-195`) makes no durability claim
and is not in `acked`; `OkMeansStored` speaks about it. `AtomicBlobs` is the same
store as its callers see it: a `Put` is a call, at most one step that stores the
blob, and a return; each digest has a visible and a durable blob, which is missing,
clean or spoiled as a re-hash would say (`Rehash`).

### StateMaps and AtomicMaps

`Call`, `Lock`, `LoadMutate`, `SyncTemp`, `RenameTemp`, `SyncState` are the steps
of `updateMap` under `stateMu`; `UpdateFails` is the error return of any of them,
which leaves a rename that has happened visible. A document is a function of the
keys, a deletion writes `None`. `Rot` is damage from outside. `AtomicMaps` has
one step per update: `cur` is what a reader loads, `stable` what a crash cannot
take back.

### JobTable and JobLifecycle

A job is published by its handler, moved to fetching and to its terminal state
by its goroutine; `TickCall` reads the engine's count, `TickLock` takes the
job's mutex and `TickPublish` publishes unless the terminal flag is set. The
poller may be between any two of these when the engine returns. `Restart` loses
the table and all goroutines; `WaitPoll` is one poll of `WaitJob`, which gives up
when the job is unknown. `Files` stands for totals of different origin: the files
of the manifest in `handleEnsure` (`server.go:630-631`) and in the terminal
publication of a fill, one more (the manifest itself, in `FileSpecs`) in its
ticks, the files of the anchor and the wanted ones in a catalog pull. So the
step from the last tick to the terminal count is not what `ProgressMonotone` is
about; it compares ticks, and a fill's first tick with the count it started
from, which the extra file can only raise.

### ImportPublish

An import takes its groups one by one and stores, in the code's order, content,
manifest, piece layers, distribution record and link; a BT import stores the
pinned manifest first, then the files through the swarm, then layers, record,
link and hints. Then it takes the namespace lock, reads the current index,
merges its members (`UpsertMember`: one per quant, same manifest replaces),
stores the merged index and points the namespace to it. Every step may fail;
the daemon may crash between any two; an index blob may be deleted, and is back
when a later import stores the same index again. A rotted one would stay rotted,
since an existing blob wins in `Put`; that is not modelled here.

### SocketListen

`Listen` call by call: dial, lstat, remove, bind, listen, chmod. `Close` and the
failing chmod close the listener, which in Go unlinks the path by name. A crash
leaves the socket file. `overlap` records whether two daemons were ever inside
`Listen` together.

### ServeLifecycle

A CLI's frame says where `run`, `serve` or `stop` is: preparing the scratch
directory, spawning, waiting for readiness, deriving the start token,
registering under `flock`; finding an instance, checking its identity, opening a
process handle, checking again, SIGTERM, grace, a third check, SIGKILL, scratch
removal, unregistering. The endpoint probe may time out on a healthy runtime; that
it succeeds is taken to mean that the launch of the entry is ready. The code
accepts any server that answers on the recorded port with the recorded
reference (`run.go:177-178`): a port that passed to another runtime of the same
reference, together with a pid recycled before the start token was read, is
left out. Processes die and pids are reused at any time; a killed
CLI runs no deferred cleanup. The model is for Linux with the Go toolchain
`go.mod` asks for, where `os.FindProcess` opens a pidfd.

### SwarmFill

One artifact, one infohash. The engine numbers its torrents; a torrent and the
driver `OpenTorrent` built for it share a number, and `openKey` is the entry of
`CASStorage.open`, which the last open takes and any close deletes. An operation
is a goroutine in `Fill`, in phase 2 of `ImportBT` or in `SeedArtifact`: it drops
the live torrent (`AddFreshDrop`), waits for the drop, adds its own, takes the
driver by key, has the engine check present multi-piece files
(`VerifyPresent`), and sleeps on the driver's condition until all files are
sealed, one failed or the driver closed (`WaitSealed`). A fill that succeeded
drops its torrent and seeds. `MarkComplete` (with the `WriteAt` before it) and
`CloseStorage` are what the engine calls on an open driver, at any time.
`MarkNotComplete` is modelled for sealed files, which `VerifyPresent` has hashed
(`PiecesChecked`); of an unsealed file the engine hashes only pieces it does not
count as complete, for which the retraction (`storage.go:510-513`) finds no bit
to clear. A
closed driver nobody refers to is forgotten (`Field`). `Hurt` deletes or rots
a blob; `verified` is the verify cache. `DropGivesUp` says whether the ten
seconds of `dropTorrent` can run out.

### CatalogPull

One v1 torrent. A file is the set of pieces it overlaps and its place in the
stream; a piece may span several files. `OpenTorrent` seals empty files and CAS
hits without marking a piece; `OpenFails` is its refusals (`OpenRefused`: a file
outside a live anchor, a size that is not the anchor's, an empty file pinned as
another) and a failing `Put` of the empty blob. `Written` is `writeAtLocked`,
which drops the bytes of sealed files; `MarkComplete` sets the bits of every file
a piece spans and seals, in stream order, those that became full, stopping at the
first that fails; `Mismatch` is the anchor gate. A pull registers its anchor (live,
or the catalog's once Hugging Face has lost the repository), joins or adds the
torrent, waits for the info dict, checks CAS hits piece by piece, sets the
priorities of all files, waits for its wanted ones, verifies every piece of a
sealed file and imports. On success the torrent stays and seeds, on failure it is
dropped, also under another pull.

`Worlds` are the torrents considered, by how they differ from the anchors: files
no anchor mentions (`outside`), files of another size (`resized`), files whose
bytes are not what their anchor pins (`wrong`) and the pieces in which they
differ (`differ`). A blob is in the store under a name, and for a file with a
sha256 pin the name is that pin: its good blob has the anchor's bytes, which the
torrent's may differ from (`Differs`). An earlier process may have left such a
blob (`Earlier`). So a sealed file is either the torrent's or the anchor's, and a
piece passes its hash only where both agree. A rotted blob fails every piece of
its file. A `Put` that fails after it stored the blob, at its last fsync, is left
out of the seals.

### Overlay and LaunchPrepare

A layer is a function from keys to values with a kind. `ValidLayers` and
`Merged` are the two halves of `Merge`, `Argv` the flags with their values.
`LaunchPrepare` follows `prepare`: complete the reference, `POST /v1/ensure`
(resolve, look for missing files, fill), `GET /v1/open` (resolve again, list what
is missing), read the advisory configuration, merge, pick weights and
projector, spawn. An index is a function from quants to manifests, a reference a
record of quant, tag and pin; `resolveLocal` yields a manifest or an error
class. Publications, tag changes and losses come between any two steps.

## 3. Runs

| Run | Bounds | Shows |
|---|---|---|
| `blob_store` | 2 writers sharing a digest, one of them with a second one in the same directory, 2 parts, failing calls, 1 crash, 1 rot | `BlobsVerified`, `NoLeakedPart`, `AckedPresent`, refinement of `AtomicBlobs` |
| `state_maps` | 2 goroutines, 1 file of 2 keys, 2 crashes, 1 damage | `NeverCorrupt`, refinement of `AtomicMaps`, `UpdateReturns` |
| `job_table` | 1 job of 4 files, every kind, 1 restart | `TerminalStable`, `ProgressMonotone`, refinement of `JobLifecycle`, `WaiterReturns` |
| `import_publish` | 3 imports by 2 goroutines, 1 namespace, 3 artifacts over 2 quants with a shared file, 1 lost index, crashes | `LinkedComplete`, `PublishedComplete`, `IndexStored`, `ReportedPublished`, `MembersKept` |
| `serve_lifecycle` | 2 CLIs, 2 ids, 2 launches, 1 foreign process, 2 pids, 1 killed CLI, one stop at a time | `StopHitsOnlyRuntimes`, `RunningKeepsScratch`, `RuntimeOwned`, `ScratchOwned` |
| `socket_listen` | 3 daemons | `ServerReachable`, `UserDataKept`, `CrashNeverBlocks` |
| `swarm_fill` | 2 operations, 2 one-piece files (one the manifest), 1 file of 2 pieces, 3 torrents, 1 lost or rotted blob, drops that finish | `FillOkComplete`, `SeedOkClean`, `CompleteWasHashed`, `NoLostWakeup` |
| `catalog_pull` | 2 pulls, 4 files (one empty, one without LFS pin) over 2 pieces, 5 torrents considered (honest, with a wrong file of each sort, with a file outside the anchor and one of another size), 1 file an earlier process may have stored, 2 torrent instances, 1 lost or rotted blob | `PullOkClean`, `SleeperServable` |
| `launch_prepare` | 1 launch, 4 manifests under 3 quants, 6 references, 5 configurations, 3 publications, 1 tag, 1 lost blob | `LaunchServesRef`, `LaunchConfigured`, `RebindExplicit` |
| `blob_newdir`, `socket_overlap`, `catalog_repull` | see the findings | a violation each |

Why the bounds are enough to meet the cases: two writers are what a race for a
digest takes, and a second digest in the directory gives the directory fsync
something else to cover. Two goroutines and two keys are what a lost update
takes, and a second crash catches what the first one left half durable. Jobs share
nothing but the restart, so one job is checked; four files let a tick be
computed, overtaken and published late. Three imports give two that race and one
that comes after a crash, and a1 and a3 have the same quant, so replacement and
merging both happen. Two pids for three processes force reuse. Two operations and three torrents let
one operation drop the torrent another waits on and leave one more to seed
with; a second one-piece file is needed because the manifest of a fill is
always there at its start. In `catalog_pull` both pieces span two files, so a
piece is half sealed, half wanted or half wrong; two pulls are what sharing
takes, two torrents what a join after a drop takes. A launch shares nothing
with another before the spawn, so one is checked; q4 is a prefix of both other
quants, so three publications make a prefix resolve, turn ambiguous and be
shadowed by an exact member. The bounds of the proved modules are lifted by the theorems.

Deadlock is checked in `swarm_fill` and `launch_prepare`, whose only
legitimate end is that every operation returned (`Quiet`); that no
operation sleeps for nothing is `NoLostWakeup`. It is not checked elsewhere: those systems
may stop (all writers idle with the crash bound used up, all jobs ended; in
`catalog_pull` a starved pull waits, see below).

### Fairness

- `JobTable`: goroutines and pollers that can run do run (the Go scheduler), the
  client keeps polling, and engines return (`EngineEnds`). The last is an
  assumption, not something the code guarantees: a fill without peers waits
  until its context ends. `WaiterReturns` says that nothing but the engine keeps
  a client waiting, a poller holding the job's mutex for example.
- `StateMaps`: weak fairness for the steps of an update in progress, strong
  fairness for taking `stateMu`, since `sync.Mutex` hands the lock to a waiter
  that has starved for a millisecond.

The other modules claim safety only.

## 4. Findings

- `blob_newdir`: `Put` creates a prefix directory and fsyncs it, but never the
  directory that names it; a crash can take the first blob of a prefix after its
  acknowledgement. `AckedPresent` holds, and is proved, when the prefix
  directories are already durable (`OldDirs = Prefixes`).
- `socket_overlap`: of two daemons starting together, one dials between the
  other's bind and listen, takes the socket for an orphan and removes it by name
  when the other already listens on it. `ServerReachable` and `CrashNeverBlocks` are stated for
  histories without overlapping starts; `UserDataKept` needs no such condition.
- `catalog_repull`: a pull of one quant fails as "corrupt or anchor mismatch"
  with nothing corrupt and nothing wrong. `VerifySealed` checks every piece of
  every sealed file. A CAS hit that is not wanted shares a piece with another
  unwanted file; both have priority None, the piece is never asked for, and once
  the wanted file is sealed the check of that piece fails the pull.

Seen while modelling, and not given a run of their own:

- A re-import does not replace a rotted blob: an existing target ends `Put` with
  nil unread (`cas.go:192-195`), while docs/operations/troubleshooting.md:117-119
  says corrupt blobs are re-fetched. `AtomicBlobs` and `OkMeansStored` promise no more.
- A `Put` that finds the blob of a writer which has renamed but not yet fsynced the
  directory returns nil (`cas.go:192-195`) before the blob is durable; a crash can
  take it after the finder's caller published a reference. `AtomicBlobs` promises
  durability to the `Put` that stored the blob only.
- Two overlapping stops of one id with a new serve between them: `Remove(id)`
  (`registry.go:131`) lets the second unregister the new instance.
  `serve_lifecycle` has one stop at a time; with `MaxStops = 2` TLC finds
  `RuntimeOwned` violated.
- With `DropGivesUp = TRUE` TLC finds `FillOkComplete` and `SeedOkClean`
  violated: the re-add returns the torrent that is still closing, whose driver
  remembers a blob that has since been lost, or never saw one that has since
  been stored and rotted. The comment at `fill.go:520` relies on "the re-add
  dedupe".
- A second catalog pull sets the priority of files it does not want to None; a
  first pull that waits for them waits until it is cancelled: its piece
  is outstanding, as `SleeperServable` says, but the engine does not ask for it.
- `driverFor` goes by infohash (`catalog.go:148`). A pull whose torrent is dropped
  and replaced while it waits for its info dict gets the driver of the new
  torrent and checks pieces through the handle of the old one, so a rotted CAS hit can
  pass its check if the engine still hashes pieces of a dropped torrent.
  `PullOkClean` is stated for pulls whose handle and driver belong together. Without that
  condition the invariant has no inductive strengthening: TLC finds it
  violated with three torrent instances and four pulls, out of reach of the
  bounds of `catalog_pull`.
- The store has the anchor's bytes of a file (a CAS hit, sealed at open), the
  torrent has others. The piece the file shares with a wanted one is read half
  from the blob and never passes its hash: it is dropped and fetched again, no
  file fails, and the pull neither succeeds nor fails, however well peers
  deliver; `foreign.go:357-359` says "loud either way". Without the hit the anchor
  gate would fail the pull. A rotted CAS hit next to a missing file hangs in the
  same way. These are the two exceptions of `SleeperServable` (`Clash`, `hurts`).
- `Register` overwrites the registration of an infohash (`foreign.go:102`). A pull
  under a live anchor has added the torrent and waits for its info; Hugging Face
  loses the repository; a second pull registers the catalog's anchor; the info
  arrives and the driver opens under that one. The first pull can then succeed
  with a non-LFS file that is not the one its own anchor pins by git id, although
  `anchor.go:17` says a pull verifies every byte against its anchor. `PullOkClean` is
  about the anchor the driver opened under.
- A single-piece blob that rots after it entered the verify cache is seeded:
  `SeedOkClean` and `CompleteWasHashed` are about multi-piece files, which the
  engine hashes itself.

## 5. Proofs

TLAPS checks these for every value of the constants that the modules' named
assumptions admit.

**BlobStoreProofs.** `IInv` is `TypeOK`, `FrameInv` (what a writer knows at each
of its steps: its part holds the wanted bytes behind the digest comparison and
is synced behind the fsync), `TreeInv` (a blob
in either tree is synced and hashes to its name, unless a medium spoiled it) and
`NoLeakedPart`. `BlobsVerified` alone is not inductive: that a rename promotes
good bytes depends on what the writer verified several steps earlier, and that
they are still good after a crash on the fsync between. `BlobsAlwaysVerified`,
`PartsNeverLeak` and `PutOkMeansStored` follow; the last is what a nil return means
also where prefix directories are new and the refinement below does not apply. `AckedSurvivesCrash` adds
`DurableInv` and assumes durable prefix directories, without which it is false.
`AtomicBlobsImplemented`, under the same assumption, is the refinement: the rename
is the step that stores the blob (clean by `FrameInv`), the directory fsync or a
writeback makes it durable, a crash picks per digest the visible or the durable
blob, whole by `TreeInv`, and everything before the rename is a stutter.

**StateMapsProofs.** `IInv` is `TypeOK`, `MutexInv` (a goroutine is inside an
update exactly when it holds `stateMu`), `FrameInv` (a temporary file holds the
current document with the one key changed, and is synced behind the fsync) and
`DiskInv` (both copies of an undamaged file parse, are synced, and the durable
one is the acknowledged one). `FilesAlwaysParse` is `NeverCorrupt`;
`AtomicMapsImplemented` is the refinement: a rename is the update, the directory
fsync the acknowledgement, every other step of an update a stutter. TLC checks
it with one file; the theorem covers several files sharing one directory fsync.

**ImportPublishProofs.** The four state properties say what is visible; that a
step keeps them depends on what the publishing job did before. `IInv` adds, for
each job, `PutInv` (the stages it has passed are in the store, so its members
are linked only when complete), `MergedInv` (the index it merged names linked
artifacts, every quant of the current index, and its own) and `LockInv` (it
merges under the namespace lock, so the current index is still the one it
read). From `MergedInv` and `LockInv` follows `NoMemberLost`; the other theorems
are conjuncts of `IInv`. Artifacts, names and quants are arbitrary sets, `None`
is assumed to be none of them and no index.

**ServeLifecycleProofs.** That a stop signals only its runtime depends on what
it checked steps before. `IInv` says that no two running processes share a pid
(`PidUnique`), that no launch is in two CLIs' hands (`OneOwner`), that a registry
entry carries the pid its own launch was born with, and what a CLI knows at each
step: what it owns (`OwnInv`), that under flock its view is the registry
(`LockInv`), and that behind the identity check the handle is that of the target
(`FdInv`), for `run`, `serve` and
`stop`. `StopsNeverHitForeign` and
`ScratchOutlivesRuntime` hold for any number of overlapping stops.
`NoRuntimeOrphaned` and `NoScratchForgotten` add `OInv` (the entry a stop found
is still there when it removes it) and assume `MaxStops <= 1`, the condition of
the note in section 4 that TLC shows to be necessary. The set of CLIs is assumed
finite.

**ServerProofs.** For the job table, `IInv` is `TypeOK` and, for each job,
`TableInv` (the table's state against the goroutine's position and the terminal
flag), `MutexInv` (who holds the job's mutex) and `CountInv` (published count at most the tick's count,
that at most the engine's). One lemma says which changes of a job's entry a step
can make; `TerminalJobsStay`, `ProgressNeverBackwards` and
`LifecycleImplemented` are read off it.

For the socket, `SocketIInv` is `SocketTypeOK`, `ListenInv` (a daemon accepts from
its listen(2) to its end), `DataInv` (nobody is past lstat while user data is at
the path), `ServerReachable` and `StarterInv`: while no starts overlapped, a
daemon inside `Listen` is alone there, past its dial nobody serves, and the path
is what its last call left there. `OneServerReachable`, `UserDataAlwaysKept`
and `LeftoversNeverBlock` are the properties of the run for any number of
daemons; `OrphansOnlyUnlessRaced` bounds the finding `socket_overlap`: without
overlapping starts no live socket is removed.

**SwarmFillProofs.** `IInv` is `TypeOK`, `EngineInv` (only the newest torrent
instance is listed or entered under the key), `UnsealedInv` (an open driver has
not sealed a file only if the blob was not already bad), and the two properties
`NoLostWakeup` and `CompleteWasHashed`, which it makes inductive, also for drops
that are given up. `FreshInv` is about one operation: from the add on, the driver
it may get opened after the operation began (`Fresh`: what is sealed in it was
there since, what a seeding re-hashed and it has not sealed was lost since), so
a wait that ends well, or a verification that skips a file, is about this
operation's time and not an older one. It needs drops awaited to their end:
`SuccessIsComplete` and `AnnouncedIsClean` assume `~DropGivesUp`, and TLC
refutes both without it (section 4).

**CatalogPullProofs.** `IInv` is `TypeOK`, `WorldInv` (a wrong file differs in
some piece), `EngineInv` (a driver opens with its torrent's info and only once, the
open-driver entry is of an open driver), `GateInv` (what a driver sealed although
its anchor pins other bytes is a CAS hit of the pinned sha256), `BlobInv` (without
damage every sealed file is in the store), `BitsInv` (a driver that failed no file
has sealed every file whose pieces are all complete) and for each pull what it
knows at each step. `CheckedInv` is the part that carries `PullOkClean`: during
the final check a wanted file is sealed; once one of its pieces has passed, its
blob is good or was damaged since the pull began; and where a piece has passed,
blob and torrent agree. With every piece passed a wrong file cannot be such a CAS
hit, so by `GateInv` it is not pinned by the driver's anchor. `SleeperServable`
needs `BitsInv`: that a file waited for has an outstanding piece is only true
because every completion seals what became full, also those that other pulls'
checks cause. `FailedCheckExplained` lists, for every layout of files over pieces,
why the final check of a pull on a live torrent of its own can fail: damage, a
piece that overlaps a file the driver has no bytes of (`catalog_repull`), a
sealed blob that differs from the torrent, a seal that failed. That the verify
loops take a least piece (`First`) rests on the library's well-foundedness of the
naturals.

**LaunchPrepareProofs.** `ResolveFacts` says what `Resolve` returns for any
index, `TopWins` that `Merged` takes a key from the last of the six tables that
has it, for any layers. `IInv` is `TypeOK`, `IndexInv` (a member is filed under
its own quant) and what a launch has at each step: from the open on a manifest
its reference means, whose blobs were all there (`OpenedInv`), then that
manifest's advisory layer, then a runtime with its weights and a configuration
as `LaunchConfigured` says. `RebindsAreExplicit` uses `ResolveFacts` on the index before and
after a publication and the fact that `UpsertMember` removes no member. Assumed:
quants are finitely many, error classes are no manifests, an artifact's
projectors are among its files, layers hold pairs of kind and value.

Only model-checked: `WaiterReturns` and `UpdateReturns` (liveness is beyond the
prover). Every invariant, action property and refinement of a passing run is
stated by a theorem.

## 6. Plan

In order:

1. The quant ladder and the classification of file names as operators against
   a reference definition.
2. The scratch parent directory that concurrent launches of one manifest share.

## 7. Not modelled

Encodings (canonical JSON, GGUF, merkle roots, torrent files), HTTP and tar
sources, configuration, output and the llama.cpp build tool are sequential
parsing and I/O. The BitTorrent engine is a library: `SwarmFill` and
`CatalogPull` take it at the calls it makes into the storage drivers, and assume
of its drops only that both halves, unlisting and closing, eventually happen in
some order. Neither module claims liveness: peers may never deliver. Left out
of them are download order (`setFillPriorities`), the `NoSeedVerify` escape
hatch, the read-only webseed server, cancellation (the daemon's jobs run under
the background context), byte offsets, and `wantedFiles`, whose results are the
constant `Wants`. Reference syntax, classification and quant derivation work on
characters; references, quants and file kinds are taken after it. Request parsing, error wording
and authorization are left out of the API; its read-only endpoints change no
state. Windows and macOS variants of process handling are not modelled.
