------------------------------ MODULE JobTable ------------------------------
(***************************************************************************)
(* The daemon's job table (internal/api/server.go) and the client loop that *)
(* watches it (internal/cli/client.go, WaitJob).  A handler publishes a job *)
(* and starts a goroutine; the goroutine runs an engine (swarm fill, import,*)
(* BT import, verify) and publishes the terminal state; for fills and       *)
(* catalog pulls a poller goroutine publishes progress concurrently and may *)
(* still be ticking after the engine returned.  publishJob swaps the map    *)
(* entry under s.mu, so one publication is one step.                        *)
(***************************************************************************)
EXTENDS Naturals

CONSTANTS
    Jobs,         \* job ids
    Files,        \* number of files of an artifact (bound)
    MaxRestarts,  \* bound on daemon restarts
    None          \* no table entry

(* The endpoints that create asynchronous jobs: startFillJob, runImport for *)
(* /import/local and /import/hf, runImport for /import/catalog,             *)
(* handleImportBT and handleVerify.                                         *)
Kinds == {"fill", "import", "catalog", "bt", "verify"}
Ticking == {"fill", "import", "catalog"}  \* the engine reports progress
Polled == {"fill", "catalog"}             \* ... from a goroutine of its own

Entry == [state : {"waiting", "fetching", "done", "failed"}, filesDone : 0..Files]
Terminal == {"done", "failed"}

ASSUME JobAssumption ==
    /\ Files \in Nat \ {0} /\ MaxRestarts \in Nat
    /\ None \notin Entry

VARIABLES
    jobs,      \* [Jobs -> Entry \cup {None}]: s.jobs
    kind,      \* [Jobs -> Kinds \cup {None}]
    pc,        \* [Jobs -> ...]: where the job's goroutine is
    engine,    \* [Jobs -> {"running", "ok", "err"}]: the engine call
    base,      \* [Jobs -> 0..Files]: filesDone of the job the goroutine captured
    sealed,    \* [Jobs -> 0..Files]: files the engine has completed
    poll,      \* [Jobs -> ...]: where the progress callback is
    tick,      \* [Jobs -> 0..Files]: the count it was called with
    mu,        \* [Jobs -> {"free", "poller", "main"}]: the job's local mutex
    terminal,  \* [Jobs -> BOOLEAN]: the flag under mu
    waiter,    \* [Jobs -> ...]: WaitJob on the job
    used,      \* ids handed out (newJobID never repeats one)
    restarts

vars == <<jobs, kind, pc, engine, base, sealed, poll, tick, mu, terminal, waiter, used, restarts>>

PCs == {"none", "hints", "start", "run", "lock", "publish", "end"}
Polls == {"off", "idle", "called", "locked"}
Waiters == {"none", "polling", "done", "failed", "lost"}

State(j) == IF jobs[j] = None THEN "none" ELSE jobs[j].state
IsTerminal(j) == State(j) \in Terminal

Init ==
    /\ jobs = [j \in Jobs |-> None]
    /\ kind = [j \in Jobs |-> None]
    /\ pc = [j \in Jobs |-> "none"]
    /\ engine = [j \in Jobs |-> "running"]
    /\ base = [j \in Jobs |-> 0]
    /\ sealed = [j \in Jobs |-> 0]
    /\ poll = [j \in Jobs |-> "off"]
    /\ tick = [j \in Jobs |-> 0]
    /\ mu = [j \in Jobs |-> "free"]
    /\ terminal = [j \in Jobs |-> FALSE]
    /\ waiter = [j \in Jobs |-> "none"]
    /\ used = {}
    /\ restarts = 0

publishJob(j, s, n) == jobs' = [jobs EXCEPT ![j] = [state |-> s, filesDone |-> n]]

-----------------------------------------------------------------------------
(* Handlers.                                                               *)

(* handleEnsure without a fill: resolution failed, nothing is missing, or  *)
(* the swarm is off.  The job is terminal when it is first published, with *)
(* the n files that are present (none counted when resolution failed).     *)
EnsureNow(j, s, n) ==
    /\ j \notin used
    /\ (s = "done") = (n = Files)
    /\ used' = used \cup {j}
    /\ publishJob(j, s, n)
    /\ pc' = [pc EXCEPT ![j] = "end"]
    /\ waiter' = [waiter EXCEPT ![j] = "polling"]
    /\ UNCHANGED <<kind, engine, base, sealed, poll, tick, mu, terminal, restarts>>

(* startFillJob publishes "fetching" at once, with n files already present; *)
(* the other handlers publish "waiting".                                    *)
StartJob(j, k, n) ==
    /\ j \notin used
    /\ used' = used \cup {j}
    /\ IF k = "fill" THEN publishJob(j, "fetching", n) /\ n < Files
                     ELSE publishJob(j, "waiting", n) /\ n = 0
    /\ kind' = [kind EXCEPT ![j] = k]
    /\ pc' = [pc EXCEPT ![j] = IF k = "fill" THEN "hints" ELSE "start"]
    /\ base' = [base EXCEPT ![j] = n]
    /\ sealed' = [sealed EXCEPT ![j] = n]
    /\ waiter' = [waiter EXCEPT ![j] = "polling"]
    /\ UNCHANGED <<engine, poll, tick, mu, terminal, restarts>>

-----------------------------------------------------------------------------
(* The job's goroutine.                                                    *)

(* runImport, handleImportBT and handleVerify publish "fetching" first.    *)
PublishFetching(j) ==
    /\ pc[j] = "start"
    /\ publishJob(j, "fetching", 0)
    /\ pc' = [pc EXCEPT ![j] = "run"]
    /\ poll' = [poll EXCEPT ![j] = IF kind[j] \in Ticking THEN "idle" ELSE "off"]
    /\ UNCHANGED <<kind, engine, base, sealed, tick, mu, terminal, waiter, used, restarts>>

(* Mutant of HintsLoaded: publishes the "waiting" of the other handlers.   *)
HintsLoadedRewinds(j) ==
    /\ pc[j] = "hints"
    /\ publishJob(j, "waiting", base[j])
    /\ pc' = [pc EXCEPT ![j] = "run"]
    /\ poll' = [poll EXCEPT ![j] = "idle"]
    /\ UNCHANGED <<kind, engine, base, sealed, tick, mu, terminal, waiter, used, restarts>>

(* startFillJob: HintsForManifest loads, and Fill starts its poller ...    *)
HintsLoaded(j) ==
    /\ pc[j] = "hints"
    /\ pc' = [pc EXCEPT ![j] = "run"]
    /\ poll' = [poll EXCEPT ![j] = "idle"]
    /\ UNCHANGED <<jobs, kind, engine, base, sealed, tick, mu, terminal, waiter, used, restarts>>

(* ... or fails: terminal without an engine call.                          *)
HintsFailed(j) ==
    /\ pc[j] = "hints"
    /\ publishJob(j, "failed", base[j])
    /\ pc' = [pc EXCEPT ![j] = "end"]
    /\ UNCHANGED <<kind, engine, base, sealed, poll, tick, mu, terminal, waiter, used, restarts>>

(* Mutant of EngineStep: a file completed again is counted again.          *)
EngineStepRecounts(j) ==
    /\ pc[j] = "run" /\ engine[j] = "running"
    /\ sealed' = [sealed EXCEPT ![j] = @ + 1]
    /\ UNCHANGED <<jobs, kind, pc, engine, base, poll, tick, mu, terminal, waiter, used, restarts>>

(* The engine completes a file.                                            *)
EngineStep(j) ==
    /\ pc[j] = "run" /\ engine[j] = "running" /\ sealed[j] < Files
    /\ sealed' = [sealed EXCEPT ![j] = @ + 1]
    /\ UNCHANGED <<jobs, kind, pc, engine, base, poll, tick, mu, terminal, waiter, used, restarts>>

(* The engine call returns: nil only with every file complete; an error at *)
(* any time.  A callback of a synchronous engine has returned by then.     *)
EngineReturn(j, r) ==
    /\ pc[j] = "run" /\ engine[j] = "running"
    /\ r = "ok" => sealed[j] = Files
    /\ kind[j] = "import" => poll[j] = "idle"
    /\ engine' = [engine EXCEPT ![j] = r]
    /\ pc' = [pc EXCEPT ![j] = IF kind[j] \in Ticking THEN "lock" ELSE "publish"]
    /\ poll' = [poll EXCEPT ![j] = IF kind[j] \in Polled THEN @ ELSE "off"]
    /\ UNCHANGED <<jobs, kind, base, sealed, tick, mu, terminal, waiter, used, restarts>>

(* mu.Lock before the terminal publication (startFillJob, runImport).      *)
MainLock(j) ==
    /\ pc[j] = "lock" /\ mu[j] = "free"
    /\ mu' = [mu EXCEPT ![j] = "main"]
    /\ pc' = [pc EXCEPT ![j] = "publish"]
    /\ UNCHANGED <<jobs, kind, engine, base, sealed, poll, tick, terminal, waiter, used, restarts>>

(* filesDone of the terminal publication.  A fill reports the total when   *)
(* it succeeded and its starting count when it failed; runImport reports   *)
(* the total either way; BT imports report none; verify counts its targets *)
(* only when all of them verified.                                         *)
TerminalCount(j, ok) ==
    CASE kind[j] = "fill"   -> {IF ok THEN Files ELSE base[j]}
      [] kind[j] \in {"import", "catalog"} -> {Files}
      [] kind[j] = "verify" -> IF ok THEN {Files} ELSE {0, Files}
      [] OTHER -> {0}

(* terminal = true; publishJob(&term); mu.Unlock.                          *)
PublishTerminal(j) ==
    /\ pc[j] = "publish"
    /\ \E n \in TerminalCount(j, engine[j] = "ok") :
         publishJob(j, IF engine[j] = "ok" THEN "done" ELSE "failed", n)
    /\ terminal' = [terminal EXCEPT ![j] = TRUE]
    /\ mu' = [mu EXCEPT ![j] = "free"]
    /\ pc' = [pc EXCEPT ![j] = "end"]
    /\ UNCHANGED <<kind, engine, base, sealed, poll, tick, waiter, used, restarts>>

-----------------------------------------------------------------------------
(* The progress callback.                                                  *)

(* Mutant of TickCall: counts only what this fill added.                   *)
TickCallSinceStart(j) ==
    /\ poll[j] = "idle"
    /\ kind[j] = "import" => engine[j] = "running" /\ sealed[j] > tick[j]
    /\ poll' = [poll EXCEPT ![j] = "called"]
    /\ tick' = [tick EXCEPT ![j] = sealed[j] - base[j]]
    /\ UNCHANGED <<jobs, kind, pc, engine, base, sealed, mu, terminal, waiter, used, restarts>>

(* progress(drv.SealedCount(), target): the count is read before the lock. *)
(* importer.Import calls back once per completed file.                     *)
TickCall(j) ==
    /\ poll[j] = "idle"
    /\ kind[j] = "import" => engine[j] = "running" /\ sealed[j] > tick[j]
    /\ poll' = [poll EXCEPT ![j] = "called"]
    /\ tick' = [tick EXCEPT ![j] = sealed[j]]
    /\ UNCHANGED <<jobs, kind, pc, engine, base, sealed, mu, terminal, waiter, used, restarts>>

TickLock(j) ==
    /\ poll[j] = "called" /\ mu[j] = "free"
    /\ mu' = [mu EXCEPT ![j] = "poller"]
    /\ poll' = [poll EXCEPT ![j] = "locked"]
    /\ UNCHANGED <<jobs, kind, pc, engine, base, sealed, tick, terminal, waiter, used, restarts>>

(* Mutants of TickPublish: without the terminal check; without the unlock. *)
TickPublishAlways(j) ==
    /\ poll[j] = "locked"
    /\ publishJob(j, "fetching", tick[j])
    /\ mu' = [mu EXCEPT ![j] = "free"]
    /\ poll' = [poll EXCEPT ![j] = "idle"]
    /\ UNCHANGED <<kind, pc, engine, base, sealed, tick, terminal, waiter, used, restarts>>

TickPublishKeepsLock(j) ==
    /\ poll[j] = "locked"
    /\ IF terminal[j] THEN UNCHANGED jobs ELSE publishJob(j, "fetching", tick[j])
    /\ poll' = [poll EXCEPT ![j] = "idle"]
    /\ UNCHANGED <<kind, pc, engine, base, sealed, tick, mu, terminal, waiter, used, restarts>>

(* if terminal return; otherwise publish "fetching" with the count.        *)
TickPublish(j) ==
    /\ poll[j] = "locked"
    /\ IF terminal[j] THEN UNCHANGED jobs ELSE publishJob(j, "fetching", tick[j])
    /\ mu' = [mu EXCEPT ![j] = "free"]
    /\ poll' = [poll EXCEPT ![j] = "idle"]
    /\ UNCHANGED <<kind, pc, engine, base, sealed, tick, terminal, waiter, used, restarts>>

(* pollCtx is cancelled when the engine call returns; the poller's select  *)
(* may still take a tick first, but it sees the cancellation sooner or     *)
(* later.                                                                  *)
PollerStops(j) ==
    /\ poll[j] = "idle" /\ kind[j] \in Polled /\ engine[j] # "running"
    /\ poll' = [poll EXCEPT ![j] = "off"]
    /\ UNCHANGED <<jobs, kind, pc, engine, base, sealed, tick, mu, terminal, waiter, used, restarts>>

-----------------------------------------------------------------------------
(* WaitJob: GET /v1/jobs/<id> (handleJob) until the state is terminal; an  *)
(* unknown job is an error.                                                *)
WaitPoll(j) ==
    /\ waiter[j] = "polling"
    /\ jobs[j] = None \/ IsTerminal(j)
    /\ waiter' = [waiter EXCEPT ![j] = IF jobs[j] = None THEN "lost" ELSE State(j)]
    /\ UNCHANGED <<jobs, kind, pc, engine, base, sealed, poll, tick, mu, terminal, used, restarts>>

(* The daemon dies and comes back: jobs are memory, the goroutines are gone. *)
Restart ==
    /\ restarts < MaxRestarts
    /\ restarts' = restarts + 1
    /\ jobs' = [j \in Jobs |-> None]
    /\ kind' = [j \in Jobs |-> None]
    /\ pc' = [j \in Jobs |-> "none"]
    /\ engine' = [j \in Jobs |-> "running"]
    /\ base' = [j \in Jobs |-> 0]
    /\ sealed' = [j \in Jobs |-> 0]
    /\ poll' = [j \in Jobs |-> "off"]
    /\ tick' = [j \in Jobs |-> 0]
    /\ mu' = [j \in Jobs |-> "free"]
    /\ terminal' = [j \in Jobs |-> FALSE]
    /\ UNCHANGED <<waiter, used>>

-----------------------------------------------------------------------------
Handlers(j) ==
    \/ \E s \in Terminal, n \in 0..Files : EnsureNow(j, s, n)
    \/ \E k \in Kinds, n \in 0..Files : StartJob(j, k, n)

Goroutine(j) ==
    \/ PublishFetching(j) \/ HintsLoaded(j) \/ HintsFailed(j)
    \/ MainLock(j) \/ PublishTerminal(j)

Engine(j) == EngineStep(j) \/ \E r \in {"ok", "err"} : EngineReturn(j, r)

Poller(j) == TickCall(j) \/ TickLock(j) \/ TickPublish(j) \/ PollerStops(j)

Next ==
    \/ \E j \in Jobs : Handlers(j) \/ Goroutine(j) \/ Engine(j) \/ Poller(j) \/ WaitPoll(j)
    \/ Restart

(* Goroutines are scheduled; sync.Mutex hands over to a starving waiter;   *)
(* the ticker goroutine notices a cancelled context; WaitJob keeps polling. *)
(* Nothing bounds an engine call: Fill and ImportBT run under              *)
(* context.Background(), so EngineReturn is fair only in SpecEngineEnds.   *)
Fairness ==
    \A j \in Jobs :
        /\ WF_vars(Goroutine(j)) /\ SF_vars(MainLock(j))
        /\ WF_vars(TickLock(j)) /\ WF_vars(TickPublish(j)) /\ SF_vars(PollerStops(j))
        /\ WF_vars(WaitPoll(j))

EngineEnds ==
    \A j \in Jobs : WF_vars(\E r \in {"ok", "err"} : EngineReturn(j, r))

Spec == Init /\ [][Next]_vars
SpecEngineEnds == Spec /\ Fairness /\ EngineEnds

-----------------------------------------------------------------------------
TypeOK ==
    /\ jobs \in [Jobs -> Entry \cup {None}]
    /\ kind \in [Jobs -> Kinds \cup {None}]
    /\ pc \in [Jobs -> PCs]
    /\ engine \in [Jobs -> {"running", "ok", "err"}]
    /\ base \in [Jobs -> 0..Files]
    /\ sealed \in [Jobs -> 0..Files]
    /\ poll \in [Jobs -> Polls]
    /\ tick \in [Jobs -> 0..Files]
    /\ mu \in [Jobs -> {"free", "poller", "main"}]
    /\ terminal \in [Jobs -> BOOLEAN]
    /\ waiter \in [Jobs -> Waiters]
    /\ used \subseteq Jobs
    /\ restarts \in 0..MaxRestarts

(* "a progress tick racing the terminal publication must never flip a      *)
(* terminal job back" (server.go:1271-1273, 698-701): once published, a    *)
(* terminal job is never replaced, not even by an equal state with other   *)
(* counts, until the daemon restarts.                                      *)
TerminalStable ==
    [][\A j \in Jobs : IsTerminal(j) => jobs'[j] \in {jobs[j], None}]_vars

(* The table implements the lifecycle of module JobLifecycle: publications *)
(* of handler, goroutine and poller together only ever move a job forward. *)
Lifecycle == INSTANCE JobLifecycle WITH state <- [j \in Jobs |-> State(j)]
ImplementsLifecycle == Lifecycle!Spec

(* The count a progress bar shows (SealedCount read before the lock, then  *)
(* published) never runs backwards while the job is fetching.              *)
ProgressMonotone ==
    [][\A j \in Jobs :
         State(j) = "fetching" /\ State(j)' = "fetching"
            => jobs'[j].filesDone >= jobs[j].filesDone]_vars

(* WaitJob always returns when engine calls do: no lock between poller and *)
(* goroutine, late tick or daemon restart leaves a client polling forever. *)
WaiterReturns ==
    \A j \in Jobs : waiter[j] = "polling" ~> waiter[j] \in {"done", "failed", "lost"}
=============================================================================
