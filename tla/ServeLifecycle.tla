--------------------------- MODULE ServeLifecycle ---------------------------
(***************************************************************************)
(* The runner's lifecycle: `shardr run`, `serve` and `stop`                *)
(* (internal/cli/run.go), the serve registry (internal/runner/registry.go) *)
(* and signalling (internal/runner/llama.go, terminateVerified).  CLI      *)
(* processes run concurrently over one registry file guarded by flock,     *)
(* pids are recycled, runtimes die at any time and CLIs are killed.        *)
(*                                                                         *)
(* Linux, Go >= 1.23: os.FindProcess opens a pidfd, so the handle keeps    *)
(* naming the process that had the pid when it was opened.                 *)
(***************************************************************************)
EXTENDS Naturals, FiniteSets

CONSTANTS
    Clis,      \* shardr processes
    Ids,       \* serve ids
    Launches,  \* runtimes ever spawned: one scratch dir and start token each
    Foreign,   \* unrelated processes of the machine
    Pids,
    None,
    MaxStops,  \* bound on stops under way at once
    MaxKills   \* bound on CLIs killed half-way

Procs == Launches \cup Foreign

(* What Add records: the pid, the start token derived from it, and the     *)
(* endpoint and SplitDir, which are the launch's.                          *)
Instance == [pid : Pids, token : Procs, launch : Launches]

ASSUME ServeAssumption ==
    /\ Launches \cap Foreign = {} /\ IsFiniteSet(Clis)
    /\ None \notin Procs \cup Ids \cup Pids \cup Clis \cup Instance
    /\ MaxStops \in Nat /\ MaxKills \in Nat

VARIABLES
    alive,     \* [Procs -> {"unborn", "loading", "ready", "closing", "gone"}]
    pidOf,     \* [Procs -> Pids \cup {None}]
    registry,  \* [Ids -> Instance \cup {None}]: shardr-instances.json
    flock,     \* Clis \cup {None}: holder of the lock file
    scratch,   \* launches whose split scratch directory exists
    reported,  \* ... for which a failed removal was reported
    cli,       \* [Clis -> Frame]
    hit,       \* processes a stop has signalled (history)
    kills

vars == <<alive, pidOf, registry, flock, scratch, reported, cli, hit, kills>>

Idle == [pc |-> "idle", op |-> "none", id |-> None, inst |-> None, launch |-> None,
         fd |-> None, view |-> None]

Frame == [pc : {"idle", "prepare", "wait", "token", "fg", "check", "find", "verify", "term",
                "grace", "kill", "clean", "lock", "read", "write"},
          op : {"none", "serve", "run", "stop"},
          id : Ids \cup {None},
          inst : Instance \cup {None},                \* the entry added or found
          launch : Launches \cup {None},              \* the runtime and scratch owned
          fd : Procs \cup {None},                     \* os.FindProcess's handle
          view : [Ids -> Instance \cup {None}] \cup {None}]  \* listLocked's result

Running(p) == alive[p] \in {"loading", "ready", "closing"}
Holder(pid) == {p \in Procs : Running(p) /\ pidOf[p] = pid}

Init ==
    /\ alive = [p \in Procs |-> "unborn"] /\ pidOf = [p \in Procs |-> None]
    /\ registry = [i \in Ids |-> None] /\ flock = None /\ scratch = {} /\ reported = {}
    /\ cli = [c \in Clis |-> Idle] /\ hit = {} /\ kills = 0

Become(c, frame) == cli' = [cli EXCEPT ![c] = frame]
Goto(c, step) == Become(c, [cli[c] EXCEPT !.pc = step])
world == <<alive, pidOf, registry, flock, scratch, reported, hit, kills>>

-----------------------------------------------------------------------------
(* Launching: prepare, Spawn, WaitReady, ProcessStartToken.                *)

(* prepare owns the scratch dir from its creation to its success return.   *)
StartLaunch(c, op, i, p) ==
    /\ cli[c].pc = "idle"
    /\ alive[p] = "unborn" /\ p \notin scratch
    /\ \A d \in Clis : cli[d].launch # p
    /\ (op = "serve") = (i # None)
    /\ Become(c, [Idle EXCEPT !.pc = "prepare", !.op = op, !.id = i, !.launch = p])
    /\ scratch' = scratch \cup {p}
    /\ UNCHANGED <<alive, pidOf, registry, flock, reported, hit, kills>>

(* removeSplitDir; every caller reports an error and goes on.              *)
removeSplitDir(p) ==
    \/ scratch' = scratch \ {p} /\ UNCHANGED reported
    \/ reported' = reported \cup {p} /\ UNCHANGED scratch

(* Mutant of PrepareFails: the scratch dir is not owned yet.               *)
PrepareFailsLeaks(c) ==
    /\ cli[c].pc = "prepare"
    /\ Become(c, Idle)
    /\ alive' = [alive EXCEPT ![cli[c].launch] = "gone"]
    /\ UNCHANGED <<pidOf, registry, flock, scratch, reported, hit, kills>>

(* Linking, ResolveBinary, the serve log or Spawn fails: the defer cleans. *)
PrepareFails(c) ==
    /\ cli[c].pc = "prepare"
    /\ Become(c, Idle)
    /\ removeSplitDir(cli[c].launch)
    /\ alive' = [alive EXCEPT ![cli[c].launch] = "gone"]
    /\ UNCHANGED <<pidOf, registry, flock, hit, kills>>

Spawn(c, pid) ==
    /\ cli[c].pc = "prepare" /\ Holder(pid) = {}
    /\ Goto(c, "wait")
    /\ alive' = [alive EXCEPT ![cli[c].launch] = "loading"]
    /\ pidOf' = [pidOf EXCEPT ![cli[c].launch] = pid]
    /\ UNCHANGED <<registry, flock, scratch, reported, hit, kills>>

(* Both probes answer; serve goes on to register, run to wait for Ctrl-C.  *)
WaitReady(c) ==
    /\ cli[c].pc = "wait" /\ alive[cli[c].launch] = "ready"
    /\ Goto(c, IF cli[c].op = "serve" THEN "token" ELSE "fg")
    /\ UNCHANGED world

(* Timeout, cancellation or early exit: Terminate and cleanFailedLaunch.   *)
WaitFails(c) ==
    /\ cli[c].pc = "wait"
    /\ Goto(c, "find")
    /\ UNCHANGED world

(* Ctrl-C of a foreground run: the deferred Terminate and scratch cleanup. *)
Interrupt(c) ==
    /\ cli[c].pc = "fg"
    /\ Goto(c, "find")
    /\ UNCHANGED world

(* Mutant of ProcessStartToken: an underivable token is recorded as empty. *)
ProcessStartTokenEmpty(c) ==
    /\ cli[c].pc = "token"
    /\ LET pid == pidOf[cli[c].launch] IN
         \E t \in IF Holder(pid) = {} THEN {None} ELSE Holder(pid) :
            Become(c, [cli[c] EXCEPT !.pc = "lock",
                         !.inst = [pid |-> pid, token |-> t, launch |-> cli[c].launch]])
    /\ UNCHANGED world

(* The token of whichever process has the pid now; none is an error.       *)
ProcessStartToken(c) ==
    /\ cli[c].pc = "token"
    /\ LET pid == pidOf[cli[c].launch] IN
         IF Holder(pid) = {} THEN Goto(c, "find")
         ELSE \E t \in Holder(pid) :
                Become(c, [cli[c] EXCEPT !.pc = "lock",
                             !.inst = [pid |-> pid, token |-> t, launch |-> cli[c].launch]])
    /\ UNCHANGED world

-----------------------------------------------------------------------------
(* The registry: read-modify-write under flock (withLock).                 *)

(* Mutant of withLock: no flock.                                           *)
withLockIgnored(c) ==
    /\ cli[c].pc = "lock"
    /\ Goto(c, "read")
    /\ UNCHANGED world

withLock(c) ==
    /\ cli[c].pc = "lock" /\ flock = None
    /\ flock' = c
    /\ Goto(c, "read")
    /\ UNCHANGED <<alive, pidOf, registry, scratch, reported, hit, kills>>

listLocked(c) ==
    /\ cli[c].pc = "read"
    /\ Become(c, [cli[c] EXCEPT !.pc = "write", !.view = registry])
    /\ UNCHANGED world

Unlock(c) == flock' = IF flock = c THEN None ELSE flock

(* Add of a new id: append and rename; serve returns nil.                  *)
Add(c) ==
    /\ cli[c].pc = "write" /\ cli[c].op = "serve" /\ cli[c].view[cli[c].id] = None
    /\ registry' = [cli[c].view EXCEPT ![cli[c].id] = cli[c].inst]
    /\ Unlock(c)
    /\ Become(c, Idle)
    /\ UNCHANGED <<alive, pidOf, scratch, reported, hit, kills>>

(* The id is taken, or the registry cannot be written: tear down.          *)
AddFails(c) ==
    /\ cli[c].pc = "write" /\ cli[c].op = "serve"
    /\ Unlock(c)
    /\ Become(c, [cli[c] EXCEPT !.pc = "find", !.view = None])
    /\ UNCHANGED <<alive, pidOf, registry, scratch, reported, hit, kills>>

(* Remove drops whatever has the id.                                       *)
Remove(c) ==
    /\ cli[c].pc = "write" /\ cli[c].op = "stop"
    /\ registry' = [cli[c].view EXCEPT ![cli[c].id] = None]
    /\ Unlock(c)
    /\ Become(c, Idle)
    /\ UNCHANGED <<alive, pidOf, scratch, reported, hit, kills>>

RemoveFails(c) ==
    /\ cli[c].pc = "write" /\ cli[c].op = "stop"
    /\ Unlock(c)
    /\ Become(c, Idle)
    /\ UNCHANGED <<alive, pidOf, registry, scratch, reported, hit, kills>>

-----------------------------------------------------------------------------
(* Stopping, and terminateVerified, which a failed launch and the end of a *)
(* foreground run call without the identity guards.                        *)

(* Stop: List and Find.                                                    *)
StopFind(c, i) ==
    /\ cli[c].pc = "idle" /\ registry[i] # None
    /\ Cardinality({d \in Clis : cli[d].op = "stop"}) < MaxStops
    /\ Become(c, [Idle EXCEPT !.pc = "check", !.op = "stop", !.id = i, !.inst = registry[i]])
    /\ UNCHANGED world

(* Start token, evaluated live.                                            *)
StartIdentityOK(in) == Holder(in.pid) = {in.token}

(* Two factors: start token, and the endpoint serves the recorded ref.  A  *)
(* runtime of the same ref that got the port of a dead one would pass the  *)
(* second; ports are not modelled and that case is left out.               *)
identityOK(in) == StartIdentityOK(in) /\ alive[in.launch] = "ready"

(* Refuse without a signal; the entry stays for manual cleanup.            *)
Refuse(c) == Become(c, Idle)

(* The probe may also time out on a runtime that is well.                  *)
StopCheck(c) ==
    /\ cli[c].pc = "check"
    /\ (identityOK(cli[c].inst) /\ Goto(c, "find")) \/ Refuse(c)
    /\ UNCHANGED world

TargetPid(c) == IF cli[c].op = "stop" THEN cli[c].inst.pid ELSE pidOf[cli[c].launch]

(* os.FindProcess: a handle on whoever has the pid now, or on nobody.      *)
FindProcess(c) ==
    /\ cli[c].pc = "find"
    /\ \E p \in IF Holder(TargetPid(c)) = {} THEN {None} ELSE Holder(TargetPid(c)) :
         Become(c, [cli[c] EXCEPT !.pc = "verify", !.fd = p])
    /\ UNCHANGED world

(* Mutant of verifyTerm: signals whatever has the pid.                     *)
verifyTermSkipped(c) ==
    /\ cli[c].pc = "verify"
    /\ Goto(c, "term")
    /\ UNCHANGED world

verifyTerm(c) ==
    /\ cli[c].pc = "verify"
    /\ \/ (cli[c].op = "stop" => identityOK(cli[c].inst)) /\ Goto(c, "term")
       \/ cli[c].op = "stop" /\ Refuse(c)
    /\ UNCHANGED world

Reaches(c) == cli[c].fd # None /\ Running(cli[c].fd)
Hits(c) == hit' = IF cli[c].op = "stop" THEN hit \cup {cli[c].fd} ELSE hit

(* SIGTERM: the process closes its listener and begins to exit.            *)
SignalTerm(c) ==
    /\ cli[c].pc = "term" /\ Reaches(c)
    /\ alive' = [alive EXCEPT ![cli[c].fd] = "closing"]
    /\ Hits(c)
    /\ Goto(c, "grace")
    /\ UNCHANGED <<pidOf, registry, flock, scratch, reported, kills>>

(* Signal, or the 100 ms poll, says the process is gone.                   *)
AlreadyGone(c) ==
    /\ cli[c].pc \in {"term", "grace"} /\ ~Reaches(c)
    /\ Goto(c, "clean")
    /\ UNCHANGED world

(* Mutant of GraceExpired: gives up without SIGKILL.                       *)
GraceExpiredGivesUp(c) ==
    /\ cli[c].pc = "grace"
    /\ Goto(c, "clean")
    /\ UNCHANGED world

(* 30 s are over: verifyKill checks the start token only.                  *)
GraceExpired(c) ==
    /\ cli[c].pc = "grace"
    /\ IF cli[c].op = "stop" /\ ~StartIdentityOK(cli[c].inst)
       THEN Refuse(c) ELSE Goto(c, "kill")
    /\ UNCHANGED world

Kill(c) ==
    /\ cli[c].pc = "kill"
    /\ IF Reaches(c) THEN alive' = [alive EXCEPT ![cli[c].fd] = "gone"] /\ Hits(c)
                     ELSE UNCHANGED <<alive, hit>>
    /\ Goto(c, "clean")
    /\ UNCHANGED <<pidOf, registry, flock, scratch, reported, kills>>

(* Behind the termination: stop goes on to Remove, a teardown returns.     *)
CleanScratch(c) ==
    /\ cli[c].pc = "clean"
    /\ IF cli[c].op = "stop"
       THEN removeSplitDir(cli[c].inst.launch) /\ Goto(c, "lock")
       ELSE removeSplitDir(cli[c].launch) /\ Become(c, Idle)
    /\ UNCHANGED <<alive, pidOf, registry, flock, hit, kills>>

-----------------------------------------------------------------------------
(* The machine.                                                            *)
Loaded(p) ==
    /\ alive[p] = "loading"
    /\ alive' = [alive EXCEPT ![p] = "ready"]
    /\ UNCHANGED <<pidOf, registry, flock, scratch, reported, cli, hit, kills>>

(* A process exits and is reaped: its pid is free.                         *)
Exit(p) ==
    /\ Running(p)
    /\ alive' = [alive EXCEPT ![p] = "gone"]
    /\ UNCHANGED <<pidOf, registry, flock, scratch, reported, cli, hit, kills>>

ForeignStarts(p, pid) ==
    /\ p \in Foreign /\ alive[p] = "unborn" /\ Holder(pid) = {}
    /\ alive' = [alive EXCEPT ![p] = "ready"]
    /\ pidOf' = [pidOf EXCEPT ![p] = pid]
    /\ UNCHANGED <<registry, flock, scratch, reported, cli, hit, kills>>

(* kill -9 of a CLI: no defer runs, the kernel drops its flock.            *)
CliKilled(c) ==
    /\ cli[c].pc # "idle" /\ kills < MaxKills
    /\ kills' = kills + 1
    /\ Become(c, Idle)
    /\ Unlock(c)
    /\ alive' = [p \in Procs |-> IF cli[c].pc = "prepare" /\ p = cli[c].launch
                                 THEN "gone" ELSE alive[p]]
    /\ UNCHANGED <<pidOf, registry, scratch, reported, hit>>

(* What a CLI does by itself once an operation has begun.                  *)
Proceed(c) ==
    \/ PrepareFails(c) \/ (\E pid \in Pids : Spawn(c, pid))
    \/ WaitReady(c) \/ WaitFails(c) \/ ProcessStartToken(c)
    \/ withLock(c) \/ listLocked(c) \/ Add(c) \/ AddFails(c) \/ Remove(c) \/ RemoveFails(c)
    \/ StopCheck(c) \/ FindProcess(c) \/ verifyTerm(c) \/ SignalTerm(c) \/ AlreadyGone(c)
    \/ GraceExpired(c) \/ Kill(c) \/ CleanScratch(c)

Machine ==
    \/ \E p \in Procs : Loaded(p) \/ Exit(p)
    \/ \E p \in Foreign, pid \in Pids : ForeignStarts(p, pid)
    \/ \E c \in Clis : CliKilled(c)

Next ==
    \/ \E c \in Clis :
         \/ \E op \in {"serve", "run"}, i \in Ids \cup {None}, p \in Launches :
              StartLaunch(c, op, i, p)
         \/ \E i \in Ids : StopFind(c, i)
         \/ Interrupt(c) \/ Proceed(c)
    \/ Machine

Spec == Init /\ [][Next]_vars

-----------------------------------------------------------------------------
TypeOK ==
    /\ alive \in [Procs -> {"unborn", "loading", "ready", "closing", "gone"}]
    /\ pidOf \in [Procs -> Pids \cup {None}]
    /\ registry \in [Ids -> Instance \cup {None}]
    /\ flock \in Clis \cup {None}
    /\ scratch \subseteq Launches /\ reported \subseteq Launches
    /\ cli \in [Clis -> Frame]
    /\ hit \subseteq Procs
    /\ kills \in 0..MaxKills

(* "a stale registry entry or pid reuse can never make it kill the wrong   *)
(* process" (docs/get-started/concept-tour.md:112-114): a stop signals     *)
(* runtimes only, also when the pid is recycled between Find, the checks,  *)
(* the grace window and the signals.                                       *)
StopHitsOnlyRuntimes == hit \cap Foreign = {}

(* The scratch links outlive their runtime: no stop, failed launch or      *)
(* other launch removes the directory of a process that is running.        *)
RunningKeepsScratch == \A p \in Launches : Running(p) => p \in scratch

Owned(p) ==
    \/ \E c \in Clis : cli[c].launch = p
    \/ \E i \in Ids : registry[i] # None /\ registry[i].launch = p

(* Supervisor duty (002 section 4): unless a CLI was killed half-way, a    *)
(* running llama-server is in the registry or in the hands of a CLI; no    *)
(* error path, refused id or stop of another instance orphans one.         *)
RuntimeOwned == kills = 0 => \A p \in Launches : Running(p) => Owned(p)

(* The ownership model of the scratch dir (run.go:367-372, 450-451): every *)
(* path hands it on, removes it or says that it could not.                 *)
ScratchOwned == kills = 0 => \A p \in scratch : Owned(p) \/ p \in reported
=============================================================================
