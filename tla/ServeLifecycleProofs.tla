------------------------ MODULE ServeLifecycleProofs ------------------------
(***************************************************************************)
(* Proofs about module ServeLifecycle, for every number of shardr          *)
(* processes, ids, runtimes, foreign processes and pids: a stop signals    *)
(* nothing but the runtime it looked up, no running runtime loses its      *)
(* scratch links, and none is orphaned while stops do not overlap.         *)
(***************************************************************************)
EXTENDS ServeLifecycle, FiniteSetTheorems, TLAPS

(* The process has existed under a pid; from here on both are history.     *)
Born(p) == alive[p] # "unborn" /\ pidOf[p] # None
Gone(p) == alive[p] = "gone"

(* What a registry entry is worth: the pid is the launch's own.            *)
InstOK(in) == Born(in.launch) /\ in.pid = pidOf[in.launch]

PidUnique == \A p, q \in Procs : Running(p) /\ Running(q) /\ pidOf[p] = pidOf[q] => p = q

(* The runtime an operation is about to take down.                         *)
Target(c) == IF cli[c].op = "stop" THEN cli[c].inst.launch ELSE cli[c].launch

(* Which operation is at which step, and what it then owns.                *)
OwnInv(c) ==
    /\ (cli[c].pc = "idle") = (cli[c].op = "none")
    /\ cli[c].op \in {"none", "stop"} => cli[c].launch = None
    /\ cli[c].op \in {"serve", "run"} => cli[c].launch \in Launches
    /\ cli[c].op \in {"serve", "stop"} => cli[c].id \in Ids
    /\ cli[c].op = "stop" => cli[c].inst \in Instance
    /\ cli[c].pc \in {"prepare", "wait", "token", "fg"} => cli[c].op \in {"serve", "run"}
    /\ cli[c].pc = "token" => cli[c].op = "serve"
    /\ cli[c].pc = "check" => cli[c].op = "stop"
    /\ cli[c].pc = "prepare" => alive[cli[c].launch] = "unborn" /\ cli[c].launch \in scratch
    /\ cli[c].pc \notin {"idle", "prepare"} => Born(Target(c))

(* The registry transaction: under flock the view read is the registry.    *)
LockInv(c) ==
    /\ cli[c].pc \in {"lock", "read", "write"} =>
         /\ cli[c].op \in {"serve", "stop"} /\ cli[c].inst \in Instance
         /\ cli[c].op = "serve" => cli[c].inst.launch = cli[c].launch
    /\ cli[c].inst # None => InstOK(cli[c].inst)
    /\ cli[c].pc \in {"read", "write"} => flock = c
    /\ cli[c].pc = "write" => cli[c].view = registry

(* The handle: it names the target, unless the target is gone; behind the  *)
(* identity check of a stop it names the target.                           *)
FdInv(c) ==
    /\ cli[c].pc \in {"verify", "term", "grace", "kill"} =>
         cli[c].fd = Target(c) \/ Gone(Target(c))
    /\ cli[c].pc \in {"term", "grace", "kill"} /\ cli[c].op = "stop" => cli[c].fd = Target(c)
    /\ cli[c].pc = "clean" => Gone(Target(c))
    /\ cli[c].pc \in {"lock", "read", "write"} /\ cli[c].op = "stop" => Gone(Target(c))

CliInv(c) == OwnInv(c) /\ LockInv(c) /\ FdInv(c)

OneOwner == \A c, d \in Clis : cli[c].launch # None /\ cli[c].launch = cli[d].launch => c = d

IInv ==
    /\ TypeOK
    /\ PidUnique /\ OneOwner
    /\ \A i \in Ids : registry[i] # None => InstOK(registry[i])
    /\ \A c \in Clis : CliInv(c)
    /\ RunningKeepsScratch /\ StopHitsOnlyRuntimes

(* With one stop at a time the entry a stop found is the entry it removes. *)
StopInv(c) ==
    cli[c].op = "stop" =>
        /\ registry[cli[c].id] = cli[c].inst
        /\ cli[c].pc \in {"lock", "read", "write"} =>
             cli[c].inst.launch \notin scratch \/ cli[c].inst.launch \in reported

OInv ==
    /\ \A c, d \in Clis : cli[c].op = "stop" /\ cli[d].op = "stop" => c = d
    /\ \A c \in Clis : StopInv(c)
    /\ RuntimeOwned /\ ScratchOwned

BothInv == IInv /\ OInv

-----------------------------------------------------------------------------
LEMMA NoneFacts ==
    /\ None \notin Procs /\ None \notin Ids /\ None \notin Pids /\ None \notin Clis
    /\ None \notin Instance /\ None \notin Launches /\ Launches \subseteq Procs
    /\ Foreign \subseteq Procs
  BY ServeAssumption DEF Procs

LEMMA IdleFacts ==
    /\ Idle \in Frame /\ Idle.pc = "idle" /\ Idle.op = "none" /\ Idle.id = None
    /\ Idle.inst = None /\ Idle.launch = None /\ Idle.fd = None /\ Idle.view = None
  BY DEF Idle, Frame

Pcs == {"idle", "prepare", "wait", "token", "fg", "check", "find", "verify", "term",
        "grace", "kill", "clean", "lock", "read", "write"}

LEMMA GotoFacts ==
    ASSUME NEW r \in Frame, NEW step \in Pcs, NEW s, s = [r EXCEPT !.pc = step]
    PROVE  /\ s \in Frame /\ s.pc = step /\ s.op = r.op /\ s.id = r.id /\ s.inst = r.inst
           /\ s.launch = r.launch /\ s.fd = r.fd /\ s.view = r.view
  <1>1. s \in Frame
    BY DEF Frame, Pcs
  <1>2. s.pc = step
    BY DEF Frame
  <1>3. s.op = r.op /\ s.id = r.id /\ s.inst = r.inst
    BY DEF Frame
  <1>4. s.launch = r.launch /\ s.fd = r.fd /\ s.view = r.view
    BY DEF Frame
  <1> QED BY <1>1, <1>2, <1>3, <1>4

(* A step never takes back that a process was born, its pid or its death.  *)
Stable ==
    \A p \in Procs : alive[p] # "unborn" /\ pidOf[p] # None =>
        /\ alive'[p] # "unborn" /\ pidOf'[p] = pidOf[p]
        /\ alive[p] = "gone" => alive'[p] = "gone"

LEMMA TargetFacts ==
    ASSUME TypeOK, NEW c \in Clis, OwnInv(c), cli[c].pc # "idle"
    PROVE  Target(c) \in Launches /\ Target(c) \in Procs
  <1>1. cli[c] \in Frame
    BY DEF TypeOK
  <1>2. cli[c].op \in {"serve", "run", "stop"}
    BY <1>1 DEF OwnInv, Frame
  <1> QED BY <1>2, NoneFacts DEF OwnInv, Target, Instance

(* What another process does leaves a CLI's facts alone.                   *)
LEMMA OtherCli ==
    ASSUME TypeOK, NEW d \in Clis, CliInv(d), Stable, cli'[d] = cli[d],
           cli[d].pc = "prepare" =>
             alive'[cli[d].launch] = alive[cli[d].launch] /\ cli[d].launch \in scratch',
           flock = d => flock' = d /\ registry' = registry
    PROVE  CliInv(d)'
  <1>0. cli[d] \in Frame
    BY DEF TypeOK
  <1>1. Target(d)' = Target(d)
    BY DEF Target
  <1>2. cli[d].pc # "idle" => Target(d) \in Procs
    BY TargetFacts DEF CliInv
  <1>3. OwnInv(d)'
    BY <1>1, <1>2 DEF CliInv, OwnInv, Stable, Born
  <1>4. LockInv(d)'
    <2>1. cli[d].inst # None => cli[d].inst.launch \in Procs
      BY <1>0, NoneFacts DEF Frame, Instance
    <2> QED BY <2>1 DEF CliInv, LockInv, InstOK, Born, Stable
  <1>5. FdInv(d)'
    BY <1>1, <1>2 DEF CliInv, OwnInv, FdInv, Gone, Born, Stable
  <1> QED BY <1>3, <1>4, <1>5 DEF CliInv

(* A step of CLI c: what has to be shown of it.                            *)
LEMMA CliStep ==
    ASSUME IInv, NEW c \in Clis, NEW s \in Frame, Become(c, s), TypeOK', CliInv(c)',
           s.launch # None => \A d \in Clis \ {c} : cli[d].launch # s.launch,
           Stable, PidUnique', RunningKeepsScratch', StopHitsOnlyRuntimes',
           \A i \in Ids : registry'[i] # None => InstOK(registry'[i]),
           \A d \in Clis \ {c} :
             /\ cli[d].pc = "prepare" =>
                  /\ alive'[cli[d].launch] = alive[cli[d].launch]
                  /\ cli[d].launch \in scratch'
             /\ flock = d => flock' = d /\ registry' = registry
    PROVE  IInv'
  <1>1. cli'[c] = s /\ \A d \in Clis \ {c} : cli'[d] = cli[d]
    BY DEF Become, IInv, TypeOK
  <1>2. \A d \in Clis : CliInv(d)'
    BY <1>1, OtherCli DEF IInv
  <1>3. OneOwner'
    BY <1>1 DEF IInv, OneOwner
  <1>4. (\A i \in Ids : registry[i] # None => InstOK(registry[i]))'
    <2>1. ASSUME NEW i \in Ids, registry'[i] # None PROVE InstOK(registry[i])'
      <3>1. InstOK(registry'[i]) /\ registry'[i].launch \in Procs
        BY <2>1, NoneFacts DEF TypeOK, Instance
      <3> QED BY <3>1 DEF InstOK, Born, Stable
    <2> QED BY <2>1
  <1> QED BY <1>2, <1>3, <1>4 DEF IInv

(* A step of CLI c that only moves c on.                                   *)
LEMMA QuietStep ==
    ASSUME IInv, NEW c \in Clis, NEW s \in Frame, Become(c, s), CliInv(c)',
           s.launch \in {None, cli[c].launch}, UNCHANGED world
    PROVE  IInv'
  <1>1. TypeOK'
    BY DEF IInv, TypeOK, world, Become
  <1>2. Stable /\ PidUnique' /\ RunningKeepsScratch' /\ StopHitsOnlyRuntimes'
    BY DEF IInv, Stable, PidUnique, RunningKeepsScratch, StopHitsOnlyRuntimes, Running, world
  <1>3. s.launch # None => \A d \in Clis \ {c} : cli[d].launch # s.launch
    BY DEF IInv, OneOwner
  <1>4. \A i \in Ids : registry'[i] # None => InstOK(registry'[i])
    BY DEF IInv, world
  <1>5. \A d \in Clis \ {c} :
             /\ cli[d].pc = "prepare" =>
                  /\ alive'[cli[d].launch] = alive[cli[d].launch]
                  /\ cli[d].launch \in scratch'
             /\ flock = d => flock' = d /\ registry' = registry
    BY DEF IInv, CliInv, OwnInv, world
  <1> QED BY <1>1, <1>2, <1>3, <1>4, <1>5, CliStep

LEMMA InitIInv == Init => IInv
  <1> SUFFICES ASSUME Init PROVE IInv OBVIOUS
  <1>1. TypeOK
    BY IdleFacts, ServeAssumption DEF Init, TypeOK
  <1>2. \A c \in Clis : CliInv(c)
    BY IdleFacts DEF Init, CliInv, OwnInv, LockInv, FdInv
  <1>3. PidUnique /\ OneOwner /\ RunningKeepsScratch /\ StopHitsOnlyRuntimes
    BY IdleFacts, NoneFacts DEF Init, PidUnique, OneOwner, RunningKeepsScratch, Running,
       StopHitsOnlyRuntimes
  <1> QED BY <1>1, <1>2, <1>3 DEF IInv, Init

-----------------------------------------------------------------------------
(* Moving on without touching the world.                                   *)
LEMMA MoveFacts ==
    ASSUME IInv, NEW c \in Clis, NEW step \in Pcs, Goto(c, step)
    PROVE  /\ cli'[c] \in Frame /\ Become(c, cli'[c]) /\ cli'[c].pc = step
           /\ cli'[c].op = cli[c].op /\ cli'[c].id = cli[c].id /\ cli'[c].inst = cli[c].inst
           /\ cli'[c].launch = cli[c].launch /\ cli'[c].fd = cli[c].fd
           /\ cli'[c].view = cli[c].view
  <1> DEFINE s == [cli[c] EXCEPT !.pc = step]
  <1>1. cli[c] \in Frame /\ cli'[c] = s /\ cli' = [cli EXCEPT ![c] = cli'[c]]
    BY DEF IInv, TypeOK, Goto, Become
  <1> HIDE DEF s
  <1>2. /\ s \in Frame /\ s.pc = step /\ s.op = cli[c].op /\ s.id = cli[c].id
        /\ s.inst = cli[c].inst /\ s.launch = cli[c].launch /\ s.fd = cli[c].fd
        /\ s.view = cli[c].view
    BY <1>1, GotoFacts DEF s
  <1> QED BY <1>1, <1>2 DEF Become

(* A CLI that is done owes nothing.                                        *)
LEMMA DoneFacts ==
    ASSUME IInv, NEW c \in Clis, Become(c, Idle)
    PROVE  cli'[c] = Idle /\ CliInv(c)' /\ Idle.launch = None
  <1>1. cli'[c] = Idle
    BY DEF IInv, TypeOK, Become
  <1> QED BY <1>1, IdleFacts DEF CliInv, OwnInv, LockInv, FdInv

LEMMA RefuseStep ==
    ASSUME IInv, NEW c \in Clis, Refuse(c), UNCHANGED world PROVE IInv'
  BY DoneFacts, IdleFacts, QuietStep DEF Refuse

LEMMA MoveStep ==
    ASSUME IInv, NEW c \in Clis, NEW step \in Pcs, Goto(c, step), UNCHANGED world, CliInv(c)'
    PROVE  IInv'
  BY MoveFacts, QuietStep

LEMMA WaitStep ==
    ASSUME IInv, NEW c \in Clis, WaitReady(c) \/ WaitFails(c) \/ Interrupt(c) PROVE IInv'
  <1>1. PICK step \in {"token", "fg", "find"} :
          Goto(c, step) /\ (step = "token" => cli[c].op = "serve")
    BY DEF WaitReady, WaitFails, Interrupt
  <1>2. /\ UNCHANGED world /\ CliInv(c) /\ cli[c].pc \in {"wait", "fg"} /\ step \in Pcs
        /\ cli[c].op \in {"serve", "run"}
    BY DEF IInv, WaitReady, WaitFails, Interrupt, Pcs, CliInv, OwnInv
  <1>3. /\ cli'[c].pc = step /\ cli'[c].op = cli[c].op /\ cli'[c].id = cli[c].id
        /\ cli'[c].inst = cli[c].inst /\ cli'[c].launch = cli[c].launch
    BY <1>1, <1>2, MoveFacts
  <1>4. CliInv(c)'
    BY <1>1, <1>2, <1>3 DEF CliInv, OwnInv, LockInv, FdInv, Target, InstOK, Born, world
  <1> QED BY <1>1, <1>2, <1>4, MoveStep

LEMMA StopCheckStep ==
    ASSUME IInv, NEW c \in Clis, StopCheck(c) PROVE IInv'
  <1>1. CASE Refuse(c)
    BY <1>1, RefuseStep DEF StopCheck
  <1>2. CASE Goto(c, "find")
    <2>1. /\ UNCHANGED world /\ CliInv(c) /\ cli[c].pc = "check" /\ "find" \in Pcs
      BY DEF IInv, StopCheck, Pcs
    <2>2. /\ cli'[c].pc = "find" /\ cli'[c].op = cli[c].op /\ cli'[c].id = cli[c].id
          /\ cli'[c].inst = cli[c].inst /\ cli'[c].launch = cli[c].launch
      BY <1>2, <2>1, MoveFacts
    <2>3. CliInv(c)'
      BY <2>1, <2>2 DEF CliInv, OwnInv, LockInv, FdInv, Target, InstOK, Born, world
    <2> QED BY <1>2, <2>1, <2>3, MoveStep
  <1> QED BY <1>1, <1>2 DEF StopCheck

(* A running target is the one process that has its pid.                   *)
LEMMA HolderFacts ==
    ASSUME IInv, NEW p \in Procs
    PROVE  /\ Running(p) => Holder(pidOf[p]) = {p}
           /\ Born(p) /\ ~Running(p) => Gone(p)
           /\ Gone(p) => ~Running(p)
  <1>1. Running(p) => Holder(pidOf[p]) = {p}
    BY DEF IInv, PidUnique, Holder
  <1>2. alive[p] \in {"unborn", "loading", "ready", "closing", "gone"}
    BY DEF IInv, TypeOK
  <1> QED BY <1>1, <1>2 DEF Running, Born, Gone

LEMMA FindProcessStep ==
    ASSUME IInv, NEW c \in Clis, FindProcess(c) PROVE IInv'
  <1>0. /\ UNCHANGED world /\ CliInv(c) /\ cli[c].pc = "find" /\ cli[c] \in Frame
        /\ Target(c) \in Procs /\ Born(Target(c))
    BY TargetFacts DEF IInv, TypeOK, FindProcess, CliInv, OwnInv
  <1>1. TargetPid(c) = pidOf[Target(c)]
    BY <1>0, NoneFacts DEF TargetPid, Target, CliInv, OwnInv, LockInv, InstOK
  <1>2. PICK p \in Procs \cup {None} :
          /\ Become(c, [cli[c] EXCEPT !.pc = "verify", !.fd = p])
          /\ p = Target(c) \/ Gone(Target(c))
    <2>1. PICK p \in IF Holder(TargetPid(c)) = {} THEN {None} ELSE Holder(TargetPid(c)) :
            Become(c, [cli[c] EXCEPT !.pc = "verify", !.fd = p])
      BY DEF FindProcess
    <2>2. p \in Procs \cup {None}
      BY <2>1 DEF Holder
    <2>3. p = Target(c) \/ Gone(Target(c))
      BY <1>0, <1>1, <2>1, HolderFacts
    <2> QED BY <2>1, <2>2, <2>3
  <1> DEFINE s == [cli[c] EXCEPT !.pc = "verify", !.fd = p]
  <1>3. /\ s \in Frame /\ s.pc = "verify" /\ s.fd = p /\ s.op = cli[c].op
        /\ s.inst = cli[c].inst /\ s.launch = cli[c].launch /\ s.id = cli[c].id
    BY <1>0 DEF Frame
  <1>4. cli'[c] = s /\ Become(c, s)
    BY <1>2 DEF Become, IInv, TypeOK
  <1> HIDE DEF s
  <1>5. CliInv(c)'
    BY <1>0, <1>2, <1>3, <1>4
       DEF CliInv, OwnInv, LockInv, FdInv, Target, InstOK, Born, Gone, world
  <1> QED BY <1>0, <1>3, <1>4, <1>5, QuietStep

(* The identity guard of a stop: a ready target was there when the handle  *)
(* was opened, so the handle is its own.                                   *)
LEMMA VerifyStep ==
    ASSUME IInv, NEW c \in Clis, verifyTerm(c) PROVE IInv'
  <1>1. CASE Refuse(c)
    BY <1>1, RefuseStep DEF verifyTerm
  <1>2. CASE Goto(c, "term") /\ (cli[c].op = "stop" => identityOK(cli[c].inst))
    <2>1. /\ UNCHANGED world /\ CliInv(c) /\ cli[c].pc = "verify" /\ "term" \in Pcs
      BY DEF IInv, verifyTerm, Pcs
    <2>2. /\ cli'[c].pc = "term" /\ cli'[c].op = cli[c].op /\ cli'[c].id = cli[c].id
          /\ cli'[c].inst = cli[c].inst /\ cli'[c].launch = cli[c].launch
          /\ cli'[c].fd = cli[c].fd
      BY <1>2, <2>1, MoveFacts
    <2>3. cli[c].op = "stop" => cli[c].fd = Target(c)
      BY <1>2, <2>1 DEF identityOK, CliInv, FdInv, Gone, Target
    <2>4. CliInv(c)'
      BY <2>1, <2>2, <2>3
         DEF CliInv, OwnInv, LockInv, FdInv, Target, InstOK, Born, Gone, world
    <2> QED BY <1>2, <2>1, <2>4, MoveStep
  <1> QED BY <1>1, <1>2 DEF verifyTerm

LEMMA GoneStep ==
    ASSUME IInv, NEW c \in Clis, AlreadyGone(c) PROVE IInv'
  <1>1. /\ UNCHANGED world /\ CliInv(c) /\ cli[c].pc \in {"term", "grace"} /\ "clean" \in Pcs
        /\ Goto(c, "clean") /\ Target(c) \in Procs /\ Born(Target(c))
    BY TargetFacts DEF IInv, AlreadyGone, Pcs, CliInv, OwnInv
  <1>2. /\ cli'[c].pc = "clean" /\ cli'[c].op = cli[c].op /\ cli'[c].id = cli[c].id
        /\ cli'[c].inst = cli[c].inst /\ cli'[c].launch = cli[c].launch
    BY <1>1, MoveFacts
  <1>3. Gone(Target(c))
    BY <1>1, HolderFacts, NoneFacts DEF AlreadyGone, Reaches, CliInv, FdInv
  <1>4. CliInv(c)'
    BY <1>1, <1>2, <1>3 DEF CliInv, OwnInv, LockInv, FdInv, Target, InstOK, Born, Gone, world
  <1> QED BY <1>1, <1>4, MoveStep

LEMMA GraceStep ==
    ASSUME IInv, NEW c \in Clis, GraceExpired(c) PROVE IInv'
  <1>1. CASE Refuse(c)
    BY <1>1, RefuseStep DEF GraceExpired
  <1>2. CASE Goto(c, "kill")
    <2>1. /\ UNCHANGED world /\ CliInv(c) /\ cli[c].pc = "grace" /\ "kill" \in Pcs
      BY DEF IInv, GraceExpired, Pcs
    <2>2. /\ cli'[c].pc = "kill" /\ cli'[c].op = cli[c].op /\ cli'[c].id = cli[c].id
          /\ cli'[c].inst = cli[c].inst /\ cli'[c].launch = cli[c].launch
          /\ cli'[c].fd = cli[c].fd
      BY <1>2, <2>1, MoveFacts
    <2>3. CliInv(c)'
      BY <2>1, <2>2 DEF CliInv, OwnInv, LockInv, FdInv, Target, InstOK, Born, Gone, world
    <2> QED BY <1>2, <2>1, <2>3, MoveStep
  <1> QED BY <1>1, <1>2 DEF GraceExpired

(* The token may be another process's, the pid recorded is the launch's.   *)
LEMMA TokenStep ==
    ASSUME IInv, NEW c \in Clis, ProcessStartToken(c) PROVE IInv'
  <1> DEFINE l == cli[c].launch
             pid == pidOf[l]
  <1>0. /\ UNCHANGED world /\ CliInv(c) /\ cli[c].pc = "token" /\ cli[c] \in Frame
        /\ cli[c].op = "serve" /\ l \in Launches /\ l \in Procs /\ Born(l)
    BY NoneFacts DEF IInv, TypeOK, ProcessStartToken, CliInv, OwnInv, Target
  <1>1. CASE Goto(c, "find")
    <2>1. "find" \in Pcs
      BY DEF Pcs
    <2>2. /\ cli'[c].pc = "find" /\ cli'[c].op = cli[c].op /\ cli'[c].id = cli[c].id
          /\ cli'[c].inst = cli[c].inst /\ cli'[c].launch = cli[c].launch
      BY <1>1, <2>1, MoveFacts
    <2>3. CliInv(c)'
      BY <1>0, <2>2 DEF CliInv, OwnInv, LockInv, FdInv, Target, InstOK, Born, world
    <2> QED BY <1>0, <1>1, <2>1, <2>3, MoveStep
  <1>2. ASSUME NEW p \in Holder(pid),
               Become(c, [cli[c] EXCEPT !.pc = "lock",
                            !.inst = [pid |-> pid, token |-> p, launch |-> l]])
        PROVE  IInv'
    <2> DEFINE in == [pid |-> pid, token |-> p, launch |-> l]
               s == [cli[c] EXCEPT !.pc = "lock", !.inst = in]
    <2>1. p \in Procs /\ pid \in Pids
      BY <1>0 DEF Holder, Born, IInv, TypeOK
    <2>2. in \in Instance /\ in.launch = l /\ in.pid = pid
      BY <1>0, <2>1 DEF Instance
    <2> HIDE DEF in
    <2>3. /\ s \in Frame /\ s.pc = "lock" /\ s.inst = in /\ s.op = cli[c].op
          /\ s.launch = cli[c].launch /\ s.id = cli[c].id
      BY <1>0, <2>2 DEF Frame
    <2>4. cli'[c] = s /\ Become(c, s)
      <3>1. Become(c, s)
        BY <1>2 DEF in
      <3> QED BY <3>1 DEF Become, IInv, TypeOK
    <2> HIDE DEF s
    <2>5. CliInv(c)'
      BY <1>0, <2>2, <2>3, <2>4 DEF CliInv, OwnInv, LockInv, FdInv, Target, InstOK, Born, world
    <2> QED BY <1>0, <2>3, <2>4, <2>5, QuietStep
  <1> QED BY <1>1, <1>2 DEF ProcessStartToken

LEMMA StopFindStep ==
    ASSUME IInv, NEW c \in Clis, NEW i \in Ids, StopFind(c, i) PROVE IInv'
  <1> DEFINE in == registry[i]
             s == [Idle EXCEPT !.pc = "check", !.op = "stop", !.id = i, !.inst = in]
  <1>1. in \in Instance /\ InstOK(in) /\ UNCHANGED world
    BY DEF IInv, TypeOK, StopFind
  <1> HIDE DEF in
  <1>2. s.pc = "check" /\ s.op = "stop" /\ s.id = i /\ s.inst = in /\ s.launch = None
    BY DEF Idle
  <1>3. s \in Frame
    <2> DEFINE r == [Idle EXCEPT !.pc = "check", !.op = "stop"]
    <2>1. r \in Frame
      BY IdleFacts DEF Frame
    <2>2. s = [r EXCEPT !.id = i, !.inst = in]
      BY DEF Idle
    <2> HIDE DEF r, s
    <2> QED BY <1>1, <2>1, <2>2 DEF Frame
  <1>4. cli'[c] = s /\ Become(c, s)
    BY DEF StopFind, Become, IInv, TypeOK, in
  <1> HIDE DEF s
  <1>5. CliInv(c)'
    BY <1>1, <1>2, <1>4 DEF CliInv, OwnInv, LockInv, FdInv, Target, InstOK, Born, world
  <1> QED BY <1>1, <1>2, <1>3, <1>4, <1>5, QuietStep

LEMMA ListStep ==
    ASSUME IInv, NEW c \in Clis, listLocked(c) PROVE IInv'
  <1> DEFINE s == [cli[c] EXCEPT !.pc = "write", !.view = registry]
  <1>0. /\ UNCHANGED world /\ CliInv(c) /\ cli[c].pc = "read" /\ cli[c] \in Frame
        /\ registry \in [Ids -> Instance \cup {None}]
    BY DEF IInv, TypeOK, listLocked
  <1>1. /\ s \in Frame /\ s.pc = "write" /\ s.view = registry /\ s.op = cli[c].op
        /\ s.inst = cli[c].inst /\ s.launch = cli[c].launch /\ s.id = cli[c].id
    BY <1>0 DEF Frame
  <1>2. cli'[c] = s /\ Become(c, s)
    BY DEF listLocked, Become, IInv, TypeOK
  <1> HIDE DEF s
  <1>3. CliInv(c)'
    BY <1>0, <1>1, <1>2 DEF CliInv, OwnInv, LockInv, FdInv, Target, InstOK, Born, Gone, world
  <1> QED BY <1>0, <1>1, <1>2, <1>3, QuietStep

-----------------------------------------------------------------------------
(* Steps on the lock and the registry: processes and scratch stay.         *)
LEMMA RegistryStep ==
    ASSUME IInv, NEW c \in Clis, NEW s \in Frame, Become(c, s), CliInv(c)',
           s.launch \in {None, cli[c].launch},
           UNCHANGED <<alive, pidOf, scratch, reported, hit, kills>>,
           flock' \in Clis \cup {None}, registry' \in [Ids -> Instance \cup {None}],
           \A i \in Ids : registry'[i] # None => InstOK(registry'[i]),
           \A d \in Clis \ {c} : flock = d => flock' = d /\ registry' = registry
    PROVE  IInv'
  <1>1. TypeOK'
    BY DEF IInv, TypeOK, Become
  <1>2. Stable /\ PidUnique' /\ RunningKeepsScratch' /\ StopHitsOnlyRuntimes'
    BY DEF IInv, Stable, PidUnique, RunningKeepsScratch, StopHitsOnlyRuntimes, Running
  <1>3. s.launch # None => \A d \in Clis \ {c} : cli[d].launch # s.launch
    BY DEF IInv, OneOwner
  <1>4. \A d \in Clis \ {c} :
             /\ cli[d].pc = "prepare" =>
                  /\ alive'[cli[d].launch] = alive[cli[d].launch]
                  /\ cli[d].launch \in scratch'
             /\ flock = d => flock' = d /\ registry' = registry
    BY DEF IInv, CliInv, OwnInv
  <1> QED BY <1>1, <1>2, <1>3, <1>4, CliStep

LEMMA withLockStep ==
    ASSUME IInv, NEW c \in Clis, withLock(c) PROVE IInv'
  <1>1. /\ CliInv(c) /\ cli[c].pc = "lock" /\ "read" \in Pcs /\ Goto(c, "read")
        /\ flock = None /\ flock' = c
        /\ UNCHANGED <<alive, pidOf, registry, scratch, reported, hit, kills>>
    BY DEF IInv, withLock, Pcs
  <1>2. /\ cli'[c].pc = "read" /\ cli'[c].op = cli[c].op /\ cli'[c].id = cli[c].id
        /\ cli'[c].inst = cli[c].inst /\ cli'[c].launch = cli[c].launch
        /\ cli'[c] \in Frame /\ Become(c, cli'[c])
    BY <1>1, MoveFacts
  <1>3. CliInv(c)'
    BY <1>1, <1>2 DEF CliInv, OwnInv, LockInv, FdInv, Target, InstOK, Born, Gone
  <1>4. /\ registry' \in [Ids -> Instance \cup {None}]
        /\ \A i \in Ids : registry'[i] # None => InstOK(registry'[i])
    BY <1>1 DEF IInv, TypeOK
  <1> QED BY <1>1, <1>2, <1>3, <1>4, NoneFacts, RegistryStep

LEMMA UnlockFacts ==
    ASSUME IInv, NEW c \in Clis, Unlock(c)
    PROVE  /\ flock' \in Clis \cup {None}
           /\ \A d \in Clis \ {c} : flock = d => flock' = d
  BY DEF Unlock, IInv, TypeOK

LEMMA EntriesKept ==
    ASSUME IInv, registry' = registry
    PROVE  /\ registry' \in [Ids -> Instance \cup {None}]
           /\ \A i \in Ids : registry'[i] # None => InstOK(registry'[i])
  BY DEF IInv, TypeOK

(* The transaction holds flock, so it alone changes what it has read.      *)
LEMMA WriteStep ==
    ASSUME IInv, NEW c \in Clis, Add(c) \/ Remove(c) \/ RemoveFails(c) PROVE IInv'
  <1>0. /\ CliInv(c) /\ cli[c].pc = "write" /\ cli[c].view = registry /\ flock = c
        /\ cli[c].id \in Ids /\ cli[c].inst \in Instance /\ InstOK(cli[c].inst)
        /\ Become(c, Idle) /\ Unlock(c) /\ UNCHANGED <<alive, pidOf, scratch, reported, hit, kills>>
    BY NoneFacts DEF IInv, Add, Remove, RemoveFails, CliInv, OwnInv, LockInv
  <1>1. PICK v \in {None, cli[c].inst} :
          registry' = registry \/ registry' = [registry EXCEPT ![cli[c].id] = v]
    BY <1>0 DEF Add, Remove, RemoveFails
  <1>2. v \in Instance \cup {None} /\ (v # None => InstOK(v))
    BY <1>0, <1>1
  <1>3. /\ registry' \in [Ids -> Instance \cup {None}]
        /\ \A i \in Ids : registry'[i] # None => InstOK(registry'[i])
    <2>1. CASE registry' = registry
      BY <2>1, EntriesKept
    <2>2. CASE registry' = [registry EXCEPT ![cli[c].id] = v]
      BY <1>0, <1>2, <2>2 DEF IInv, TypeOK
    <2> QED BY <1>1, <2>1, <2>2
  <1> QED BY <1>0, <1>3, DoneFacts, IdleFacts, UnlockFacts, RegistryStep

LEMMA AddFailsStep ==
    ASSUME IInv, NEW c \in Clis, AddFails(c) PROVE IInv'
  <1> DEFINE s == [cli[c] EXCEPT !.pc = "find", !.view = None]
  <1>0. /\ CliInv(c) /\ cli[c].pc = "write" /\ cli[c] \in Frame /\ cli[c].op = "serve"
        /\ flock = c /\ Unlock(c)
        /\ UNCHANGED <<alive, pidOf, registry, scratch, reported, hit, kills>>
    BY DEF IInv, TypeOK, AddFails, CliInv, LockInv
  <1>1. /\ s \in Frame /\ s.pc = "find" /\ s.op = cli[c].op
        /\ s.inst = cli[c].inst /\ s.launch = cli[c].launch /\ s.id = cli[c].id
    BY <1>0 DEF Frame
  <1>2. cli'[c] = s /\ Become(c, s)
    BY DEF AddFails, Become, IInv, TypeOK
  <1> HIDE DEF s
  <1>3. CliInv(c)'
    BY <1>0, <1>1, <1>2 DEF CliInv, OwnInv, LockInv, FdInv, Target, InstOK, Born
  <1> QED BY <1>0, <1>1, <1>2, <1>3, EntriesKept, UnlockFacts, RegistryStep

-----------------------------------------------------------------------------
(* Processes: a running one moves on, or any one is gone.                  *)
LEMMA AliveFacts ==
    ASSUME IInv, NEW p \in Procs, NEW v \in {"ready", "closing", "gone"},
           alive' = [alive EXCEPT ![p] = v], pidOf' = pidOf, Running(p) \/ v = "gone"
    PROVE  /\ Stable /\ PidUnique'
           /\ alive' \in [Procs -> {"unborn", "loading", "ready", "closing", "gone"}]
           /\ pidOf' \in [Procs -> Pids \cup {None}]
           /\ alive'[p] = v /\ \A q \in Procs \ {p} : alive'[q] = alive[q]
           /\ \A q \in Procs : Running(q)' => Running(q)
  <1>0. alive \in [Procs -> {"unborn", "loading", "ready", "closing", "gone"}]
    BY DEF IInv, TypeOK
  <1>1. /\ alive' \in [Procs -> {"unborn", "loading", "ready", "closing", "gone"}]
        /\ alive'[p] = v /\ \A q \in Procs \ {p} : alive'[q] = alive[q]
    BY <1>0
  <1>2. \A q \in Procs : Running(q)' => Running(q)
    BY <1>1 DEF Running
  <1>3. Stable
    BY <1>1 DEF Stable, Running
  <1>4. PidUnique'
    BY <1>2 DEF IInv, PidUnique
  <1> QED BY <1>1, <1>2, <1>3, <1>4 DEF IInv, TypeOK

(* One is born, under a pid nobody has.                                    *)
LEMMA BirthFacts ==
    ASSUME IInv, NEW p \in Procs, NEW v \in {"loading", "ready"}, NEW pid \in Pids,
           alive[p] = "unborn", Holder(pid) = {},
           alive' = [alive EXCEPT ![p] = v], pidOf' = [pidOf EXCEPT ![p] = pid]
    PROVE  /\ Stable /\ PidUnique'
           /\ alive' \in [Procs -> {"unborn", "loading", "ready", "closing", "gone"}]
           /\ pidOf' \in [Procs -> Pids \cup {None}]
           /\ alive'[p] = v /\ pidOf'[p] = pid
           /\ \A q \in Procs \ {p} : alive'[q] = alive[q] /\ pidOf'[q] = pidOf[q]
  <1>0. /\ alive \in [Procs -> {"unborn", "loading", "ready", "closing", "gone"}]
        /\ pidOf \in [Procs -> Pids \cup {None}]
    BY DEF IInv, TypeOK
  <1>1. /\ alive' \in [Procs -> {"unborn", "loading", "ready", "closing", "gone"}]
        /\ pidOf' \in [Procs -> Pids \cup {None}] /\ alive'[p] = v /\ pidOf'[p] = pid
        /\ \A q \in Procs \ {p} : alive'[q] = alive[q] /\ pidOf'[q] = pidOf[q]
    BY <1>0
  <1>2. Stable
    BY <1>1 DEF Stable
  <1>3. PidUnique'
    <2>1. \A q \in Procs \ {p} : Running(q)' = Running(q) /\ (Running(q) => pidOf'[q] # pid)
      BY <1>1 DEF Running, Holder
    <2> QED BY <1>1, <2>1 DEF IInv, PidUnique
  <1> QED BY <1>1, <1>2, <1>3

(* A step of the machine alone.                                            *)
LEMMA MachineStep ==
    ASSUME IInv, UNCHANGED <<registry, flock, scratch, reported, cli, hit, kills>>,
           alive' \in [Procs -> {"unborn", "loading", "ready", "closing", "gone"}],
           pidOf' \in [Procs -> Pids \cup {None}], Stable, PidUnique',
           \A p \in Launches : alive[p] = "unborn" => alive'[p] = "unborn",
           \A p \in Launches : Running(p)' => Running(p)
    PROVE  IInv'
  <1>1. TypeOK'
    BY DEF IInv, TypeOK
  <1>2. RunningKeepsScratch' /\ StopHitsOnlyRuntimes' /\ OneOwner'
    BY DEF IInv, RunningKeepsScratch, StopHitsOnlyRuntimes, OneOwner
  <1>3. ASSUME NEW d \in Clis PROVE CliInv(d)'
    <2>1. /\ CliInv(d) /\ TypeOK /\ cli'[d] = cli[d] /\ flock' = flock /\ registry' = registry
          /\ cli[d].pc = "prepare" =>
               alive'[cli[d].launch] = alive[cli[d].launch] /\ cli[d].launch \in scratch'
      BY DEF IInv, CliInv, OwnInv
    <2> QED BY <2>1, OtherCli
  <1>4. (\A i \in Ids : registry[i] # None => InstOK(registry[i]))'
    <2>1. ASSUME NEW i \in Ids, registry[i] # None PROVE InstOK(registry[i])'
      <3>1. InstOK(registry[i]) /\ registry[i].launch \in Procs
        BY <2>1, NoneFacts DEF IInv, TypeOK, Instance
      <3> QED BY <3>1 DEF InstOK, Born, Stable
    <2> QED BY <2>1
  <1> QED BY <1>1, <1>2, <1>3, <1>4 DEF IInv

LEMMA LoadedExitStep ==
    ASSUME IInv, NEW p \in Procs, Loaded(p) \/ Exit(p) PROVE IInv'
  <1>1. PICK v \in {"ready", "gone"} : alive' = [alive EXCEPT ![p] = v]
    BY DEF Loaded, Exit
  <1>2. /\ v \in {"ready", "closing", "gone"} /\ Running(p) /\ pidOf' = pidOf
        /\ UNCHANGED <<registry, flock, scratch, reported, cli, hit, kills>>
    BY DEF Loaded, Exit, Running
  <1>3. /\ Stable /\ PidUnique'
        /\ alive' \in [Procs -> {"unborn", "loading", "ready", "closing", "gone"}]
        /\ pidOf' \in [Procs -> Pids \cup {None}]
        /\ \A q \in Procs \ {p} : alive'[q] = alive[q]
        /\ \A q \in Procs : Running(q)' => Running(q)
    BY <1>1, <1>2, AliveFacts
  <1>4. \A q \in Launches : alive[q] = "unborn" => alive'[q] = "unborn"
    BY <1>2, <1>3, NoneFacts DEF Running
  <1> QED BY <1>2, <1>3, <1>4, NoneFacts, MachineStep

LEMMA ForeignStep ==
    ASSUME IInv, NEW p \in Foreign, NEW pid \in Pids, ForeignStarts(p, pid) PROVE IInv'
  <1>1. p \in Procs /\ p \notin Launches
    BY NoneFacts, ServeAssumption
  <1>2. /\ Stable /\ PidUnique'
        /\ alive' \in [Procs -> {"unborn", "loading", "ready", "closing", "gone"}]
        /\ pidOf' \in [Procs -> Pids \cup {None}]
        /\ \A q \in Procs \ {p} : alive'[q] = alive[q]
    BY <1>1, BirthFacts DEF ForeignStarts
  <1>3. \A q \in Launches : alive'[q] = alive[q]
    BY <1>1, <1>2, NoneFacts
  <1> QED BY <1>2, <1>3, MachineStep DEF ForeignStarts, Running

(* kill -9: the launch being prepared never runs, its scratch dir stays.   *)
LEMMA KilledStep ==
    ASSUME IInv, NEW c \in Clis, CliKilled(c) PROVE IInv'
  <1> DEFINE l == cli[c].launch
  <1>0. alive \in [Procs -> {"unborn", "loading", "ready", "closing", "gone"}] /\ CliInv(c)
    BY DEF IInv, TypeOK
  <1>1. /\ Unlock(c) /\ Become(c, Idle) /\ pidOf' = pidOf
        /\ UNCHANGED <<registry, scratch, reported, hit>>
        /\ \A p \in Procs : alive'[p] = IF cli[c].pc = "prepare" /\ p = l THEN "gone" ELSE alive[p]
        /\ alive' \in [Procs -> {"unborn", "loading", "ready", "closing", "gone"}]
    BY <1>0 DEF CliKilled
  <1>2. kills' \in 0..MaxKills
    BY ServeAssumption DEF CliKilled, IInv, TypeOK
  <1>3. TypeOK'
    BY <1>1, <1>2, UnlockFacts, IdleFacts DEF IInv, TypeOK, Become
  <1>4. \A q \in Procs : Running(q)' => Running(q)
    BY <1>1 DEF Running
  <1>5. Stable /\ PidUnique' /\ RunningKeepsScratch' /\ StopHitsOnlyRuntimes'
    <2>1. Stable
      BY <1>1 DEF Stable
    <2>2. PidUnique'
      BY <1>1, <1>4 DEF IInv, PidUnique
    <2>3. RunningKeepsScratch'
      BY <1>1, <1>4, NoneFacts DEF IInv, RunningKeepsScratch
    <2> QED BY <1>1, <2>1, <2>2, <2>3 DEF IInv, StopHitsOnlyRuntimes
  <1>6. ASSUME NEW d \in Clis \ {c}, cli[d].pc = "prepare"
        PROVE  alive'[cli[d].launch] = alive[cli[d].launch] /\ cli[d].launch \in scratch'
    <2>1. cli[d].launch \in Launches /\ cli[d].launch \in scratch /\ cli[d].launch # l
      BY <1>6, NoneFacts DEF IInv, CliInv, OwnInv, OneOwner
    <2> QED BY <1>1, <2>1, NoneFacts
  <1> QED BY <1>1, <1>3, <1>5, <1>6, DoneFacts, IdleFacts, UnlockFacts, EntriesKept, CliStep

-----------------------------------------------------------------------------
(* The scratch directory.                                                  *)
LEMMA StartLaunchStep ==
    ASSUME IInv, NEW c \in Clis, NEW op \in {"serve", "run"}, NEW i \in Ids \cup {None},
           NEW p \in Launches, StartLaunch(c, op, i, p)
    PROVE  IInv'
  <1> DEFINE s == [Idle EXCEPT !.pc = "prepare", !.op = op, !.id = i, !.launch = p]
  <1>1. s.pc = "prepare" /\ s.op = op /\ s.id = i /\ s.launch = p /\ s.inst = None
    BY DEF Idle
  <1>2. s \in Frame
    <2> DEFINE r == [Idle EXCEPT !.pc = "prepare", !.op = op]
    <2>1. r \in Frame
      BY IdleFacts DEF Frame
    <2>2. s = [r EXCEPT !.id = i, !.launch = p]
      BY DEF Idle
    <2> HIDE DEF r, s
    <2> QED BY <2>1, <2>2 DEF Frame
  <1>3. cli'[c] = s /\ Become(c, s)
    BY DEF StartLaunch, Become, IInv, TypeOK
  <1> HIDE DEF s
  <1>4. /\ scratch' = scratch \cup {p} /\ alive[p] = "unborn" /\ (op = "serve" => i \in Ids)
        /\ UNCHANGED <<alive, pidOf, registry, flock, reported, hit, kills>>
    BY DEF StartLaunch
  <1>5. CliInv(c)'
    BY <1>1, <1>3, <1>4, NoneFacts DEF CliInv, OwnInv, LockInv, FdInv
  <1>6. TypeOK'
    BY <1>2, <1>3, <1>4 DEF IInv, TypeOK, Become
  <1>7. Stable /\ PidUnique' /\ RunningKeepsScratch' /\ StopHitsOnlyRuntimes'
    BY <1>4 DEF IInv, Stable, PidUnique, RunningKeepsScratch, StopHitsOnlyRuntimes, Running
  <1>8. \A d \in Clis : cli[d].launch # s.launch
    BY <1>1 DEF StartLaunch
  <1>9. \A d \in Clis \ {c} : cli[d].pc = "prepare" =>
          alive'[cli[d].launch] = alive[cli[d].launch] /\ cli[d].launch \in scratch'
    BY <1>4 DEF IInv, CliInv, OwnInv
  <1> QED BY <1>2, <1>3, <1>4, <1>5, <1>6, <1>7, <1>8, <1>9, EntriesKept, CliStep

LEMMA RemoveSplitFacts ==
    ASSUME IInv, NEW p \in Launches, removeSplitDir(p)
    PROVE  /\ scratch \ {p} \subseteq scratch' /\ scratch' \subseteq scratch
           /\ reported \subseteq reported' /\ reported' \subseteq Launches
           /\ p \notin scratch' \/ p \in reported'
  BY DEF removeSplitDir, IInv, TypeOK

LEMMA PrepareFailsStep ==
    ASSUME IInv, NEW c \in Clis, PrepareFails(c) PROVE IInv'
  <1> DEFINE l == cli[c].launch
  <1>0. /\ CliInv(c) /\ cli[c].pc = "prepare" /\ l \in Launches /\ l \in Procs
        /\ Become(c, Idle) /\ removeSplitDir(l) /\ alive' = [alive EXCEPT ![l] = "gone"]
        /\ UNCHANGED <<pidOf, registry, flock, hit, kills>>
    BY NoneFacts DEF IInv, CliInv, OwnInv, PrepareFails
  <1>1. /\ Stable /\ PidUnique'
        /\ alive' \in [Procs -> {"unborn", "loading", "ready", "closing", "gone"}]
        /\ pidOf' \in [Procs -> Pids \cup {None}]
        /\ alive'[l] = "gone" /\ \A q \in Procs \ {l} : alive'[q] = alive[q]
        /\ \A q \in Procs : Running(q)' => Running(q)
    BY <1>0, AliveFacts
  <1>2. /\ scratch \ {l} \subseteq scratch' /\ scratch' \subseteq scratch
        /\ reported' \subseteq Launches
    BY <1>0, RemoveSplitFacts
  <1>3. TypeOK'
    BY <1>0, <1>1, <1>2, IdleFacts DEF IInv, TypeOK, Become
  <1>4. RunningKeepsScratch' /\ StopHitsOnlyRuntimes'
    <2>1. \A q \in Launches : Running(q)' => q # l
      BY <1>1 DEF Running
    <2> QED BY <1>0, <1>1, <1>2, <2>1, NoneFacts DEF IInv, RunningKeepsScratch, StopHitsOnlyRuntimes
  <1>5. ASSUME NEW d \in Clis \ {c}, cli[d].pc = "prepare"
        PROVE  alive'[cli[d].launch] = alive[cli[d].launch] /\ cli[d].launch \in scratch'
    <2>1. cli[d].launch \in Launches /\ cli[d].launch \in scratch /\ cli[d].launch # l
      BY <1>0, <1>5, NoneFacts DEF IInv, CliInv, OwnInv, OneOwner
    <2> QED BY <1>1, <1>2, <2>1, NoneFacts
  <1> QED BY <1>0, <1>1, <1>3, <1>4, <1>5, DoneFacts, IdleFacts, EntriesKept, CliStep

LEMMA SpawnStep ==
    ASSUME IInv, NEW c \in Clis, NEW pid \in Pids, Spawn(c, pid) PROVE IInv'
  <1> DEFINE l == cli[c].launch
  <1>0. /\ CliInv(c) /\ cli[c].pc = "prepare" /\ l \in Launches /\ l \in Procs
        /\ alive[l] = "unborn" /\ l \in scratch /\ cli[c].op \in {"serve", "run"}
        /\ Goto(c, "wait") /\ "wait" \in Pcs /\ Holder(pid) = {}
        /\ alive' = [alive EXCEPT ![l] = "loading"] /\ pidOf' = [pidOf EXCEPT ![l] = pid]
        /\ UNCHANGED <<registry, flock, scratch, reported, hit, kills>>
    BY NoneFacts DEF IInv, CliInv, OwnInv, Spawn, Pcs
  <1>1. /\ Stable /\ PidUnique'
        /\ alive' \in [Procs -> {"unborn", "loading", "ready", "closing", "gone"}]
        /\ pidOf' \in [Procs -> Pids \cup {None}]
        /\ alive'[l] = "loading" /\ pidOf'[l] = pid
        /\ \A q \in Procs \ {l} : alive'[q] = alive[q] /\ pidOf'[q] = pidOf[q]
    BY <1>0, BirthFacts
  <1>2. /\ cli'[c].pc = "wait" /\ cli'[c].op = cli[c].op /\ cli'[c].id = cli[c].id
        /\ cli'[c].inst = cli[c].inst /\ cli'[c].launch = l
        /\ cli'[c] \in Frame /\ Become(c, cli'[c])
    BY <1>0, MoveFacts
  <1>3. TypeOK'
    BY <1>0, <1>1, <1>2 DEF IInv, TypeOK, Become
  <1>4. CliInv(c)'
    <2>1. OwnInv(c)'
      BY <1>0, <1>1, <1>2, NoneFacts DEF CliInv, OwnInv, Target, Born
    <2>2. LockInv(c)'
      <3>1. cli[c].inst # None => InstOK(cli[c].inst) /\ cli[c].inst.launch \in Procs
        BY <1>0, NoneFacts DEF CliInv, LockInv, IInv, TypeOK, Frame, Instance
      <3> QED BY <1>0, <1>1, <1>2, <3>1 DEF CliInv, LockInv, InstOK, Born, Stable
    <2>3. FdInv(c)'
      BY <1>2 DEF FdInv
    <2> QED BY <2>1, <2>2, <2>3 DEF CliInv
  <1>5. RunningKeepsScratch' /\ StopHitsOnlyRuntimes'
    BY <1>0, <1>1, NoneFacts DEF IInv, RunningKeepsScratch, StopHitsOnlyRuntimes, Running
  <1>6. ASSUME NEW d \in Clis \ {c}
        PROVE  /\ l # cli[d].launch
               /\ cli[d].pc = "prepare" =>
                    alive'[cli[d].launch] = alive[cli[d].launch] /\ cli[d].launch \in scratch'
    <2>1. l # cli[d].launch
      BY <1>0, NoneFacts DEF IInv, OneOwner
    <2>2. cli[d].pc = "prepare" => cli[d].launch \in Launches /\ cli[d].launch \in scratch
      BY DEF IInv, CliInv, OwnInv
    <2> QED BY <1>0, <1>1, <2>1, <2>2, NoneFacts
  <1> QED BY <1>0, <1>1, <1>2, <1>3, <1>4, <1>5, <1>6, EntriesKept, CliStep

(* A signal takes down the process the handle names; for a stop that is    *)
(* the runtime it looked up.                                               *)
LEMMA SignalStep ==
    ASSUME IInv, NEW c \in Clis, SignalTerm(c) \/ (Kill(c) /\ Reaches(c)) PROVE IInv'
  <1>1. PICK v \in {"closing", "gone"}, step \in {"grace", "clean"} :
          /\ alive' = [alive EXCEPT ![cli[c].fd] = v] /\ Goto(c, step)
          /\ (step = "clean" => v = "gone")
          /\ cli[c].pc \in {"term", "kill"} /\ Hits(c) /\ Reaches(c)
          /\ UNCHANGED <<pidOf, registry, flock, scratch, reported, kills>>
    BY DEF SignalTerm, Kill
  <1> DEFINE p == cli[c].fd
  <1>0. /\ CliInv(c) /\ cli[c] \in Frame /\ step \in Pcs /\ p \in Procs /\ Running(p)
        /\ Target(c) \in Launches /\ Target(c) \in Procs
        /\ v \in {"ready", "closing", "gone"}
    BY <1>1, TargetFacts DEF IInv, TypeOK, CliInv, Frame, Reaches, Pcs
  <1>2. /\ Stable /\ PidUnique'
        /\ alive' \in [Procs -> {"unborn", "loading", "ready", "closing", "gone"}]
        /\ pidOf' \in [Procs -> Pids \cup {None}]
        /\ alive'[p] = v /\ \A q \in Procs \ {p} : alive'[q] = alive[q]
        /\ \A q \in Procs : Running(q)' => Running(q)
    BY <1>0, <1>1, AliveFacts
  <1>3. /\ cli'[c].pc = step /\ cli'[c].op = cli[c].op /\ cli'[c].id = cli[c].id
        /\ cli'[c].inst = cli[c].inst /\ cli'[c].launch = cli[c].launch
        /\ cli'[c].fd = cli[c].fd /\ cli'[c] \in Frame /\ Become(c, cli'[c])
    BY <1>0, <1>1, MoveFacts
  <1>4. hit' \subseteq Procs /\ StopHitsOnlyRuntimes'
    <2>1. cli[c].op = "stop" => p \in Launches
      BY <1>0, <1>1 DEF CliInv, FdInv
    <2> QED BY <1>0, <1>1, <2>1, ServeAssumption DEF Hits, IInv, TypeOK, StopHitsOnlyRuntimes
  <1>5. TypeOK'
    BY <1>1, <1>2, <1>3, <1>4 DEF IInv, TypeOK, Become
  <1>6. RunningKeepsScratch'
    BY <1>1, <1>2, NoneFacts DEF IInv, RunningKeepsScratch
  <1>7. CliInv(c)'
    <2>0. Target(c)' = Target(c)
      BY <1>3 DEF Target
    <2>1. OwnInv(c)'
      BY <1>0, <1>1, <1>2, <1>3, <2>0 DEF CliInv, OwnInv, Born, Stable
    <2>2. LockInv(c)'
      <3>1. cli[c].inst # None => InstOK(cli[c].inst) /\ cli[c].inst.launch \in Procs
        BY <1>0, NoneFacts DEF CliInv, LockInv, Frame, Instance
      <3> QED BY <1>0, <1>1, <1>2, <1>3, <3>1 DEF CliInv, LockInv, InstOK, Born, Stable
    <2>3. FdInv(c)'
      BY <1>0, <1>1, <1>2, <1>3, <2>0 DEF CliInv, OwnInv, FdInv, Gone, Born, Stable
    <2> QED BY <2>1, <2>2, <2>3 DEF CliInv
  <1>8. ASSUME NEW d \in Clis \ {c}
        PROVE  /\ cli[c].launch # None => cli[c].launch # cli[d].launch
               /\ cli[d].pc = "prepare" =>
                    alive'[cli[d].launch] = alive[cli[d].launch] /\ cli[d].launch \in scratch'
    <2>1. cli[d].pc = "prepare" => /\ cli[d].launch \in Launches /\ cli[d].launch \in scratch
                                   /\ alive[cli[d].launch] = "unborn"
      BY DEF IInv, CliInv, OwnInv
    <2> QED BY <1>0, <1>1, <1>2, <2>1, NoneFacts DEF IInv, OneOwner, Running
  <1> QED BY <1>1, <1>2, <1>3, <1>4, <1>5, <1>6, <1>7, <1>8, EntriesKept, CliStep

LEMMA KillMissedStep ==
    ASSUME IInv, NEW c \in Clis, Kill(c), ~Reaches(c) PROVE IInv'
  <1>1. /\ UNCHANGED world /\ CliInv(c) /\ cli[c].pc = "kill" /\ "clean" \in Pcs
        /\ Goto(c, "clean") /\ Target(c) \in Procs /\ Born(Target(c))
    BY TargetFacts DEF IInv, Kill, Pcs, CliInv, OwnInv, world
  <1>2. /\ cli'[c].pc = "clean" /\ cli'[c].op = cli[c].op /\ cli'[c].id = cli[c].id
        /\ cli'[c].inst = cli[c].inst /\ cli'[c].launch = cli[c].launch
    BY <1>1, MoveFacts
  <1>3. Gone(Target(c))
    BY <1>1, HolderFacts, NoneFacts DEF Reaches, CliInv, FdInv
  <1>4. CliInv(c)'
    BY <1>1, <1>2, <1>3 DEF CliInv, OwnInv, LockInv, FdInv, Target, InstOK, Born, Gone, world
  <1> QED BY <1>1, <1>4, MoveStep

(* The directory goes only behind a runtime that is gone.                  *)
LEMMA CleanStep ==
    ASSUME IInv, NEW c \in Clis, CleanScratch(c) PROVE IInv'
  <1> DEFINE l == Target(c)
  <1>0. /\ CliInv(c) /\ cli[c].pc = "clean" /\ l \in Launches /\ l \in Procs /\ Gone(l)
        /\ cli[c].op \in {"serve", "run", "stop"} /\ Born(l)
        /\ removeSplitDir(l) /\ UNCHANGED <<alive, pidOf, registry, flock, hit, kills>>
    <2>1. CliInv(c) /\ cli[c].pc = "clean" /\ OwnInv(c) /\ TypeOK /\ cli[c] \in Frame
      BY DEF IInv, TypeOK, CleanScratch, CliInv
    <2>2. cli[c].op \in {"serve", "run", "stop"}
      BY <2>1 DEF OwnInv, Frame
    <2> QED BY <2>1, <2>2, TargetFacts DEF CleanScratch, CliInv, FdInv, OwnInv, Target
  <1>1. /\ scratch \ {l} \subseteq scratch' /\ scratch' \subseteq scratch
        /\ reported' \subseteq Launches
    BY <1>0, RemoveSplitFacts
  <1>2. PICK s \in Frame :
          /\ Become(c, s) /\ s.launch \in {None, cli[c].launch} /\ CliInv(c)'
    <2>1. CASE cli[c].op # "stop"
      BY <1>0, <2>1, DoneFacts, IdleFacts DEF CleanScratch
    <2>2. CASE cli[c].op = "stop"
      <3>1. Goto(c, "lock") /\ "lock" \in Pcs
        BY <2>2 DEF CleanScratch, Pcs
      <3>2. /\ cli'[c].pc = "lock" /\ cli'[c].op = cli[c].op /\ cli'[c].id = cli[c].id
            /\ cli'[c].inst = cli[c].inst /\ cli'[c].launch = cli[c].launch
            /\ cli'[c] \in Frame /\ Become(c, cli'[c])
        BY <3>1, MoveFacts
      <3>3. CliInv(c)'
        BY <1>0, <2>2, <3>2 DEF CliInv, OwnInv, LockInv, FdInv, Target, InstOK, Born, Gone
      <3> QED BY <3>2, <3>3
    <2> QED BY <2>1, <2>2
  <1>3. TypeOK'
    BY <1>0, <1>1, <1>2 DEF IInv, TypeOK, Become
  <1>4. Stable /\ PidUnique' /\ StopHitsOnlyRuntimes'
    BY <1>0 DEF IInv, Stable, PidUnique, StopHitsOnlyRuntimes, Running
  <1>5. RunningKeepsScratch'
    BY <1>0, <1>1, HolderFacts DEF IInv, RunningKeepsScratch, Running
  <1>6. ASSUME NEW d \in Clis \ {c}
        PROVE  /\ s.launch # None => cli[d].launch # s.launch
               /\ cli[d].pc = "prepare" =>
                    alive'[cli[d].launch] = alive[cli[d].launch] /\ cli[d].launch \in scratch'
    BY <1>0, <1>1, <1>2 DEF IInv, CliInv, OwnInv, OneOwner, Gone
  <1> QED BY <1>0, <1>2, <1>3, <1>4, <1>5, <1>6, EntriesKept, CliStep

LEMMA ProceedStep ==
    ASSUME IInv, NEW c \in Clis, Proceed(c) PROVE IInv'
  <1>1. ASSUME NEW pid \in Pids, Spawn(c, pid) PROVE IInv'
    BY <1>1, SpawnStep
  <1>2. CASE PrepareFails(c) \/ CleanScratch(c)
    BY <1>2, PrepareFailsStep, CleanStep
  <1>3. CASE WaitReady(c) \/ WaitFails(c) \/ ProcessStartToken(c)
    BY <1>3, WaitStep, TokenStep
  <1>4. CASE \/ withLock(c) \/ listLocked(c) \/ Add(c) \/ AddFails(c) \/ Remove(c)
             \/ RemoveFails(c)
    BY <1>4, withLockStep, ListStep, WriteStep, AddFailsStep
  <1>5. CASE \/ StopCheck(c) \/ FindProcess(c) \/ verifyTerm(c) \/ AlreadyGone(c)
             \/ GraceExpired(c)
    BY <1>5, StopCheckStep, FindProcessStep, VerifyStep, GoneStep, GraceStep
  <1>6. CASE SignalTerm(c) \/ Kill(c)
    BY <1>6, SignalStep, KillMissedStep
  <1> QED BY <1>1, <1>2, <1>3, <1>4, <1>5, <1>6 DEF Proceed

LEMMA Stutter == IInv /\ UNCHANGED vars => IInv'
  <1> SUFFICES ASSUME IInv, UNCHANGED vars PROVE IInv' OBVIOUS
  <1>1. Stable /\ PidUnique'
    BY DEF IInv, vars, Stable, PidUnique, Running
  <1>2. /\ UNCHANGED <<registry, flock, scratch, reported, cli, hit, kills>>
        /\ alive' \in [Procs -> {"unborn", "loading", "ready", "closing", "gone"}]
        /\ pidOf' \in [Procs -> Pids \cup {None}]
        /\ \A p \in Launches : alive[p] = "unborn" => alive'[p] = "unborn"
        /\ \A p \in Launches : Running(p)' => Running(p)
    BY DEF IInv, TypeOK, vars, Running
  <1> QED BY <1>1, <1>2, MachineStep

LEMMA Inductive == IInv /\ [Next]_vars => IInv'
  <1> SUFFICES ASSUME IInv, [Next]_vars PROVE IInv' OBVIOUS
  <1>1. CASE Machine
    BY <1>1, LoadedExitStep, ForeignStep, KilledStep DEF Machine
  <1>2. ASSUME NEW c \in Clis, NEW op \in {"serve", "run"}, NEW i \in Ids \cup {None},
               NEW p \in Launches, StartLaunch(c, op, i, p)
        PROVE  IInv'
    BY <1>2, StartLaunchStep
  <1>3. ASSUME NEW c \in Clis,
               (\E i \in Ids : StopFind(c, i)) \/ Interrupt(c) \/ Proceed(c)
        PROVE  IInv'
    BY <1>3, StopFindStep, WaitStep, ProceedStep
  <1> QED BY <1>1, <1>2, <1>3, Stutter DEF Next

(* The inductive invariant holds, for any number of overlapping stops.     *)
THEOREM Invariance == Spec => []IInv
  BY InitIInv, Inductive, PTL DEF Spec

(* Registry, lock, frames and processes keep their types.                  *)
THEOREM TypeCorrect == Spec => []TypeOK
  <1>1. IInv => TypeOK BY DEF IInv
  <1> QED BY Invariance, <1>1, PTL

(* "a stale registry entry or pid reuse can never make it kill the wrong   *)
(* process" (concept-tour.md:112-114), for any number of pids, foreign     *)
(* processes and concurrent stops.                                         *)
THEOREM StopsNeverHitForeign == Spec => []StopHitsOnlyRuntimes
  <1>1. IInv => StopHitsOnlyRuntimes BY DEF IInv
  <1> QED BY Invariance, <1>1, PTL

(* No teardown, stop or kill -9 takes the scratch links from under a       *)
(* running llama-server (run.go:367-372).                                  *)
THEOREM ScratchOutlivesRuntime == Spec => []RunningKeepsScratch
  <1>1. IInv => RunningKeepsScratch BY DEF IInv
  <1> QED BY Invariance, <1>1, PTL

-----------------------------------------------------------------------------
(* Ownership, with stops that do not overlap.  Registry.Remove drops       *)
(* whatever has the id: only the stop that found the entry may be at it.   *)

LEMMA NoOtherStop ==
    ASSUME MaxStops <= 1, NEW c \in Clis, NEW i \in Ids, StopFind(c, i)
    PROVE  \A d \in Clis : cli[d].op # "stop"
  <1> DEFINE S == {d \in Clis : cli[d].op = "stop"}
  <1>1. IsFiniteSet(S)
    BY FS_Subset, ServeAssumption
  <1>2. Cardinality(S) \in Nat /\ Cardinality(S) < MaxStops
    BY <1>1, FS_CardinalityType DEF StopFind
  <1>3. Cardinality(S) = 0
    BY <1>2, ServeAssumption
  <1> QED BY <1>1, <1>3, FS_EmptySet

(* What has to be shown of a step of CLI c.                                *)
LEMMA OwnerStep ==
    ASSUME IInv, OInv, NEW c \in Clis, \A d \in Clis \ {c} : cli'[d] = cli[d], StopInv(c)',
           cli'[c].op = "stop" => cli[c].op = "stop" \/ \A d \in Clis : cli[d].op # "stop",
           \A d \in Clis \ {c} : cli[d].op = "stop" => registry'[cli[d].id] = registry[cli[d].id],
           \A p \in scratch' \ scratch : alive[p] = "unborn" /\ Owned(p)',
           reported \subseteq reported', scratch' \subseteq Launches,
           kills' = 0 => kills = 0,
           kills' = 0 => \A p \in Launches : Running(p)' => Running(p) \/ Owned(p)',
           kills' = 0 => \A p \in Launches : Owned(p) =>
               Owned(p)' \/ (~Running(p)' /\ (p \notin scratch' \/ p \in reported'))
    PROVE  OInv'
  <1>1. (\A b, d \in Clis : cli[b].op = "stop" /\ cli[d].op = "stop" => b = d)'
    BY DEF OInv
  <1>2. ASSUME NEW d \in Clis \ {c} PROVE StopInv(d)'
    <2>1. ASSUME cli[d].op = "stop", cli[d].pc \in {"lock", "read", "write"}
          PROVE  alive[cli[d].inst.launch] # "unborn"
      BY <2>1 DEF IInv, CliInv, FdInv, Gone, Target
    <2> QED BY <1>2, <2>1 DEF OInv, StopInv
  <1>3. RuntimeOwned'
    BY DEF OInv, RuntimeOwned
  <1>4. ScratchOwned'
    BY DEF OInv, ScratchOwned
  <1> QED BY <1>1, <1>2, <1>3, <1>4 DEF OInv

(* A step that keeps registry, directories and the launch it owns.         *)
LEMMA OwnerKept ==
    ASSUME IInv, OInv, NEW c \in Clis, \A d \in Clis \ {c} : cli'[d] = cli[d],
           UNCHANGED <<registry, scratch, reported, kills>>, cli'[c].launch = cli[c].launch,
           cli'[c].op = "stop" =>
              /\ cli[c].op = "stop" /\ cli'[c].id = cli[c].id /\ cli'[c].inst = cli[c].inst
              /\ cli'[c].pc \in {"lock", "read", "write"} =>
                   cli[c].pc \in {"lock", "read", "write"},
           \A p \in Launches : Running(p)' => Running(p)
    PROVE  OInv'
  <1>1. StopInv(c)'
    BY DEF OInv, StopInv
  <1>2. \A p \in Launches : Owned(p) => Owned(p)'
    BY DEF Owned
  <1>3. scratch' \subseteq Launches
    BY DEF IInv, TypeOK
  <1> QED BY <1>1, <1>2, <1>3, OwnerStep

(* The moves of a CLI that keep what it owns.                              *)
Moves(c) ==
    \/ WaitReady(c) \/ WaitFails(c) \/ Interrupt(c) \/ ProcessStartToken(c)
    \/ withLock(c) \/ listLocked(c) \/ AddFails(c) \/ RemoveFails(c)
    \/ StopCheck(c) \/ FindProcess(c) \/ verifyTerm(c) \/ SignalTerm(c) \/ AlreadyGone(c)
    \/ GraceExpired(c) \/ Kill(c)

LEMMA MovesFacts ==
    ASSUME IInv, NEW c \in Clis, Moves(c)
    PROVE  /\ \A d \in Clis \ {c} : cli'[d] = cli[d]
           /\ UNCHANGED <<registry, scratch, reported, kills>>
           /\ cli'[c].launch = cli[c].launch
           /\ cli'[c].op = "stop" =>
                /\ cli[c].op = "stop" /\ cli'[c].id = cli[c].id /\ cli'[c].inst = cli[c].inst
                /\ cli'[c].pc \in {"lock", "read", "write"} =>
                     cli[c].pc \in {"lock", "read", "write"}
           /\ \A p \in Launches : Running(p)' => Running(p)
  <1>0. CliInv(c) /\ cli[c] \in Frame /\ cli \in [Clis -> Frame]
    BY DEF IInv, TypeOK
  <1>1. UNCHANGED <<registry, scratch, reported, kills>>
    BY DEF Moves, WaitReady, WaitFails, Interrupt, ProcessStartToken, withLock, listLocked,
           AddFails, RemoveFails, StopCheck, FindProcess, verifyTerm, SignalTerm, AlreadyGone,
           GraceExpired, Kill, world
  <1>2. \A p \in Launches : Running(p)' => Running(p)
    <2>1. CASE SignalTerm(c) \/ (Kill(c) /\ Reaches(c))
      <3>1. cli[c].fd \in Procs /\ Running(cli[c].fd)
        BY <1>0, <2>1 DEF SignalTerm, Reaches, Frame
      <3>2. \A p \in Procs \ {cli[c].fd} : alive'[p] = alive[p]
        BY <2>1 DEF SignalTerm, Kill, IInv, TypeOK
      <3> QED BY <3>1, <3>2, NoneFacts DEF Running
    <2>2. CASE alive' = alive
      BY <2>2 DEF Running
    <2> QED BY <2>1, <2>2
          DEF Moves, WaitReady, WaitFails, Interrupt, ProcessStartToken, withLock, listLocked,
              AddFails, RemoveFails, StopCheck, FindProcess, verifyTerm, AlreadyGone,
              GraceExpired, Kill, world
  <1>3. PICK s \in Frame :
          /\ Become(c, s) /\ s.launch = cli[c].launch
          /\ s.op = "stop" =>
               /\ cli[c].op = "stop" /\ s.id = cli[c].id /\ s.inst = cli[c].inst
               /\ s.pc \in {"lock", "read", "write"} => cli[c].pc \in {"lock", "read", "write"}
    <2> DEFINE Good(s) ==
          /\ Become(c, s) /\ s.launch = cli[c].launch
          /\ s.op = "stop" =>
               /\ cli[c].op = "stop" /\ s.id = cli[c].id /\ s.inst = cli[c].inst
               /\ s.pc \in {"lock", "read", "write"} => cli[c].pc \in {"lock", "read", "write"}
    <2> SUFFICES \E s \in Frame : Good(s)
      OBVIOUS
    <2>1. ASSUME NEW step \in Pcs, Goto(c, step),
                 step \in {"lock", "read", "write"} => cli[c].pc \in {"lock", "read", "write"}
          PROVE  \E s \in Frame : Good(s)
      BY <2>1, MoveFacts
    <2>2. CASE Become(c, Idle) /\ cli[c].op = "stop"
      BY <1>0, <2>2, IdleFacts DEF CliInv, OwnInv
    <2>3. ASSUME NEW in, Become(c, [cli[c] EXCEPT !.pc = "lock", !.inst = in]), cli[c].op = "serve",
                 in \in Instance
          PROVE  \E s \in Frame : Good(s)
      <3> DEFINE s == [cli[c] EXCEPT !.pc = "lock", !.inst = in]
      <3>1. s \in Frame /\ s.launch = cli[c].launch /\ s.op = "serve"
        BY <1>0, <2>3 DEF Frame
      <3> HIDE DEF s
      <3> QED BY <2>3, <3>1 DEF s
    <2>4. ASSUME NEW fd \in Procs \cup {None},
                 Become(c, [cli[c] EXCEPT !.pc = "verify", !.fd = fd])
          PROVE  \E s \in Frame : Good(s)
      <3> DEFINE s == [cli[c] EXCEPT !.pc = "verify", !.fd = fd]
      <3>1. /\ s \in Frame /\ s.launch = cli[c].launch /\ s.op = cli[c].op /\ s.pc = "verify"
            /\ s.id = cli[c].id /\ s.inst = cli[c].inst
        BY <1>0 DEF Frame
      <3>2. Become(c, s)
        BY <2>4
      <3> HIDE DEF s
      <3> QED BY <3>1, <3>2
    <2>5. ASSUME NEW step \in {"write", "find"}, NEW v \in [Ids -> Instance \cup {None}] \cup {None},
                 cli[c].pc \in {"lock", "read", "write"},
                 Become(c, [cli[c] EXCEPT !.pc = step, !.view = v])
          PROVE  \E s \in Frame : Good(s)
      <3> DEFINE s == [cli[c] EXCEPT !.pc = step, !.view = v]
      <3>1. /\ s \in Frame /\ s.launch = cli[c].launch /\ s.op = cli[c].op
            /\ s.id = cli[c].id /\ s.inst = cli[c].inst
        BY <1>0 DEF Frame
      <3>2. Become(c, s)
        BY <2>5
      <3> HIDE DEF s
      <3> QED BY <2>5, <3>1, <3>2
    <2> HIDE DEF Good
    <2>6. CASE ProcessStartToken(c)
      <3>1. /\ cli[c].op = "serve" /\ cli[c].launch \in Launches /\ Born(cli[c].launch)
            /\ pidOf[cli[c].launch] \in Pids
        BY <1>0, <2>6, NoneFacts DEF ProcessStartToken, CliInv, OwnInv, Target, Born, IInv, TypeOK
      <3>2. ASSUME NEW p \in Holder(pidOf[cli[c].launch])
            PROVE  [pid |-> pidOf[cli[c].launch], token |-> p, launch |-> cli[c].launch] \in Instance
        BY <3>1 DEF Instance, Holder
      <3> QED BY <2>1, <2>3, <2>6, <3>1, <3>2 DEF ProcessStartToken, Pcs
    <2>7. CASE FindProcess(c)
      BY <2>4, <2>7 DEF FindProcess, Holder
    <2>8. CASE listLocked(c) \/ AddFails(c)
      BY <2>5, <2>8 DEF listLocked, AddFails, IInv, TypeOK
    <2>9. CASE \/ WaitReady(c) \/ WaitFails(c) \/ Interrupt(c) \/ withLock(c) \/ SignalTerm(c)
               \/ AlreadyGone(c) \/ Kill(c)
      BY <2>1, <2>9 DEF WaitReady, WaitFails, Interrupt, withLock, SignalTerm, AlreadyGone, Kill, Pcs
    <2>10. CASE RemoveFails(c) \/ StopCheck(c) \/ verifyTerm(c) \/ GraceExpired(c)
      BY <1>0, <2>1, <2>2, <2>10
         DEF RemoveFails, StopCheck, verifyTerm, GraceExpired, Refuse, Pcs, CliInv, OwnInv
    <2> QED BY <2>6, <2>7, <2>8, <2>9, <2>10 DEF Moves
  <1>4. cli'[c] = s /\ \A d \in Clis \ {c} : cli'[d] = cli[d]
    BY <1>0, <1>3 DEF Become
  <1> QED BY <1>1, <1>2, <1>3, <1>4

LEMMA MovesOwner ==
    ASSUME IInv, OInv, NEW c \in Clis, Moves(c) PROVE OInv'
  BY MovesFacts, OwnerKept

LEMMA BecomeFacts ==
    ASSUME IInv, NEW c \in Clis, NEW s, Become(c, s)
    PROVE  cli'[c] = s /\ \A d \in Clis \ {c} : cli'[d] = cli[d]
  BY DEF IInv, TypeOK, Become

(* A launch is owned from the creation of its scratch dir.                 *)
LEMMA StartLaunchOwner ==
    ASSUME IInv, OInv, NEW c \in Clis, NEW op \in {"serve", "run"}, NEW i \in Ids \cup {None},
           NEW p \in Launches, StartLaunch(c, op, i, p)
    PROVE  OInv'
  <1> DEFINE s == [Idle EXCEPT !.pc = "prepare", !.op = op, !.id = i, !.launch = p]
  <1>1. s.op = op /\ s.launch = p
    BY DEF Idle
  <1>2. Become(c, s) /\ cli[c].launch = None
    BY DEF StartLaunch, IInv, CliInv, OwnInv
  <1> HIDE DEF s
  <1>3. cli'[c].op # "stop" /\ cli'[c].launch = p /\ \A d \in Clis \ {c} : cli'[d] = cli[d]
    BY <1>1, <1>2, BecomeFacts
  <1>4. /\ scratch' = scratch \cup {p} /\ alive[p] = "unborn"
        /\ UNCHANGED <<alive, registry, reported, kills>>
    BY DEF StartLaunch
  <1>5. Owned(p)' /\ \A q \in Launches : Owned(q) => Owned(q)'
    BY <1>2, <1>3, <1>4, NoneFacts DEF Owned
  <1>6. StopInv(c)' /\ scratch' \subseteq Launches
    BY <1>3, <1>4 DEF StopInv, IInv, TypeOK
  <1>7. \A q \in Launches : Running(q)' => Running(q)
    BY <1>4 DEF Running
  <1> QED BY <1>3, <1>4, <1>5, <1>6, <1>7, OwnerStep

LEMMA SpawnOwner ==
    ASSUME IInv, OInv, NEW c \in Clis, NEW pid \in Pids, Spawn(c, pid) PROVE OInv'
  <1> DEFINE l == cli[c].launch
  <1>1. /\ l \in Launches /\ cli[c].op # "stop" /\ Goto(c, "wait") /\ "wait" \in Pcs
        /\ UNCHANGED <<registry, scratch, reported, kills>>
        /\ \A q \in Procs \ {l} : alive'[q] = alive[q]
    BY NoneFacts DEF IInv, TypeOK, CliInv, OwnInv, Spawn, Pcs
  <1>2. /\ cli'[c].op # "stop" /\ cli'[c].launch = l
        /\ \A d \in Clis \ {c} : cli'[d] = cli[d]
    BY <1>1, MoveFacts, BecomeFacts
  <1>3. \A q \in Launches : Owned(q) => Owned(q)'
    BY <1>1, <1>2 DEF Owned
  <1>4. \A q \in Launches : Running(q)' => Running(q) \/ Owned(q)'
    <2>1. \A q \in Launches \ {l} : Running(q)' => Running(q)
      BY <1>1, NoneFacts DEF Running
    <2>2. \E d \in Clis : cli'[d].launch = l
      BY <1>2
    <2>3. \A q \in Launches : q = l => Owned(q)'
      BY <2>2 DEF Owned
    <2> QED BY <2>1, <2>3
  <1>5. StopInv(c)' /\ scratch' \subseteq Launches
    BY <1>1, <1>2 DEF StopInv, IInv, TypeOK
  <1> QED BY <1>1, <1>2, <1>3, <1>4, <1>5, OwnerStep

(* Every way out of a launch removes the directory or says it could not.   *)
LEMMA LetGoOwner ==
    ASSUME IInv, OInv, NEW c \in Clis, NEW l \in Launches, l = cli[c].launch, Become(c, Idle),
           removeSplitDir(l), UNCHANGED <<registry, kills>>,
           \A q \in Launches : Running(q)' => Running(q) /\ q # l
    PROVE  OInv'
  <1>1. cli'[c] = Idle /\ \A d \in Clis \ {c} : cli'[d] = cli[d]
    BY BecomeFacts
  <1>2. /\ scratch' \subseteq scratch /\ reported \subseteq reported'
        /\ l \notin scratch' \/ l \in reported'
    BY RemoveSplitFacts
  <1>3. \A q \in Launches : Owned(q) => Owned(q)' \/ q = l
    BY <1>1 DEF Owned
  <1>4. StopInv(c)' /\ scratch' \subseteq Launches
    BY <1>1, <1>2, IdleFacts DEF StopInv, IInv, TypeOK
  <1> QED BY <1>1, <1>2, <1>3, <1>4, IdleFacts, OwnerStep

LEMMA PrepareFailsOwner ==
    ASSUME IInv, OInv, NEW c \in Clis, PrepareFails(c) PROVE OInv'
  <1>1. /\ cli[c].launch \in Launches /\ cli[c].launch \in Procs
        /\ Become(c, Idle) /\ removeSplitDir(cli[c].launch)
        /\ alive' = [alive EXCEPT ![cli[c].launch] = "gone"] /\ UNCHANGED <<registry, kills>>
    BY NoneFacts DEF IInv, CliInv, OwnInv, PrepareFails
  <1>2. \A q \in Launches : Running(q)' => Running(q) /\ q # cli[c].launch
    BY <1>1, NoneFacts DEF IInv, TypeOK, Running
  <1> QED BY <1>1, <1>2, LetGoOwner

LEMMA CleanOwner ==
    ASSUME IInv, OInv, NEW c \in Clis, CleanScratch(c) PROVE OInv'
  <1> DEFINE l == Target(c)
  <1>0. /\ cli[c].pc = "clean" /\ l \in Launches /\ l \in Procs /\ Gone(l)
        /\ cli[c].op \in {"serve", "run", "stop"}
        /\ removeSplitDir(l) /\ UNCHANGED <<alive, registry, kills>>
    <2>1. CliInv(c) /\ cli[c].pc = "clean" /\ OwnInv(c) /\ TypeOK /\ cli[c] \in Frame
      BY DEF IInv, TypeOK, CleanScratch, CliInv
    <2>2. cli[c].op \in {"serve", "run", "stop"}
      BY <2>1 DEF OwnInv, Frame
    <2> QED BY <2>1, <2>2, TargetFacts DEF CleanScratch, CliInv, FdInv, Target
  <1>1. \A q \in Launches : Running(q)' => Running(q) /\ q # l
    BY <1>0 DEF Running, Gone
  <1>2. CASE cli[c].op # "stop"
    BY <1>0, <1>1, <1>2, LetGoOwner DEF CleanScratch, Target
  <1>3. CASE cli[c].op = "stop"
    <2>1. Goto(c, "lock") /\ "lock" \in Pcs /\ l = cli[c].inst.launch
      BY <1>3 DEF CleanScratch, Pcs, Target
    <2>2. /\ cli'[c].op = "stop" /\ cli'[c].launch = cli[c].launch
          /\ cli'[c].id = cli[c].id /\ cli'[c].inst = cli[c].inst
          /\ \A d \in Clis \ {c} : cli'[d] = cli[d]
      BY <1>3, <2>1, MoveFacts, BecomeFacts
    <2>3. /\ scratch' \subseteq scratch /\ reported \subseteq reported'
          /\ l \notin scratch' \/ l \in reported'
      BY <1>0, RemoveSplitFacts
    <2>4. StopInv(c)'
      BY <1>0, <1>3, <2>1, <2>2, <2>3 DEF OInv, StopInv
    <2>5. \A q \in Launches : Owned(q) => Owned(q)'
      BY <1>0, <2>2 DEF Owned
    <2>6. scratch' \subseteq Launches
      BY <2>3 DEF IInv, TypeOK
    <2> QED BY <1>0, <1>1, <1>3, <2>2, <2>3, <2>4, <2>5, <2>6, OwnerStep
  <1> QED BY <1>2, <1>3

(* serve hands its launch to the registry, under an id nobody has.         *)
LEMMA AddOwner ==
    ASSUME IInv, OInv, NEW c \in Clis, Add(c) PROVE OInv'
  <1> DEFINE i == cli[c].id
  <1>1. /\ i \in Ids /\ registry[i] = None /\ registry' = [registry EXCEPT ![i] = cli[c].inst]
        /\ cli[c].inst \in Instance /\ cli[c].inst.launch = cli[c].launch /\ Become(c, Idle)
        /\ UNCHANGED <<alive, scratch, reported, kills>>
        /\ registry \in [Ids -> Instance \cup {None}]
    BY DEF IInv, TypeOK, CliInv, OwnInv, LockInv, Add
  <1>2. cli'[c] = Idle /\ \A d \in Clis \ {c} : cli'[d] = cli[d]
    BY <1>1, BecomeFacts
  <1>3. /\ registry'[i] # None /\ registry'[i].launch = cli[c].launch
        /\ \A k \in Ids \ {i} : registry'[k] = registry[k]
    BY <1>1, NoneFacts
  <1>4. \A q \in Launches : Owned(q) => Owned(q)'
    <2>1. ASSUME NEW q \in Launches, cli[c].launch = q PROVE Owned(q)'
      BY <1>1, <1>3, <2>1 DEF Owned
    <2>2. ASSUME NEW q \in Launches, NEW d \in Clis \ {c}, cli[d].launch = q PROVE Owned(q)'
      BY <1>2, <2>2 DEF Owned
    <2>3. ASSUME NEW q \in Launches, NEW k \in Ids, registry[k] # None, registry[k].launch = q
          PROVE  Owned(q)'
      BY <1>1, <1>3, <2>3 DEF Owned
    <2> QED BY <2>1, <2>2, <2>3 DEF Owned
  <1>5. \A d \in Clis \ {c} : cli[d].op = "stop" => registry'[cli[d].id] = registry[cli[d].id]
    <2>1. ASSUME NEW d \in Clis \ {c}, cli[d].op = "stop" PROVE cli[d].id \in Ids \ {i}
      BY <1>1, <2>1, NoneFacts DEF OInv, StopInv, IInv, CliInv, OwnInv
    <2> QED BY <1>3, <2>1
  <1>6. StopInv(c)' /\ scratch' \subseteq Launches
    BY <1>1, <1>2, IdleFacts DEF StopInv, IInv, TypeOK
  <1>7. \A q \in Launches : Running(q)' => Running(q)
    BY <1>1 DEF Running
  <1> QED BY <1>1, <1>2, <1>4, <1>5, <1>6, <1>7, IdleFacts, OwnerStep

(* stop removes the entry it found, and that runtime is gone.              *)
LEMMA RemoveOwner ==
    ASSUME IInv, OInv, NEW c \in Clis, Remove(c) PROVE OInv'
  <1> DEFINE i == cli[c].id
             l == cli[c].inst.launch
  <1>1. /\ i \in Ids /\ registry' = [registry EXCEPT ![i] = None] /\ registry[i] = cli[c].inst
    BY DEF IInv, OInv, CliInv, OwnInv, LockInv, FdInv, StopInv, Target, Remove
  <1>2. /\ cli[c].op = "stop" /\ cli[c].launch = None /\ Become(c, Idle) /\ Gone(l)
        /\ (l \notin scratch \/ l \in reported)
        /\ UNCHANGED <<alive, scratch, reported, kills>>
        /\ registry \in [Ids -> Instance \cup {None}]
    BY DEF IInv, OInv, TypeOK, CliInv, OwnInv, LockInv, FdInv, StopInv, Target, Remove
  <1>3. cli'[c] = Idle /\ \A d \in Clis \ {c} : cli'[d] = cli[d]
    BY <1>2, BecomeFacts
  <1>4. \A k \in Ids \ {i} : registry'[k] = registry[k]
    BY <1>1, <1>2
  <1>5. \A q \in Launches : Owned(q) => Owned(q)' \/ q = l
    <2>1. ASSUME NEW q \in Launches, NEW d \in Clis, cli[d].launch = q PROVE Owned(q)'
      BY <1>2, <1>3, <2>1, NoneFacts DEF Owned
    <2>2. ASSUME NEW q \in Launches, NEW k \in Ids \ {i}, registry[k] # None,
                 registry[k].launch = q
          PROVE  Owned(q)'
      BY <1>4, <2>2 DEF Owned
    <2> QED BY <1>1, <2>1, <2>2 DEF Owned
  <1>6. \A q \in Launches : Running(q)' => Running(q) /\ q # l
    BY <1>2 DEF Running, Gone
  <1>7. \A d \in Clis \ {c} : cli[d].op # "stop"
    BY <1>2 DEF OInv
  <1>8. StopInv(c)' /\ scratch' \subseteq Launches
    BY <1>2, <1>3, IdleFacts DEF StopInv, IInv, TypeOK
  <1> QED BY <1>2, <1>3, <1>5, <1>6, <1>7, <1>8, IdleFacts, OwnerStep

LEMMA StopFindOwner ==
    ASSUME MaxStops <= 1, IInv, OInv, NEW c \in Clis, NEW i \in Ids, StopFind(c, i) PROVE OInv'
  <1> DEFINE s == [Idle EXCEPT !.pc = "check", !.op = "stop", !.id = i, !.inst = registry[i]]
  <1>1. s.pc = "check" /\ s.op = "stop" /\ s.id = i /\ s.inst = registry[i] /\ s.launch = None
    BY DEF Idle
  <1>2. /\ Become(c, s) /\ cli[c].launch = None /\ UNCHANGED <<alive, registry, scratch, reported, kills>>
    BY DEF StopFind, IInv, CliInv, OwnInv, world
  <1> HIDE DEF s
  <1>3. cli'[c] = s /\ \A d \in Clis \ {c} : cli'[d] = cli[d]
    BY <1>2, BecomeFacts
  <1>4. \A q \in Launches : Owned(q) => Owned(q)'
    BY <1>1, <1>2, <1>3, NoneFacts DEF Owned
  <1>5. StopInv(c)' /\ scratch' \subseteq Launches
    BY <1>1, <1>2, <1>3 DEF StopInv, IInv, TypeOK
  <1>6. \A q \in Launches : Running(q)' => Running(q)
    BY <1>2 DEF Running
  <1>7. \A d \in Clis : cli[d].op # "stop"
    BY NoOtherStop
  <1> QED BY <1>2, <1>3, <1>4, <1>5, <1>6, <1>7, OwnerStep

LEMMA MachineOwner ==
    ASSUME IInv, OInv, UNCHANGED <<registry, scratch, reported, cli, kills>>,
           \A p \in Launches : Running(p)' => Running(p)
    PROVE  OInv'
  <1>1. \A p \in Launches : Owned(p)' = Owned(p)
    BY DEF Owned
  <1>2. \A c \in Clis : StopInv(c)'
    BY DEF OInv, StopInv
  <1>3. RuntimeOwned' /\ ScratchOwned'
    BY <1>1 DEF OInv, RuntimeOwned, ScratchOwned, IInv, TypeOK
  <1> QED BY <1>2, <1>3 DEF OInv

LEMMA KilledOwner ==
    ASSUME IInv, OInv, NEW c \in Clis, CliKilled(c) PROVE OInv'
  <1>1. kills' # 0
    BY ServeAssumption DEF CliKilled, IInv, TypeOK
  <1>2. Become(c, Idle) /\ UNCHANGED <<registry, scratch, reported>>
    BY DEF CliKilled
  <1>3. cli'[c] = Idle /\ \A d \in Clis \ {c} : cli'[d] = cli[d]
    BY <1>2, BecomeFacts
  <1>4. StopInv(c)' /\ scratch' \subseteq Launches
    BY <1>2, <1>3, IdleFacts DEF StopInv, IInv, TypeOK
  <1> QED BY <1>1, <1>2, <1>3, <1>4, IdleFacts, OwnerStep

LEMMA InitOInv == Init => OInv
  BY IdleFacts DEF Init, OInv, StopInv, RuntimeOwned, ScratchOwned, Running, Procs

LEMMA OwnerInductive ==
    ASSUME MaxStops <= 1, IInv, OInv, [Next]_vars PROVE OInv'
  <1>1. ASSUME NEW c \in Clis, Proceed(c) \/ Interrupt(c) PROVE OInv'
    <2>1. ASSUME NEW pid \in Pids, Spawn(c, pid) PROVE OInv'
      BY <1>1, <2>1, SpawnOwner
    <2>2. CASE PrepareFails(c) \/ CleanScratch(c) \/ Add(c) \/ Remove(c)
      BY <1>1, <2>2, PrepareFailsOwner, CleanOwner, AddOwner, RemoveOwner
    <2>3. CASE Moves(c)
      BY <1>1, <2>3, MovesOwner
    <2> QED BY <1>1, <2>1, <2>2, <2>3 DEF Proceed, Moves
  <1>2. ASSUME NEW c \in Clis, NEW op \in {"serve", "run"}, NEW i \in Ids \cup {None},
               NEW p \in Launches, StartLaunch(c, op, i, p)
        PROVE  OInv'
    BY <1>2, StartLaunchOwner
  <1>3. ASSUME NEW c \in Clis, NEW i \in Ids, StopFind(c, i) PROVE OInv'
    BY <1>3, StopFindOwner
  <1>4. ASSUME NEW c \in Clis, CliKilled(c) PROVE OInv'
    BY <1>4, KilledOwner
  <1>5. ASSUME NEW p \in Procs, Loaded(p) \/ Exit(p) PROVE OInv'
    <2>1. \A q \in Launches : Running(q)' => Running(q)
      BY <1>5, NoneFacts DEF Loaded, Exit, Running, IInv, TypeOK
    <2> QED BY <1>5, <2>1, MachineOwner DEF Loaded, Exit
  <1>6. ASSUME NEW p \in Foreign, NEW pid \in Pids, ForeignStarts(p, pid) PROVE OInv'
    <2>1. \A q \in Launches : Running(q)' => Running(q)
      BY <1>6, NoneFacts, ServeAssumption DEF ForeignStarts, Running, IInv, TypeOK
    <2> QED BY <1>6, <2>1, MachineOwner DEF ForeignStarts
  <1>7. CASE UNCHANGED vars
    BY <1>7, MachineOwner DEF vars, Running
  <1> QED BY <1>1, <1>2, <1>3, <1>4, <1>5, <1>6, <1>7 DEF Next, Machine

LEMMA OwnerInvariance == ASSUME MaxStops <= 1 PROVE Spec => []OInv
  <1>1. Spec => []IInv
    BY Invariance
  <1>2. IInv /\ OInv /\ [Next]_vars => OInv'
    BY OwnerInductive
  <1> QED BY <1>1, <1>2, InitOInv, PTL DEF Spec

(* Supervisor duty (002 section 4): while stops do not overlap and no CLI  *)
(* is killed, a running llama-server is registered or in a CLI's hands.    *)
(* With MaxStops = 2 it fails: Registry.Remove (registry.go:130-145) drops *)
(* whatever has the id.                                                    *)
THEOREM NoRuntimeOrphaned == ASSUME MaxStops <= 1 PROVE Spec => []RuntimeOwned
  <1>1. OInv => RuntimeOwned BY DEF OInv
  <1> QED BY OwnerInvariance, <1>1, PTL

(* Under the same conditions every scratch dir has an owner, or its failed *)
(* removal was reported (run.go:367-372, 450-451).                         *)
THEOREM NoScratchForgotten == ASSUME MaxStops <= 1 PROVE Spec => []ScratchOwned
  <1>1. OInv => ScratchOwned BY DEF OInv
  <1> QED BY OwnerInvariance, <1>1, PTL
=============================================================================
