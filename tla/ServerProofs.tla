-------------------------- MODULE ServerProofs --------------------------
(***************************************************************************)
(* Proofs about the two parts of internal/api/server.go that have a module *)
(* of their own.  First JobTable, for every number of jobs, files and      *)
(* restarts: the table implements JobLifecycle.  Then SocketListen, for    *)
(* every number of daemons: what the order of system calls in Listen       *)
(* guarantees although every call goes by name and nothing is held between *)
(* two of them.                                                            *)
(***************************************************************************)
EXTENDS JobTable, SocketListen, TLAPS

(* Where the goroutine is fixes what the table shows.                      *)
TableInv(j) ==
    /\ j \notin used => pc[j] = "none"
    /\ pc[j] = "none" => jobs[j] = None
    /\ pc[j] # "none" => jobs[j] \in Entry
    /\ pc[j] = "start" => State(j) = "waiting"
    /\ pc[j] \in {"hints", "run", "lock", "publish"} => State(j) = "fetching"
    /\ pc[j] = "end" => IsTerminal(j)

(* mu excludes poller and goroutine, and a poller that outlives the        *)
(* terminal publication finds the flag set.                                *)
MutexInv(j) ==
    /\ poll[j] # "off" => pc[j] \in {"run", "lock", "publish", "end"} /\ kind[j] \in Ticking
    /\ (poll[j] = "locked") <=> (mu[j] = "poller")
    /\ pc[j] = "publish" /\ poll[j] # "off" => mu[j] = "main"
    /\ pc[j] \in {"hints", "start"} => ~terminal[j]
    /\ pc[j] = "none" => ~terminal[j]
    /\ pc[j] = "hints" => kind[j] = "fill"
    /\ terminal[j] => pc[j] = "end"
    /\ pc[j] = "end" /\ poll[j] # "off" => terminal[j]

(* The published count never runs ahead of the count a callback holds, nor *)
(* that one ahead of the engine.                                           *)
CountInv(j) ==
    /\ State(j) = "fetching" => jobs[j].filesDone <= sealed[j]
    /\ poll[j] \in {"called", "locked"} => tick[j] <= sealed[j]
    /\ poll[j] \in {"called", "locked"} /\ State(j) = "fetching" => jobs[j].filesDone <= tick[j]
    /\ pc[j] = "hints" => jobs[j].filesDone = base[j]

IInv == TypeOK /\ \A j \in Jobs : TableInv(j) /\ MutexInv(j) /\ CountInv(j)

-----------------------------------------------------------------------------
LEMMA EntryFacts ==
    /\ \A s \in {"waiting", "fetching", "done", "failed"}, n \in 0..Files :
         [state |-> s, filesDone |-> n] \in Entry
    /\ \A e \in Entry : e # None /\ e.filesDone \in 0..Files
                        /\ e.state \in {"waiting", "fetching", "done", "failed"}
  BY JobAssumption DEF Entry

LEMMA InitIInv == Init => IInv
  <1> SUFFICES ASSUME Init PROVE IInv OBVIOUS
  <1>1. TypeOK
    BY JobAssumption DEF Init, TypeOK, PCs, Polls, Waiters
  <1>2. ASSUME NEW j \in Jobs PROVE TableInv(j) /\ MutexInv(j) /\ CountInv(j)
    BY DEF Init, TableInv, MutexInv, CountInv, State
  <1> QED BY <1>1, <1>2 DEF IInv

(* A step that leaves the fields of job k alone keeps its invariant.       *)
LEMMA OtherJobs ==
    ASSUME NEW k \in Jobs, TableInv(k), MutexInv(k), CountInv(k),
           jobs'[k] = jobs[k], kind'[k] = kind[k], pc'[k] = pc[k], base'[k] = base[k],
           sealed'[k] = sealed[k], poll'[k] = poll[k], tick'[k] = tick[k], mu'[k] = mu[k],
           terminal'[k] = terminal[k], used \subseteq used'
    PROVE  TableInv(k)' /\ MutexInv(k)' /\ CountInv(k)'
  BY DEF TableInv, MutexInv, CountInv, State, IsTerminal

LEMMA TypeStep == IInv /\ [Next]_vars => TypeOK'
  <1> SUFFICES ASSUME IInv, [Next]_vars PROVE TypeOK' OBVIOUS
  <1> USE EntryFacts, JobAssumption DEF IInv, TypeOK, PCs, Polls, Waiters
  <1>1. ASSUME NEW j \in Jobs, Handlers(j) PROVE TypeOK'
    <2>1. CASE \E s \in Terminal, n \in 0..Files : EnsureNow(j, s, n)
      BY <2>1 DEF EnsureNow, publishJob, Terminal
    <2>2. CASE \E k \in Kinds, n \in 0..Files : StartJob(j, k, n)
      BY <2>2 DEF StartJob, publishJob
    <2> QED BY <1>1, <2>1, <2>2 DEF Handlers
  <1>2. ASSUME NEW j \in Jobs, Goroutine(j) PROVE TypeOK'
    <2>1. CASE PublishFetching(j) \/ HintsLoaded(j) \/ HintsFailed(j) \/ MainLock(j)
      BY <2>1, JobAssumption DEF PublishFetching, HintsLoaded, HintsFailed, MainLock, publishJob
    <2>2. CASE PublishTerminal(j)
      <3>1. PICK n \in TerminalCount(j, engine[j] = "ok") :
              publishJob(j, IF engine[j] = "ok" THEN "done" ELSE "failed", n)
        BY <2>2 DEF PublishTerminal
      <3>2. n \in 0..Files
        BY <3>1 DEF TerminalCount
      <3> QED BY <2>2, <3>1, <3>2 DEF PublishTerminal, publishJob
    <2> QED BY <1>2, <2>1, <2>2 DEF Goroutine
  <1>3. ASSUME NEW j \in Jobs, Engine(j) PROVE TypeOK'
    BY <1>3 DEF Engine, EngineStep, EngineReturn
  <1>4. ASSUME NEW j \in Jobs, Poller(j) PROVE TypeOK'
    BY <1>4 DEF Poller, TickCall, TickLock, TickPublish, PollerStops, publishJob
  <1>5. ASSUME NEW j \in Jobs, WaitPoll(j) PROVE TypeOK'
    BY <1>5 DEF WaitPoll, IsTerminal, State, Terminal
  <1>6. CASE Restart
    BY <1>6 DEF Restart
  <1>7. CASE UNCHANGED vars
    BY <1>7 DEF vars
  <1> QED BY <1>1, <1>2, <1>3, <1>4, <1>5, <1>6, <1>7 DEF Next

-----------------------------------------------------------------------------
JobInv(j) == TableInv(j) /\ MutexInv(j) /\ CountInv(j)

LEMMA HandlersStep ==
    ASSUME IInv, NEW j \in Jobs, Handlers(j)
    PROVE  \A k \in Jobs : JobInv(k)'
  <1> USE EntryFacts DEF IInv, TypeOK, publishJob, Terminal
  <1>1. JobInv(j)'
    <2>1. pc[j] = "none" /\ TableInv(j) /\ MutexInv(j)
      BY DEF Handlers, EnsureNow, StartJob, TableInv
    <2>2. CASE \E s \in Terminal, n \in 0..Files : EnsureNow(j, s, n)
      BY <2>1, <2>2, JobAssumption DEF EnsureNow, JobInv, TableInv, MutexInv, CountInv, State, IsTerminal
    <2>3. CASE \E k \in Kinds, n \in 0..Files : StartJob(j, k, n)
      BY <2>1, <2>3 DEF StartJob, JobInv, TableInv, MutexInv, CountInv, State, IsTerminal
    <2> QED BY <2>2, <2>3 DEF Handlers
  <1>2. ASSUME NEW k \in Jobs, k # j PROVE JobInv(k)'
    BY <1>2, OtherJobs DEF Handlers, EnsureNow, StartJob, JobInv
  <1> QED BY <1>1, <1>2

LEMMA GoroutineStep ==
    ASSUME IInv, NEW j \in Jobs, Goroutine(j)
    PROVE  \A k \in Jobs : JobInv(k)'
  <1> USE EntryFacts DEF IInv, TypeOK, publishJob
  <1>1. JobInv(j)'
    <2> USE DEF JobInv, TableInv, MutexInv, CountInv, State, IsTerminal, Terminal
    <2>1. CASE PublishFetching(j)
      BY <2>1, JobAssumption DEF PublishFetching
    <2>2. CASE HintsLoaded(j) \/ HintsFailed(j)
      <3>1. kind[j] \in Ticking \/ HintsFailed(j)
        BY <2>2 DEF HintsLoaded, HintsFailed, Ticking
      <3> QED BY <2>2, <3>1 DEF HintsLoaded, HintsFailed
    <2>3. CASE MainLock(j)
      BY <2>3 DEF MainLock
    <2>4. CASE PublishTerminal(j)
      <3>1. PICK n \in TerminalCount(j, engine[j] = "ok") :
              publishJob(j, IF engine[j] = "ok" THEN "done" ELSE "failed", n)
        BY <2>4 DEF PublishTerminal
      <3>2. n \in 0..Files
        BY <3>1, JobAssumption DEF TerminalCount
      <3> QED BY <2>4, <3>1, <3>2 DEF PublishTerminal
    <2> QED BY <2>1, <2>2, <2>3, <2>4 DEF Goroutine
  <1>2. ASSUME NEW k \in Jobs, k # j PROVE JobInv(k)'
    BY <1>2, OtherJobs DEF Goroutine, PublishFetching, HintsLoaded, HintsFailed, MainLock,
         PublishTerminal, JobInv
  <1> QED BY <1>1, <1>2

LEMMA EngineStepInv ==
    ASSUME IInv, NEW j \in Jobs, Engine(j)
    PROVE  \A k \in Jobs : JobInv(k)'
  <1> USE EntryFacts DEF IInv, TypeOK
  <1>1. JobInv(j)'
    <2> USE DEF JobInv, TableInv, MutexInv, CountInv, State, IsTerminal
    <2>1. CASE EngineStep(j)
      BY <2>1, JobAssumption DEF EngineStep
    <2>2. CASE \E r \in {"ok", "err"} : EngineReturn(j, r)
      BY <2>2 DEF EngineReturn, Polled, Ticking
    <2> QED BY <2>1, <2>2 DEF Engine
  <1>2. ASSUME NEW k \in Jobs, k # j PROVE JobInv(k)'
    BY <1>2, OtherJobs DEF Engine, EngineStep, EngineReturn, JobInv
  <1> QED BY <1>1, <1>2

LEMMA PollerStep ==
    ASSUME IInv, NEW j \in Jobs, Poller(j)
    PROVE  \A k \in Jobs : JobInv(k)'
  <1> USE EntryFacts DEF IInv, TypeOK, publishJob
  <1>1. JobInv(j)'
    <2> USE DEF JobInv, TableInv, MutexInv, CountInv, State, IsTerminal, Terminal
    <2>1. CASE TickCall(j)
      BY <2>1 DEF TickCall
    <2>2. CASE TickLock(j)
      BY <2>2 DEF TickLock
    <2>3. CASE TickPublish(j)
      BY <2>3 DEF TickPublish
    <2>4. CASE PollerStops(j)
      BY <2>4 DEF PollerStops
    <2> QED BY <2>1, <2>2, <2>3, <2>4 DEF Poller
  <1>2. ASSUME NEW k \in Jobs, k # j PROVE JobInv(k)'
    BY <1>2, OtherJobs DEF Poller, TickCall, TickLock, TickPublish, PollerStops, JobInv
  <1> QED BY <1>1, <1>2

LEMMA NextIInv == IInv /\ [Next]_vars => IInv'
  <1> SUFFICES ASSUME IInv, [Next]_vars PROVE \A k \in Jobs : JobInv(k)'
    BY TypeStep DEF IInv, JobInv
  <1>1. ASSUME NEW j \in Jobs, WaitPoll(j) PROVE \A k \in Jobs : JobInv(k)'
    BY <1>1, OtherJobs DEF IInv, WaitPoll, JobInv
  <1>2. CASE Restart
    BY <1>2 DEF IInv, Restart, JobInv, TableInv, MutexInv, CountInv, State
  <1>3. CASE UNCHANGED vars
    BY <1>3, OtherJobs DEF IInv, vars, JobInv
  <1> QED
    BY <1>1, <1>2, <1>3, HandlersStep, GoroutineStep, EngineStepInv, PollerStep DEF Next

LEMMA SpecIInv == Spec => []IInv
  BY InitIInv, NextIInv, PTL DEF Spec

-----------------------------------------------------------------------------
(* What one step may do to the entry of job k: nothing, publish a later    *)
(* state, or be a progress tick of a job that is not terminal.             *)
Moves(k) ==
    \/ jobs'[k] = jobs[k]
    \/ State(k) = "none" /\ State(k)' \in {"waiting", "fetching", "done", "failed"}
    \/ State(k) = "waiting" /\ State(k)' = "fetching"
    \/ State(k) = "fetching" /\ State(k)' \in Terminal
    \/ /\ State(k) = "fetching" /\ State(k)' = "fetching"
       /\ jobs'[k].filesDone >= jobs[k].filesDone

(* A step other than a restart touches one entry, and only in these ways.  *)
LEMMA StepMoves ==
    ASSUME IInv, NEW j \in Jobs,
           Handlers(j) \/ Goroutine(j) \/ Engine(j) \/ Poller(j) \/ WaitPoll(j)
    PROVE  Moves(j) /\ \A k \in Jobs \ {j} : jobs'[k] = jobs[k]
  <1> USE EntryFacts, JobAssumption DEF IInv, TypeOK, publishJob, State
  <1>1. CASE Handlers(j)
    BY <1>1 DEF Handlers, EnsureNow, StartJob, Terminal, TableInv, Moves
  <1>2. CASE PublishFetching(j) \/ HintsLoaded(j) \/ HintsFailed(j) \/ MainLock(j)
    BY <1>2 DEF PublishFetching, HintsLoaded, HintsFailed, MainLock, Terminal, TableInv, Moves
  <1>3. CASE PublishTerminal(j)
    <2>1. PICK n \in TerminalCount(j, engine[j] = "ok") :
            publishJob(j, IF engine[j] = "ok" THEN "done" ELSE "failed", n)
      BY <1>3 DEF PublishTerminal
    <2>2. n \in 0..Files
      BY <2>1 DEF TerminalCount
    <2> QED
      BY <1>3, <2>1, <2>2 DEF PublishTerminal, Terminal, TableInv, Moves
  <1>4. CASE Engine(j) \/ WaitPoll(j)
    BY <1>4 DEF Engine, EngineStep, EngineReturn, WaitPoll, Moves
  <1>5. CASE TickPublish(j)
    BY <1>5 DEF TickPublish, TableInv, MutexInv, CountInv, Moves
  <1>6. CASE TickCall(j) \/ TickLock(j) \/ PollerStops(j)
    BY <1>6 DEF TickCall, TickLock, PollerStops, Moves
  <1> QED BY <1>1, <1>2, <1>3, <1>4, <1>5, <1>6 DEF Goroutine, Poller

(* Every variable keeps its type, for every instance of the table.         *)
THEOREM TypeCorrect == Spec => []TypeOK
  <1>1. IInv => TypeOK BY DEF IInv
  <1> QED BY <1>1, SpecIInv, PTL

(* "must never flip a terminal job back" (server.go:1271-1273): the flag   *)
(* under mu (startFillJob, runImport) keeps late progress ticks out for    *)
(* every number of jobs, files and restarts.                               *)
THEOREM TerminalJobsStay == Spec => TerminalStable
  <1>1. IInv /\ [Next]_vars =>
          [\A j \in Jobs : IsTerminal(j) => jobs'[j] \in {jobs[j], None}]_vars
    <2> SUFFICES ASSUME IInv, Next, NEW j \in Jobs, IsTerminal(j)
                 PROVE  jobs'[j] \in {jobs[j], None}
      OBVIOUS
    <2>1. CASE Restart
      BY <2>1 DEF Restart
    <2>2. ASSUME NEW i \in Jobs,
                 Handlers(i) \/ Goroutine(i) \/ Engine(i) \/ Poller(i) \/ WaitPoll(i)
          PROVE  jobs'[j] = jobs[j]
      BY <2>2, StepMoves DEF Moves, IsTerminal, Terminal
    <2> QED BY <2>1, <2>2 DEF Next
  <1> QED BY <1>1, SpecIInv, PTL DEF Spec, TerminalStable

(* Counts read by the poller before it takes mu (server.go:709-719) are    *)
(* published in order: a progress bar never runs backwards.                *)
THEOREM ProgressNeverBackwards == Spec => ProgressMonotone
  <1>1. IInv /\ [Next]_vars =>
          [\A j \in Jobs :
             State(j) = "fetching" /\ State(j)' = "fetching"
                => jobs'[j].filesDone >= jobs[j].filesDone]_vars
    <2> SUFFICES ASSUME IInv, Next, NEW j \in Jobs,
                        State(j) = "fetching", State(j)' = "fetching"
                 PROVE  jobs'[j].filesDone >= jobs[j].filesDone
      OBVIOUS
    <2>1. CASE Restart
      BY <2>1 DEF Restart, State
    <2>2. jobs[j] \in Entry
      BY DEF IInv, TypeOK, State
    <2>3. ASSUME NEW i \in Jobs,
                 Handlers(i) \/ Goroutine(i) \/ Engine(i) \/ Poller(i) \/ WaitPoll(i)
          PROVE  jobs'[j].filesDone >= jobs[j].filesDone
      BY <2>2, <2>3, StepMoves, EntryFacts, JobAssumption DEF Moves, Terminal
    <2> QED BY <2>1, <2>3 DEF Next
  <1> QED BY <1>1, SpecIInv, PTL DEF Spec, ProgressMonotone

(* The publications of handlers, goroutines and pollers implement the      *)
(* lifecycle a client is promised (server.go:94).                          *)
THEOREM LifecycleImplemented == Spec => ImplementsLifecycle
  <1> DEFINE st == [j \in Jobs |-> State(j)]
  <1>1. Init => Lifecycle!Init
    BY DEF Init, State, Lifecycle!Init
  <1>2. IInv /\ [Next]_vars => [Lifecycle!Next]_st
    <2> SUFFICES ASSUME IInv, [Next]_vars PROVE Lifecycle!Next \/ st' = st
      OBVIOUS
    <2>1. CASE Restart
      BY <2>1 DEF Restart, State, Lifecycle!Next, Lifecycle!Forget
    <2>2. CASE UNCHANGED vars
      BY <2>2 DEF vars, State
    <2>3. ASSUME NEW j \in Jobs,
                 Handlers(j) \/ Goroutine(j) \/ Engine(j) \/ Poller(j) \/ WaitPoll(j)
          PROVE  Lifecycle!Next \/ st' = st
      <3>1. \A k \in Jobs \ {j} : State(k)' = State(k)
        BY <2>3, StepMoves DEF State
      <3>2. \/ State(j)' = State(j)
            \/ State(j) \in Lifecycle!States /\ State(j)' \in Lifecycle!Later[State(j)]
        BY <2>3, StepMoves DEF Moves, State, Terminal,
             Lifecycle!States, Lifecycle!Later, Lifecycle!Terminal
      <3>3. CASE State(j)' = State(j)
        BY <3>1, <3>3
      <3>4. CASE State(j)' \in Lifecycle!Later[State(j)]
        <4>1. st' = [st EXCEPT ![j] = State(j)']
          BY <3>1
        <4>2. Lifecycle!Advance(j)
          BY <3>4, <4>1 DEF Lifecycle!Advance
        <4> QED BY <4>2 DEF Lifecycle!Next
      <3> QED BY <3>2, <3>3, <3>4
    <2> QED BY <2>1, <2>2, <2>3 DEF Next
  <1> QED BY <1>1, <1>2, SpecIInv, PTL DEF Spec, ImplementsLifecycle, Lifecycle!Spec

-----------------------------------------------------------------------------
(* The control socket.                                                     *)

SocketOf(d) == [kind |-> "socket", owner |-> d]

(* A daemon accepts connections exactly from listen(2) to its end.         *)
ListenInv == \A d \in Daemons : d \in listening <=> call[d] \in {"chmod", "serving"}

(* Nobody gets past lstat while user data is at the path; what is there    *)
(* and is no socket is user data.                                          *)
DataInv ==
    /\ path # NoNode /\ path.kind = "data" => path = UserData
    /\ path = UserData => \A d \in Daemons : call[d] \in {"off", "dial", "lstat"}

(* A lone starter past its dial knows that no one serves, and the path is  *)
(* what its last call left there.                                          *)
LoneStarter(d) ==
    /\ \A e \in Daemons \ {d} : call[e] \notin Starting
    /\ call[d] # "dial" => \A e \in Daemons : call[e] # "serving"
    /\ call[d] = "remove" => IsSocket
    /\ call[d] = "bind" => path = NoNode
    /\ call[d] \in {"listen", "chmod"} => path = SocketOf(d)

StarterInv == ~overlap => \A d \in Daemons : call[d] \in Starting => LoneStarter(d)

SocketIInv == SocketTypeOK /\ ListenInv /\ DataInv /\ StarterInv /\ ServerReachable

-----------------------------------------------------------------------------
LEMMA NodeFacts ==
    /\ NoNode \notin Daemons /\ NoNode \notin Node
    /\ UserData \in Node /\ UserData # NoNode /\ UserData.kind = "data"
    /\ \A d \in Daemons : /\ SocketOf(d) \in Node /\ SocketOf(d) # NoNode
                          /\ SocketOf(d) # UserData
                          /\ SocketOf(d).kind = "socket" /\ SocketOf(d).owner = d
    /\ \A n \in Node : n.kind \in {"socket", "data"} /\ n.owner \in Daemons \cup {NoNode}
  BY SocketAssumption DEF Node, UserData, SocketOf

(* Initially no daemon runs, and the path may be an orphan or user data.   *)
LEMMA InitSocketIInv == SocketInit => SocketIInv
  <1> SUFFICES ASSUME SocketInit PROVE SocketIInv OBVIOUS
  <1>1. SocketTypeOK
    BY NodeFacts DEF SocketInit, SocketTypeOK, Node, Starting
  <1>2. ListenInv /\ StarterInv /\ ServerReachable
    BY DEF SocketInit, ListenInv, StarterInv, ServerReachable, Starting
  <1>3. DataInv
    BY NodeFacts DEF SocketInit, DataInv
  <1> QED BY <1>1, <1>2, <1>3 DEF SocketIInv

LEMMA SocketTypeStep == SocketIInv /\ [SocketNext]_socketVars => SocketTypeOK'
  <1> SUFFICES ASSUME SocketIInv, [SocketNext]_socketVars PROVE SocketTypeOK' OBVIOUS
  <1> USE NodeFacts DEF SocketIInv, SocketTypeOK, Starting, Goto
  <1>1. CASE UNCHANGED socketVars
    BY <1>1 DEF socketVars
  <1>2. ASSUME NEW d \in Daemons, Listen(d) PROVE SocketTypeOK'
    <2>1. CASE Start(d)
      <3>1. overlap' \in BOOLEAN
        BY <2>1 DEF Start
      <3> QED BY <2>1, <3>1 DEF Start
    <2>2. CASE Dial(d) \/ Lstat(d) \/ Remove(d) \/ Bind(d)
      BY <2>2 DEF Dial, Lstat, Remove, Bind, SocketOf
    <2>3. CASE ListenCall(d) \/ Chmod(d)
      BY <2>3 DEF ListenCall, Chmod, CloseListener
    <2> QED BY <1>2, <2>1, <2>2, <2>3 DEF Listen
  <1>3. ASSUME NEW d \in Daemons, Close(d) \/ Crash(d) PROVE SocketTypeOK'
    BY <1>3 DEF Close, Crash, CloseListener
  <1> QED BY <1>1, <1>2, <1>3 DEF SocketNext

LEMMA ListenStep == SocketIInv /\ [SocketNext]_socketVars => ListenInv'
  <1> SUFFICES ASSUME SocketIInv, [SocketNext]_socketVars PROVE ListenInv' OBVIOUS
  <1> USE DEF SocketIInv, SocketTypeOK, ListenInv, Starting, Goto
  <1>1. CASE UNCHANGED socketVars
    BY <1>1 DEF socketVars
  <1>2. ASSUME NEW d \in Daemons, Listen(d) PROVE ListenInv'
    BY <1>2 DEF Listen, Start, Dial, Lstat, Remove, Bind,
         ListenCall, Chmod, CloseListener
  <1>3. ASSUME NEW d \in Daemons, Close(d) \/ Crash(d) PROVE ListenInv'
    BY <1>3 DEF Close, Crash, CloseListener
  <1> QED BY <1>1, <1>2, <1>3 DEF SocketNext

LEMMA DataStep == SocketIInv /\ [SocketNext]_socketVars => DataInv'
  <1> SUFFICES ASSUME SocketIInv, [SocketNext]_socketVars PROVE DataInv' OBVIOUS
  <1> USE NodeFacts DEF SocketIInv, SocketTypeOK, DataInv, Goto
  <1>1. CASE UNCHANGED socketVars
    BY <1>1 DEF socketVars
  <1>2. ASSUME NEW d \in Daemons, Listen(d) PROVE DataInv'
    BY <1>2 DEF Listen, Start, Dial, Lstat, Remove, Bind,
         ListenCall, Chmod, CloseListener,
         IsSocket, SocketOf
  <1>3. ASSUME NEW d \in Daemons, Close(d) \/ Crash(d) PROVE DataInv'
    BY <1>3 DEF Close, Crash, CloseListener
  <1> QED BY <1>1, <1>2, <1>3 DEF SocketNext

(* The starts that did not overlap, call by call.                          *)
LEMMA StarterStep ==
    SocketIInv /\ [SocketNext]_socketVars => StarterInv' /\ ServerReachable'
  <1> SUFFICES ASSUME SocketIInv, [SocketNext]_socketVars, ~overlap'
               PROVE  /\ \A d \in Daemons : call'[d] \in Starting => LoneStarter(d)'
                      /\ \A d \in Daemons : call'[d] = "serving" => path' = SocketOf(d)
    BY DEF StarterInv, ServerReachable, SocketOf
  <1> USE NodeFacts DEF SocketIInv, SocketTypeOK, Goto
  <1>0. /\ ~overlap
        /\ \A d \in Daemons : call[d] \in Starting => LoneStarter(d)
        /\ \A d \in Daemons : call[d] = "serving" => path = SocketOf(d)
    <2>1. ~overlap
      BY DEF SocketNext, Listen, Start, Dial, Lstat, Remove, Bind,
           ListenCall, Chmod, CloseListener,
             Close, Crash, socketVars
    <2> QED BY <2>1 DEF StarterInv, ServerReachable, SocketOf
  <1>1. CASE UNCHANGED socketVars
    BY <1>0, <1>1 DEF socketVars, LoneStarter, IsSocket
  <1>2. ASSUME NEW d \in Daemons, Start(d)
        PROVE  /\ \A e \in Daemons : call'[e] \in Starting => LoneStarter(e)'
               /\ \A e \in Daemons : call'[e] = "serving" => path' = SocketOf(e)
    <2>1. \A e \in Daemons : call[e] \notin Starting
      BY <1>2 DEF Start
    <2> QED BY <1>0, <1>2, <2>1 DEF Start, LoneStarter, IsSocket, Starting
  <1>3. ASSUME NEW d \in Daemons, Dial(d)
        PROVE  /\ \A e \in Daemons : call'[e] \in Starting => LoneStarter(e)'
               /\ \A e \in Daemons : call'[e] = "serving" => path' = SocketOf(e)
    BY <1>0, <1>3 DEF Dial, LoneStarter, IsSocket, Starting, ListenInv
  <1>4. ASSUME NEW d \in Daemons, Lstat(d) \/ Remove(d)
        PROVE  /\ \A e \in Daemons : call'[e] \in Starting => LoneStarter(e)'
               /\ \A e \in Daemons : call'[e] = "serving" => path' = SocketOf(e)
    BY <1>0, <1>4 DEF Lstat, Remove, LoneStarter, IsSocket, Starting
  <1>5. ASSUME NEW d \in Daemons, Bind(d) \/ ListenCall(d)
        PROVE  /\ \A e \in Daemons : call'[e] \in Starting => LoneStarter(e)'
               /\ \A e \in Daemons : call'[e] = "serving" => path' = SocketOf(e)
    BY <1>0, <1>5 DEF Bind, ListenCall, LoneStarter, IsSocket, Starting,
         SocketOf
  <1>6. ASSUME NEW d \in Daemons, Chmod(d) \/ Close(d) \/ Crash(d)
        PROVE  /\ \A e \in Daemons : call'[e] \in Starting => LoneStarter(e)'
               /\ \A e \in Daemons : call'[e] = "serving" => path' = SocketOf(e)
    BY <1>0, <1>6 DEF Chmod, Close, Crash, CloseListener, LoneStarter,
         IsSocket, Starting
  <1> QED BY <1>1, <1>2, <1>3, <1>4, <1>5, <1>6 DEF SocketNext, Listen

LEMMA SocketInvariance == SocketSpec => []SocketIInv
  <1>1. SocketIInv /\ [SocketNext]_socketVars => SocketIInv'
    BY SocketTypeStep, ListenStep, DataStep, StarterStep DEF SocketIInv
  <1> QED BY InitSocketIInv, <1>1, PTL DEF SocketSpec

-----------------------------------------------------------------------------
(* The variables keep their types.                                         *)
THEOREM SocketTypeCorrect == SocketSpec => []SocketTypeOK
  <1>1. SocketIInv => SocketTypeOK BY DEF SocketIInv
  <1> QED BY SocketInvariance, <1>1, PTL

(* While no two starts raced, the daemon that serves is the one at the     *)
(* path, so there is at most one (server.go, Listen).                      *)
THEOREM OneServerReachable == SocketSpec => []ServerReachable
  <1>1. SocketIInv => ServerReachable BY DEF SocketIInv
  <1> QED BY SocketInvariance, <1>1, PTL

(* No start, race of starts, close or crash removes or replaces user data  *)
(* at the socket path (server.go:197-199).                                 *)
THEOREM UserDataAlwaysKept == SocketSpec => UserDataKept
  <1>1. SocketIInv /\ [SocketNext]_socketVars
          => [path = UserData => path' = UserData]_socketVars
    <2> SUFFICES ASSUME SocketIInv, [SocketNext]_socketVars, path = UserData
                 PROVE  path' = UserData
      OBVIOUS
    <2>1. \A d \in Daemons : call[d] \in {"off", "dial", "lstat"} /\ path # NoNode
      BY NodeFacts DEF SocketIInv, DataInv
    <2> QED BY <2>1 DEF SocketNext, Listen, Start, Dial, Lstat, Remove,
         Bind, ListenCall, Chmod, Close,
                 Crash, socketVars
  <1> QED BY SocketInvariance, <1>1, PTL DEF SocketSpec, UserDataKept

(* Without racing starts, a start fails only because another daemon serves *)
(* or the path is user data: nothing a crash left behind blocks it.        *)
THEOREM LeftoversNeverBlock == SocketSpec => CrashNeverBlocks
  <1> DEFINE Reason(d) == path = UserData \/ \E e \in Daemons \ {d} : call[e] = "serving"
  <1>1. SocketIInv => \A d \in Daemons : ~overlap /\ StartFails(d) => Reason(d)
    <2> SUFFICES ASSUME SocketIInv, NEW d \in Daemons, ~overlap, StartFails(d) PROVE Reason(d)
      OBVIOUS
    <2> USE NodeFacts DEF SocketIInv, SocketTypeOK, Goto
    <2>1. call[d] \in Starting
      BY DEF StartFails, Dial, Lstat, Remove, Bind, Chmod,
           Starting
    <2>2. LoneStarter(d)
      BY <2>1 DEF StarterInv
    <2>3. CASE Dial(d)
      BY <2>2, <2>3 DEF StartFails, Dial, LoneStarter, ListenInv, IsSocket,
           Starting
    <2>4. CASE Lstat(d)
      BY <2>4 DEF StartFails, Lstat, DataInv, IsSocket
    <2>5. CASE Remove(d) \/ Bind(d) \/ Chmod(d)
      BY <2>2, <2>5 DEF StartFails, Remove, Bind, Chmod, LoneStarter,
           IsSocket
    <2> QED BY <2>3, <2>4, <2>5 DEF StartFails
  <1>2. SocketIInv /\ [SocketNext]_socketVars =>
          [\A d \in Daemons : ~overlap /\ StartFails(d) => Reason(d)]_socketVars
    BY <1>1
  <1> QED BY SocketInvariance, <1>2, PTL DEF SocketSpec, CrashNeverBlocks

(* The exact limit of "removed only if it is a verifiably orphaned Unix    *)
(* socket" (server.go:195-197): it takes two racing starts to break it.    *)
THEOREM OrphansOnlyUnlessRaced ==
    SocketSpec => [][~overlap => \A d \in Daemons :
                       call[d] = "remove" /\ path # NoNode /\ path' = NoNode
                         => path.owner \notin listening]_socketVars
  <1>1. SocketIInv => (~overlap => \A d \in Daemons : call[d] = "remove" /\ path # NoNode
                                => path.owner \notin listening)
    <2> SUFFICES ASSUME SocketIInv, ~overlap, NEW d \in Daemons, call[d] = "remove", path # NoNode,
                        path.owner \in listening
                 PROVE  FALSE
      OBVIOUS
    <2>1. LoneStarter(d)
      BY DEF SocketIInv, StarterInv, Starting
    <2> QED BY <2>1, NodeFacts DEF SocketIInv, SocketTypeOK, ListenInv, LoneStarter, Starting
  <1>2. SocketIInv => [~overlap => \A d \in Daemons :
                   call[d] = "remove" /\ path # NoNode /\ path' = NoNode
                     => path.owner \notin listening]_socketVars
    BY <1>1
  <1> QED BY SocketInvariance, <1>2, PTL
=============================================================================
