---------------------------- MODULE SocketListen ----------------------------
(***************************************************************************)
(* How shardhive daemons claim the control socket (internal/api/server.go, *)
(* Listen and Close; cmd/shardhive/main.go).  Nothing else keeps a second  *)
(* daemon off the store: the locks of the importer and of the state files  *)
(* are in-process.  One action is one system call on the socket path.      *)
(* Its names do not meet those of JobTable, the other module about         *)
(* server.go: ServerProofs extends both.                                   *)
(***************************************************************************)
EXTENDS Naturals, FiniteSets

CONSTANTS
    Daemons,
    NoNode     \* nothing at the path; the owner of what no daemon owns

Starting == {"dial", "lstat", "remove", "bind", "listen", "chmod"}

VARIABLES
    path,      \* what is at the socket path: nothing, user data, or a socket
    listening, \* daemons whose socket accepts connections
    call,      \* [Daemons -> {"off", "serving"} \cup Starting]: next call
    overlap    \* two daemons were inside Listen at once (history)

socketVars == <<path, listening, call, overlap>>

ASSUME SocketAssumption == NoNode \notin Daemons \cup
    [kind : {"socket", "data"}, owner : Daemons \cup {NoNode}]

Node == [kind : {"socket", "data"}, owner : Daemons \cup {NoNode}]
UserData == [kind |-> "data", owner |-> NoNode]

SocketInit ==
    /\ path \in {NoNode, UserData} \cup [kind : {"socket"}, owner : {NoNode}]
    /\ listening = {}
    /\ call = [d \in Daemons |-> "off"]
    /\ overlap = FALSE

Goto(d, step) == call' = [call EXCEPT ![d] = step]
IsSocket == path # NoNode /\ path.kind = "socket"

(* runServe gets as far as srv.Listen.                                    *)
Start(d) ==
    /\ call[d] = "off"
    /\ Goto(d, "dial")
    /\ overlap' = (overlap \/ \E e \in Daemons : call[e] \in Starting)
    /\ UNCHANGED <<path, listening>>

(* Mutant of Dial: any socket at the path counts as orphaned.              *)
DialSkipped(d) ==
    /\ call[d] = "dial"
    /\ Goto(d, "lstat")
    /\ UNCHANGED <<path, listening, overlap>>

(* net.Dial answers: "in use by another shardhive".                        *)
Dial(d) ==
    /\ call[d] = "dial"
    /\ Goto(d, IF IsSocket /\ path.owner \in listening THEN "off" ELSE "lstat")
    /\ UNCHANGED <<path, listening, overlap>>

(* Mutant of Lstat: removes whatever is there.                             *)
LstatSkipped(d) ==
    /\ call[d] = "lstat"
    /\ Goto(d, IF path = NoNode THEN "bind" ELSE "remove")
    /\ UNCHANGED <<path, listening, overlap>>

(* os.Lstat: absent, a socket, or something Listen refuses to touch.       *)
Lstat(d) ==
    /\ call[d] = "lstat"
    /\ Goto(d, IF path = NoNode THEN "bind" ELSE IF IsSocket THEN "remove" ELSE "off")
    /\ UNCHANGED <<path, listening, overlap>>

(* Mutant of Remove: the orphan is left to bind.                           *)
RemoveSkipped(d) ==
    /\ call[d] = "remove"
    /\ Goto(d, "bind")
    /\ UNCHANGED <<path, listening, overlap>>

(* os.Remove by name; a path already gone is an error.                     *)
Remove(d) ==
    /\ call[d] = "remove"
    /\ Goto(d, IF path = NoNode THEN "off" ELSE "bind")
    /\ path' = NoNode
    /\ UNCHANGED <<listening, overlap>>

(* net.Listen: bind fails when the path exists ...                         *)
Bind(d) ==
    /\ call[d] = "bind"
    /\ IF path = NoNode THEN path' = [kind |-> "socket", owner |-> d] /\ Goto(d, "listen")
                      ELSE Goto(d, "off") /\ UNCHANGED path
    /\ UNCHANGED <<listening, overlap>>

(* ... and connections are accepted from listen(2) on.                     *)
ListenCall(d) ==
    /\ call[d] = "listen"
    /\ listening' = listening \cup {d}
    /\ Goto(d, "chmod")
    /\ UNCHANGED <<path, overlap>>

(* ln.Close of a Go Unix listener also unlinks the path, whoever's it is.  *)
CloseListener(d) ==
    /\ listening' = listening \ {d}
    /\ path' = NoNode
    /\ Goto(d, "off")
    /\ UNCHANGED overlap

(* os.Chmod by name; on an error the listener is closed.                   *)
Chmod(d) ==
    /\ call[d] = "chmod"
    /\ IF path = NoNode THEN CloseListener(d)
                      ELSE Goto(d, "serving") /\ UNCHANGED <<path, listening, overlap>>

(* SIGTERM: srv.Close.                                                     *)
Close(d) ==
    /\ call[d] = "serving"
    /\ CloseListener(d)

(* The daemon dies anywhere: the kernel closes, nobody unlinks.            *)
Crash(d) ==
    /\ call[d] # "off"
    /\ listening' = listening \ {d}
    /\ Goto(d, "off")
    /\ UNCHANGED <<path, overlap>>

Listen(d) ==
    \/ Start(d) \/ Dial(d) \/ Lstat(d) \/ Remove(d) \/ Bind(d) \/ ListenCall(d) \/ Chmod(d)

SocketNext == \E d \in Daemons : Listen(d) \/ Close(d) \/ Crash(d)

SocketSpec == SocketInit /\ [][SocketNext]_socketVars

-----------------------------------------------------------------------------
SocketTypeOK ==
    /\ path \in Node \cup {NoNode}
    /\ listening \subseteq Daemons
    /\ call \in [Daemons -> {"off", "serving"} \cup Starting]
    /\ overlap \in BOOLEAN

(* One daemon at a time serves, and it is the one clients of the path      *)
(* reach (005 section 3): the in-process locks of importer and state files *)
(* then cover every writer of the store.  As long as no two starts raced.  *)
ServerReachable ==
    ~overlap => \A d \in Daemons :
        call[d] = "serving" => path = [kind |-> "socket", owner |-> d]

(* "a wrong SHARDR_SOCKET must fail loudly, not delete user data"          *)
(* (server.go:197-199), also when starts race.                             *)
UserDataKept == [][path = UserData => path' = UserData]_socketVars

StartFails(d) == call'[d] = "off" /\ (Dial(d) \/ Lstat(d) \/ Remove(d) \/ Bind(d) \/ Chmod(d))

(* A start fails only for a reason the operator can see: another daemon    *)
(* serves, or the path is user data.  What a crash left at any point of    *)
(* Listen never blocks the next start.                                     *)
CrashNeverBlocks ==
    [][\A d \in Daemons :
         ~overlap /\ StartFails(d)
           => path = UserData \/ \E e \in Daemons \ {d} : call[e] = "serving"]_socketVars

(* "removed only if it is a verifiably orphaned Unix socket: nothing       *)
(* accepts connections on it AND lstat says it is a socket"                *)
(* (server.go:195-197).                                                    *)
RemovedOnlyOrphans ==
    [][\A d \in Daemons :
         call[d] = "remove" /\ path # NoNode /\ path' = NoNode => path.owner \notin listening]_socketVars
=============================================================================
