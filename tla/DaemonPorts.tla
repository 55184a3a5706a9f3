----------------------------- MODULE DaemonPorts -----------------------------
(***************************************************************************)
(* Port pre-emption: the proxy daemon that owns the declared host ports,   *)
(* its control socket, and the commands that start it, ask it for ports    *)
(* and shut it down (internal/cli/daemon.go, the port half of              *)
(* internal/proxy/proxy.go).                                               *)
(*                                                                         *)
(* A workspace carries at most one command (its operation lock), so the    *)
(* commands are indexed by workspace: `wpc' is a resting state ("absent",  *)
(* "stopped", "running") or the step the command takes next.  A Daemon is  *)
(* one process incarnation; the main goroutine is `dpc', the ticker        *)
(* goroutine that reconciles is `rpc'.  A request is a connection of the   *)
(* control socket; its `from' becomes None when the client has gone.       *)
(***************************************************************************)
EXTENDS Naturals

CONSTANTS
    Ws,        \* workspaces that declare ports
    Port,      \* declared host ports
    Declares,  \* the ports each workspace declares
    Daemon,    \* incarnations of `devd daemon'
    Faults,    \* what may go wrong: deadlines expire, processes are killed
    None

ASSUME DeclaresAssumption == Declares \in [Ws -> SUBSET Port \ {{}}]
ASSUME FaultsAssumption == Faults \subseteq {"deadline", "kill"}
ASSUME DistinctAssumption == Ws \cap Daemon = {} /\ None \notin Ws \cup Daemon

VARIABLES
    decl,      \* workspaces with rows in reserved_ports
    metaLock,  \* flock of metadata.lock
    wpc, reply,
    dpc, rpc,
    dlock,     \* flock of daemon.lock
    socket,    \* the incarnation that bound the control socket's path
    lst,       \* TCP listeners of each incarnation
    snap,      \* the ports an incarnation has read from SQLite and not yet applied
    inbox,     \* control connections not yet answered
    abandoned  \* history: a request was given up, or a process was killed

wsVars == <<decl, wpc, reply>>
daemonVars == <<dpc, rpc, dlock, socket, lst, snap>>
vars == <<wsVars, daemonVars, metaLock, inbox, abandoned>>

Init ==
    /\ decl = {}
    /\ metaLock = None
    /\ wpc = [w \in Ws |-> "absent"]
    /\ reply = [w \in Ws |-> "none"]
    /\ dpc = [d \in Daemon |-> "off"]
    /\ rpc = [d \in Daemon |-> "tick"]
    /\ dlock = None
    /\ socket = None
    /\ lst = [d \in Daemon |-> {}]
    /\ snap = [d \in Daemon |-> {}]
    /\ inbox = {}
    /\ abandoned = FALSE

-----------------------------------------------------------------------------
Goto(w, s) == wpc' = [wpc EXCEPT ![w] = s]
Hangup(w) == reply' = [reply EXCEPT ![w] = "none"]
Rest(w) == IF w \in decl THEN "stopped" ELSE "absent"

\* GetAllReservedPorts.
Reserved == UNION {Declares[w] : w \in decl}

\* The main goroutine has a listening control socket.
Open == {"opendb", "read", "init", "serve", "term", "stopped"}
\* Control connections are handled until the process exits.
Serving == {"serve", "term", "stopped", "closed"}
Connectable == socket # None /\ dpc[socket] \in Open

Unlock(h) == metaLock' = IF metaLock = h THEN None ELSE metaLock

\* sendProxyDaemonRequest up to the encoded request.
Send(w, cmd, next) ==
    /\ Connectable
    /\ inbox' = inbox \cup {[to |-> socket, from |-> w, cmd |-> cmd, ports |-> Declares[w]]}
    /\ Goto(w, next)
    /\ UNCHANGED reply

Mine(w) == {m \in inbox : m.from = w}
Orphaned(w) == {IF m.from = w THEN [m EXCEPT !.from = None] ELSE m : m \in inbox}

-----------------------------------------------------------------------------
(***************************************************************************)
(* Commands: run and fork publish, start finds the row; all three ask the  *)
(* daemon for the ports before they launch the VM.                         *)
(***************************************************************************)
Publish(w) ==
    /\ wpc[w] = "absent"
    /\ metaLock = None
    /\ decl' = decl \cup {w}
    /\ Goto(w, "ensure")
    /\ UNCHANGED <<reply, daemonVars, metaLock, inbox>>

Start(w) ==
    /\ wpc[w] = "stopped"
    /\ Goto(w, "ensure")
    /\ UNCHANGED <<decl, reply, daemonVars, metaLock, inbox>>

\* ensureProxyDaemon: the first request, or start a daemon and poll.
Ensure(w) ==
    /\ wpc[w] = "ensure"
    /\ \/ Send(w, "ensure", "asked")
       \/ /\ ~Connectable
          /\ Goto(w, "spawn")
          /\ UNCHANGED <<reply, inbox>>
    /\ UNCHANGED <<decl, daemonVars, metaLock>>

SpawnDaemon(w) ==
    /\ wpc[w] = "spawn"
    /\ \/ \E d \in Daemon :
            /\ dpc[d] = "off"
            /\ dpc' = [dpc EXCEPT ![d] = "begin"]
            /\ Goto(w, "poll")
       \/ Goto(w, "stopped") /\ UNCHANGED dpc
    /\ UNCHANGED <<decl, reply, rpc, dlock, socket, lst, snap, metaLock, inbox>>

\* Polls every 50 ms until it is connected or five seconds have passed.
Poll(w) ==
    /\ wpc[w] = "poll"
    /\ \/ Send(w, "ensure", "asked")
       \/ "deadline" \in Faults /\ Goto(w, "stopped") /\ UNCHANGED <<reply, inbox>>
    /\ UNCHANGED <<decl, daemonVars, metaLock>>

EnsureAnswered(w) ==
    /\ wpc[w] = "asked"
    /\ \/ reply[w] = "ok" /\ Goto(w, "launch")
       \/ reply[w] = "err" /\ Goto(w, "stopped")
    /\ Hangup(w)
    /\ UNCHANGED <<decl, daemonVars, metaLock, inbox>>

\* vm.Start and readiness, or an error that ends the command.
Launch(w) ==
    /\ wpc[w] = "launch"
    /\ Goto(w, "running") \/ Goto(w, "stopped")
    /\ UNCHANGED <<decl, reply, daemonVars, metaLock, inbox>>

StopVM(w) ==
    /\ wpc[w] = "running"
    /\ Goto(w, "stopped")
    /\ UNCHANGED <<decl, reply, daemonVars, metaLock, inbox>>

\* removeWorkspace: the metadata lock is kept when no declaration is left.
Remove(w) ==
    /\ wpc[w] = "stopped"
    /\ metaLock = None
    /\ decl' = decl \ {w}
    /\ \/ decl' # {} /\ Goto(w, "absent") /\ UNCHANGED metaLock
       \/ decl' = {} /\ Goto(w, "shutdown") /\ metaLock' = w
    /\ UNCHANGED <<reply, daemonVars, inbox>>

\* shutdownProxyDaemon.
Shutdown(w) ==
    /\ wpc[w] = "shutdown"
    /\ \/ Send(w, "shutdown", "shutting") /\ UNCHANGED metaLock
       \/ /\ ~Connectable
          /\ Goto(w, "absent")
          /\ Unlock(w)
          /\ UNCHANGED <<reply, inbox>>
    /\ UNCHANGED <<decl, daemonVars>>

ShutdownAnswered(w) ==
    /\ wpc[w] = "shutting"
    /\ \/ reply[w] = "ok" /\ Goto(w, "gone") /\ UNCHANGED metaLock
       \/ reply[w] = "err" /\ Goto(w, "absent") /\ Unlock(w)
    /\ Hangup(w)
    /\ UNCHANGED <<decl, daemonVars, inbox>>

\* Mutant: the answer is enough, the socket is not waited for.
SocketGoneUnchecked(w) ==
    /\ wpc[w] = "gone"
    /\ Goto(w, "absent")
    /\ Unlock(w)
    /\ UNCHANGED <<decl, reply, daemonVars, inbox>>

SocketGone(w) ==
    /\ wpc[w] = "gone"
    /\ socket = None
    /\ Goto(w, "absent")
    /\ Unlock(w)
    /\ UNCHANGED <<decl, reply, daemonVars, inbox>>

\* Mutant: shutdown requests have no deadline.
DeadlineEnsureOnly(w) ==
    /\ "deadline" \in Faults
    /\ wpc[w] = "asked"
    /\ Goto(w, Rest(w))
    /\ Unlock(w)
    /\ inbox' = Orphaned(w)
    /\ Hangup(w)
    /\ UNCHANGED <<decl, daemonVars>>

\* SetDeadline on the connection, and the bounded wait for the socket: the
\* command goes on with a warning or an error, its request stays queued.
Deadline(w) ==
    /\ "deadline" \in Faults
    /\ \/ wpc[w] \in {"asked", "shutting"} /\ Mine(w) # {}
       \/ wpc[w] = "gone" /\ socket # None
    /\ Goto(w, Rest(w))
    /\ Unlock(w)
    /\ inbox' = Orphaned(w)
    /\ Hangup(w)
    /\ UNCHANGED <<decl, daemonVars>>

\* The command is killed: its locks are released.
KillCommand(w) ==
    /\ "kill" \in Faults
    /\ wpc[w] \notin {"absent", "stopped", "running"}
    /\ Goto(w, Rest(w))
    /\ Unlock(w)
    /\ inbox' = Orphaned(w)
    /\ Hangup(w)
    /\ UNCHANGED <<decl, daemonVars>>

-----------------------------------------------------------------------------
(***************************************************************************)
(* runDaemon.                                                              *)
(***************************************************************************)
\* Mutant: daemon.lock is opened but not locked.
LockDaemonUnchecked(d) ==
    /\ dpc[d] = "begin"
    /\ dpc' = [dpc EXCEPT ![d] = "listen"]
    /\ dlock' = d
    /\ UNCHANGED <<wsVars, rpc, socket, lst, snap, metaLock, inbox>>

LockDaemon(d) ==
    /\ dpc[d] = "begin"
    /\ \/ /\ dlock = None
          /\ dlock' = d
          /\ dpc' = [dpc EXCEPT ![d] = "listen"]
       \/ /\ dlock # None
          /\ dpc' = [dpc EXCEPT ![d] = "dead"]
          /\ UNCHANGED dlock
    /\ UNCHANGED <<wsVars, rpc, socket, lst, snap, metaLock, inbox>>

\* A stale socket is removed and the path bound again.
Listen(d) ==
    /\ dpc[d] = "listen"
    /\ dpc' = [dpc EXCEPT ![d] = "opendb"]
    /\ socket' = d
    /\ UNCHANGED <<wsVars, rpc, dlock, lst, snap, metaLock, inbox>>

\* db.Open waits for the metadata lock and releases it.
OpenDB(d) ==
    /\ dpc[d] = "opendb"
    /\ metaLock = None
    /\ dpc' = [dpc EXCEPT ![d] = "read"]
    /\ UNCHANGED <<wsVars, rpc, dlock, socket, lst, snap, metaLock, inbox>>

\* The first read is outside the metadata lock.
ReadReserved(d) ==
    /\ dpc[d] = "read"
    /\ dpc' = [dpc EXCEPT ![d] = "init"]
    /\ snap' = [snap EXCEPT ![d] = Reserved]
    /\ UNCHANGED <<wsVars, rpc, dlock, socket, lst, metaLock, inbox>>

\* EnsurePorts binds those of the ports it can; others on the host may hold some.
EnsurePorts(d, ports, bound) ==
    /\ bound \subseteq ports
    /\ lst' = [lst EXCEPT ![d] = @ \cup bound]

InitPorts(d) ==
    /\ dpc[d] = "init"
    /\ dpc' = [dpc EXCEPT ![d] = "serve"]
    /\ \E bound \in SUBSET Port : EnsurePorts(d, snap[d], bound)
    /\ snap' = [snap EXCEPT ![d] = {}]
    /\ UNCHANGED <<wsVars, rpc, dlock, socket, metaLock, inbox>>

\* handleDaemonControl, one goroutine per connection.  After Proxy.Stop every
\* ensure is answered "proxy stopped".
Handle(d) ==
    \E m \in inbox :
        /\ m.to = d
        /\ dpc[d] \in Serving
        /\ inbox' = inbox \ {m}
        /\ \/ /\ m.cmd = "ensure" /\ dpc[d] \in {"serve", "term"}
              /\ \E bound \in SUBSET Port : EnsurePorts(d, m.ports, bound)
              /\ UNCHANGED dpc
           \/ /\ m.cmd = "ensure" /\ dpc[d] \notin {"serve", "term"}
              /\ UNCHANGED <<lst, dpc>>
           \/ /\ m.cmd = "shutdown"
              /\ dpc' = [dpc EXCEPT ![d] = IF @ = "serve" THEN "term" ELSE @]
              /\ UNCHANGED lst
        /\ reply' = IF m.from = None THEN reply
                    ELSE [reply EXCEPT ![m.from] =
                        IF m.cmd = "shutdown" \/ m.ports \subseteq lst'[d]
                        THEN "ok" ELSE "err"]
        /\ UNCHANGED <<decl, wpc, rpc, dlock, socket, snap, metaLock>>

\* Mutant: snapshot and application are not one metadata critical section.
LockReconcileSkipped(d) ==
    /\ rpc[d] = "tick" /\ dpc[d] \in Serving
    /\ rpc' = [rpc EXCEPT ![d] = "snapshot"]
    /\ UNCHANGED <<wsVars, dpc, dlock, socket, lst, snap, metaLock, inbox>>

\* reconcileDaemonPorts.
LockReconcile(d) ==
    /\ rpc[d] = "tick" /\ dpc[d] \in Serving
    /\ metaLock = None
    /\ metaLock' = d
    /\ rpc' = [rpc EXCEPT ![d] = "snapshot"]
    /\ UNCHANGED <<wsVars, dpc, dlock, socket, lst, snap, inbox>>

SnapshotPorts(d) ==
    /\ rpc[d] = "snapshot" /\ dpc[d] \in Serving
    /\ snap' = [snap EXCEPT ![d] = Reserved]
    /\ rpc' = [rpc EXCEPT ![d] = "apply"]
    /\ UNCHANGED <<wsVars, dpc, dlock, socket, lst, metaLock, inbox>>

\* Mutant: ports are added, never released.
ReconcilePortsAddOnly(d) ==
    /\ rpc[d] = "apply" /\ dpc[d] \in Serving
    /\ \E bound \in SUBSET snap[d] : lst' = [lst EXCEPT ![d] = @ \cup bound]
    /\ rpc' = [rpc EXCEPT ![d] = "tick"]
    /\ snap' = [snap EXCEPT ![d] = {}]
    /\ Unlock(d)
    /\ UNCHANGED <<wsVars, dpc, dlock, socket, inbox>>

\* Listeners that are not desired are closed, missing ones opened unless stopped.
ReconcilePorts(d) ==
    /\ rpc[d] = "apply" /\ dpc[d] \in Serving
    /\ \E bound \in SUBSET snap[d] :
        lst' = [lst EXCEPT ![d] = (@ \cap snap[d]) \cup
                    IF dpc[d] \in {"serve", "term"} THEN bound ELSE {}]
    /\ rpc' = [rpc EXCEPT ![d] = "tick"]
    /\ snap' = [snap EXCEPT ![d] = {}]
    /\ Unlock(d)
    /\ UNCHANGED <<wsVars, dpc, dlock, socket, inbox>>

\* After the signal the deferred calls run in this order: Proxy.Stop, closing
\* and removing the socket, closing daemon.lock.
StopProxy(d) ==
    /\ dpc[d] = "term"
    /\ dpc' = [dpc EXCEPT ![d] = "stopped"]
    /\ lst' = [lst EXCEPT ![d] = {}]
    /\ UNCHANGED <<wsVars, rpc, dlock, socket, snap, metaLock, inbox>>

CloseSocket(d) ==
    /\ dpc[d] = "stopped"
    /\ dpc' = [dpc EXCEPT ![d] = "closed"]
    /\ socket' = None
    /\ UNCHANGED <<wsVars, rpc, dlock, lst, snap, metaLock, inbox>>

\* Process end: locks, listeners and connections go; a path stays.
Die(d) ==
    /\ dpc' = [dpc EXCEPT ![d] = "dead"]
    /\ dlock' = IF dlock = d THEN None ELSE dlock
    /\ Unlock(d)
    /\ rpc' = [rpc EXCEPT ![d] = "tick"]
    /\ lst' = [lst EXCEPT ![d] = {}]
    /\ snap' = [snap EXCEPT ![d] = {}]
    /\ inbox' = {m \in inbox : m.to # d}
    /\ reply' = [w \in Ws |-> IF \E m \in Mine(w) : m.to = d THEN "err" ELSE reply[w]]
    /\ UNCHANGED <<decl, wpc, socket>>

ExitDaemon(d) == dpc[d] = "closed" /\ Die(d)

KillDaemon(d) == "kill" \in Faults /\ dpc[d] \notin {"off", "dead"} /\ Die(d)

-----------------------------------------------------------------------------
\* Steps of a command that is under way.
CommandStep(w) ==
    \/ /\ \/ Ensure(w) \/ SpawnDaemon(w) \/ Poll(w) \/ EnsureAnswered(w) \/ Launch(w)
          \/ Shutdown(w) \/ ShutdownAnswered(w) \/ SocketGone(w)
       /\ UNCHANGED abandoned
    \/ Deadline(w) /\ abandoned' = TRUE

WsNext(w) ==
    \/ (Publish(w) \/ Start(w) \/ StopVM(w) \/ Remove(w)) /\ UNCHANGED abandoned
    \/ CommandStep(w)
    \/ KillCommand(w) /\ abandoned' = TRUE

MainStep(d) ==
    /\ \/ LockDaemon(d) \/ Listen(d) \/ OpenDB(d) \/ ReadReserved(d)
       \/ InitPorts(d) \/ StopProxy(d) \/ CloseSocket(d) \/ ExitDaemon(d)
    /\ UNCHANGED abandoned

HandleStep(d) == Handle(d) /\ UNCHANGED abandoned

ReconcileStep(d) ==
    (LockReconcile(d) \/ SnapshotPorts(d) \/ ReconcilePorts(d)) /\ UNCHANGED abandoned

DaemonNext(d) == \/ MainStep(d) \/ HandleStep(d) \/ ReconcileStep(d)
                 \/ KillDaemon(d) /\ abandoned' = TRUE

Next == (\E w \in Ws : WsNext(w)) \/ (\E d \in Daemon : DaemonNext(d))

Spec == Init /\ [][Next]_vars

\* Processes and goroutines are scheduled; a waiter for metadata.lock gets it
\* if it is free again and again.
Fairness ==
    /\ \A w \in Ws : WF_vars(CommandStep(w))
    /\ \A d \in Daemon : /\ SF_vars(MainStep(d)) /\ WF_vars(HandleStep(d))
                         /\ SF_vars(ReconcileStep(d))

LiveSpec == Spec /\ Fairness

-----------------------------------------------------------------------------
Request == [to : Daemon, from : Ws \cup {None}, cmd : {"ensure", "shutdown"},
            ports : SUBSET Port]

TypeOK ==
    /\ decl \subseteq Ws
    /\ metaLock \in Ws \cup Daemon \cup {None}
    /\ wpc \in [Ws -> {"absent", "stopped", "running", "ensure", "spawn", "poll",
                       "asked", "launch", "shutdown", "shutting", "gone"}]
    /\ reply \in [Ws -> {"none", "ok", "err"}]
    /\ dpc \in [Daemon -> Open \cup {"off", "begin", "listen", "closed", "dead"}]
    /\ rpc \in [Daemon -> {"tick", "snapshot", "apply"}]
    /\ dlock \in Daemon \cup {None}
    /\ socket \in Daemon \cup {None}
    /\ lst \in [Daemon -> SUBSET Port]
    /\ snap \in [Daemon -> SUBSET Port]
    /\ inbox \subseteq Request
    /\ abandoned \in BOOLEAN

\* Only the holder of daemon.lock has listeners or a connectable socket, so an
\* exiting daemon never unlinks its successor's socket and two daemons never
\* compete for a port (runDaemon's lock and the order of its deferred calls).
OneOwner ==
    /\ \A d \in Daemon : lst[d] # {} => dlock = d
    /\ Connectable => dlock = socket

\* From a successful ensure until its VM stops, a workspace's declared ports
\* are owned by the daemon (EnsurePorts, reconcileDaemonPorts, shutdownProxyDaemon).
Preempted ==
    \A w \in Ws : wpc[w] \in {"launch", "running"} =>
        Declares[w] \subseteq UNION {lst[d] : d \in Daemon}

\* As long as no request was abandoned at its deadline and no process was killed,
\* Preempted holds, also while one daemon exits and the next comes up
\* (shutdownProxyDaemon waits for the socket to vanish under the metadata lock).
PreemptedInTime == ~abandoned => Preempted

\* Reconciliation never closes the listener of a declared port
\* (reconcileDaemonPorts holds the metadata lock from snapshot to application).
DeclaredKept ==
    [][\A d \in Daemon : rpc[d] = "apply" /\ rpc'[d] = "tick" /\ dpc'[d] # "dead" =>
            (lst[d] \ lst'[d]) \cap Reserved = {}]_vars

\* A port nobody declares any more is released by a daemon that stays up
\* (reconcileDaemonPorts, once a second).
PortsReleased ==
    \A d \in Daemon, p \in Port :
        (dpc[d] = "serve" /\ p \in lst[d] /\ p \notin Reserved)
            ~> (p \notin lst[d] \/ p \in Reserved)

\* Every command ends, although rm may wait for an answer of a daemon that waits
\* in db.Open for the metadata lock rm holds (the deadlines of daemon.go).
CommandsEnd ==
    \A w \in Ws : wpc[w] \notin {"absent", "stopped", "running"}
                    ~> wpc[w] \in {"absent", "stopped", "running"}

(***************************************************************************)
(* The inductive invariant.                                                *)
(***************************************************************************)
\* From daemon.lock on, until the exit, the incarnation has the lock; it has
\* listeners only while it serves.
OwnerInv ==
    \A d \in Daemon :
        /\ dpc[d] \in Open \cup {"listen", "closed"} => dlock = d
        /\ dpc[d] \in Open => socket = d
        /\ lst[d] # {} => dpc[d] \in {"serve", "term"}
        /\ rpc[d] # "tick" => dpc[d] \in Serving

\* Two critical sections under the metadata lock: a snapshot and its application,
\* the removal of the last declaration and the shutdown.
MetaInv ==
    /\ \A d \in Daemon :
        /\ rpc[d] \in {"snapshot", "apply"} => metaLock = d
        /\ rpc[d] = "apply" => snap[d] = Reserved
    /\ \A w \in Ws :
        /\ wpc[w] \in {"shutdown", "shutting", "gone"} => metaLock = w /\ decl = {}
        /\ wpc[w] \in {"stopped", "running", "ensure", "spawn", "poll", "asked", "launch"}
              => w \in decl

\* A queued request whose client is there is the one the client waits for.
RequestInv ==
    \A m \in inbox : m.from # None =>
        /\ wpc[m.from] = IF m.cmd = "ensure" THEN "asked" ELSE "shutting"
        /\ reply[m.from] = "none"
        /\ m.ports = Declares[m.from]
        /\ \A n \in inbox : n.from = m.from => n = m

ReplyInv == \A w \in Ws : reply[w] # "none" => wpc[w] \in {"asked", "shutting"}

\* Without faults: a daemon goes down for the one command that waits for it, and
\* a port whose ensure was answered has its listener.
InTimeInv ==
    /\ \A m \in inbox : /\ m.from # None
                        /\ m.cmd = "shutdown" => dpc[m.to] \in Open \ {"term", "stopped"}
    /\ \A d \in Daemon : dpc[d] \in {"term", "stopped"} =>
          \E w \in Ws : wpc[w] = "gone" \/ (wpc[w] = "shutting" /\ reply[w] = "ok")
    /\ \A w \in Ws :
          wpc[w] \in {"launch", "running"} \/ (wpc[w] = "asked" /\ reply[w] = "ok") =>
              \E d \in Daemon : Declares[w] \subseteq lst[d]

IInv ==
    /\ TypeOK /\ OwnerInv /\ MetaInv /\ RequestInv /\ ReplyInv
    /\ ~abandoned => InTimeInv
=============================================================================
