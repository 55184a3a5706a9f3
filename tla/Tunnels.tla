------------------------------- MODULE Tunnels -------------------------------
(***************************************************************************)
(* The connection half of internal/proxy/proxy.go: routing of a host       *)
(* connection, the map of ssh tunnels, and the goroutines and ssh          *)
(* processes that race with reconciliation and Stop.                       *)
(*                                                                         *)
(* A Conn is a handleConnection goroutine (`cpc'), a Tun one *Tunnel with  *)
(* its startTunnel goroutine (`tpc') and its ssh process (`ssh').  Every   *)
(* section under Proxy.mu is one step.  VM incarnations are numbered in    *)
(* the order of their launches.  The rows and receipts change as Lifecycle *)
(* lets them: a row that says running names the incarnation of the         *)
(* receipt (RunningHasReceipt there), so a boot is one step here, and the  *)
(* companions that no receipt names are left to that module.               *)
(*                                                                         *)
(* ssh is given a port of the host, not a workspace.  A removed workspace  *)
(* gives its port back, and `buried' remembers whose it was.               *)
(***************************************************************************)
EXTENDS Naturals

CONSTANTS
    Ws,        \* workspaces
    Port,      \* declared host ports
    Declares,  \* the ports each workspace declares
    SshPort,   \* host ports for the guests' sshd
    MaxVm,     \* bound on the launches of a behaviour
    Conn, Tun, None

ASSUME DeclaresAssumption == Declares \in [Ws -> SUBSET Port]
ASSUME MaxVmAssumption == MaxVm \in Nat
ASSUME SshPortAssumption == SshPort \subseteq Nat \ {0}
ASSUME NoneAssumption == None \notin Ws \cup Tun \cup (1..MaxVm)

Vm == 1..MaxVm

VARIABLES
    rec,        \* recorded workspaces: their ports are declared
    sport,      \* the SSH port in the row, 0 without a row
    running,    \* rows that say running
    active,     \* the routing target
    receipt,    \* the incarnation in process.json and, while running, in the row
    owner,      \* the workspace of each launched incarnation
    vport,      \* the SSH port each incarnation was launched with
    alive,      \* incarnations that exist
    buried,     \* history: incarnations whose workspace was removed since
    stopped,    \* progress of Proxy.Stop: "no", "closing", "done", "exited"
    lst,        \* listeners
    deaf,       \* listeners whose accept loop has ended
    tunnels,    \* the tunnels that are in the map, each under its key
    tpc, tkey, tssh, cmd, ready, ssh, far, sock,
    cpc, cport, target, pid, cssh, ckey, ctun, attempt

worldVars == <<rec, sport, running, active, receipt, owner, vport, alive, buried>>
lstVars == <<lst, deaf>>
tunVars == <<tpc, tkey, tssh, cmd, ready>>
sshVars == <<ssh, far, sock>>
connVars == <<cpc, cport, target, pid, cssh, ckey, ctun, attempt>>
vars == <<worldVars, stopped, lstVars, tunnels, tunVars, sshVars, connVars>>

Desired == UNION {Declares[w] : w \in rec}

\* The daemon starts: proxy.New, whatever workspaces are recorded.
Init ==
    /\ rec \in SUBSET Ws
    /\ sport \in [Ws -> SshPort \cup {0}]
    /\ \A w \in Ws : sport[w] = 0 <=> w \notin rec
    /\ \A w, x \in rec : sport[w] = sport[x] => w = x
    /\ running = {} /\ active = None
    /\ receipt = [w \in Ws |-> None]
    /\ owner = [v \in Vm |-> None]
    /\ vport = [v \in Vm |-> 0]
    /\ alive = {} /\ buried = {}
    /\ stopped = "no"
    /\ lst = {} /\ deaf = {}
    /\ tunnels = {}
    /\ tpc = [t \in Tun |-> "free"]
    /\ tkey = [t \in Tun |-> <<>>]
    /\ tssh = [t \in Tun |-> 0]
    /\ cmd = {}
    /\ ready = [t \in Tun |-> "no"]
    /\ ssh = [t \in Tun |-> "none"]
    /\ far = [t \in Tun |-> None]
    /\ sock = {}
    /\ cpc = [c \in Conn |-> "idle"]
    /\ cport = [c \in Conn |-> None]
    /\ target = [c \in Conn |-> None]
    /\ pid = [c \in Conn |-> None]
    /\ cssh = [c \in Conn |-> 0]
    /\ ckey = [c \in Conn |-> <<>>]
    /\ ctun = [c \in Conn |-> None]
    /\ attempt = [c \in Conn |-> 0]

-----------------------------------------------------------------------------
(***************************************************************************)
(* Commands and VMs.                                                       *)
(***************************************************************************)
\* run or fork: MAX(ssh_port)+1, or above it if that port is taken.
CreateWorkspace(w) ==
    /\ w \notin rec
    /\ \E q \in SshPort :
        /\ \A x \in rec : sport[x] < q
        /\ sport' = [sport EXCEPT ![w] = q]
    /\ rec' = rec \cup {w}
    /\ UNCHANGED <<running, active, receipt, owner, vport, alive, buried, stopped,
                   lstVars, tunnels, tunVars, sshVars, connVars>>

Boot(w) ==
    /\ w \in rec \ running
    /\ receipt[w] \notin alive
    /\ \E v \in Vm :
        /\ owner[v] = None /\ \A u \in Vm : u < v => owner[u] # None
        /\ owner' = [owner EXCEPT ![v] = w]
        /\ vport' = [vport EXCEPT ![v] = sport[w]]
        /\ alive' = alive \cup {v}
        /\ receipt' = [receipt EXCEPT ![w] = v]
    /\ running' = running \cup {w}
    /\ active' \in {active, w}
    /\ UNCHANGED <<rec, sport, buried, stopped, lstVars, tunnels, tunVars, sshVars,
                   connVars>>

VmExit(v) ==
    /\ v \in alive
    /\ alive' = alive \ {v}
    /\ UNCHANGED <<rec, sport, running, active, receipt, owner, vport, buried, stopped,
                   lstVars, tunnels, tunVars, sshVars, connVars>>

RecordStopped(w) ==
    /\ w \in running
    /\ receipt[w] \notin alive
    /\ running' = running \ {w}
    /\ active' = IF active = w THEN None ELSE active
    /\ UNCHANGED <<rec, sport, receipt, owner, vport, alive, buried, stopped, lstVars,
                   tunnels, tunVars, sshVars, connVars>>

Switch(w) ==
    /\ w \in running
    /\ active' = w
    /\ UNCHANGED <<rec, sport, running, receipt, owner, vport, alive, buried, stopped,
                   lstVars, tunnels, tunVars, sshVars, connVars>>

Remove(w) ==
    /\ w \in rec \ running
    /\ receipt[w] \notin alive
    /\ rec' = rec \ {w}
    /\ sport' = [sport EXCEPT ![w] = 0]
    /\ receipt' = [receipt EXCEPT ![w] = None]
    /\ buried' = buried \cup {v \in Vm : owner[v] = w}
    /\ UNCHANGED <<running, active, owner, vport, alive, stopped, lstVars, tunnels,
                   tunVars, sshVars, connVars>>

-----------------------------------------------------------------------------
\* Mutant: tunnels are keyed by workspace and port.
KeyByName(v, p) == <<owner[v], p>>

\* Workspace, process incarnation and port.
Key(v, p) == <<v, p>>

\* Mutant: the socket's path is a function of the key.
PathOfKey(t) == tkey[t]

\* tunnelPath: every tunnel has a path of its own.
Path(t) == t

\* The tunnels in the map under key k: at most one.
Mapped(k) == {t \in tunnels : tkey[t] = k}

Unlink(paths) == sock' = {s \in sock : s.path \notin paths}

Signal(ts) == ssh' = [t \in Tun |-> IF t \in ts /\ ssh[t] \in {"dialing", "bound"}
                                    THEN "signalled" ELSE ssh[t]]

Serving == stopped # "exited"

-----------------------------------------------------------------------------
(***************************************************************************)
(* handleConnection.                                                       *)
(***************************************************************************)
\* Locals go with the goroutine.
Forget(c) ==
    /\ cport' = [cport EXCEPT ![c] = None]
    /\ target' = [target EXCEPT ![c] = None]
    /\ pid' = [pid EXCEPT ![c] = None]
    /\ cssh' = [cssh EXCEPT ![c] = 0]
    /\ ckey' = [ckey EXCEPT ![c] = <<>>]
    /\ ctun' = [ctun EXCEPT ![c] = None]
    /\ attempt' = [attempt EXCEPT ![c] = 0]

Close(c) == cpc' = [cpc EXCEPT ![c] = "idle"] /\ Forget(c)

Goto(c, s) == cpc' = [cpc EXCEPT ![c] = s]

Accept(c) ==
    /\ cpc[c] = "idle"
    /\ \E p \in lst \ deaf : cport' = [cport EXCEPT ![c] = p]
    /\ Goto(c, "route")
    /\ UNCHANGED <<worldVars, stopped, lstVars, tunnels, tunVars, sshVars, target, pid,
                   cssh, ckey, ctun, attempt>>

\* acceptLoop returns for good, and the listener stays in the map.
AcceptFails(p) ==
    /\ p \in lst \ deaf /\ Serving
    /\ deaf' = deaf \cup {p}
    /\ UNCHANGED <<worldVars, stopped, lst, tunnels, tunVars, sshVars, connVars>>

\* The active claimant of the port, or the only one; None is an error.
TargetForPort(p) ==
    LET claimants == {w \in running : p \in Declares[w]} IN
    IF active \in claimants THEN active
    ELSE IF \E w \in claimants : claimants = {w}
    THEN CHOOSE w \in claimants : TRUE
    ELSE None

\* The query itself may fail.
Route(c) ==
    LET w == TargetForPort(cport[c]) IN
    /\ cpc[c] = "route" /\ Serving
    /\ \/ /\ w # None
          /\ target' = [target EXCEPT ![c] = w]
          /\ pid' = [pid EXCEPT ![c] = receipt[w]]
          /\ cssh' = [cssh EXCEPT ![c] = sport[w]]
          /\ Goto(c, "observe")
          /\ UNCHANGED <<cport, ckey, ctun, attempt>>
       \/ Close(c)
    /\ UNCHANGED <<worldVars, stopped, lstVars, tunnels, tunVars, sshVars>>

\* ensureTunnel before the mutex: the receipt must name the row's process, and
\* the process must run; either observation may fail.
Observe(c) ==
    LET v == receipt[target[c]] IN
    /\ cpc[c] = "observe" /\ Serving
    /\ \/ /\ v = pid[c] /\ v \in alive
          /\ ckey' = [ckey EXCEPT ![c] = Key(v, cport[c])]
          /\ Goto(c, "lookup")
          /\ UNCHANGED <<cport, target, pid, cssh, ctun, attempt>>
       \/ Close(c)
    /\ UNCHANGED <<worldVars, stopped, lstVars, tunnels, tunVars, sshVars>>

Join(c, t) ==
    /\ ctun' = [ctun EXCEPT ![c] = t]
    /\ ckey' = [ckey EXCEPT ![c] = <<>>]
    /\ Goto(c, "wait")
    /\ UNCHANGED <<cport, target, pid, cssh, attempt>>

Create(c, t) ==
    /\ tpc[t] = "free"
    /\ tunnels' = tunnels \cup {t}
    /\ tkey' = [tkey EXCEPT ![t] = ckey[c]]
    /\ tssh' = [tssh EXCEPT ![t] = cssh[c]]
    /\ tpc' = [tpc EXCEPT ![t] = "start"]
    /\ Join(c, t)
    /\ UNCHANGED <<cmd, ready>>

\* Mutant: a stopped proxy still registers tunnels.
LookupUnchecked(c) ==
    /\ cpc[c] = "lookup" /\ Serving
    /\ \/ /\ \E t \in Mapped(ckey[c]) : Join(c, t)
          /\ UNCHANGED <<tunnels, tunVars>>
       \/ /\ Mapped(ckey[c]) = {}
          /\ \E t \in Tun : Create(c, t)
       \/ Close(c) /\ UNCHANGED <<tunnels, tunVars>>
    /\ UNCHANGED <<worldVars, stopped, lstVars, sshVars>>

\* ensureTunnel under the mutex; tunnelPath may fail.
Lookup(c) ==
    /\ cpc[c] = "lookup" /\ Serving
    /\ \/ /\ stopped = "no"
          /\ \E t \in Mapped(ckey[c]) : Join(c, t)
          /\ UNCHANGED <<tunnels, tunVars>>
       \/ /\ stopped = "no" /\ Mapped(ckey[c]) = {}
          /\ \E t \in Tun : Create(c, t)
       \/ /\ stopped # "no" \/ Mapped(ckey[c]) = {}
          /\ Close(c)
          /\ UNCHANGED <<tunnels, tunVars>>
    /\ UNCHANGED <<worldVars, stopped, lstVars, sshVars>>

\* <-tunnel.Ready
Await(c) ==
    /\ cpc[c] = "wait" /\ Serving
    /\ \/ /\ ready[ctun[c]] = "ok"
          /\ Goto(c, "dial")
          /\ UNCHANGED <<cport, target, pid, cssh, ckey, ctun, attempt>>
       \/ ready[ctun[c]] = "err" /\ Close(c)
    /\ UNCHANGED <<worldVars, stopped, lstVars, tunnels, tunVars, sshVars>>

\* The process that listens on the path of tunnel t.
Listeners(t) == {s.by : s \in {r \in sock : r.path = Path(t) /\ ssh[r.by] # "dead"}}

\* `ctun' is from here on the tunnel whose ssh process carries the connection.
Dial(c) ==
    /\ cpc[c] = "dial" /\ Serving
    /\ \E t \in Listeners(ctun[c]) : ctun' = [ctun EXCEPT ![c] = t]
    /\ Goto(c, "piped")
    /\ UNCHANGED <<worldVars, stopped, lstVars, tunnels, tunVars, sshVars, cport, target,
                   pid, cssh, ckey, attempt>>

\* The dial fails or times out: dropTunnel, first under the mutex, then the
\* signal and the unlink, then the second attempt.
DropTunnel(c) ==
    /\ cpc[c] = "dial" /\ Serving
    /\ tunnels' = tunnels \ {ctun[c]}
    /\ Goto(c, "drop")
    /\ UNCHANGED <<worldVars, stopped, lstVars, tunVars, sshVars, cport, target, pid, cssh, ckey,
                   ctun, attempt>>

\* Mutant: one attempt too many.
RetryOnceMore(c) ==
    /\ cpc[c] = "drop" /\ Serving
    /\ Signal({ctun[c]} \cap cmd)
    /\ Unlink({Path(ctun[c])})
    /\ \/ /\ attempt[c] <= 1
          /\ attempt' = [attempt EXCEPT ![c] = @ + 1]
          /\ ctun' = [ctun EXCEPT ![c] = None]
          /\ Goto(c, "observe")
          /\ UNCHANGED <<cport, target, pid, cssh, ckey>>
       \/ attempt[c] > 1 /\ Close(c)
    /\ UNCHANGED <<worldVars, stopped, lstVars, tunnels, tunVars, far>>

Retry(c) ==
    /\ cpc[c] = "drop" /\ Serving
    /\ Signal({ctun[c]} \cap cmd)
    /\ Unlink({Path(ctun[c])})
    /\ \/ /\ attempt[c] = 0
          /\ attempt' = [attempt EXCEPT ![c] = 1]
          /\ ctun' = [ctun EXCEPT ![c] = None]
          /\ Goto(c, "observe")
          /\ UNCHANGED <<cport, target, pid, cssh, ckey>>
       \/ attempt[c] = 1 /\ Close(c)
    /\ UNCHANGED <<worldVars, stopped, lstVars, tunnels, tunVars, far>>

\* Both copies have ended.
Hangup(c) ==
    /\ cpc[c] = "piped" /\ Serving
    /\ Close(c)
    /\ UNCHANGED <<worldVars, stopped, lstVars, tunnels, tunVars, sshVars>>

-----------------------------------------------------------------------------
(***************************************************************************)
(* startTunnel.                                                            *)
(***************************************************************************)
GotoT(t, s) == tpc' = [tpc EXCEPT ![t] = s]

\* finishTunnelStart with an error; the unlink comes after the mutex.
FinishErr(t) ==
    /\ tunnels' = tunnels \ {t}
    /\ ready' = [ready EXCEPT ![t] = "err"]
    /\ GotoT(t, "unlink")

\* The placeholder of the path is removed; the key's path or exec may fail.
StartSsh(t) ==
    /\ tpc[t] = "start" /\ Serving
    /\ Unlink({Path(t)})
    /\ \/ /\ ssh' = [ssh EXCEPT ![t] = "dialing"]
          /\ GotoT(t, "publish")
          /\ UNCHANGED <<tunnels, ready>>
       \/ FinishErr(t) /\ UNCHANGED ssh
    /\ UNCHANGED <<worldVars, stopped, lstVars, tkey, tssh, cmd, far, connVars>>

\* Mutant: the process is published whoever owns the map entry now.
PublishCmdUnchecked(t) ==
    /\ tpc[t] = "publish" /\ Serving
    /\ cmd' = cmd \cup {t}
    /\ GotoT(t, "poll")
    /\ UNCHANGED <<worldVars, stopped, lstVars, tunnels, tkey, tssh, ready, sshVars, connVars>>

\* Reconciliation or Stop may have removed the tunnel meanwhile.
PublishCmd(t) ==
    /\ tpc[t] = "publish" /\ Serving
    /\ \/ t \in tunnels /\ cmd' = cmd \cup {t} /\ GotoT(t, "poll")
       \/ t \notin tunnels /\ GotoT(t, "cancel") /\ UNCHANGED cmd
    /\ UNCHANGED <<worldVars, stopped, lstVars, tunnels, tkey, tssh, ready, sshVars, connVars>>

Cancel(t) ==
    /\ tpc[t] = "cancel" /\ Serving
    /\ Signal({t})
    /\ FinishErr(t)
    /\ UNCHANGED <<worldVars, stopped, lstVars, tkey, tssh, cmd, far, sock, connVars>>

\* The socket exists: ready.  The map is not consulted again.
TunnelUp(t) ==
    /\ tpc[t] = "poll" /\ Serving
    /\ \E s \in sock : s.path = Path(t)
    /\ ready' = [ready EXCEPT ![t] = "ok"]
    /\ GotoT(t, "up")
    /\ UNCHANGED <<worldVars, stopped, lstVars, tunnels, tkey, tssh, cmd, sshVars, connVars>>

ExitedEarly(t) ==
    /\ tpc[t] = "poll" /\ Serving
    /\ ssh[t] = "dead"
    /\ FinishErr(t)
    /\ UNCHANGED <<worldVars, stopped, lstVars, tkey, tssh, cmd, sshVars, connVars>>

\* Mutant: no timer, only Stop ends the wait.
GiveUpOnStop(t) ==
    /\ tpc[t] = "poll" /\ Serving
    /\ stopped # "no"
    /\ Signal({t})
    /\ FinishErr(t)
    /\ UNCHANGED <<worldVars, stopped, lstVars, tkey, tssh, cmd, far, sock, connVars>>

\* Five seconds have passed, or stopCh is closed.
GiveUp(t) ==
    /\ tpc[t] = "poll" /\ Serving
    /\ Signal({t})
    /\ FinishErr(t)
    /\ UNCHANGED <<worldVars, stopped, lstVars, tkey, tssh, cmd, far, sock, connVars>>

\* removeTunnel when the ssh process of a ready tunnel has ended.
RemoveTunnel(t) ==
    /\ tpc[t] = "up" /\ Serving
    /\ ssh[t] = "dead"
    /\ tunnels' = tunnels \ {t}
    /\ GotoT(t, "unlink")
    /\ UNCHANGED <<worldVars, stopped, lstVars, tkey, tssh, cmd, ready, sshVars, connVars>>

\* os.Remove(tunnel.Path), possibly long after a replacement was created.
UnlinkPath(t) ==
    /\ tpc[t] = "unlink" /\ Serving
    /\ Unlink({Path(t)})
    /\ GotoT(t, "gone")
    /\ UNCHANGED <<worldVars, stopped, lstVars, tunnels, tkey, tssh, cmd, ready, ssh, far, connVars>>

\* ssh reaches whichever incarnation serves the port it was given (host keys are
\* not checked), then binds the socket (StreamLocalBindUnlink).
SshBind(t) ==
    /\ ssh[t] = "dialing"
    /\ \E v \in alive : vport[v] = tssh[t] /\ far' = [far EXCEPT ![t] = v]
    /\ ssh' = [ssh EXCEPT ![t] = "bound"]
    /\ sock' = {s \in sock : s.path # Path(t)} \cup {[path |-> Path(t), by |-> t]}
    /\ UNCHANGED <<worldVars, stopped, lstVars, tunnels, tunVars, connVars>>

\* Refused, disconnected or signalled.
SshExit(t) ==
    /\ ssh[t] \in {"dialing", "bound", "signalled"}
    /\ ssh' = [ssh EXCEPT ![t] = "dead"]
    /\ UNCHANGED <<worldVars, stopped, lstVars, tunnels, tunVars, far, sock, connVars>>

-----------------------------------------------------------------------------
(***************************************************************************)
(* ReconcilePorts, Stop and the end of the daemon.                         *)
(***************************************************************************)
\* Tunnels whose port is in `ports' leave the map; those with a published
\* process are signalled.
DropAll(ts) ==
    /\ tunnels' = tunnels \ ts
    /\ Signal(ts \cap cmd)
    /\ Unlink({Path(t) : t \in ts})

\* A port that is listened on already is left as it is, a new one may be taken.
ReconcilePorts ==
    /\ Serving
    /\ lst' \in {l \in SUBSET Desired : /\ lst \cap Desired \subseteq l
                                        /\ stopped # "no" => l \subseteq lst}
    /\ deaf' = deaf \cap Desired
    /\ DropAll({t \in tunnels : tkey[t][2] \notin Desired})
    /\ <<lst', tunnels'>> # <<lst, tunnels>>
    /\ UNCHANGED <<worldVars, stopped, tunVars, far, connVars>>

CloseStopCh ==
    /\ stopped = "no"
    /\ stopped' = "closing"
    /\ UNCHANGED <<worldVars, lstVars, tunnels, tunVars, sshVars, connVars>>

StopAll ==
    /\ stopped = "closing"
    /\ stopped' = "done"
    /\ lst' = {} /\ deaf' = {}
    /\ DropAll(tunnels)
    /\ UNCHANGED <<worldVars, tunVars, far, connVars>>

\* runDaemon returns without waiting for the goroutines; ssh runs in process
\* groups of its own.
ExitDaemon ==
    /\ stopped = "done"
    /\ stopped' = "exited"
    /\ UNCHANGED <<worldVars, lstVars, tunnels, tunVars, sshVars, connVars>>

-----------------------------------------------------------------------------
World == (\E w \in Ws : CreateWorkspace(w) \/ Boot(w) \/ RecordStopped(w) \/ Switch(w) \/ Remove(w))
         \/ (\E v \in Vm : VmExit(v))

ConnStep(c) == Route(c) \/ Observe(c) \/ Lookup(c) \/ Await(c) \/ Dial(c)
               \/ DropTunnel(c) \/ Retry(c)

TunStep(t) == StartSsh(t) \/ PublishCmd(t) \/ Cancel(t) \/ TunnelUp(t) \/ ExitedEarly(t)
              \/ GiveUp(t) \/ RemoveTunnel(t) \/ UnlinkPath(t)

\* Behaviours end with the daemon.
Next ==
    \/ Serving /\ World
    \/ \E c \in Conn : Accept(c) \/ ConnStep(c) \/ Hangup(c)
    \/ \E t \in Tun : TunStep(t) \/ (Serving /\ (SshBind(t) \/ SshExit(t)))
    \/ \E p \in Port : AcceptFails(p)
    \/ ReconcilePorts \/ CloseStopCh \/ StopAll \/ ExitDaemon

Spec == Init /\ [][Next]_vars

\* Goroutines are scheduled.  Nothing is assumed of ssh or of the guest.
LiveSpec == /\ Spec
            /\ \A c \in Conn : WF_vars(ConnStep(c))
            /\ \A t \in Tun : WF_vars(TunStep(t))

-----------------------------------------------------------------------------
TypeOK ==
    /\ running \subseteq rec /\ rec \subseteq Ws
    /\ active \in Ws \cup {None}
    /\ sport \in [Ws -> SshPort \cup {0}]
    /\ receipt \in [Ws -> Vm \cup {None}]
    /\ owner \in [Vm -> Ws \cup {None}]
    /\ vport \in [Vm -> SshPort \cup {0}]
    /\ alive \subseteq Vm /\ buried \subseteq Vm
    /\ stopped \in {"no", "closing", "done", "exited"}
    /\ deaf \subseteq lst /\ lst \subseteq Port
    /\ tunnels \subseteq Tun /\ cmd \subseteq Tun
    /\ tpc \in [Tun -> {"free", "start", "publish", "cancel", "poll", "up", "unlink", "gone"}]
    /\ tkey \in [Tun -> (Vm \X Port) \cup {<<>>}]
    /\ tssh \in [Tun -> SshPort \cup {0}]
    /\ ready \in [Tun -> {"no", "ok", "err"}]
    /\ ssh \in [Tun -> {"none", "dialing", "bound", "signalled", "dead"}]
    /\ far \in [Tun -> Vm \cup {None}]
    /\ sock \subseteq [path : Tun, by : Tun]
    /\ cpc \in [Conn -> {"idle", "route", "observe", "lookup", "wait", "dial", "drop", "piped"}]
    /\ cport \in [Conn -> Port \cup {None}]
    /\ target \in [Conn -> Ws \cup {None}]
    /\ pid \in [Conn -> Vm \cup {None}]
    /\ cssh \in [Conn -> SshPort \cup {0}]
    /\ ckey \in [Conn -> (Vm \X Port) \cup {<<>>}]
    /\ ctun \in [Conn -> Tun \cup {None}]
    /\ attempt \in [Conn -> 0..1]

\* While the daemon runs, an ssh process that nobody has told to end is in the
\* map, or its goroutine or a dropping connection is about to end it
\* (startTunnel's ownership check against ReconcilePorts, Stop, dropTunnel).
NoStraySsh ==
    \A t \in Tun : ssh[t] \in {"dialing", "bound"} /\ Serving =>
        \/ t \in tunnels
        \/ tpc[t] \in {"publish", "cancel"}
        \/ \E c \in Conn : cpc[c] = "drop" /\ ctun[c] = t

\* A tunnel that connections are given has its socket: a late unlink for an
\* older tunnel never hits its replacement (tunnelPath).
SocketKept ==
    \A t \in tunnels : tpc[t] = "up" /\ ssh[t] = "bound" /\ Serving =>
        [path |-> Path(t), by |-> t] \in sock

\* At most one tunnel per key, and none once Stop has cleared the map
\* (ensureTunnel's check of stopCh under the mutex).
StopFinal ==
    /\ stopped \in {"done", "exited"} => tunnels = {}
    /\ \A s, t \in tunnels : tkey[s] = tkey[t] => s = t

\* An established connection does not lead to an incarnation older than the row
\* named, and leads to the workspace that routing chose unless that workspace has
\* been removed since; while the row's incarnation is the workspace's own, to it
\* alone (ensureTunnel's receipt check and key).  After a removal it may lead to
\* another workspace, the next one to have the SSH port when ssh dialled.
NeverStale ==
    \A c \in Conn : cpc[c] = "piped" =>
        /\ far[ctun[c]] >= pid[c]
        /\ pid[c] \notin buried => owner[far[ctun[c]]] = target[c]
        /\ receipt[target[c]] = pid[c] => far[ctun[c]] = pid[c]

\* A connection that waits for a tunnel is answered while the daemon runs, even
\* if ssh hangs (startTunnel's timer, finishTunnelStart).
Answered ==
    \A c \in Conn : cpc[c] \in {"route", "observe", "lookup", "wait", "dial", "drop"}
        ~> cpc[c] \in {"idle", "piped"} \/ ~Serving

(***************************************************************************)
(* The inductive invariant.                                                *)
(***************************************************************************)
\* Incarnations are launched in order, and a receipt names one of its workspace.
WorldInv ==
    /\ \A u, v \in Vm : u < v /\ owner[v] # None => owner[u] # None
    /\ \A w \in Ws : receipt[w] # None => w \in rec /\ owner[receipt[w]] = w
    /\ \A w \in running : receipt[w] # None
    /\ active # None => active \in running
    /\ \A v \in alive : owner[v] \in Ws /\ receipt[owner[v]] = v
    /\ \A v \in buried : owner[v] # None

\* Recorded ports differ.  The incarnations of a recorded workspace were launched
\* with its port; those of a removed one are the older holders of theirs.
PortInv ==
    /\ \A w \in rec : sport[w] # 0
    /\ \A w, x \in rec : sport[w] = sport[x] => w = x
    /\ \A v \in Vm \ buried : owner[v] # None =>
          /\ owner[v] \in rec /\ vport[v] = sport[owner[v]]
          /\ receipt[owner[v]] # None /\ v <= receipt[owner[v]]
    /\ \A v \in buried : owner[v] \in rec /\ receipt[owner[v]] # None => v < receipt[owner[v]]
    /\ \A v \in alive : v \notin buried
    /\ \A u \in alive, v \in Vm : owner[v] # None /\ vport[u] = vport[v] => v <= u

\* v was once the incarnation of w.
Reached(w, v) == w \in Ws /\ v \in Vm /\ owner[v] = w

\* What a connection knows at each step.
ConnInv ==
    \A c \in Conn :
        /\ cpc[c] # "idle" => cport[c] \in Port
        /\ cpc[c] \notin {"idle", "route"} =>
              Reached(target[c], pid[c]) /\ cssh[c] = vport[pid[c]]
        /\ cpc[c] = "lookup" => ckey[c] = <<pid[c], cport[c]>>
        /\ cpc[c] \in {"wait", "dial", "drop", "piped"} =>
              /\ ctun[c] \in Tun
              /\ tpc[ctun[c]] # "free"
              /\ tkey[ctun[c]] = <<pid[c], cport[c]>>
        /\ cpc[c] = "drop" => ctun[c] \notin tunnels
        /\ cpc[c] = "piped" => far[ctun[c]] # None

\* A tunnel leads to the holder of its key's port: the key's own incarnation, a
\* younger one of the workspace, or, after its removal, somebody else's.
KeyInv ==
    \A t \in Tun :
        /\ tpc[t] # "free" =>
              /\ tkey[t] \in Vm \X Port
              /\ owner[tkey[t][1]] # None /\ tssh[t] = vport[tkey[t][1]]
        /\ far[t] # None =>
              /\ tpc[t] # "free" /\ owner[far[t]] # None
              /\ far[t] >= tkey[t][1]
              /\ vport[far[t]] = vport[tkey[t][1]]
              /\ tkey[t][1] \notin buried => far[t] \notin buried

\* Where the goroutine of a tunnel is tells whether it is in the map, whether its
\* process runs and whether it is published.
TunnelInv ==
    \A t \in Tun :
        /\ tpc[t] \in {"free", "cancel", "unlink", "gone"} => t \notin tunnels
        /\ tpc[t] \in {"free", "start"} => ssh[t] = "none"
        /\ ssh[t] \in {"dialing", "bound"} => t \in cmd \/ tpc[t] \in {"publish", "cancel"}
        /\ ssh[t] = "bound" => far[t] # None

\* Sockets are at the paths of their own tunnels; a bound one in the map is there.
SocketInv ==
    /\ \A s \in sock : s.path = s.by /\ far[s.by] # None
    /\ \A t \in tunnels : ssh[t] = "bound" => [path |-> t, by |-> t] \in sock

IInv ==
    /\ TypeOK /\ WorldInv /\ PortInv /\ ConnInv /\ KeyInv /\ TunnelInv /\ SocketInv
    /\ NoStraySsh /\ StopFinal
=============================================================================
