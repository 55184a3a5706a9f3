----------------------------- MODULE TunnelsProofs -----------------------------
(***************************************************************************)
(* Proofs about the tunnels of the proxy, for any sets of workspaces,      *)
(* ports, connections and tunnels and any number of VM incarnations.       *)
(* IInv, defined in Tunnels, is the inductive invariant; each part has a   *)
(* lemma with one case per action that changes what the part is about.     *)
(***************************************************************************)
EXTENDS Tunnels, TLAPS

\* The locals of the connections have their types.
ConnTypes ==
    /\ cpc \in [Conn -> {"idle", "route", "observe", "lookup", "wait", "dial", "drop", "piped"}]
    /\ cport \in [Conn -> Port \cup {None}]
    /\ target \in [Conn -> Ws \cup {None}]
    /\ pid \in [Conn -> Vm \cup {None}]
    /\ cssh \in [Conn -> SshPort \cup {0}]
    /\ ckey \in [Conn -> (Vm \X Port) \cup {<<>>}]
    /\ ctun \in [Conn -> Tun \cup {None}]
    /\ attempt \in [Conn -> 0..1]

LEMMA CloseTypes ==
    ASSUME TypeOK, NEW c \in Conn, Close(c)
    PROVE  ConnTypes'
  BY DEF TypeOK, ConnTypes, Close, Forget

\* Routing answers with a running workspace or with an error.
LEMMA TargetRuns ==
    ASSUME TypeOK, NEW p
    PROVE  TargetForPort(p) \in running \cup {None}
  BY DEF TargetForPort

(***************************************************************************)
(* Types.                                                                  *)
(***************************************************************************)
LEMMA TypeOKStep ==
    ASSUME TypeOK, WorldInv, ConnInv, KeyInv, Next
    PROVE  TypeOK'
<1> USE NoneAssumption DEF TypeOK, Vm, Path, Goto, GotoT, worldVars, lstVars, tunVars,
        sshVars, connVars
<1>1. ASSUME NEW w \in Ws, Boot(w) PROVE TypeOK'
  BY <1>1 DEF Boot
<1>2. ASSUME NEW w \in Ws, RecordStopped(w) PROVE TypeOK'
  BY <1>2 DEF RecordStopped
<1>3. ASSUME NEW w \in Ws, Switch(w) PROVE TypeOK'
  BY <1>3 DEF Switch
<1>4. ASSUME NEW w \in Ws, Remove(w) PROVE TypeOK'
  BY <1>4 DEF Remove
<1>5. ASSUME NEW v \in Vm, VmExit(v) PROVE TypeOK'
  BY <1>5 DEF VmExit
<1>29. ASSUME NEW w \in Ws, CreateWorkspace(w) PROVE TypeOK'
  BY <1>29 DEF CreateWorkspace
<1>30. ASSUME NEW p \in Port, AcceptFails(p) PROVE TypeOK'
  BY <1>30 DEF AcceptFails
<1>6. ASSUME NEW c \in Conn, Accept(c) PROVE TypeOK'
  BY <1>6 DEF Accept
<1>7. ASSUME NEW c \in Conn, Route(c) PROVE TypeOK'
  <2> DEFINE w == TargetForPort(cport[c])
  <2>1. w \in running \cup {None}
    BY TargetRuns
  <2> HIDE DEF w
  <2>2. ConnTypes'
    <3>1. CASE Close(c)
      BY <3>1, CloseTypes
    <3>2. CASE ~Close(c)
      <4>1. /\ w \in Ws /\ receipt[w] \in Vm \cup {None} /\ sport[w] \in SshPort \cup {0}
            /\ cpc' = [cpc EXCEPT ![c] = "observe"]
        BY <1>7, <2>1, <3>2 DEF Route, w
      <4>2. /\ target' = [target EXCEPT ![c] = w]
            /\ pid' = [pid EXCEPT ![c] = receipt[w]]
            /\ cssh' = [cssh EXCEPT ![c] = sport[w]]
            /\ UNCHANGED <<cport, ckey, ctun, attempt>>
        BY <1>7, <3>2 DEF Route, w
      <4> HIDE DEF Vm
      <4> QED
        BY <4>1, <4>2 DEF ConnTypes
    <3> QED
      BY <3>1, <3>2
  <2> QED
    BY <1>7, <2>2 DEF Route, ConnTypes
<1>8. ASSUME NEW c \in Conn, Observe(c) PROVE TypeOK'
  <2>1. ConnTypes'
    <3>1. CASE Close(c)
      BY <3>1, CloseTypes
    <3>2. CASE ~Close(c)
      <4> HIDE DEF Vm
      <4>1. receipt[target[c]] \in Vm /\ cport[c] \in Port
        BY <1>8, <3>2 DEF Observe, ConnInv
      <4>2. /\ ckey' = [ckey EXCEPT ![c] = <<receipt[target[c]], cport[c]>>]
            /\ cpc' = [cpc EXCEPT ![c] = "lookup"]
            /\ UNCHANGED <<cport, target, pid, cssh, ctun, attempt>>
        BY <1>8, <3>2 DEF Observe, Key
      <4> QED
        BY <4>1, <4>2 DEF ConnTypes
    <3> QED
      BY <3>1, <3>2
  <2> QED
    BY <1>8, <2>1 DEF Observe, ConnTypes
<1>9. ASSUME NEW c \in Conn, Lookup(c) PROVE TypeOK'
  <2>1. CASE Close(c) /\ UNCHANGED <<tunnels, tunVars>>
    BY <1>9, <2>1, CloseTypes DEF Lookup, ConnTypes
  <2>2. ASSUME NEW t \in Tun, Join(c, t) PROVE ConnTypes'
    BY <2>2 DEF Join, ConnTypes
  <2>3. ASSUME NEW t \in Mapped(ckey[c]), Join(c, t), UNCHANGED <<tunnels, tunVars>> PROVE TypeOK'
    BY <1>9, <2>2, <2>3 DEF Lookup, Mapped, ConnTypes
  <2>4. ASSUME NEW t \in Tun, Create(c, t) PROVE TypeOK'
    <3>1. ConnTypes'
      BY <2>2, <2>4 DEF Create
    <3> QED
      BY <1>9, <2>4, <3>1 DEF Lookup, Create, ConnTypes
  <2> QED
    BY <1>9, <2>1, <2>3, <2>4 DEF Lookup
<1>10. ASSUME NEW c \in Conn, Await(c) PROVE TypeOK'
  <2>1. ConnTypes'
    <3>1. CASE Close(c)
      BY <3>1, CloseTypes
    <3>2. CASE ~Close(c)
      BY <1>10, <3>2 DEF Await, ConnTypes
    <3> QED
      BY <3>1, <3>2
  <2> QED
    BY <1>10, <2>1 DEF Await, ConnTypes
<1>11. ASSUME NEW c \in Conn, Dial(c) PROVE TypeOK'
  BY <1>11 DEF Dial, Listeners, ConnInv
<1>12. ASSUME NEW c \in Conn, DropTunnel(c) PROVE TypeOK'
  BY <1>12 DEF DropTunnel
<1>13. ASSUME NEW c \in Conn, Retry(c) PROVE TypeOK'
  <2>1. ConnTypes'
    <3>1. CASE Close(c)
      BY <3>1, CloseTypes
    <3>2. CASE ~Close(c)
      <4> HIDE DEF Vm
      <4>1. /\ attempt' = [attempt EXCEPT ![c] = 1]
            /\ ctun' = [ctun EXCEPT ![c] = None]
            /\ cpc' = [cpc EXCEPT ![c] = "observe"]
            /\ UNCHANGED <<cport, target, pid, cssh, ckey>>
        BY <1>13, <3>2 DEF Retry
      <4> QED
        BY <4>1 DEF ConnTypes
    <3> QED
      BY <3>1, <3>2
  <2>2. ssh' \in [Tun -> {"none", "dialing", "bound", "signalled", "dead"}] /\ sock' \subseteq sock
    BY <1>13 DEF Retry, Signal, Unlink
  <2> QED
    BY <1>13, <2>1, <2>2 DEF Retry, ConnTypes
<1>14. ASSUME NEW c \in Conn, Hangup(c) PROVE TypeOK'
  BY <1>14 DEF Hangup, Close, Forget
<1>15. ASSUME NEW t \in Tun, StartSsh(t) PROVE TypeOK'
  <2>1. /\ sock' \subseteq sock /\ tunnels' \subseteq tunnels
        /\ ssh' \in [Tun -> {"none", "dialing", "bound", "signalled", "dead"}]
        /\ tpc' \in [Tun -> {"free", "start", "publish", "cancel", "poll", "up", "unlink", "gone"}]
        /\ ready' \in [Tun -> {"no", "ok", "err"}]
    <3>1. sock' \subseteq sock
      BY <1>15 DEF StartSsh, Unlink
    <3>2. CASE FinishErr(t) /\ UNCHANGED ssh
      BY <3>1, <3>2 DEF FinishErr
    <3>3. CASE /\ ssh' = [ssh EXCEPT ![t] = "dialing"] /\ UNCHANGED <<tunnels, ready>>
               /\ tpc' = [tpc EXCEPT ![t] = "publish"]
      BY <3>1, <3>3
    <3> QED
      BY <1>15, <3>2, <3>3 DEF StartSsh
  <2> QED
    BY <1>15, <2>1 DEF StartSsh
<1>16. ASSUME NEW t \in Tun, PublishCmd(t) PROVE TypeOK'
  BY <1>16 DEF PublishCmd
<1>17. ASSUME NEW t \in Tun, Cancel(t) PROVE TypeOK'
  BY <1>17 DEF Cancel, Signal, FinishErr
<1>18. ASSUME NEW t \in Tun, TunnelUp(t) PROVE TypeOK'
  BY <1>18 DEF TunnelUp
<1>19. ASSUME NEW t \in Tun, ExitedEarly(t) PROVE TypeOK'
  BY <1>19 DEF ExitedEarly, FinishErr
<1>20. ASSUME NEW t \in Tun, GiveUp(t) PROVE TypeOK'
  BY <1>20 DEF GiveUp, Signal, FinishErr
<1>21. ASSUME NEW t \in Tun, RemoveTunnel(t) PROVE TypeOK'
  BY <1>21 DEF RemoveTunnel
<1>22. ASSUME NEW t \in Tun, UnlinkPath(t) PROVE TypeOK'
  BY <1>22 DEF UnlinkPath, Unlink
<1>23. ASSUME NEW t \in Tun, SshBind(t) PROVE TypeOK'
  <2>1. /\ sock' \subseteq [path : Tun, by : Tun]
        /\ ssh' \in [Tun -> {"none", "dialing", "bound", "signalled", "dead"}]
        /\ far' \in [Tun -> Vm \cup {None}]
    <3>0. PICK v \in Vm : far' = [far EXCEPT ![t] = v]
      BY <1>23 DEF SshBind
    <3>1. /\ ssh' = [ssh EXCEPT ![t] = "bound"]
          /\ far' = [far EXCEPT ![t] = v]
          /\ sock' = {s \in sock : s.path # t} \cup {[path |-> t, by |-> t]}
      BY <1>23, <3>0 DEF SshBind
    <3> HIDE DEF Vm
    <3> QED
      BY <3>1
  <2> QED
    BY <1>23, <2>1 DEF SshBind
<1>24. ASSUME NEW t \in Tun, SshExit(t) PROVE TypeOK'
  BY <1>24 DEF SshExit
<1>25. CASE ReconcilePorts
  BY <1>25, DeclaresAssumption DEF ReconcilePorts, DropAll, Signal, Unlink,
         Desired
<1>26. CASE CloseStopCh
  BY <1>26 DEF CloseStopCh
<1>27. CASE StopAll
  BY <1>27 DEF StopAll, DropAll, Signal, Unlink
<1>28. CASE ExitDaemon
  BY <1>28 DEF ExitDaemon
<1> QED
  BY <1>1, <1>2, <1>3, <1>4, <1>5, <1>6, <1>7, <1>8, <1>9, <1>10, <1>11,
     <1>12, <1>13, <1>14, <1>15, <1>16, <1>17, <1>18, <1>19, <1>20, <1>21,
     <1>22, <1>23, <1>24, <1>25, <1>26, <1>27, <1>28, <1>29, <1>30
  DEF Next, World, ConnStep, TunStep

LEMMA PortNatural == \A q \in SshPort \cup {0} : q \in Nat
<1>1. \A q \in SshPort : q \in Nat
  BY SshPortAssumption
<1> QED
  BY <1>1

\* Only commands and the VMs themselves change rows, receipts and incarnations.
LEMMA WorldFrame ==
    ASSUME Next
    PROVE  World \/ UNCHANGED worldVars
  BY DEF Next, ConnStep, TunStep, Accept, AcceptFails, Route, Observe, Lookup, Await,
         Dial, DropTunnel, Retry, Hangup, StartSsh, PublishCmd, Cancel, TunnelUp,
         ExitedEarly, GiveUp, RemoveTunnel, UnlinkPath, SshBind, SshExit,
         ReconcilePorts, CloseStopCh, StopAll, ExitDaemon

(***************************************************************************)
(* Incarnations are numbered in the order of their launches.               *)
(***************************************************************************)
LEMMA WorldInvStep ==
    ASSUME TypeOK, WorldInv, Next
    PROVE  WorldInv'
<1> USE NoneAssumption DEF TypeOK, WorldInv, Vm, Path, Goto, GotoT, worldVars,
        lstVars, tunVars, sshVars, connVars
<1>0. CASE UNCHANGED worldVars
  BY <1>0
<1>1. ASSUME NEW w \in Ws, Boot(w) PROVE WorldInv'
  <2>1. PICK v \in Vm : /\ owner[v] = None /\ \A u \in Vm : u < v => owner[u] # None
                        /\ owner' = [owner EXCEPT ![v] = w]
                        /\ alive' = alive \cup {v}
                        /\ receipt' = [receipt EXCEPT ![w] = v]
    BY <1>1 DEF Boot
  <2> QED
    BY <1>1, <2>1, MaxVmAssumption DEF Boot
<1>2. ASSUME NEW w \in Ws, RecordStopped(w) PROVE WorldInv'
  BY <1>2 DEF RecordStopped
<1>3. ASSUME NEW w \in Ws, Switch(w) PROVE WorldInv'
  BY <1>3 DEF Switch
<1>4. ASSUME NEW w \in Ws, Remove(w) PROVE WorldInv'
  BY <1>4 DEF Remove
<1>5. ASSUME NEW w \in Ws, CreateWorkspace(w) PROVE WorldInv'
  BY <1>5 DEF CreateWorkspace
<1>6. ASSUME NEW v \in Vm, VmExit(v) PROVE WorldInv'
  BY <1>6 DEF VmExit
<1> QED
  BY <1>0, <1>1, <1>2, <1>3, <1>4, <1>5, <1>6, WorldFrame DEF World

(***************************************************************************)
(* A port changes hands only through Remove and CreateWorkspace, and the   *)
(* incarnations launched with it before are buried or the new holder's.    *)
(***************************************************************************)
LEMMA PortInvStep ==
    ASSUME TypeOK, WorldInv, PortInv, Next
    PROVE  PortInv'
<1> USE NoneAssumption DEF TypeOK, PortInv, Vm, worldVars, lstVars, tunVars, sshVars,
        connVars
<1>0. CASE UNCHANGED worldVars
  BY <1>0
<1>1. ASSUME NEW w \in Ws, Boot(w) PROVE PortInv'
  <2>1. PICK v \in Vm : /\ owner[v] = None /\ \A u \in Vm : u < v => owner[u] # None
                        /\ owner' = [owner EXCEPT ![v] = w]
                        /\ vport' = [vport EXCEPT ![v] = sport[w]]
                        /\ alive' = alive \cup {v}
                        /\ receipt' = [receipt EXCEPT ![w] = v]
    BY <1>1 DEF Boot
  <2>2. /\ w \in rec /\ receipt[w] \notin alive
        /\ UNCHANGED <<rec, sport, buried>>
    BY <1>1 DEF Boot
  <2>3. \A u \in Vm : owner[u] # None => u < v
    BY <2>1, MaxVmAssumption DEF WorldInv
  <2>4. \A u \in Vm : u # v => owner'[u] = owner[u] /\ vport'[u] = vport[u]
    BY <2>1
  <2>5. owner'[v] = w /\ vport'[v] = sport[w] /\ receipt'[w] = v /\ v \notin buried
    BY <2>1 DEF WorldInv
  <2>6. \A x \in Ws : x # w => receipt'[x] = receipt[x]
    BY <2>1
  <2>7. \A u \in Vm \ buried' : owner'[u] # None =>
          /\ owner'[u] \in rec' /\ vport'[u] = sport'[owner'[u]]
          /\ receipt'[owner'[u]] # None /\ u <= receipt'[owner'[u]]
    BY <2>2, <2>3, <2>4, <2>5, <2>6
  <2>8. \A u \in buried' : owner'[u] \in rec' /\ receipt'[owner'[u]] # None
                               => u < receipt'[owner'[u]]
    BY <2>2, <2>3, <2>4, <2>5, <2>6 DEF WorldInv
  <2>9. \A u \in alive : vport[u] # sport[w]
    BY <2>2 DEF WorldInv
  <2>10. \A u \in alive', x \in Vm : owner'[x] # None /\ vport'[u] = vport'[x] => x <= u
    <3> SUFFICES ASSUME NEW u \in alive', NEW x \in Vm, owner'[x] # None,
                        vport'[u] = vport'[x]
                 PROVE  x <= u
      OBVIOUS
    <3>1. CASE u = v
      BY <2>3, <2>4, <3>1
    <3>2. CASE u # v
      <4>1. u \in alive /\ vport'[u] = vport[u]
        BY <2>1, <2>4, <3>2
      <4>2. x # v
        BY <2>5, <2>9, <4>1
      <4> QED
        BY <2>4, <4>1, <4>2
    <3> QED
      BY <3>1, <3>2
  <2>11. \A u \in alive' : u \notin buried'
    BY <2>1, <2>2, <2>5
  <2> QED
    BY <2>2, <2>7, <2>8, <2>10, <2>11
<1>2. ASSUME NEW w \in Ws, RecordStopped(w) PROVE PortInv'
  BY <1>2 DEF RecordStopped
<1>3. ASSUME NEW w \in Ws, Switch(w) PROVE PortInv'
  BY <1>3 DEF Switch
<1>4. ASSUME NEW w \in Ws, Remove(w) PROVE PortInv'
  BY <1>4 DEF Remove, WorldInv
<1>5. ASSUME NEW w \in Ws, CreateWorkspace(w) PROVE PortInv'
  <2>1. PICK q \in SshPort : /\ \A x \in rec : sport[x] < q
                             /\ sport' = [sport EXCEPT ![w] = q]
    BY <1>5 DEF CreateWorkspace
  <2>2. /\ w \notin rec /\ rec' = rec \cup {w}
        /\ UNCHANGED <<receipt, owner, vport, alive, buried>>
    BY <1>5 DEF CreateWorkspace
  <2>3. q # 0 /\ q \in Nat /\ sport'[w] = q /\ \A x \in rec : sport'[x] = sport[x]
    BY <2>1, <2>2, SshPortAssumption
  <2>4. ASSUME NEW x \in rec PROVE sport[x] # q
    <3>1. sport[x] < q
      BY <2>1
    <3>2. sport[x] \in SshPort \cup {0}
      OBVIOUS
    <3>3. sport[x] \in Nat
      BY <3>2, PortNatural
    <3> QED
      BY <2>3, <3>1, <3>3
  <2>5. receipt[w] = None
    BY <2>2 DEF WorldInv
  <2>6. \A x \in rec' : sport'[x] # 0
    BY <2>2, <2>3
  <2>7. \A x, y \in rec' : sport'[x] = sport'[y] => x = y
    BY <2>2, <2>3, <2>4
  <2> QED
    BY <2>2, <2>3, <2>5, <2>6, <2>7
<1>6. ASSUME NEW v \in Vm, VmExit(v) PROVE PortInv'
  BY <1>6 DEF VmExit
<1> QED
  BY <1>0, <1>1, <1>2, <1>3, <1>4, <1>5, <1>6, WorldFrame DEF World

(***************************************************************************)
(* A connection keeps the incarnation that routing read; a tunnel it joins *)
(* or creates is keyed by it.                                              *)
(***************************************************************************)
LEMMA ConnInvStep ==
    ASSUME TypeOK, WorldInv, PortInv, ConnInv, TunnelInv, SocketInv, Next
    PROVE  ConnInv'
<1> USE NoneAssumption DEF TypeOK, ConnInv, Reached, Vm, Path, Goto, GotoT,
        worldVars, lstVars, tunVars, sshVars, connVars
<1>0. CASE UNCHANGED <<owner, vport, cpc, cport, target, pid, cssh, ckey, ctun,
        tunnels, tkey, tpc, far>>
  BY <1>0
<1>1. ASSUME NEW w \in Ws, Boot(w) PROVE ConnInv'
  BY <1>1 DEF Boot
<1>3. ASSUME NEW c \in Conn, Accept(c) PROVE ConnInv'
  BY <1>3 DEF Accept
<1>4. ASSUME NEW c \in Conn, Route(c) PROVE ConnInv'
  <2> DEFINE w == TargetForPort(cport[c])
  <2>1. w \in running \cup {None}
    BY TargetRuns
  <2>2. CASE Close(c)
    BY <1>4, <2>2 DEF Route, Close, Forget
  <2>3. CASE ~Close(c)
    <3>1. w \in running /\ receipt[w] \in Vm /\ owner[receipt[w]] = w /\ w \in rec
      BY <1>4, <2>1, <2>3 DEF Route, WorldInv
    <3>0. receipt[w] \notin buried
      BY <3>1, MaxVmAssumption DEF PortInv
    <3>2. Reached(w, receipt[w]) /\ sport[w] = vport[receipt[w]]
      BY <3>0, <3>1 DEF PortInv
    <3> HIDE DEF w
    <3>3. /\ target' = [target EXCEPT ![c] = w]
          /\ pid' = [pid EXCEPT ![c] = receipt[w]]
          /\ cssh' = [cssh EXCEPT ![c] = sport[w]]
          /\ cpc[c] = "route" /\ cpc' = [cpc EXCEPT ![c] = "observe"]
          /\ UNCHANGED <<owner, vport, cport, ckey, ctun, tunnels, tkey, tpc, far>>
      BY <1>4, <2>3 DEF Route, w
    <3>4. /\ target'[c] = w /\ pid'[c] = receipt[w] /\ cssh'[c] = sport[w]
          /\ cpc'[c] = "observe" /\ cport'[c] \in Port
      BY <3>3
    <3>5. ASSUME NEW b \in Conn, b # c
          PROVE  /\ target'[b] = target[b] /\ pid'[b] = pid[b]
                 /\ cssh'[b] = cssh[b] /\ cpc'[b] = cpc[b]
      BY <3>3, <3>5
    <3> HIDE DEF Vm
    <3> QED
      BY <3>2, <3>3, <3>4, <3>5
  <2> QED
    BY <2>2, <2>3
<1>5. ASSUME NEW c \in Conn, Observe(c) PROVE ConnInv'
  BY <1>5 DEF Observe, Key, Close, Forget
<1>6. ASSUME NEW c \in Conn, Lookup(c) PROVE ConnInv'
  BY <1>6 DEF Lookup, Mapped, Join, Create, Close, Forget, TunnelInv
<1>7. ASSUME NEW c \in Conn, Await(c) PROVE ConnInv'
  BY <1>7 DEF Await, Close, Forget
<1>8. ASSUME NEW c \in Conn, Dial(c) PROVE ConnInv'
  BY <1>8 DEF Dial, Listeners, SocketInv
<1>9. ASSUME NEW c \in Conn, DropTunnel(c) PROVE ConnInv'
  BY <1>9 DEF DropTunnel
<1>10. ASSUME NEW c \in Conn, Retry(c) PROVE ConnInv'
  BY <1>10 DEF Retry, Signal, Unlink, Close, Forget
<1>11. ASSUME NEW c \in Conn, Hangup(c) PROVE ConnInv'
  BY <1>11 DEF Hangup, Close, Forget
<1>12. ASSUME NEW t \in Tun, StartSsh(t) PROVE ConnInv'
  BY <1>12 DEF StartSsh, Unlink, FinishErr
<1>13. ASSUME NEW t \in Tun, PublishCmd(t) PROVE ConnInv'
  BY <1>13 DEF PublishCmd
<1>14. ASSUME NEW t \in Tun, Cancel(t) PROVE ConnInv'
  BY <1>14 DEF Cancel, Signal, FinishErr
<1>15. ASSUME NEW t \in Tun, TunnelUp(t) PROVE ConnInv'
  BY <1>15 DEF TunnelUp
<1>16. ASSUME NEW t \in Tun, ExitedEarly(t) PROVE ConnInv'
  BY <1>16 DEF ExitedEarly, FinishErr
<1>17. ASSUME NEW t \in Tun, GiveUp(t) PROVE ConnInv'
  BY <1>17 DEF GiveUp, Signal, FinishErr
<1>18. ASSUME NEW t \in Tun, RemoveTunnel(t) PROVE ConnInv'
  BY <1>18 DEF RemoveTunnel
<1>19. ASSUME NEW t \in Tun, UnlinkPath(t) PROVE ConnInv'
  BY <1>19 DEF UnlinkPath, Unlink
<1>20. ASSUME NEW t \in Tun, SshBind(t) PROVE ConnInv'
  BY <1>20 DEF SshBind
<1>21. CASE ReconcilePorts
  BY <1>21 DEF ReconcilePorts, DropAll, Signal, Unlink
<1>22. CASE StopAll
  BY <1>22 DEF StopAll, DropAll, Signal, Unlink
<1> QED
  BY <1>0, <1>1, <1>3, <1>4, <1>5, <1>6, <1>7, <1>8, <1>9, <1>10, <1>11,
     <1>12, <1>13, <1>14, <1>15, <1>16, <1>17, <1>18, <1>19, <1>20, <1>21,
     <1>22
  DEF Next, World, ConnStep, TunStep, CreateWorkspace, Remove, RecordStopped, Switch,
      VmExit, AcceptFails, SshExit, CloseStopCh, ExitDaemon

\* Two unburied incarnations with one port are of one workspace.
LEMMA SameOwner ==
    ASSUME TypeOK, PortInv, KeyInv, NEW t \in Tun, far[t] # None, tkey[t][1] \notin buried
    PROVE  far[t] \notin buried /\ owner[far[t]] = owner[tkey[t][1]]
<1>1. /\ tkey[t][1] \in Vm /\ far[t] \in Vm /\ far[t] \notin buried
      /\ owner[tkey[t][1]] # None /\ owner[far[t]] # None
      /\ vport[far[t]] = vport[tkey[t][1]]
  BY DEF TypeOK, KeyInv
<1>2. /\ owner[far[t]] \in rec /\ vport[far[t]] = sport[owner[far[t]]]
      /\ owner[tkey[t][1]] \in rec /\ vport[tkey[t][1]] = sport[owner[tkey[t][1]]]
  BY <1>1 DEF PortInv
<1>3. sport[owner[far[t]]] = sport[owner[tkey[t][1]]]
  BY <1>1, <1>2
<1>4. \A w, x \in rec : sport[w] = sport[x] => w = x
  BY DEF PortInv
<1> QED
  BY <1>1, <1>2, <1>3, <1>4

(***************************************************************************)
(* The key of a tunnel never changes, and ssh reaches the living holder of *)
(* the port of the key's incarnation or none.                              *)
(***************************************************************************)
LEMMA KeyInvStep ==
    ASSUME TypeOK, WorldInv, PortInv, ConnInv, KeyInv, TunnelInv, Next
    PROVE  KeyInv'
<1> USE NoneAssumption DEF TypeOK, KeyInv, Reached, Vm, Path, Goto, GotoT,
        worldVars, lstVars, tunVars, sshVars, connVars
<1>0. CASE UNCHANGED <<owner, vport, buried, tpc, tkey, tssh, far>>
  BY <1>0
<1>1. ASSUME NEW w \in Ws, Boot(w) PROVE KeyInv'
  BY <1>1 DEF Boot
<1>2. ASSUME NEW w \in Ws, Remove(w) PROVE KeyInv'
  <2>1. \A t \in Tun : far[t] # None /\ tkey[t][1] \notin buried => owner[far[t]] = owner[tkey[t][1]]
    BY SameOwner
  <2> QED
    BY <1>2, <2>1 DEF Remove
<1>3. ASSUME NEW c \in Conn, Lookup(c) PROVE KeyInv'
  BY <1>3 DEF Lookup, Mapped, Join, Create, Close, Forget, ConnInv
<1>4. ASSUME NEW t \in Tun, StartSsh(t) PROVE KeyInv'
  BY <1>4 DEF StartSsh, Unlink, FinishErr
<1>5. ASSUME NEW t \in Tun, PublishCmd(t) PROVE KeyInv'
  BY <1>5 DEF PublishCmd
<1>6. ASSUME NEW t \in Tun, Cancel(t) PROVE KeyInv'
  BY <1>6 DEF Cancel, Signal, FinishErr
<1>7. ASSUME NEW t \in Tun, TunnelUp(t) PROVE KeyInv'
  BY <1>7 DEF TunnelUp
<1>8. ASSUME NEW t \in Tun, ExitedEarly(t) PROVE KeyInv'
  BY <1>8 DEF ExitedEarly, FinishErr
<1>9. ASSUME NEW t \in Tun, GiveUp(t) PROVE KeyInv'
  BY <1>9 DEF GiveUp, Signal, FinishErr
<1>10. ASSUME NEW t \in Tun, RemoveTunnel(t) PROVE KeyInv'
  BY <1>10 DEF RemoveTunnel
<1>11. ASSUME NEW t \in Tun, UnlinkPath(t) PROVE KeyInv'
  BY <1>11 DEF UnlinkPath, Unlink
<1>12. ASSUME NEW t \in Tun, SshBind(t) PROVE KeyInv'
  <2>1. PICK v \in alive : vport[v] = tssh[t] /\ far' = [far EXCEPT ![t] = v]
    BY <1>12 DEF SshBind
  <2>2. /\ tpc[t] # "free" /\ tkey[t] \in Vm \X Port /\ owner[tkey[t][1]] # None
        /\ vport[v] = vport[tkey[t][1]]
    BY <1>12, <2>1 DEF SshBind, TunnelInv
  <2>3. v \notin buried /\ owner[v] # None
    BY <2>1 DEF PortInv, WorldInv
  <2>4. v >= tkey[t][1]
    <3>1. tkey[t][1] <= v
      BY <2>1, <2>2 DEF PortInv
    <3> QED
      BY <2>2, <3>1
  <2>5. UNCHANGED <<owner, vport, buried, tpc, tkey, tssh>>
    BY <1>12 DEF SshBind
  <2>6. far'[t] = v /\ \A s \in Tun : s # t => far'[s] = far[s]
    BY <2>1
  <2> QED
    BY <2>2, <2>3, <2>4, <2>5, <2>6
<1> QED
  BY <1>0, <1>1, <1>2, <1>3, <1>4, <1>5, <1>6, <1>7, <1>8, <1>9, <1>10, <1>11,
     <1>12
  DEF Next, World, ConnStep, TunStep, CreateWorkspace, RecordStopped, Switch, VmExit,
      Accept, AcceptFails, Route, Close, Forget, Observe, Key, Await, Dial, Listeners, DropTunnel,
      Retry, Signal, Unlink, Hangup, SshExit, ReconcilePorts, DropAll,
      CloseStopCh, StopAll, ExitDaemon

(***************************************************************************)
(* A tunnel leaves the map for good, and its process is published under    *)
(* the mutex that finds it there.                                          *)
(***************************************************************************)
LEMMA TunnelInvStep ==
    ASSUME TypeOK, ConnInv, TunnelInv, Next
    PROVE  TunnelInv'
<1> USE NoneAssumption DEF TypeOK, TunnelInv, Vm, Path, Goto, GotoT,
        worldVars, lstVars, tunVars, sshVars, connVars
<1>0. CASE UNCHANGED <<tunnels, tpc, cmd, ssh, far>>
  BY <1>0
<1>1. ASSUME NEW c \in Conn, Lookup(c) PROVE TunnelInv'
  BY <1>1 DEF Lookup, Mapped, Join, Create, Close, Forget
<1>2. ASSUME NEW c \in Conn, DropTunnel(c) PROVE TunnelInv'
  BY <1>2 DEF DropTunnel
<1>3. ASSUME NEW c \in Conn, Retry(c) PROVE TunnelInv'
  BY <1>3 DEF Retry, Signal, Unlink, Close, Forget
<1>4. ASSUME NEW t \in Tun, StartSsh(t) PROVE TunnelInv'
  BY <1>4 DEF StartSsh, Unlink, FinishErr
<1>5. ASSUME NEW t \in Tun, PublishCmd(t) PROVE TunnelInv'
  BY <1>5 DEF PublishCmd
<1>6. ASSUME NEW t \in Tun, Cancel(t) PROVE TunnelInv'
  BY <1>6 DEF Cancel, Signal, FinishErr
<1>7. ASSUME NEW t \in Tun, TunnelUp(t) PROVE TunnelInv'
  BY <1>7 DEF TunnelUp
<1>8. ASSUME NEW t \in Tun, ExitedEarly(t) PROVE TunnelInv'
  BY <1>8 DEF ExitedEarly, FinishErr
<1>9. ASSUME NEW t \in Tun, GiveUp(t) PROVE TunnelInv'
  BY <1>9 DEF GiveUp, Signal, FinishErr
<1>10. ASSUME NEW t \in Tun, RemoveTunnel(t) PROVE TunnelInv'
  BY <1>10 DEF RemoveTunnel
<1>11. ASSUME NEW t \in Tun, UnlinkPath(t) PROVE TunnelInv'
  BY <1>11 DEF UnlinkPath, Unlink
<1>12. ASSUME NEW t \in Tun, SshBind(t) PROVE TunnelInv'
  BY <1>12 DEF SshBind
<1>13. ASSUME NEW t \in Tun, SshExit(t) PROVE TunnelInv'
  BY <1>13 DEF SshExit
<1>14. CASE ReconcilePorts
  BY <1>14 DEF ReconcilePorts, DropAll, Signal, Unlink
<1>15. CASE StopAll
  BY <1>15 DEF StopAll, DropAll, Signal, Unlink
<1> QED
  BY <1>0, <1>1, <1>2, <1>3, <1>4, <1>5, <1>6, <1>7, <1>8, <1>9, <1>10, <1>11,
     <1>12, <1>13, <1>14, <1>15
  DEF Next, World, ConnStep, TunStep, CreateWorkspace, Boot, RecordStopped, Switch,
      Remove, VmExit, Accept, AcceptFails, Route, Close, Forget, Observe, Key, Await, Dial,
      Listeners, Hangup, CloseStopCh, ExitDaemon

(***************************************************************************)
(* Paths are never shared, so an unlink removes the socket of its own      *)
(* tunnel only.                                                            *)
(***************************************************************************)
LEMMA SocketInvStep ==
    ASSUME TypeOK, ConnInv, KeyInv, TunnelInv, SocketInv, Next
    PROVE  SocketInv'
<1> USE NoneAssumption DEF TypeOK, SocketInv, Vm, Path, Goto, GotoT,
        worldVars, lstVars, tunVars, sshVars, connVars
<1>0. CASE UNCHANGED <<tunnels, ssh, far, sock>>
  BY <1>0
<1>1. ASSUME NEW c \in Conn, Lookup(c) PROVE SocketInv'
  BY <1>1 DEF Lookup, Mapped, Join, Create, Close, Forget, TunnelInv
<1>2. ASSUME NEW c \in Conn, DropTunnel(c) PROVE SocketInv'
  BY <1>2 DEF DropTunnel
<1>3. ASSUME NEW c \in Conn, Retry(c) PROVE SocketInv'
  BY <1>3 DEF Retry, Signal, Unlink, Close, Forget, ConnInv
<1>4. ASSUME NEW t \in Tun, StartSsh(t) PROVE SocketInv'
  BY <1>4 DEF StartSsh, Unlink, FinishErr, TunnelInv
<1>5. ASSUME NEW t \in Tun, Cancel(t) PROVE SocketInv'
  BY <1>5 DEF Cancel, Signal, FinishErr
<1>6. ASSUME NEW t \in Tun, ExitedEarly(t) PROVE SocketInv'
  BY <1>6 DEF ExitedEarly, FinishErr
<1>7. ASSUME NEW t \in Tun, GiveUp(t) PROVE SocketInv'
  BY <1>7 DEF GiveUp, Signal, FinishErr
<1>8. ASSUME NEW t \in Tun, RemoveTunnel(t) PROVE SocketInv'
  BY <1>8 DEF RemoveTunnel
<1>9. ASSUME NEW t \in Tun, UnlinkPath(t) PROVE SocketInv'
  BY <1>9 DEF UnlinkPath, Unlink, TunnelInv
<1>10. ASSUME NEW t \in Tun, SshBind(t) PROVE SocketInv'
  <2>1. far'[t] \in Vm /\ t \in Tun /\ \A s \in Tun : s # t => far'[s] = far[s] /\ ssh'[s] = ssh[s]
    BY <1>10 DEF SshBind
  <2>2. sock' = {s \in sock : s.path # t} \cup {[path |-> t, by |-> t]} /\ tunnels' = tunnels
    BY <1>10 DEF SshBind
  <2> QED
    BY <2>1, <2>2
<1>11. ASSUME NEW t \in Tun, SshExit(t) PROVE SocketInv'
  BY <1>11 DEF SshExit
<1>12. CASE ReconcilePorts
  BY <1>12 DEF ReconcilePorts, DropAll, Signal, Unlink
<1>13. CASE StopAll
  BY <1>13 DEF StopAll, DropAll, Signal, Unlink
<1> QED
  BY <1>0, <1>1, <1>2, <1>3, <1>4, <1>5, <1>6, <1>7, <1>8, <1>9, <1>10, <1>11,
     <1>12, <1>13
  DEF Next, World, ConnStep, TunStep, CreateWorkspace, Boot, RecordStopped, Switch,
      Remove, VmExit, Accept, AcceptFails, Route, Close, Forget, Observe, Key, Await, Dial,
      Listeners, Hangup, PublishCmd, TunnelUp, CloseStopCh, ExitDaemon

(***************************************************************************)
(* Whoever takes a tunnel out of the map ends its process, or leaves that  *)
(* to the goroutine that has not published it.                             *)
(***************************************************************************)
LEMMA NoStraySshStep ==
    ASSUME TypeOK, ConnInv, TunnelInv, NoStraySsh, Next
    PROVE  NoStraySsh'
<1> USE NoneAssumption DEF TypeOK, NoStraySsh, Serving, Vm, Path, Goto, GotoT,
        worldVars, lstVars, tunVars, sshVars, connVars
<1>0. CASE UNCHANGED <<stopped, tunnels, tpc, ssh, cpc, ctun>>
  BY <1>0
<1>1. ASSUME NEW c \in Conn, Accept(c) PROVE NoStraySsh'
  BY <1>1 DEF Accept
<1>2. ASSUME NEW c \in Conn, Route(c) PROVE NoStraySsh'
  BY <1>2 DEF Route, Close, Forget
<1>3. ASSUME NEW c \in Conn, Observe(c) PROVE NoStraySsh'
  BY <1>3 DEF Observe, Key, Close, Forget
<1>4. ASSUME NEW c \in Conn, Lookup(c) PROVE NoStraySsh'
  BY <1>4 DEF Lookup, Mapped, Join, Create, Close, Forget, TunnelInv
<1>5. ASSUME NEW c \in Conn, Await(c) PROVE NoStraySsh'
  BY <1>5 DEF Await, Close, Forget
<1>6. ASSUME NEW c \in Conn, Dial(c) PROVE NoStraySsh'
  BY <1>6 DEF Dial, Listeners, ConnInv
<1>7. ASSUME NEW c \in Conn, DropTunnel(c) PROVE NoStraySsh'
  BY <1>7 DEF DropTunnel, TunnelInv
<1>8. ASSUME NEW c \in Conn, Retry(c) PROVE NoStraySsh'
  BY <1>8 DEF Retry, Signal, Unlink, Close, Forget, TunnelInv, ConnInv
<1>9. ASSUME NEW c \in Conn, Hangup(c) PROVE NoStraySsh'
  BY <1>9 DEF Hangup, Close, Forget
<1>10. ASSUME NEW t \in Tun, StartSsh(t) PROVE NoStraySsh'
  BY <1>10 DEF StartSsh, Unlink, FinishErr, TunnelInv
<1>11. ASSUME NEW t \in Tun, PublishCmd(t) PROVE NoStraySsh'
  BY <1>11 DEF PublishCmd, TunnelInv
<1>12. ASSUME NEW t \in Tun, Cancel(t) PROVE NoStraySsh'
  BY <1>12 DEF Cancel, Signal, FinishErr, TunnelInv
<1>13. ASSUME NEW t \in Tun, TunnelUp(t) PROVE NoStraySsh'
  BY <1>13 DEF TunnelUp, TunnelInv
<1>14. ASSUME NEW t \in Tun, ExitedEarly(t) PROVE NoStraySsh'
  BY <1>14 DEF ExitedEarly, FinishErr, TunnelInv
<1>15. ASSUME NEW t \in Tun, GiveUp(t) PROVE NoStraySsh'
  BY <1>15 DEF GiveUp, Signal, FinishErr, TunnelInv
<1>16. ASSUME NEW t \in Tun, RemoveTunnel(t) PROVE NoStraySsh'
  BY <1>16 DEF RemoveTunnel, TunnelInv
<1>17. ASSUME NEW t \in Tun, UnlinkPath(t) PROVE NoStraySsh'
  BY <1>17 DEF UnlinkPath, Unlink, TunnelInv
<1>18. ASSUME NEW t \in Tun, SshBind(t) PROVE NoStraySsh'
  BY <1>18 DEF SshBind, TunnelInv
<1>19. ASSUME NEW t \in Tun, SshExit(t) PROVE NoStraySsh'
  BY <1>19 DEF SshExit
<1>20. CASE ReconcilePorts
  BY <1>20 DEF ReconcilePorts, DropAll, Signal, Unlink, TunnelInv
<1>21. CASE CloseStopCh
  BY <1>21 DEF CloseStopCh
<1>22. CASE StopAll
  BY <1>22 DEF StopAll, DropAll, Signal, Unlink, TunnelInv
<1>23. CASE ExitDaemon
  BY <1>23 DEF ExitDaemon
<1> QED
  BY <1>0, <1>1, <1>2, <1>3, <1>4, <1>5, <1>6, <1>7, <1>8, <1>9, <1>10, <1>11,
     <1>12, <1>13, <1>14, <1>15, <1>16, <1>17, <1>18, <1>19, <1>20, <1>21,
     <1>22, <1>23
  DEF Next, World, ConnStep, TunStep, CreateWorkspace, Boot, RecordStopped, Switch,
      Remove, VmExit, AcceptFails

(***************************************************************************)
(* A tunnel enters the map only under a key that is not there, and never   *)
(* after Stop.                                                             *)
(***************************************************************************)
LEMMA StopFinalStep ==
    ASSUME TypeOK, TunnelInv, StopFinal, Next
    PROVE  StopFinal'
<1> USE NoneAssumption DEF TypeOK, StopFinal, Vm, Path, Goto, GotoT,
        worldVars, lstVars, tunVars, sshVars, connVars
<1>0. CASE UNCHANGED <<stopped, tunnels, tkey>>
  BY <1>0
<1>1. ASSUME NEW c \in Conn, Lookup(c) PROVE StopFinal'
  BY <1>1 DEF Lookup, Mapped, Join, Create, Close, Forget, TunnelInv
<1>2. ASSUME NEW c \in Conn, DropTunnel(c) PROVE StopFinal'
  BY <1>2 DEF DropTunnel
<1>3. ASSUME NEW t \in Tun, StartSsh(t) PROVE StopFinal'
  BY <1>3 DEF StartSsh, Unlink, FinishErr
<1>4. ASSUME NEW t \in Tun, Cancel(t) PROVE StopFinal'
  BY <1>4 DEF Cancel, Signal, FinishErr
<1>5. ASSUME NEW t \in Tun, ExitedEarly(t) PROVE StopFinal'
  BY <1>5 DEF ExitedEarly, FinishErr
<1>6. ASSUME NEW t \in Tun, GiveUp(t) PROVE StopFinal'
  BY <1>6 DEF GiveUp, Signal, FinishErr
<1>7. ASSUME NEW t \in Tun, RemoveTunnel(t) PROVE StopFinal'
  BY <1>7 DEF RemoveTunnel
<1>8. CASE ReconcilePorts
  BY <1>8 DEF ReconcilePorts, DropAll, Signal, Unlink
<1>9. CASE CloseStopCh
  BY <1>9 DEF CloseStopCh
<1>10. CASE StopAll
  BY <1>10 DEF StopAll, DropAll, Signal, Unlink
<1>11. CASE ExitDaemon
  BY <1>11 DEF ExitDaemon
<1> QED
  BY <1>0, <1>1, <1>2, <1>3, <1>4, <1>5, <1>6, <1>7, <1>8, <1>9, <1>10, <1>11
  DEF Next, World, ConnStep, TunStep, CreateWorkspace, Boot, RecordStopped, Switch,
      Remove, VmExit, Accept, AcceptFails, Route, Close, Forget, Observe, Key, Await, Dial,
      Listeners, Retry, Signal, Unlink, Hangup, PublishCmd, TunnelUp,
      UnlinkPath, SshBind, SshExit

-----------------------------------------------------------------------------
LEMMA InitIInv == Init => IInv
<1> SUFFICES ASSUME Init PROVE IInv
  OBVIOUS
<1> USE NoneAssumption DEF Init
<1>1. TypeOK
  BY DeclaresAssumption DEF TypeOK, Vm
<1>2. WorldInv /\ PortInv /\ ConnInv /\ KeyInv
  BY DEF WorldInv, PortInv, ConnInv, KeyInv, Vm
<1>3. TunnelInv /\ SocketInv /\ NoStraySsh /\ StopFinal
  BY DEF TunnelInv, SocketInv, NoStraySsh, StopFinal
<1> QED
  BY <1>1, <1>2, <1>3 DEF IInv

LEMMA StutterIInv == IInv /\ UNCHANGED vars => IInv'
<1> SUFFICES ASSUME IInv, UNCHANGED vars PROVE IInv'
  OBVIOUS
<1> USE DEF IInv, vars, worldVars, lstVars, tunVars, sshVars, connVars
<1>1. TypeOK' /\ WorldInv' /\ PortInv'
  BY DEF TypeOK, WorldInv, PortInv
<1>2. ConnInv' /\ KeyInv'
  BY DEF ConnInv, KeyInv, Reached
<1>3. TunnelInv' /\ SocketInv' /\ NoStraySsh' /\ StopFinal'
  BY DEF TunnelInv, SocketInv, NoStraySsh, StopFinal, Serving
<1> QED
  BY <1>1, <1>2, <1>3

\* IInv is inductive: routing, the tunnels' goroutines, ssh, reconciliation and
\* Stop keep it in any order (internal/proxy/proxy.go).
THEOREM Inductive == Spec => []IInv
<1>1. ASSUME IInv, Next PROVE IInv'
  <2> USE <1>1 DEF IInv
  <2>1. TypeOK' /\ WorldInv' /\ PortInv' /\ ConnInv'
    BY TypeOKStep, WorldInvStep, PortInvStep, ConnInvStep
  <2>2. KeyInv' /\ TunnelInv' /\ SocketInv'
    BY KeyInvStep, TunnelInvStep, SocketInvStep
  <2>3. NoStraySsh' /\ StopFinal'
    BY NoStraySshStep, StopFinalStep
  <2> QED
    BY <2>1, <2>2, <2>3
<1>2. IInv /\ [Next]_vars => IInv'
  BY <1>1, StutterIInv
<1> QED
  BY InitIInv, <1>2, PTL DEF Spec

\* Every variable of the connections and of the tunnels keeps its type.
THEOREM TypeCorrect == Spec => []TypeOK
<1>1. IInv => TypeOK
  BY DEF IInv
<1> QED
  BY <1>1, Inductive, PTL

\* While the daemon runs, every ssh process that nobody has signalled is in the
\* map or has someone about to end it (startTunnel, dropTunnel, ReconcilePorts).
THEOREM SshOwned == Spec => []NoStraySsh
<1>1. IInv => NoStraySsh
  BY DEF IInv
<1> QED
  BY <1>1, Inductive, PTL

\* A tunnel in the map that is up and bound has its socket, whatever unlinks of
\* older tunnels are still to come (tunnelPath).
THEOREM SocketsKept == Spec => []SocketKept
<1>1. IInv => SocketKept
  BY DEF IInv, SocketInv, SocketKept, Path
<1> QED
  BY <1>1, Inductive, PTL

\* One tunnel per key, and none after Stop (ensureTunnel).
THEOREM StopIsFinal == Spec => []StopFinal
<1>1. IInv => StopFinal
  BY DEF IInv
<1> QED
  BY <1>1, Inductive, PTL

\* An established connection ends in no incarnation older than the row named, in
\* the workspace that routing chose unless it was removed meanwhile, and in the
\* row's own incarnation while that is the workspace's, for any number of boots,
\* switches, removals and creations that pass SSH ports on (ensureTunnel's key).
THEOREM ConnectionsFresh == Spec => []NeverStale
<1>1. ASSUME IInv PROVE NeverStale
  <2> SUFFICES ASSUME NEW c \in Conn, cpc[c] = "piped"
               PROVE  /\ far[ctun[c]] >= pid[c]
                      /\ pid[c] \notin buried => owner[far[ctun[c]]] = target[c]
                      /\ receipt[target[c]] = pid[c] => far[ctun[c]] = pid[c]
    BY DEF NeverStale
  <2> DEFINE t == ctun[c]
  <2>1. /\ t \in Tun /\ far[t] # None /\ tkey[t] = <<pid[c], cport[c]>>
        /\ target[c] \in Ws /\ pid[c] \in Vm /\ owner[pid[c]] = target[c]
    BY <1>1 DEF IInv, ConnInv, Reached
  <2>2. far[t] \in Vm /\ far[t] >= pid[c] /\ owner[far[t]] # None
    BY <1>1, <2>1 DEF IInv, KeyInv, TypeOK
  <2>3. pid[c] \notin buried => far[t] \notin buried /\ owner[far[t]] = target[c]
    BY <1>1, <2>1, SameOwner DEF IInv
  <2>4. ASSUME receipt[target[c]] = pid[c] PROVE far[t] = pid[c]
    <3>1. pid[c] # None /\ target[c] \in rec
      BY <1>1, <2>1, <2>4, NoneAssumption DEF IInv, WorldInv, Vm
    <3>2. pid[c] \notin buried
      BY <1>1, <2>1, <2>4, <3>1, MaxVmAssumption DEF IInv, PortInv, Vm
    <3>3. far[t] <= pid[c]
      BY <1>1, <2>2, <2>3, <2>4, <3>2, <2>1, NoneAssumption DEF IInv, PortInv
    <3> QED
      BY <2>1, <2>2, <3>3, MaxVmAssumption DEF Vm
  <2> QED
    BY <2>2, <2>3, <2>4
<1>2. IInv => NeverStale
  BY <1>1
<1> QED
  BY <1>2, Inductive, PTL
==============================================================================
