--------------------------- MODULE DaemonPortsProofs ---------------------------
(***************************************************************************)
(* Proofs about port pre-emption, for any sets of workspaces, ports and    *)
(* daemon incarnations.  IInv, defined in DaemonPorts, is the inductive    *)
(* invariant; each part has a lemma with one case per action.              *)
(***************************************************************************)
EXTENDS DaemonPorts, TLAPS

(***************************************************************************)
(* Types.                                                                  *)
(***************************************************************************)
LEMMA TypeOKStep ==
    ASSUME TypeOK, MetaInv, RequestInv, Next
    PROVE  TypeOK'
<1> USE DistinctAssumption, DeclaresAssumption DEF TypeOK, Open, Serving,
        Goto, wsVars, daemonVars
<1>a. abandoned' \in BOOLEAN
  BY DEF Next, WsNext, CommandStep, DaemonNext, MainStep, HandleStep, ReconcileStep
<1> USE <1>a
<1>1. ASSUME NEW w \in Ws, Publish(w) PROVE TypeOK'
  BY <1>1 DEF Publish
<1>2. ASSUME NEW w \in Ws, Start(w) PROVE TypeOK'
  BY <1>2 DEF Start
<1>3. ASSUME NEW w \in Ws, Ensure(w) PROVE TypeOK'
  BY <1>3 DEF Ensure, Send, Connectable, Request
<1>4. ASSUME NEW w \in Ws, SpawnDaemon(w) PROVE TypeOK'
  BY <1>4 DEF SpawnDaemon
<1>5. ASSUME NEW w \in Ws, Poll(w) PROVE TypeOK'
  BY <1>5 DEF Poll, Send, Connectable, Request
<1>6. ASSUME NEW w \in Ws, EnsureAnswered(w) PROVE TypeOK'
  BY <1>6 DEF EnsureAnswered, Hangup
<1>7. ASSUME NEW w \in Ws, Launch(w) PROVE TypeOK'
  BY <1>7 DEF Launch
<1>8. ASSUME NEW w \in Ws, StopVM(w) PROVE TypeOK'
  BY <1>8 DEF StopVM
<1>9. ASSUME NEW w \in Ws, Remove(w) PROVE TypeOK'
  BY <1>9 DEF Remove
<1>10. ASSUME NEW w \in Ws, Shutdown(w) PROVE TypeOK'
  BY <1>10 DEF Shutdown, Send, Unlock, Connectable, Request
<1>11. ASSUME NEW w \in Ws, ShutdownAnswered(w) PROVE TypeOK'
  BY <1>11 DEF ShutdownAnswered, Unlock, Hangup
<1>12. ASSUME NEW w \in Ws, SocketGone(w) PROVE TypeOK'
  BY <1>12 DEF SocketGone, Unlock
<1>13. ASSUME NEW w \in Ws, Deadline(w) PROVE TypeOK'
  BY <1>13 DEF Deadline, Unlock, Hangup, Orphaned, Rest, Request
<1>14. ASSUME NEW w \in Ws, KillCommand(w) PROVE TypeOK'
  BY <1>14 DEF KillCommand, Unlock, Hangup, Orphaned, Rest, Request
<1>15. ASSUME NEW d \in Daemon, LockDaemon(d) PROVE TypeOK'
  BY <1>15 DEF LockDaemon
<1>16. ASSUME NEW d \in Daemon, Listen(d) PROVE TypeOK'
  BY <1>16 DEF Listen
<1>17. ASSUME NEW d \in Daemon, OpenDB(d) PROVE TypeOK'
  BY <1>17 DEF OpenDB
<1>18. ASSUME NEW d \in Daemon, ReadReserved(d) PROVE TypeOK'
  BY <1>18 DEF ReadReserved, Reserved
<1>19. ASSUME NEW d \in Daemon, InitPorts(d) PROVE TypeOK'
  BY <1>19 DEF InitPorts, EnsurePorts
<1>20. ASSUME NEW d \in Daemon, Handle(d) PROVE TypeOK'
  BY <1>20 DEF Handle, EnsurePorts, Request
<1>21. ASSUME NEW d \in Daemon, LockReconcile(d) PROVE TypeOK'
  BY <1>21 DEF LockReconcile
<1>22. ASSUME NEW d \in Daemon, SnapshotPorts(d) PROVE TypeOK'
  BY <1>22 DEF SnapshotPorts, Reserved
<1>23. ASSUME NEW d \in Daemon, ReconcilePorts(d) PROVE TypeOK'
  BY <1>23 DEF ReconcilePorts, Unlock
<1>24. ASSUME NEW d \in Daemon, StopProxy(d) PROVE TypeOK'
  BY <1>24 DEF StopProxy
<1>25. ASSUME NEW d \in Daemon, CloseSocket(d) PROVE TypeOK'
  BY <1>25 DEF CloseSocket
<1>26. ASSUME NEW d \in Daemon, Die(d) PROVE TypeOK'
  BY <1>26 DEF Die, Unlock, Mine, Request
<1> QED
  BY <1>1, <1>2, <1>3, <1>4, <1>5, <1>6, <1>7, <1>8, <1>9, <1>10, <1>11,
     <1>12, <1>13, <1>14, <1>15, <1>16, <1>17, <1>18, <1>19, <1>20, <1>21,
     <1>22, <1>23, <1>24, <1>25, <1>26
  DEF Next, WsNext, CommandStep, DaemonNext, MainStep, HandleStep,
      ReconcileStep, ExitDaemon, KillDaemon

(***************************************************************************)
(* Only the holder of daemon.lock gets past LockDaemon.                    *)
(***************************************************************************)
LEMMA OwnerInvStep ==
    ASSUME TypeOK, OwnerInv, Next
    PROVE  OwnerInv'
<1> USE DistinctAssumption, DeclaresAssumption DEF TypeOK, OwnerInv, Open,
        Serving, Goto, wsVars, daemonVars
<1>1. ASSUME NEW w \in Ws, Publish(w) PROVE OwnerInv'
  BY <1>1 DEF Publish
<1>2. ASSUME NEW w \in Ws, Start(w) PROVE OwnerInv'
  BY <1>2 DEF Start
<1>3. ASSUME NEW w \in Ws, Ensure(w) PROVE OwnerInv'
  BY <1>3 DEF Ensure, Send
<1>4. ASSUME NEW w \in Ws, SpawnDaemon(w) PROVE OwnerInv'
  BY <1>4 DEF SpawnDaemon
<1>5. ASSUME NEW w \in Ws, Poll(w) PROVE OwnerInv'
  BY <1>5 DEF Poll, Send
<1>6. ASSUME NEW w \in Ws, EnsureAnswered(w) PROVE OwnerInv'
  BY <1>6 DEF EnsureAnswered, Hangup
<1>7. ASSUME NEW w \in Ws, Launch(w) PROVE OwnerInv'
  BY <1>7 DEF Launch
<1>8. ASSUME NEW w \in Ws, StopVM(w) PROVE OwnerInv'
  BY <1>8 DEF StopVM
<1>9. ASSUME NEW w \in Ws, Remove(w) PROVE OwnerInv'
  BY <1>9 DEF Remove
<1>10. ASSUME NEW w \in Ws, Shutdown(w) PROVE OwnerInv'
  BY <1>10 DEF Shutdown, Send, Unlock
<1>11. ASSUME NEW w \in Ws, ShutdownAnswered(w) PROVE OwnerInv'
  BY <1>11 DEF ShutdownAnswered, Unlock, Hangup
<1>12. ASSUME NEW w \in Ws, SocketGone(w) PROVE OwnerInv'
  BY <1>12 DEF SocketGone, Unlock
<1>13. ASSUME NEW w \in Ws, Deadline(w) PROVE OwnerInv'
  BY <1>13 DEF Deadline, Unlock, Hangup, Orphaned, Rest
<1>14. ASSUME NEW w \in Ws, KillCommand(w) PROVE OwnerInv'
  BY <1>14 DEF KillCommand, Unlock, Hangup, Orphaned, Rest
<1>15. ASSUME NEW d \in Daemon, LockDaemon(d) PROVE OwnerInv'
  BY <1>15 DEF LockDaemon
<1>16. ASSUME NEW d \in Daemon, Listen(d) PROVE OwnerInv'
  BY <1>16 DEF Listen
<1>17. ASSUME NEW d \in Daemon, OpenDB(d) PROVE OwnerInv'
  BY <1>17 DEF OpenDB
<1>18. ASSUME NEW d \in Daemon, ReadReserved(d) PROVE OwnerInv'
  BY <1>18 DEF ReadReserved
<1>19. ASSUME NEW d \in Daemon, InitPorts(d) PROVE OwnerInv'
  BY <1>19 DEF InitPorts, EnsurePorts
<1>20. ASSUME NEW d \in Daemon, Handle(d) PROVE OwnerInv'
  BY <1>20 DEF Handle, EnsurePorts
<1>21. ASSUME NEW d \in Daemon, LockReconcile(d) PROVE OwnerInv'
  BY <1>21 DEF LockReconcile
<1>22. ASSUME NEW d \in Daemon, SnapshotPorts(d) PROVE OwnerInv'
  BY <1>22 DEF SnapshotPorts
<1>23. ASSUME NEW d \in Daemon, ReconcilePorts(d) PROVE OwnerInv'
  BY <1>23 DEF ReconcilePorts, Unlock
<1>24. ASSUME NEW d \in Daemon, StopProxy(d) PROVE OwnerInv'
  BY <1>24 DEF StopProxy
<1>25. ASSUME NEW d \in Daemon, CloseSocket(d) PROVE OwnerInv'
  BY <1>25 DEF CloseSocket
<1>26. ASSUME NEW d \in Daemon, Die(d) PROVE OwnerInv'
  BY <1>26 DEF Die, Unlock, Mine
<1> QED
  BY <1>1, <1>2, <1>3, <1>4, <1>5, <1>6, <1>7, <1>8, <1>9, <1>10, <1>11,
     <1>12, <1>13, <1>14, <1>15, <1>16, <1>17, <1>18, <1>19, <1>20, <1>21,
     <1>22, <1>23, <1>24, <1>25, <1>26
  DEF Next, WsNext, CommandStep, DaemonNext, MainStep, HandleStep,
      ReconcileStep, ExitDaemon, KillDaemon

(***************************************************************************)
(* The declarations change only while the metadata lock is free.           *)
(***************************************************************************)
LEMMA MetaInvStep ==
    ASSUME TypeOK, OwnerInv, MetaInv, Next
    PROVE  MetaInv'
<1> USE DistinctAssumption, DeclaresAssumption DEF TypeOK, OwnerInv,
        MetaInv, Open, Serving, Goto, wsVars, daemonVars
<1>a. decl' = decl => Reserved' = Reserved
  BY DEF Reserved
<1> USE <1>a
<1>1. ASSUME NEW w \in Ws, Publish(w) PROVE MetaInv'
  BY <1>1 DEF Publish
<1>2. ASSUME NEW w \in Ws, Start(w) PROVE MetaInv'
  BY <1>2 DEF Start
<1>3. ASSUME NEW w \in Ws, Ensure(w) PROVE MetaInv'
  BY <1>3 DEF Ensure, Send
<1>4. ASSUME NEW w \in Ws, SpawnDaemon(w) PROVE MetaInv'
  BY <1>4 DEF SpawnDaemon
<1>5. ASSUME NEW w \in Ws, Poll(w) PROVE MetaInv'
  BY <1>5 DEF Poll, Send
<1>6. ASSUME NEW w \in Ws, EnsureAnswered(w) PROVE MetaInv'
  BY <1>6 DEF EnsureAnswered, Hangup
<1>7. ASSUME NEW w \in Ws, Launch(w) PROVE MetaInv'
  BY <1>7 DEF Launch
<1>8. ASSUME NEW w \in Ws, StopVM(w) PROVE MetaInv'
  BY <1>8 DEF StopVM
<1>9. ASSUME NEW w \in Ws, Remove(w) PROVE MetaInv'
  BY <1>9 DEF Remove
<1>10. ASSUME NEW w \in Ws, Shutdown(w) PROVE MetaInv'
  BY <1>10 DEF Shutdown, Send, Unlock
<1>11. ASSUME NEW w \in Ws, ShutdownAnswered(w) PROVE MetaInv'
  BY <1>11 DEF ShutdownAnswered, Unlock, Hangup
<1>12. ASSUME NEW w \in Ws, SocketGone(w) PROVE MetaInv'
  BY <1>12 DEF SocketGone, Unlock
<1>13. ASSUME NEW w \in Ws, Deadline(w) PROVE MetaInv'
  BY <1>13 DEF Deadline, Unlock, Hangup, Orphaned, Rest
<1>14. ASSUME NEW w \in Ws, KillCommand(w) PROVE MetaInv'
  BY <1>14 DEF KillCommand, Unlock, Hangup, Orphaned, Rest
<1>15. ASSUME NEW d \in Daemon, LockDaemon(d) PROVE MetaInv'
  BY <1>15 DEF LockDaemon
<1>16. ASSUME NEW d \in Daemon, Listen(d) PROVE MetaInv'
  BY <1>16 DEF Listen
<1>17. ASSUME NEW d \in Daemon, OpenDB(d) PROVE MetaInv'
  BY <1>17 DEF OpenDB
<1>18. ASSUME NEW d \in Daemon, ReadReserved(d) PROVE MetaInv'
  BY <1>18 DEF ReadReserved
<1>19. ASSUME NEW d \in Daemon, InitPorts(d) PROVE MetaInv'
  BY <1>19 DEF InitPorts, EnsurePorts
<1>20. ASSUME NEW d \in Daemon, Handle(d) PROVE MetaInv'
  BY <1>20 DEF Handle, EnsurePorts
<1>21. ASSUME NEW d \in Daemon, LockReconcile(d) PROVE MetaInv'
  BY <1>21 DEF LockReconcile
<1>22. ASSUME NEW d \in Daemon, SnapshotPorts(d) PROVE MetaInv'
  BY <1>22 DEF SnapshotPorts
<1>23. ASSUME NEW d \in Daemon, ReconcilePorts(d) PROVE MetaInv'
  BY <1>23 DEF ReconcilePorts, Unlock
<1>24. ASSUME NEW d \in Daemon, StopProxy(d) PROVE MetaInv'
  BY <1>24 DEF StopProxy
<1>25. ASSUME NEW d \in Daemon, CloseSocket(d) PROVE MetaInv'
  BY <1>25 DEF CloseSocket
<1>26. ASSUME NEW d \in Daemon, Die(d) PROVE MetaInv'
  BY <1>26 DEF Die, Unlock, Mine
<1> QED
  BY <1>1, <1>2, <1>3, <1>4, <1>5, <1>6, <1>7, <1>8, <1>9, <1>10, <1>11,
     <1>12, <1>13, <1>14, <1>15, <1>16, <1>17, <1>18, <1>19, <1>20, <1>21,
     <1>22, <1>23, <1>24, <1>25, <1>26
  DEF Next, WsNext, CommandStep, DaemonNext, MainStep, HandleStep,
      ReconcileStep, ExitDaemon, KillDaemon

(***************************************************************************)
(* A command has one connection at a time.                                 *)
(***************************************************************************)
LEMMA RequestInvStep ==
    ASSUME TypeOK, OwnerInv, MetaInv, RequestInv, ReplyInv, Next
    PROVE  RequestInv'
<1> USE DistinctAssumption, DeclaresAssumption DEF TypeOK, RequestInv,
        ReplyInv, Request, Goto, wsVars, daemonVars
<1>1. ASSUME NEW w \in Ws, Publish(w) PROVE RequestInv'
  BY <1>1 DEF Publish
<1>2. ASSUME NEW w \in Ws, Start(w) PROVE RequestInv'
  BY <1>2 DEF Start
<1>3. ASSUME NEW w \in Ws, Ensure(w) PROVE RequestInv'
  BY <1>3 DEF Ensure, Send, Connectable
<1>4. ASSUME NEW w \in Ws, SpawnDaemon(w) PROVE RequestInv'
  BY <1>4 DEF SpawnDaemon
<1>5. ASSUME NEW w \in Ws, Poll(w) PROVE RequestInv'
  BY <1>5 DEF Poll, Send, Connectable
<1>6. ASSUME NEW w \in Ws, EnsureAnswered(w) PROVE RequestInv'
  BY <1>6 DEF EnsureAnswered, Hangup
<1>7. ASSUME NEW w \in Ws, Launch(w) PROVE RequestInv'
  BY <1>7 DEF Launch
<1>8. ASSUME NEW w \in Ws, StopVM(w) PROVE RequestInv'
  BY <1>8 DEF StopVM
<1>9. ASSUME NEW w \in Ws, Remove(w) PROVE RequestInv'
  BY <1>9 DEF Remove
<1>10. ASSUME NEW w \in Ws, Shutdown(w) PROVE RequestInv'
  BY <1>10 DEF Shutdown, Send, Unlock, Connectable
<1>11. ASSUME NEW w \in Ws, ShutdownAnswered(w) PROVE RequestInv'
  BY <1>11 DEF ShutdownAnswered, Unlock, Hangup
<1>12. ASSUME NEW w \in Ws, SocketGone(w) PROVE RequestInv'
  BY <1>12 DEF SocketGone, Unlock
<1>13. ASSUME NEW w \in Ws, Deadline(w) PROVE RequestInv'
  BY <1>13 DEF Deadline, Unlock, Hangup, Orphaned, Rest
<1>14. ASSUME NEW w \in Ws, KillCommand(w) PROVE RequestInv'
  BY <1>14 DEF KillCommand, Unlock, Hangup, Orphaned, Rest
<1>15. ASSUME NEW d \in Daemon, LockDaemon(d) PROVE RequestInv'
  BY <1>15 DEF LockDaemon
<1>16. ASSUME NEW d \in Daemon, Listen(d) PROVE RequestInv'
  BY <1>16 DEF Listen
<1>17. ASSUME NEW d \in Daemon, OpenDB(d) PROVE RequestInv'
  BY <1>17 DEF OpenDB
<1>18. ASSUME NEW d \in Daemon, ReadReserved(d) PROVE RequestInv'
  BY <1>18 DEF ReadReserved
<1>19. ASSUME NEW d \in Daemon, InitPorts(d) PROVE RequestInv'
  BY <1>19 DEF InitPorts, EnsurePorts
<1>20. ASSUME NEW d \in Daemon, Handle(d) PROVE RequestInv'
  BY <1>20 DEF Handle, EnsurePorts
<1>21. ASSUME NEW d \in Daemon, LockReconcile(d) PROVE RequestInv'
  BY <1>21 DEF LockReconcile
<1>22. ASSUME NEW d \in Daemon, SnapshotPorts(d) PROVE RequestInv'
  BY <1>22 DEF SnapshotPorts
<1>23. ASSUME NEW d \in Daemon, ReconcilePorts(d) PROVE RequestInv'
  BY <1>23 DEF ReconcilePorts, Unlock
<1>24. ASSUME NEW d \in Daemon, StopProxy(d) PROVE RequestInv'
  BY <1>24 DEF StopProxy
<1>25. ASSUME NEW d \in Daemon, CloseSocket(d) PROVE RequestInv'
  BY <1>25 DEF CloseSocket
<1>26. ASSUME NEW d \in Daemon, Die(d) PROVE RequestInv'
  BY <1>26 DEF Die, Unlock, Mine
<1> QED
  BY <1>1, <1>2, <1>3, <1>4, <1>5, <1>6, <1>7, <1>8, <1>9, <1>10, <1>11,
     <1>12, <1>13, <1>14, <1>15, <1>16, <1>17, <1>18, <1>19, <1>20, <1>21,
     <1>22, <1>23, <1>24, <1>25, <1>26
  DEF Next, WsNext, CommandStep, DaemonNext, MainStep, HandleStep,
      ReconcileStep, ExitDaemon, KillDaemon

(***************************************************************************)
(* An answer is for a command that waits for one.                          *)
(***************************************************************************)
LEMMA ReplyInvStep ==
    ASSUME TypeOK, RequestInv, ReplyInv, Next
    PROVE  ReplyInv'
<1> USE DistinctAssumption, DeclaresAssumption DEF TypeOK, RequestInv,
        ReplyInv, Request, Goto, wsVars, daemonVars
<1>1. ASSUME NEW w \in Ws, Publish(w) PROVE ReplyInv'
  BY <1>1 DEF Publish
<1>2. ASSUME NEW w \in Ws, Start(w) PROVE ReplyInv'
  BY <1>2 DEF Start
<1>3. ASSUME NEW w \in Ws, Ensure(w) PROVE ReplyInv'
  BY <1>3 DEF Ensure, Send
<1>4. ASSUME NEW w \in Ws, SpawnDaemon(w) PROVE ReplyInv'
  BY <1>4 DEF SpawnDaemon
<1>5. ASSUME NEW w \in Ws, Poll(w) PROVE ReplyInv'
  BY <1>5 DEF Poll, Send
<1>6. ASSUME NEW w \in Ws, EnsureAnswered(w) PROVE ReplyInv'
  BY <1>6 DEF EnsureAnswered, Hangup
<1>7. ASSUME NEW w \in Ws, Launch(w) PROVE ReplyInv'
  BY <1>7 DEF Launch
<1>8. ASSUME NEW w \in Ws, StopVM(w) PROVE ReplyInv'
  BY <1>8 DEF StopVM
<1>9. ASSUME NEW w \in Ws, Remove(w) PROVE ReplyInv'
  BY <1>9 DEF Remove
<1>10. ASSUME NEW w \in Ws, Shutdown(w) PROVE ReplyInv'
  BY <1>10 DEF Shutdown, Send, Unlock
<1>11. ASSUME NEW w \in Ws, ShutdownAnswered(w) PROVE ReplyInv'
  BY <1>11 DEF ShutdownAnswered, Unlock, Hangup
<1>12. ASSUME NEW w \in Ws, SocketGone(w) PROVE ReplyInv'
  BY <1>12 DEF SocketGone, Unlock
<1>13. ASSUME NEW w \in Ws, Deadline(w) PROVE ReplyInv'
  BY <1>13 DEF Deadline, Unlock, Hangup, Orphaned, Rest
<1>14. ASSUME NEW w \in Ws, KillCommand(w) PROVE ReplyInv'
  BY <1>14 DEF KillCommand, Unlock, Hangup, Orphaned, Rest
<1>15. ASSUME NEW d \in Daemon, LockDaemon(d) PROVE ReplyInv'
  BY <1>15 DEF LockDaemon
<1>16. ASSUME NEW d \in Daemon, Listen(d) PROVE ReplyInv'
  BY <1>16 DEF Listen
<1>17. ASSUME NEW d \in Daemon, OpenDB(d) PROVE ReplyInv'
  BY <1>17 DEF OpenDB
<1>18. ASSUME NEW d \in Daemon, ReadReserved(d) PROVE ReplyInv'
  BY <1>18 DEF ReadReserved
<1>19. ASSUME NEW d \in Daemon, InitPorts(d) PROVE ReplyInv'
  BY <1>19 DEF InitPorts, EnsurePorts
<1>20. ASSUME NEW d \in Daemon, Handle(d) PROVE ReplyInv'
  BY <1>20 DEF Handle, EnsurePorts
<1>21. ASSUME NEW d \in Daemon, LockReconcile(d) PROVE ReplyInv'
  BY <1>21 DEF LockReconcile
<1>22. ASSUME NEW d \in Daemon, SnapshotPorts(d) PROVE ReplyInv'
  BY <1>22 DEF SnapshotPorts
<1>23. ASSUME NEW d \in Daemon, ReconcilePorts(d) PROVE ReplyInv'
  BY <1>23 DEF ReconcilePorts, Unlock
<1>24. ASSUME NEW d \in Daemon, StopProxy(d) PROVE ReplyInv'
  BY <1>24 DEF StopProxy
<1>25. ASSUME NEW d \in Daemon, CloseSocket(d) PROVE ReplyInv'
  BY <1>25 DEF CloseSocket
<1>26. ASSUME NEW d \in Daemon, Die(d) PROVE ReplyInv'
  BY <1>26 DEF Die, Unlock, Mine
<1> QED
  BY <1>1, <1>2, <1>3, <1>4, <1>5, <1>6, <1>7, <1>8, <1>9, <1>10, <1>11,
     <1>12, <1>13, <1>14, <1>15, <1>16, <1>17, <1>18, <1>19, <1>20, <1>21,
     <1>22, <1>23, <1>24, <1>25, <1>26
  DEF Next, WsNext, CommandStep, DaemonNext, MainStep, HandleStep,
      ReconcileStep, ExitDaemon, KillDaemon

(***************************************************************************)
(* What holds as long as nothing is abandoned. A daemon that goes down has *)
(* a command waiting for it that holds the metadata lock and has left no   *)
(* declaration, so no port it releases is needed.                          *)
(***************************************************************************)
LEMMA InTimeInvStep ==
    ASSUME TypeOK, OwnerInv, MetaInv, RequestInv, ReplyInv, InTimeInv, ~abandoned', Next
    PROVE  InTimeInv'
<1> USE DistinctAssumption, DeclaresAssumption DEF TypeOK, OwnerInv,
        MetaInv, RequestInv, ReplyInv, InTimeInv, Request, Open, Serving,
        Goto, wsVars, daemonVars
<1>1. ASSUME NEW w \in Ws, Publish(w) PROVE InTimeInv'
  BY <1>1 DEF Publish
<1>2. ASSUME NEW w \in Ws, Start(w) PROVE InTimeInv'
  BY <1>2 DEF Start
<1>3. ASSUME NEW w \in Ws, Ensure(w) PROVE InTimeInv'
  BY <1>3 DEF Ensure, Send, Connectable
<1>4. ASSUME NEW w \in Ws, SpawnDaemon(w) PROVE InTimeInv'
  BY <1>4 DEF SpawnDaemon
<1>5. ASSUME NEW w \in Ws, Poll(w) PROVE InTimeInv'
  BY <1>5 DEF Poll, Send, Connectable
<1>6. ASSUME NEW w \in Ws, EnsureAnswered(w) PROVE InTimeInv'
  BY <1>6 DEF EnsureAnswered, Hangup
<1>7. ASSUME NEW w \in Ws, Launch(w) PROVE InTimeInv'
  BY <1>7 DEF Launch
<1>8. ASSUME NEW w \in Ws, StopVM(w) PROVE InTimeInv'
  BY <1>8 DEF StopVM
<1>9. ASSUME NEW w \in Ws, Remove(w) PROVE InTimeInv'
  BY <1>9 DEF Remove
<1>10. ASSUME NEW w \in Ws, Shutdown(w) PROVE InTimeInv'
  <2>1. ASSUME NEW d \in Daemon PROVE dpc[d] \notin {"term", "stopped"}
    \* A command that waits for d would hold the metadata lock, which w holds.
    BY <1>10, <2>1 DEF Shutdown
  <2> QED
    BY <1>10, <2>1 DEF Shutdown, Send, Unlock, Connectable
<1>11. ASSUME NEW w \in Ws, ShutdownAnswered(w) PROVE InTimeInv'
  BY <1>11 DEF ShutdownAnswered, Unlock, Hangup
<1>12. ASSUME NEW w \in Ws, SocketGone(w) PROVE InTimeInv'
  <2>1. \A d \in Daemon : dpc[d] \notin Open
    BY <1>12 DEF SocketGone
  <2> QED
    BY <1>12, <2>1 DEF SocketGone, Unlock
<1>13. ASSUME NEW d \in Daemon, LockDaemon(d) PROVE InTimeInv'
  BY <1>13 DEF LockDaemon
<1>14. ASSUME NEW d \in Daemon, Listen(d) PROVE InTimeInv'
  BY <1>14 DEF Listen
<1>15. ASSUME NEW d \in Daemon, OpenDB(d) PROVE InTimeInv'
  BY <1>15 DEF OpenDB
<1>16. ASSUME NEW d \in Daemon, ReadReserved(d) PROVE InTimeInv'
  BY <1>16 DEF ReadReserved
<1>17. ASSUME NEW d \in Daemon, InitPorts(d) PROVE InTimeInv'
  BY <1>17 DEF InitPorts, EnsurePorts
<1>18. ASSUME NEW d \in Daemon, Handle(d) PROVE InTimeInv'
  BY <1>18 DEF Handle, EnsurePorts
<1>19. ASSUME NEW d \in Daemon, LockReconcile(d) PROVE InTimeInv'
  BY <1>19 DEF LockReconcile
<1>20. ASSUME NEW d \in Daemon, SnapshotPorts(d) PROVE InTimeInv'
  BY <1>20 DEF SnapshotPorts
<1>21. ASSUME NEW d \in Daemon, ReconcilePorts(d) PROVE InTimeInv'
  <2>1. snap[d] = Reserved
    BY <1>21 DEF ReconcilePorts
  <2>2. ASSUME NEW w \in decl PROVE Declares[w] \subseteq snap[d]
    BY <2>1 DEF Reserved
  <2> QED
    BY <1>21, <2>2 DEF ReconcilePorts, Unlock
<1>22. ASSUME NEW d \in Daemon, StopProxy(d) PROVE InTimeInv'
  <2>1. decl = {}
    BY <1>22 DEF StopProxy
  <2>2. \A w \in Ws : wpc[w] \notin {"asked", "launch", "running"}
    BY <2>1
  <2> QED
    BY <1>22, <2>2 DEF StopProxy
<1>23. ASSUME NEW d \in Daemon, CloseSocket(d) PROVE InTimeInv'
  BY <1>23 DEF CloseSocket
<1>24. ASSUME NEW d \in Daemon, ExitDaemon(d) PROVE InTimeInv'
  BY <1>24 DEF ExitDaemon, Die, Unlock, Mine
<1> QED
  BY <1>1, <1>2, <1>3, <1>4, <1>5, <1>6, <1>7, <1>8, <1>9, <1>10, <1>11,
     <1>12, <1>13, <1>14, <1>15, <1>16, <1>17, <1>18, <1>19, <1>20, <1>21,
     <1>22, <1>23, <1>24
  DEF Next, WsNext, CommandStep, DaemonNext, MainStep, HandleStep,
      ReconcileStep

-----------------------------------------------------------------------------
LEMMA InitIInv == Init => IInv
<1> SUFFICES ASSUME Init PROVE IInv
  OBVIOUS
<1> USE DistinctAssumption DEF Init
<1>1. TypeOK
  BY DEF TypeOK
<1>2. OwnerInv /\ MetaInv /\ RequestInv /\ ReplyInv /\ InTimeInv
  BY DEF OwnerInv, MetaInv, RequestInv, ReplyInv, InTimeInv, Open
<1> QED
  BY <1>1, <1>2 DEF IInv

LEMMA StutterIInv == IInv /\ UNCHANGED vars => IInv'
<1> SUFFICES ASSUME IInv, UNCHANGED vars PROVE IInv'
  OBVIOUS
<1> USE DEF IInv, vars, wsVars, daemonVars
<1>1. TypeOK' /\ OwnerInv' /\ RequestInv' /\ ReplyInv'
  BY DEF TypeOK, OwnerInv, RequestInv, ReplyInv
<1>2. MetaInv'
  BY DEF MetaInv, Reserved
<1>3. ~abandoned' => InTimeInv'
  BY DEF InTimeInv
<1> QED
  BY <1>1, <1>2, <1>3

\* Nothing that was given up is taken back.
LEMMA AbandonedStays == ASSUME Next, ~abandoned' PROVE ~abandoned
  BY DEF Next, WsNext, CommandStep, DaemonNext, MainStep, HandleStep, ReconcileStep

\* IInv is inductive: commands, daemons, expired deadlines and killed processes
\* keep it (daemon.go, reconcileDaemonPorts, removeWorkspace).
THEOREM Inductive == Spec => []IInv
<1>1. ASSUME IInv, Next PROVE IInv'
  <2> USE <1>1 DEF IInv
  <2>1. TypeOK' /\ OwnerInv' /\ MetaInv'
    BY TypeOKStep, OwnerInvStep, MetaInvStep
  <2>2. RequestInv' /\ ReplyInv'
    BY RequestInvStep, ReplyInvStep
  <2>3. ~abandoned' => InTimeInv'
    BY InTimeInvStep, AbandonedStays
  <2> QED
    BY <2>1, <2>2, <2>3
<1>2. IInv /\ [Next]_vars => IInv'
  BY <1>1, StutterIInv
<1> QED
  BY InitIInv, <1>2, PTL DEF Spec

\* Every variable of the daemons and of the commands keeps its type.
THEOREM TypeCorrect == Spec => []TypeOK
<1>1. IInv => TypeOK
  BY DEF IInv
<1> QED
  BY <1>1, Inductive, PTL

\* Only the holder of daemon.lock has listeners or a connectable socket, however
\* many incarnations start and die (runDaemon).
THEOREM OwnerAlone == Spec => []OneOwner
<1>1. IInv => OneOwner
  BY DEF IInv, TypeOK, OwnerInv, OneOwner, Connectable, Open
<1> QED
  BY <1>1, Inductive, PTL

\* Without expired deadlines and killed processes, the declared ports of a VM that
\* is launched or runs have a listener, while daemons come and go
\* (EnsurePorts, reconcileDaemonPorts, shutdownProxyDaemon).
THEOREM PortsPreempted == Spec => []PreemptedInTime
<1>1. IInv => PreemptedInTime
  BY DEF IInv, InTimeInv, PreemptedInTime, Preempted
<1> QED
  BY <1>1, Inductive, PTL

\* Reconciliation keeps the listener of every declared port: what it applies is
\* still what is declared (reconcileDaemonPorts holds the metadata lock).
THEOREM ReconciliationSafe == Spec => DeclaredKept
<1> DEFINE Kept == \A d \in Daemon : rpc[d] = "apply" /\ rpc'[d] = "tick" /\ dpc'[d] # "dead" =>
                        (lst[d] \ lst'[d]) \cap Reserved = {}
<1>1. ASSUME IInv, Next PROVE Kept
  <2> SUFFICES ASSUME NEW d \in Daemon,
                      rpc[d] = "apply", rpc'[d] = "tick", dpc'[d] # "dead"
               PROVE  (lst[d] \ lst'[d]) \cap Reserved = {}
    OBVIOUS
  <2>1. ReconcilePorts(d)
    BY <1>1 DEF IInv, TypeOK, Next, WsNext, CommandStep, DaemonNext, MainStep, HandleStep,
                ReconcileStep, daemonVars, Publish, Start, Ensure, SpawnDaemon, Poll,
                EnsureAnswered, Launch, StopVM, Remove, Shutdown, ShutdownAnswered,
                SocketGone, Deadline, KillCommand, LockDaemon, Listen, OpenDB,
                ReadReserved, InitPorts, Handle, LockReconcile, SnapshotPorts,
                ReconcilePorts, StopProxy, CloseSocket, ExitDaemon, KillDaemon, Die
  <2>2. snap[d] = Reserved /\ lst \in [Daemon -> SUBSET Port]
    BY <1>1 DEF IInv, MetaInv, TypeOK
  <2>3. lst[d] \cap snap[d] \subseteq lst'[d]
    BY <2>1, <2>2 DEF ReconcilePorts
  <2> QED
    BY <2>2, <2>3
<1>2. ASSUME UNCHANGED vars PROVE Kept
  BY <1>2 DEF vars, daemonVars
<1>3. IInv /\ [Next]_vars => [Kept]_vars
  BY <1>1, <1>2
<1> QED
  BY <1>3, Inductive, PTL DEF Spec, DeclaredKept
==============================================================================
