--------------------------- MODULE LifecycleProofs ---------------------------
(***************************************************************************)
(* Proofs about the lifecycle for any sets of workspaces, commands,        *)
(* companions, disks and ports. IInv, defined in Lifecycle, is the         *)
(* inductive invariant; every part of it has a lemma that says that a step *)
(* keeps it, with one case per action. <1>n types the arguments of a       *)
(* running command, <1>e is the case of a command that ends.               *)
(***************************************************************************)
EXTENDS Lifecycle, TLAPS

(***************************************************************************)
(* The effect of RecordRunning, whose two outcomes differ in the database  *)
(* only.                                                                   *)
(***************************************************************************)
LEMMA RecordRunningEffect ==
    ASSUME NEW c \in Cli, RecordRunning(c)
    PROVE  /\ pc[c] = "recrun"
           /\ UNCHANGED <<rows, active, sshPort, fsVars, lockVars, vmVars, localVars>>
           /\ \/ /\ pc' = [pc EXCEPT ![c] = "wait"]
                 /\ dbState' = [dbState EXCEPT ![name[c]] = "running"]
                 /\ dbPid' = [dbPid EXCEPT ![name[c]] = proc[c]]
              \/ /\ pc' = [pc EXCEPT ![c] = "stopping"]
                 /\ UNCHANGED <<dbState, dbPid>>
<1>1. CASE SetWorkspaceState(name[c], "running", proc[c]) /\ Goto(c, "wait")
  BY <1>1 DEF RecordRunning, SetWorkspaceState, Goto, At
<1>2. CASE Goto(c, "stopping") /\ UNCHANGED dbVars
  BY <1>2 DEF RecordRunning, Goto, At, dbVars
<1> QED
  BY <1>1, <1>2 DEF RecordRunning

(***************************************************************************)
(* Operation locks: two commands past workspace.Lock work on different     *)
(* workspaces, the source of a fork included.                              *)
(***************************************************************************)
LEMMA OtherNames ==
    ASSUME LocalsInv, OpLockInv, NEW c \in Cli, NEW e \in Cli, e # c,
           pc[c] \in Locked, pc[e] \in Locked
    PROVE  /\ name[e] # name[c] /\ name[e] # Subject(c)
           /\ Subject(e) # name[c] /\ Subject(e) # Subject(c)
  BY DEF LocalsInv, OpLockInv, Subject

(***************************************************************************)
(* A step of somebody else leaves what a command relies on about its disk  *)
(* lock, if it spares the locals, the path and the lock itself.            *)
(***************************************************************************)
LEMMA DiskHeldKept ==
    ASSUME TypeOK, LocalsInv, NEW e \in Cli, DiskHeld(e),
           pc'[e] = pc[e], op'[e] = op[e], name'[e] = name[e], src'[e] = src[e],
           pc[e] # "idle" => disk'[name[e]] = disk[name[e]],
           op[e] = "fork" => disk'[src[e]] = disk[src[e]],
           \A d \in Disk : diskLock[d] = e => diskLock'[d] = e
    PROVE  DiskHeld(e)'
<1>1. /\ pc[e] # "idle" => disk[name[e]] \in Disk \cup {None}
      /\ op[e] = "fork" => disk[src[e]] \in Disk \cup {None}
  BY DEF TypeOK, FsType, LocalsInv
<1> QED
  BY <1>1 DEF DiskHeld, Publishing

(***************************************************************************)
(* The same for what a command knows of the receipt and the row: an        *)
(* incarnation that has exited stays so.                                   *)
(***************************************************************************)
LEMMA KnownKept ==
    ASSUME TypeOK, LocalsInv, LaunchedInv, NEW e \in Cli, Known(e),
           pc'[e] = pc[e], op'[e] = op[e], name'[e] = name[e], src'[e] = src[e],
           proc'[e] = proc[e],
           pc[e] \in Locked => /\ receipt'[name[e]] = receipt[name[e]]
                               /\ receipt'[Subject(e)] = receipt[Subject(e)]
                               /\ dbState'[name[e]] = dbState[name[e]],
           \A p \in Proc : phase[p] = "dead" => phase'[p] = "dead"
    PROVE  Known(e)'
<1>1. Subject(e)' = Subject(e)
  BY DEF Subject
<1>2. pc[e] # "idle" => name[e] \in Name /\ Subject(e) \in Name
  BY DEF LocalsInv, Subject
<1>3. ASSUME NEW n \in Name, receipt'[n] = receipt[n], ~Alive(receipt[n])
      PROVE  ~Alive(receipt[n])'
  BY <1>3, NoneAssumption DEF Alive, LaunchedInv, TypeOK, FsType, VmType
<1> QED
  BY <1>1, <1>2, <1>3 DEF Known, Halted, Locked, Step

(***************************************************************************)
(* Type correctness. LocalsInv is needed because the arguments of a        *)
(* command are typed only while it runs.                                   *)
(***************************************************************************)
LEMMA AfterLoadType == \A c : AfterLoad(c) \in Step
  BY DEF AfterLoad, RunStart, RunStop, RunRm, RunSwitch, DoFork, Step

LEMMA TypeOKStep ==
    ASSUME TypeOK, LocalsInv, Next
    PROVE  TypeOK'
<1> USE NameAssumption, PortAssumption, NoneAssumption
<1> USE DEF TypeOK, Goto, At, dbVars, fsVars, lockVars, vmVars, localVars
<1>n. ASSUME NEW c \in Cli, pc[c] # "idle" PROVE name[c] \in Name /\ Subject(c) \in Name
  BY <1>n DEF LocalsInv, Subject, CliType
<1>e. ASSUME NEW c \in Cli, Exit(c) PROVE LockType' /\ CliType'
  BY <1>e DEF Exit, LockType, CliType, Step, Op
<1>1. ASSUME NEW c \in Cli, Begin(c) PROVE TypeOK'
  <2>1. LockType'
    BY <1>1 DEF Begin, LockType
  <2>2. CliType'
    BY <1>1, CommandAssumption DEF Begin, CliType, Step, Op
  <2> QED
    BY <1>1, <2>1, <2>2 DEF Begin, DbType, FsType, VmType
<1>2. ASSUME NEW c \in Cli, BeginFork(c) PROVE TypeOK'
  <2>1. LockType'
    BY <1>2 DEF BeginFork, LockType
  <2>2. CliType'
    BY <1>2 DEF BeginFork, CliType, Step, Op
  <2> QED
    BY <1>2, <2>1, <2>2 DEF BeginFork, DbType, FsType, VmType
<1>3. ASSUME NEW c \in Cli, LockSecond(c) PROVE TypeOK'
  <2>1. name[c] \in Name /\ Subject(c) \in Name
    BY <1>3, <1>n DEF LockSecond
  <2>2. LockType' /\ CliType'
    BY <1>3, <2>1, <1>e DEF LockSecond, LockType, CliType, Step
  <2> QED
    BY <1>3, <2>2 DEF LockSecond, DbType, FsType, VmType
<1>4. ASSUME NEW c \in Cli, OpenDB(c) PROVE TypeOK'
  <2>1. name[c] \in Name /\ Subject(c) \in Name
    BY <1>4, <1>n DEF OpenDB
  <2>2. CliType'
    BY <1>4, <2>1 DEF OpenDB, CliType, Step
  <2> QED
    BY <1>4, <2>2 DEF OpenDB, DbType, FsType, LockType, VmType
<1>5. ASSUME NEW c \in Cli, LoadWorkspace(c) PROVE TypeOK'
  <2>1. receipt[Subject(c)] \in Proc \cup {None}
    BY <1>5, <1>n DEF LoadWorkspace, FsType
  <2>2. LockType' /\ CliType'
    <3>1. CASE Exit(c)
      BY <3>1, <1>e
    <3>2. CASE ~Exit(c)
      BY <1>5, <2>1, <3>2 DEF LoadWorkspace, LockType, CliType, Step
    <3> QED BY <3>1, <3>2
  <2> QED
    BY <1>5, <2>2 DEF LoadWorkspace, DbType, FsType, VmType
<1>6. ASSUME NEW c \in Cli, Reconcile(c) PROVE TypeOK'
  <2>1. name[c] \in Name /\ Subject(c) \in Name
    BY <1>6, <1>n DEF Reconcile
  <2>2. DbType'
    BY <1>6, <2>1 DEF Reconcile, SetWorkspaceState, DbType, CliType
  <2>3. LockType' /\ CliType'
    BY <1>6, <1>e, AfterLoadType DEF Reconcile, LockType, CliType
  <2> QED
    BY <1>6, <2>2, <2>3 DEF Reconcile, FsType, VmType
<1>7. ASSUME NEW c \in Cli, LockDisk(c) PROVE TypeOK'
  <2>1. name[c] \in Name /\ Subject(c) \in Name
    BY <1>7, <1>n DEF LockDisk
  <2>2. LockType' /\ CliType'
    BY <1>7, <2>1, <1>e DEF LockDisk, LockType, CliType, Step
  <2> QED
    BY <1>7, <2>2 DEF LockDisk, DbType, FsType, VmType
<1>8. ASSUME NEW c \in Cli, Prepare(c) PROVE TypeOK'
  <2>1. name[c] \in Name /\ Subject(c) \in Name
    BY <1>8, <1>n DEF Prepare
  <2>2. LockType' /\ CliType'
    BY <1>8, <2>1, <1>e DEF Prepare, LockType, CliType, Step
  <2> QED
    BY <1>8, <2>2 DEF Prepare, DbType, FsType, VmType
<1>9. ASSUME NEW c \in Cli, Spawn(c) PROVE TypeOK'
  <2>1. name[c] \in Name /\ sshPort[name[c]] \in SSHPort \cup {0}
    BY <1>9, <1>n DEF Spawn, DbType
  <2>2. VmType'
    <3>1. CASE Exit(c) /\ UNCHANGED <<phase, pname, vport>>
      BY <1>9, <3>1 DEF Spawn, VmType
    <3>2. CASE ~Exit(c)
      BY <1>9, <3>2, <2>1 DEF Spawn, VmType, Phase
    <3>3. CASE Exit(c) /\ ~UNCHANGED <<phase, pname, vport>>
      BY <1>9, <3>3, <2>1 DEF Spawn, VmType, Phase
    <3> QED BY <3>1, <3>2, <3>3
  <2>3. LockType' /\ CliType'
    BY <1>9, <2>1, <1>e DEF Spawn, LockType, CliType, Step
  <2> QED
    BY <1>9, <2>2, <2>3 DEF Spawn, DbType, FsType
<1>10. ASSUME NEW c \in Cli, WriteProcess(c) PROVE TypeOK'
  <2>1. name[c] \in Name /\ Subject(c) \in Name
    BY <1>10, <1>n DEF WriteProcess
  <2>2. FsType'
    BY <1>10, <2>1 DEF WriteProcess, FsType, CliType, Alive
  <2>3. VmType'
    BY <1>10, <2>1 DEF WriteProcess, VmType, Phase, Alive
  <2>4. LockType' /\ CliType'
    BY <1>10, <2>1, <1>e DEF WriteProcess, LockType, CliType, Step
  <2> QED
    BY <1>10, <2>2, <2>3, <2>4 DEF WriteProcess, DbType
<1>11. ASSUME NEW c \in Cli, RecordRunning(c) PROVE TypeOK'
  <2>1. name[c] \in Name /\ UNCHANGED <<rows, active, sshPort>>
    BY <1>11, <1>n, RecordRunningEffect
  <2>2. DbType'
    BY <1>11, <2>1, RecordRunningEffect DEF DbType, CliType
  <2>3. CliType'
    BY <1>11, RecordRunningEffect DEF CliType, Step
  <2> QED
    BY <1>11, <2>2, <2>3, RecordRunningEffect DEF FsType, LockType, VmType
<1>12. ASSUME NEW c \in Cli, WaitForSSH(c) PROVE TypeOK'
  <2>1. name[c] \in Name /\ Subject(c) \in Name
    BY <1>12, <1>n DEF WaitForSSH
  <2>2. LockType' /\ CliType'
    BY <1>12, <2>1, <1>e DEF WaitForSSH, LockType, CliType, Step
  <2> QED
    BY <1>12, <2>2 DEF WaitForSSH, DbType, FsType, VmType
<1>13. ASSUME NEW c \in Cli, SetActiveWorkspace(c) PROVE TypeOK'
  <2>1. name[c] \in Name /\ Subject(c) \in Name
    BY <1>13, <1>n DEF SetActiveWorkspace
  <2>2. DbType'
    BY <1>13, <2>1 DEF SetActiveWorkspace, DbType
  <2>3. LockType' /\ CliType'
    BY <1>13, <2>1, <1>e DEF SetActiveWorkspace, LockType, CliType, Step
  <2> QED
    BY <1>13, <2>2, <2>3 DEF SetActiveWorkspace, FsType, VmType
<1>14. ASSUME NEW c \in Cli, StopSignal(c) PROVE TypeOK'
  <2>1. name[c] \in Name /\ Subject(c) \in Name
    BY <1>14, <1>n DEF StopSignal
  <2>2. VmType'
    BY <1>14, <2>1 DEF StopSignal, VmType, Phase
  <2> QED
    BY <1>14, <2>2 DEF StopSignal, DbType, FsType, LockType, CliType
<1>15. ASSUME NEW c \in Cli, StopExited(c) PROVE TypeOK'
  <2>1. name[c] \in Name /\ Subject(c) \in Name
    BY <1>15, <1>n DEF StopExited
  <2>2. CliType'
    BY <1>15, <2>1 DEF StopExited, CliType, Step
  <2> QED
    BY <1>15, <2>2 DEF StopExited, DbType, FsType, LockType, VmType
<1>16. ASSUME NEW c \in Cli, RecordStopped(c) PROVE TypeOK'
  <2>1. name[c] \in Name /\ Subject(c) \in Name
    BY <1>16, <1>n DEF RecordStopped
  <2>2. DbType'
    BY <1>16, <2>1 DEF RecordStopped, DbType, SetWorkspaceState
  <2>3. LockType' /\ CliType'
    BY <1>16, <2>1, <1>e DEF RecordStopped, LockType, CliType, Step
  <2> QED
    BY <1>16, <2>2, <2>3 DEF RecordStopped, FsType, VmType
<1>17. ASSUME NEW c \in Cli, RmLock(c) PROVE TypeOK'
  <2>1. name[c] \in Name /\ Subject(c) \in Name
    BY <1>17, <1>n DEF RmLock
  <2>2. LockType' /\ CliType'
    BY <1>17, <2>1, <1>e DEF RmLock, LockType, CliType, Step
  <2> QED
    BY <1>17, <2>2 DEF RmLock, DbType, FsType, VmType
<1>18. ASSUME NEW c \in Cli, RmMeta(c) PROVE TypeOK'
  <2>1. name[c] \in Name /\ Subject(c) \in Name
    BY <1>18, <1>n DEF RmMeta
  <2>2. LockType'
    BY <1>18, <2>1 DEF RmMeta, LockType
  <2>3. CliType'
    BY <1>18, <2>1 DEF RmMeta, CliType, Step
  <2> QED
    BY <1>18, <2>2, <2>3 DEF RmMeta, DbType, FsType, VmType
<1>19. ASSUME NEW c \in Cli, DeleteWorkspace(c) PROVE TypeOK'
  <2>1. name[c] \in Name /\ Subject(c) \in Name
    BY <1>19, <1>n DEF DeleteWorkspace
  <2>2. DbType'
    BY <1>19, <2>1 DEF DeleteWorkspace, DbType
  <2>3. CliType'
    BY <1>19, <2>1 DEF DeleteWorkspace, CliType, Step
  <2> QED
    BY <1>19, <2>2, <2>3 DEF DeleteWorkspace, FsType, LockType, VmType
<1>20. ASSUME NEW c \in Cli, RmFiles(c) PROVE TypeOK'
  <2>1. name[c] \in Name /\ Subject(c) \in Name
    BY <1>20, <1>n DEF RmFiles
  <2>2. FsType'
    BY <1>20, <2>1 DEF RmFiles, FsType
  <2>3. CliType'
    BY <1>20, <2>1 DEF RmFiles, CliType, Step
  <2> QED
    BY <1>20, <2>2, <2>3 DEF RmFiles, DbType, LockType, VmType
<1>21. ASSUME NEW c \in Cli, RmDir(c) PROVE TypeOK'
  <2>1. name[c] \in Name /\ Subject(c) \in Name
    BY <1>21, <1>n DEF RmDir
  <2>2. FsType'
    BY <1>21, <2>1 DEF RmDir, FsType
  <2>3. LockType' /\ CliType'
    BY <1>21, <2>1, <1>e DEF RmDir, LockType, CliType, Step
  <2> QED
    BY <1>21, <2>2, <2>3 DEF RmDir, DbType, VmType
<1>22. ASSUME NEW c \in Cli, LockSource(c) PROVE TypeOK'
  <2>1. name[c] \in Name /\ Subject(c) \in Name
    BY <1>22, <1>n DEF LockSource
  <2>2. LockType' /\ CliType'
    BY <1>22, <2>1, <1>e DEF LockSource, LockType, CliType, Step
  <2> QED
    BY <1>22, <2>2 DEF LockSource, DbType, FsType, VmType
<1>23. ASSUME NEW c \in Cli, Publish(c) PROVE TypeOK'
  <2>1. name[c] \in Name /\ Subject(c) \in Name
    BY <1>23, <1>n DEF Publish
  <2>2. LockType' /\ CliType'
    BY <1>23, <2>1, <1>e DEF Publish, LockType, CliType, Step
  <2> QED
    BY <1>23, <2>2 DEF Publish, DbType, FsType, VmType
<1>24. ASSUME NEW c \in Cli, CloneDisk(c) PROVE TypeOK'
  <2>1. name[c] \in Name /\ Subject(c) \in Name
    BY <1>24, <1>n DEF CloneDisk
  <2>2. LockType' /\ CliType'
    BY <1>24, <2>1, <1>e DEF CloneDisk, LockType, CliType, Step
  <2> QED
    BY <1>24, <2>2 DEF CloneDisk, DbType, FsType, VmType
<1>25. ASSUME NEW c \in Cli, LockMetadata(c) PROVE TypeOK'
  <2>1. name[c] \in Name /\ Subject(c) \in Name
    BY <1>25, <1>n DEF LockMetadata
  <2>2. LockType'
    BY <1>25, <2>1 DEF LockMetadata, LockType
  <2>3. CliType'
    BY <1>25, <2>1 DEF LockMetadata, CliType, Step
  <2> QED
    BY <1>25, <2>2, <2>3 DEF LockMetadata, DbType, FsType, VmType
<1>26. ASSUME NEW c \in Cli, Allocate(c) PROVE TypeOK'
  <2>1. name[c] \in Name /\ Subject(c) \in Name
    BY <1>26, <1>n DEF Allocate
  <2>2. LockType' /\ CliType'
    BY <1>26, <2>1, <1>e DEF Allocate, LockType, CliType, Step, AvailablePorts
  <2> QED
    BY <1>26, <2>2 DEF Allocate, DbType, FsType, VmType
<1>27. ASSUME NEW c \in Cli, Rename(c) PROVE TypeOK'
  <2>1. name[c] \in Name /\ Subject(c) \in Name
    BY <1>27, <1>n DEF Rename
  <2>2. FsType'
    BY <1>27, <2>1 DEF Rename, FsType, CliType
  <2>3. CliType'
    BY <1>27, <2>1 DEF Rename, CliType, Step
  <2> QED
    BY <1>27, <2>2, <2>3 DEF Rename, DbType, LockType, VmType
<1>28. ASSUME NEW c \in Cli, CreateWorkspace(c) PROVE TypeOK'
  <2>1. name[c] \in Name /\ Subject(c) \in Name
    BY <1>28, <1>n DEF CreateWorkspace
  <2>2. DbType'
    BY <1>28, <2>1 DEF CreateWorkspace, DbType, CliType
  <2>3. LockType'
    BY <1>28, <2>1 DEF CreateWorkspace, LockType
  <2>4. CliType'
    BY <1>28, <2>1 DEF CreateWorkspace, CliType, Step
  <2> QED
    BY <1>28, <2>2, <2>3, <2>4 DEF CreateWorkspace, FsType, VmType
<1>29. ASSUME NEW c \in Cli, CreateFails(c) PROVE TypeOK'
  <2>1. name[c] \in Name /\ Subject(c) \in Name
    BY <1>29, <1>n DEF CreateFails
  <2>2. LockType'
    BY <1>29, <2>1 DEF CreateFails, LockType
  <2>3. CliType'
    BY <1>29, <2>1 DEF CreateFails, CliType, Step
  <2> QED
    BY <1>29, <2>2, <2>3 DEF CreateFails, DbType, FsType, VmType
<1>30. ASSUME NEW c \in Cli, Cleanup(c) PROVE TypeOK'
  <2>1. name[c] \in Name /\ Subject(c) \in Name
    BY <1>30, <1>n DEF Cleanup
  <2>2. FsType'
    BY <1>30, <2>1 DEF Cleanup, FsType
  <2>3. LockType' /\ CliType'
    BY <1>30, <2>1, <1>e DEF Cleanup, LockType, CliType, Step
  <2> QED
    BY <1>30, <2>2, <2>3 DEF Cleanup, DbType, VmType
<1>31. ASSUME NEW c \in Cli, Abort(c) PROVE TypeOK'
  <2>1. name[c] \in Name /\ Subject(c) \in Name
    BY <1>31, <1>n DEF Abort
  <2>2. LockType' /\ CliType'
    BY <1>31, <2>1, <1>e DEF Abort, LockType, CliType, Step
  <2> QED
    BY <1>31, <2>2 DEF Abort, DbType, FsType, VmType
<1>32. ASSUME NEW p \in Proc, OpenDisk(p) PROVE TypeOK'
  BY <1>32 DEF OpenDisk, Reap, DbType, FsType, LockType, VmType, CliType, Phase
<1>33. ASSUME NEW p \in Proc, FlockDisk(p) PROVE TypeOK'
  BY <1>33 DEF FlockDisk, Reap, DbType, FsType, LockType, VmType, CliType, Phase
<1>34. ASSUME NEW p \in Proc, AttachDisk(p) PROVE TypeOK'
  BY <1>34 DEF AttachDisk, Reap, DbType, FsType, LockType, VmType, CliType, Phase
<1>35. ASSUME NEW p \in Proc, GuestReady(p) PROVE TypeOK'
  BY <1>35 DEF GuestReady, DbType, FsType, LockType, VmType, CliType, Phase
<1>36. ASSUME NEW p \in Proc, ProcExit(p) PROVE TypeOK'
  BY <1>36 DEF ProcExit, Reap, DbType, FsType, LockType, VmType, CliType, Phase
<1> QED
  BY <1>1, <1>2, <1>3, <1>4, <1>5, <1>6, <1>7, <1>8, <1>9, <1>10, <1>11, <1>12,
      <1>13, <1>14, <1>15, <1>16, <1>17, <1>18, <1>19, <1>20, <1>21, <1>22, <1>23,
      <1>24, <1>25, <1>26, <1>27, <1>28, <1>29, <1>30, <1>31, <1>32, <1>33, <1>34,
      <1>35, <1>36
  DEF Next, CliNext, CliStep, VmNext

(***************************************************************************)
(* The local variables of a command suit its step.                         *)
(***************************************************************************)
LEMMA LocalsInvStep ==
    ASSUME TypeOK, LocalsInv, Next
    PROVE  LocalsInv'
<1> USE NameAssumption, NoneAssumption, OwnerAssumption
<1> USE DEF TypeOK, CliType, FsType, LocalsInv, Subject, Goto, At,
        dbVars, fsVars, lockVars, vmVars, localVars
<1>n. ASSUME NEW c \in Cli, pc[c] # "idle" PROVE name[c] \in Name /\ Subject(c) \in Name
  BY <1>n DEF LocalsInv, Subject, CliType
<1>1. ASSUME NEW c \in Cli, Begin(c) PROVE LocalsInv'
  BY <1>1 DEF Begin
<1>2. ASSUME NEW c \in Cli, BeginFork(c) PROVE LocalsInv'
  BY <1>2 DEF BeginFork
<1>3. ASSUME NEW c \in Cli, LockSecond(c) PROVE LocalsInv'
  BY <1>3, <1>n DEF LockSecond, Exit
<1>4. ASSUME NEW c \in Cli, OpenDB(c) PROVE LocalsInv'
  BY <1>4, <1>n DEF OpenDB
<1>5. ASSUME NEW c \in Cli, LoadWorkspace(c) PROVE LocalsInv'
  BY <1>5, <1>n DEF LoadWorkspace, Exit, Alive
<1>6. ASSUME NEW c \in Cli, Reconcile(c) PROVE LocalsInv'
  BY <1>6, <1>n DEF Reconcile, Exit, SetWorkspaceState,
       AfterLoad, RunStart, RunStop, RunRm, RunSwitch, DoFork
<1>7. ASSUME NEW c \in Cli, LockDisk(c) PROVE LocalsInv'
  BY <1>7, <1>n DEF LockDisk, Exit
<1>8. ASSUME NEW c \in Cli, Prepare(c) PROVE LocalsInv'
  BY <1>8, <1>n DEF Prepare, Exit
<1>9. ASSUME NEW c \in Cli, Spawn(c) PROVE LocalsInv'
  BY <1>9, <1>n DEF Spawn, Exit
<1>10. ASSUME NEW c \in Cli, WriteProcess(c) PROVE LocalsInv'
  BY <1>10, <1>n DEF WriteProcess, Exit
<1>11. ASSUME NEW c \in Cli, RecordRunning(c) PROVE LocalsInv'
  BY <1>11, <1>n, RecordRunningEffect
<1>12. ASSUME NEW c \in Cli, WaitForSSH(c) PROVE LocalsInv'
  BY <1>12, <1>n DEF WaitForSSH, Exit
<1>13. ASSUME NEW c \in Cli, SetActiveWorkspace(c) PROVE LocalsInv'
  BY <1>13, <1>n DEF SetActiveWorkspace, Exit
<1>14. ASSUME NEW c \in Cli, StopSignal(c) PROVE LocalsInv'
  BY <1>14, <1>n DEF StopSignal
<1>15. ASSUME NEW c \in Cli, StopExited(c) PROVE LocalsInv'
  BY <1>15, <1>n DEF StopExited
<1>16. ASSUME NEW c \in Cli, RecordStopped(c) PROVE LocalsInv'
  BY <1>16, <1>n DEF RecordStopped, Exit, SetWorkspaceState
<1>17. ASSUME NEW c \in Cli, RmLock(c) PROVE LocalsInv'
  BY <1>17, <1>n DEF RmLock, Exit
<1>18. ASSUME NEW c \in Cli, RmMeta(c) PROVE LocalsInv'
  BY <1>18, <1>n DEF RmMeta
<1>19. ASSUME NEW c \in Cli, DeleteWorkspace(c) PROVE LocalsInv'
  BY <1>19, <1>n DEF DeleteWorkspace
<1>20. ASSUME NEW c \in Cli, RmFiles(c) PROVE LocalsInv'
  BY <1>20, <1>n DEF RmFiles
<1>21. ASSUME NEW c \in Cli, RmDir(c) PROVE LocalsInv'
  BY <1>21, <1>n DEF RmDir, Exit
<1>22. ASSUME NEW c \in Cli, LockSource(c) PROVE LocalsInv'
  BY <1>22, <1>n DEF LockSource, Exit
<1>23. ASSUME NEW c \in Cli, Publish(c) PROVE LocalsInv'
  BY <1>23, <1>n DEF Publish, Exit
<1>24. ASSUME NEW c \in Cli, CloneDisk(c) PROVE LocalsInv'
  BY <1>24, <1>n DEF CloneDisk, Exit
<1>25. ASSUME NEW c \in Cli, LockMetadata(c) PROVE LocalsInv'
  BY <1>25, <1>n DEF LockMetadata
<1>26. ASSUME NEW c \in Cli, Allocate(c) PROVE LocalsInv'
  BY <1>26, <1>n DEF Allocate, Exit
<1>27. ASSUME NEW c \in Cli, Rename(c) PROVE LocalsInv'
  BY <1>27, <1>n DEF Rename
<1>28. ASSUME NEW c \in Cli, CreateWorkspace(c) PROVE LocalsInv'
  BY <1>28, <1>n DEF CreateWorkspace
<1>29. ASSUME NEW c \in Cli, CreateFails(c) PROVE LocalsInv'
  BY <1>29, <1>n DEF CreateFails
<1>30. ASSUME NEW c \in Cli, Cleanup(c) PROVE LocalsInv'
  BY <1>30, <1>n DEF Cleanup, Exit
<1>31. ASSUME NEW c \in Cli, Abort(c) PROVE LocalsInv'
  BY <1>31, <1>n DEF Abort, Exit
<1>32. ASSUME NEW p \in Proc, OpenDisk(p) PROVE LocalsInv'
  BY <1>32 DEF OpenDisk, Reap
<1>33. ASSUME NEW p \in Proc, FlockDisk(p) PROVE LocalsInv'
  BY <1>33 DEF FlockDisk, Reap
<1>34. ASSUME NEW p \in Proc, AttachDisk(p) PROVE LocalsInv'
  BY <1>34 DEF AttachDisk, Reap
<1>35. ASSUME NEW p \in Proc, GuestReady(p) PROVE LocalsInv'
  BY <1>35 DEF GuestReady
<1>36. ASSUME NEW p \in Proc, ProcExit(p) PROVE LocalsInv'
  BY <1>36 DEF ProcExit, Reap
<1> QED
  BY <1>1, <1>2, <1>3, <1>4, <1>5, <1>6, <1>7, <1>8, <1>9, <1>10, <1>11, <1>12,
      <1>13, <1>14, <1>15, <1>16, <1>17, <1>18, <1>19, <1>20, <1>21, <1>22, <1>23,
      <1>24, <1>25, <1>26, <1>27, <1>28, <1>29, <1>30, <1>31, <1>32, <1>33, <1>34,
      <1>35, <1>36
  DEF Next, CliNext, CliStep, VmNext

(***************************************************************************)
(* Every step between workspace.Lock and exit happens under the operation  *)
(* locks of the command.                                                   *)
(***************************************************************************)
LEMMA OpLockInvStep ==
    ASSUME TypeOK, LocalsInv, OpLockInv, Next
    PROVE  OpLockInv'
<1> USE NameAssumption, NoneAssumption, OwnerAssumption
<1> USE DEF TypeOK, CliType, LockType, LocalsInv, OpLockInv, Locked, Step, Goto, At,
        dbVars, fsVars, lockVars, vmVars, localVars
<1>e. ASSUME NEW c \in Cli, Exit(c), UNCHANGED <<rows>> PROVE OpLockInv'
  BY <1>e DEF Exit
<1>1. ASSUME NEW c \in Cli, Begin(c) PROVE OpLockInv'
  BY <1>1 DEF Begin
<1>2. ASSUME NEW c \in Cli, BeginFork(c) PROVE OpLockInv'
  BY <1>2 DEF BeginFork
<1>3. ASSUME NEW c \in Cli, LockSecond(c) PROVE OpLockInv'
  <2>1. CASE Exit(c)
    BY <1>3, <2>1, <1>e DEF LockSecond
  <2>2. CASE ~Exit(c)
    <3> DEFINE second == IF src[c] < name[c] THEN name[c] ELSE src[c]
    <3>1. /\ second \in Name /\ opLock[second] = None
          /\ opLock' = [opLock EXCEPT ![second] = c]
          /\ pc' = [pc EXCEPT ![c] = "open"]
          /\ pc[c] = "second" /\ UNCHANGED localVars
      BY <1>3, <2>2 DEF LockSecond
    <3>2. opLock'[name[c]] = c /\ opLock'[src[c]] = c
      BY <3>1
    <3>3. \A n \in Name, e \in Cli : opLock[n] = e => opLock'[n] = e
      BY <3>1
    <3> HIDE DEF second
    <3> QED
      BY <3>1, <3>2, <3>3
  <2> QED BY <2>1, <2>2
<1>4. ASSUME NEW c \in Cli, OpenDB(c) PROVE OpLockInv'
  BY <1>4 DEF OpenDB
<1>5. ASSUME NEW c \in Cli, LoadWorkspace(c) PROVE OpLockInv'
  <2>1. CASE Exit(c)
    BY <1>5, <2>1, <1>e DEF LoadWorkspace
  <2>2. CASE ~Exit(c)
    BY <1>5, <2>2 DEF LoadWorkspace
  <2> QED BY <2>1, <2>2
<1>6. ASSUME NEW c \in Cli, Reconcile(c) PROVE OpLockInv'
  <2>1. CASE Exit(c)
    BY <1>6, <2>1, <1>e DEF Reconcile, SetWorkspaceState
  <2>2. CASE ~Exit(c)
    BY <1>6, <2>2 DEF Reconcile, SetWorkspaceState,
         AfterLoad, RunStart, RunStop, RunRm, RunSwitch, DoFork
  <2> QED BY <2>1, <2>2
<1>7. ASSUME NEW c \in Cli, LockDisk(c) PROVE OpLockInv'
  <2>1. CASE Exit(c)
    BY <1>7, <2>1, <1>e DEF LockDisk
  <2>2. CASE ~Exit(c)
    BY <1>7, <2>2 DEF LockDisk
  <2> QED BY <2>1, <2>2
<1>8. ASSUME NEW c \in Cli, Prepare(c) PROVE OpLockInv'
  <2>1. CASE Exit(c)
    BY <1>8, <2>1, <1>e DEF Prepare
  <2>2. CASE ~Exit(c)
    BY <1>8, <2>2 DEF Prepare
  <2> QED BY <2>1, <2>2
<1>9. ASSUME NEW c \in Cli, Spawn(c) PROVE OpLockInv'
  <2>1. CASE Exit(c)
    BY <1>9, <2>1, <1>e DEF Spawn
  <2>2. CASE ~Exit(c)
    BY <1>9, <2>2 DEF Spawn
  <2> QED BY <2>1, <2>2
<1>10. ASSUME NEW c \in Cli, WriteProcess(c) PROVE OpLockInv'
  <2>1. CASE Exit(c)
    BY <1>10, <2>1, <1>e DEF WriteProcess
  <2>2. CASE ~Exit(c)
    BY <1>10, <2>2 DEF WriteProcess
  <2> QED BY <2>1, <2>2
<1>11. ASSUME NEW c \in Cli, RecordRunning(c) PROVE OpLockInv'
  BY <1>11, RecordRunningEffect
<1>12. ASSUME NEW c \in Cli, WaitForSSH(c) PROVE OpLockInv'
  <2>1. CASE Exit(c)
    BY <1>12, <2>1, <1>e DEF WaitForSSH
  <2>2. CASE ~Exit(c)
    BY <1>12, <2>2 DEF WaitForSSH
  <2> QED BY <2>1, <2>2
<1>13. ASSUME NEW c \in Cli, SetActiveWorkspace(c) PROVE OpLockInv'
  <2>1. CASE Exit(c)
    BY <1>13, <2>1, <1>e DEF SetActiveWorkspace
  <2>2. CASE ~Exit(c)
    BY <1>13, <2>2 DEF SetActiveWorkspace
  <2> QED BY <2>1, <2>2
<1>14. ASSUME NEW c \in Cli, StopSignal(c) PROVE OpLockInv'
  BY <1>14 DEF StopSignal
<1>15. ASSUME NEW c \in Cli, StopExited(c) PROVE OpLockInv'
  BY <1>15 DEF StopExited
<1>16. ASSUME NEW c \in Cli, RecordStopped(c) PROVE OpLockInv'
  <2>1. CASE Exit(c)
    BY <1>16, <2>1, <1>e DEF RecordStopped, SetWorkspaceState
  <2>2. CASE ~Exit(c)
    BY <1>16, <2>2 DEF RecordStopped, SetWorkspaceState
  <2> QED BY <2>1, <2>2
<1>17. ASSUME NEW c \in Cli, RmLock(c) PROVE OpLockInv'
  <2>1. CASE Exit(c)
    BY <1>17, <2>1, <1>e DEF RmLock
  <2>2. CASE ~Exit(c)
    BY <1>17, <2>2 DEF RmLock
  <2> QED BY <2>1, <2>2
<1>18. ASSUME NEW c \in Cli, RmMeta(c) PROVE OpLockInv'
  BY <1>18 DEF RmMeta
<1>19. ASSUME NEW c \in Cli, DeleteWorkspace(c) PROVE OpLockInv'
  BY <1>19 DEF DeleteWorkspace
<1>20. ASSUME NEW c \in Cli, RmFiles(c) PROVE OpLockInv'
  BY <1>20 DEF RmFiles
<1>21. ASSUME NEW c \in Cli, RmDir(c) PROVE OpLockInv'
  BY <1>21, <1>e DEF RmDir
<1>22. ASSUME NEW c \in Cli, LockSource(c) PROVE OpLockInv'
  <2>1. CASE Exit(c)
    BY <1>22, <2>1, <1>e DEF LockSource
  <2>2. CASE ~Exit(c)
    BY <1>22, <2>2 DEF LockSource
  <2> QED BY <2>1, <2>2
<1>23. ASSUME NEW c \in Cli, Publish(c) PROVE OpLockInv'
  <2>1. CASE Exit(c)
    BY <1>23, <2>1, <1>e DEF Publish
  <2>2. CASE ~Exit(c)
    BY <1>23, <2>2 DEF Publish
  <2> QED BY <2>1, <2>2
<1>24. ASSUME NEW c \in Cli, CloneDisk(c) PROVE OpLockInv'
  <2>1. CASE Exit(c)
    BY <1>24, <2>1, <1>e DEF CloneDisk
  <2>2. CASE ~Exit(c)
    BY <1>24, <2>2 DEF CloneDisk
  <2> QED BY <2>1, <2>2
<1>25. ASSUME NEW c \in Cli, LockMetadata(c) PROVE OpLockInv'
  BY <1>25 DEF LockMetadata
<1>26. ASSUME NEW c \in Cli, Allocate(c) PROVE OpLockInv'
  <2>1. CASE Exit(c)
    BY <1>26, <2>1, <1>e DEF Allocate
  <2>2. CASE ~Exit(c)
    BY <1>26, <2>2 DEF Allocate
  <2> QED BY <2>1, <2>2
<1>27. ASSUME NEW c \in Cli, Rename(c) PROVE OpLockInv'
  BY <1>27 DEF Rename
<1>28. ASSUME NEW c \in Cli, CreateWorkspace(c) PROVE OpLockInv'
  BY <1>28 DEF CreateWorkspace
<1>29. ASSUME NEW c \in Cli, CreateFails(c) PROVE OpLockInv'
  BY <1>29 DEF CreateFails
<1>30. ASSUME NEW c \in Cli, Cleanup(c) PROVE OpLockInv'
  BY <1>30 DEF Cleanup, Exit
<1>31. ASSUME NEW c \in Cli, Abort(c) PROVE OpLockInv'
  BY <1>31, <1>e DEF Abort
<1>32. ASSUME NEW p \in Proc, OpenDisk(p) PROVE OpLockInv'
  BY <1>32 DEF OpenDisk, Reap
<1>33. ASSUME NEW p \in Proc, FlockDisk(p) PROVE OpLockInv'
  BY <1>33 DEF FlockDisk, Reap
<1>34. ASSUME NEW p \in Proc, AttachDisk(p) PROVE OpLockInv'
  BY <1>34 DEF AttachDisk, Reap
<1>35. ASSUME NEW p \in Proc, GuestReady(p) PROVE OpLockInv'
  BY <1>35 DEF GuestReady
<1>36. ASSUME NEW p \in Proc, ProcExit(p) PROVE OpLockInv'
  BY <1>36 DEF ProcExit, Reap
<1> QED
  BY <1>1, <1>2, <1>3, <1>4, <1>5, <1>6, <1>7, <1>8, <1>9, <1>10, <1>11, <1>12,
      <1>13, <1>14, <1>15, <1>16, <1>17, <1>18, <1>19, <1>20, <1>21, <1>22, <1>23,
      <1>24, <1>25, <1>26, <1>27, <1>28, <1>29, <1>30, <1>31, <1>32, <1>33, <1>34,
      <1>35, <1>36
  DEF Next, CliNext, CliStep, VmNext

(***************************************************************************)
(* Allocation, publication and removal happen under metadata.lock.         *)
(***************************************************************************)
LEMMA MetaLockInvStep ==
    ASSUME TypeOK, LocalsInv, MetaLockInv, Next
    PROVE  MetaLockInv'
<1> USE NameAssumption, NoneAssumption, OwnerAssumption
<1> USE DEF TypeOK, CliType, LockType, MetaLockInv, Goto, At,
        dbVars, fsVars, lockVars, vmVars, localVars
<1>1. ASSUME NEW c \in Cli, Begin(c) PROVE MetaLockInv'
  BY <1>1 DEF Begin
<1>2. ASSUME NEW c \in Cli, BeginFork(c) PROVE MetaLockInv'
  BY <1>2 DEF BeginFork
<1>3. ASSUME NEW c \in Cli, LockSecond(c) PROVE MetaLockInv'
  BY <1>3 DEF LockSecond, Exit
<1>4. ASSUME NEW c \in Cli, OpenDB(c) PROVE MetaLockInv'
  BY <1>4 DEF OpenDB
<1>5. ASSUME NEW c \in Cli, LoadWorkspace(c) PROVE MetaLockInv'
  BY <1>5 DEF LoadWorkspace, Exit
<1>6. ASSUME NEW c \in Cli, Reconcile(c) PROVE MetaLockInv'
  BY <1>6 DEF Reconcile, Exit, SetWorkspaceState,
       AfterLoad, RunStart, RunStop, RunRm, RunSwitch, DoFork
<1>7. ASSUME NEW c \in Cli, LockDisk(c) PROVE MetaLockInv'
  BY <1>7 DEF LockDisk, Exit
<1>8. ASSUME NEW c \in Cli, Prepare(c) PROVE MetaLockInv'
  BY <1>8 DEF Prepare, Exit
<1>9. ASSUME NEW c \in Cli, Spawn(c) PROVE MetaLockInv'
  BY <1>9 DEF Spawn, Exit
<1>10. ASSUME NEW c \in Cli, WriteProcess(c) PROVE MetaLockInv'
  BY <1>10 DEF WriteProcess, Exit
<1>11. ASSUME NEW c \in Cli, RecordRunning(c) PROVE MetaLockInv'
  BY <1>11, RecordRunningEffect
<1>12. ASSUME NEW c \in Cli, WaitForSSH(c) PROVE MetaLockInv'
  BY <1>12 DEF WaitForSSH, Exit
<1>13. ASSUME NEW c \in Cli, SetActiveWorkspace(c) PROVE MetaLockInv'
  BY <1>13 DEF SetActiveWorkspace, Exit
<1>14. ASSUME NEW c \in Cli, StopSignal(c) PROVE MetaLockInv'
  BY <1>14 DEF StopSignal
<1>15. ASSUME NEW c \in Cli, StopExited(c) PROVE MetaLockInv'
  BY <1>15 DEF StopExited
<1>16. ASSUME NEW c \in Cli, RecordStopped(c) PROVE MetaLockInv'
  BY <1>16 DEF RecordStopped, Exit, SetWorkspaceState
<1>17. ASSUME NEW c \in Cli, RmLock(c) PROVE MetaLockInv'
  BY <1>17 DEF RmLock, Exit
<1>18. ASSUME NEW c \in Cli, RmMeta(c) PROVE MetaLockInv'
  BY <1>18 DEF RmMeta
<1>19. ASSUME NEW c \in Cli, DeleteWorkspace(c) PROVE MetaLockInv'
  BY <1>19 DEF DeleteWorkspace
<1>20. ASSUME NEW c \in Cli, RmFiles(c) PROVE MetaLockInv'
  BY <1>20 DEF RmFiles
<1>21. ASSUME NEW c \in Cli, RmDir(c) PROVE MetaLockInv'
  BY <1>21 DEF RmDir, Exit
<1>22. ASSUME NEW c \in Cli, LockSource(c) PROVE MetaLockInv'
  BY <1>22 DEF LockSource, Exit
<1>23. ASSUME NEW c \in Cli, Publish(c) PROVE MetaLockInv'
  BY <1>23 DEF Publish, Exit
<1>24. ASSUME NEW c \in Cli, CloneDisk(c) PROVE MetaLockInv'
  BY <1>24 DEF CloneDisk, Exit
<1>25. ASSUME NEW c \in Cli, LockMetadata(c) PROVE MetaLockInv'
  BY <1>25 DEF LockMetadata
<1>26. ASSUME NEW c \in Cli, Allocate(c) PROVE MetaLockInv'
  BY <1>26 DEF Allocate, Exit
<1>27. ASSUME NEW c \in Cli, Rename(c) PROVE MetaLockInv'
  BY <1>27 DEF Rename
<1>28. ASSUME NEW c \in Cli, CreateWorkspace(c) PROVE MetaLockInv'
  BY <1>28 DEF CreateWorkspace
<1>29. ASSUME NEW c \in Cli, CreateFails(c) PROVE MetaLockInv'
  BY <1>29 DEF CreateFails
<1>30. ASSUME NEW c \in Cli, Cleanup(c) PROVE MetaLockInv'
  BY <1>30 DEF Cleanup, Exit
<1>31. ASSUME NEW c \in Cli, Abort(c) PROVE MetaLockInv'
  BY <1>31 DEF Abort, Exit
<1>32. ASSUME NEW p \in Proc, OpenDisk(p) PROVE MetaLockInv'
  BY <1>32 DEF OpenDisk, Reap
<1>33. ASSUME NEW p \in Proc, FlockDisk(p) PROVE MetaLockInv'
  BY <1>33 DEF FlockDisk, Reap
<1>34. ASSUME NEW p \in Proc, AttachDisk(p) PROVE MetaLockInv'
  BY <1>34 DEF AttachDisk, Reap
<1>35. ASSUME NEW p \in Proc, GuestReady(p) PROVE MetaLockInv'
  BY <1>35 DEF GuestReady
<1>36. ASSUME NEW p \in Proc, ProcExit(p) PROVE MetaLockInv'
  BY <1>36 DEF ProcExit, Reap
<1> QED
  BY <1>1, <1>2, <1>3, <1>4, <1>5, <1>6, <1>7, <1>8, <1>9, <1>10, <1>11, <1>12,
      <1>13, <1>14, <1>15, <1>16, <1>17, <1>18, <1>19, <1>20, <1>21, <1>22, <1>23,
      <1>24, <1>25, <1>26, <1>27, <1>28, <1>29, <1>30, <1>31, <1>32, <1>33, <1>34,
      <1>35, <1>36
  DEF Next, CliNext, CliStep, VmNext

(***************************************************************************)
(* What a step of a command may do to the disks, the receipts and the      *)
(* companions: it changes the files of its own workspace only, an entry    *)
(* that changes its disk loses its receipt, and all it does to a companion *)
(* is to launch it or to signal it.                                        *)
(***************************************************************************)
Frame(c) ==
    /\ UNCHANGED <<fd, att>>
    /\ \A p \in Proc :
        /\ \/ phase'[p] = phase[p] /\ pname'[p] = pname[p]
           \/ phase[p] = "free" /\ phase'[p] = "spawned" /\ pname'[p] \in Name
           \/ phase[p] \notin {"free", "dead"} /\ phase'[p] = "dying" /\ pname'[p] = pname[p]
        /\ \A d \in Disk : diskLock[d] = p => diskLock'[d] = p
    /\ \A n \in Name :
        /\ \/ receipt'[n] \in {receipt[n], None}
           \/ pc[c] = "receipt" /\ n = name[c] /\ receipt'[n] = proc[c]
        /\ disk'[n] # disk[n] => /\ pc[c] \in Locked /\ n = name[c]
                                 /\ receipt'[n] = None
                                 /\ \/ disk'[n] = None
                                    \/ pc[c] = "rename" /\ disk'[n] = stage[c]
    /\ \A e \in Cli :
        /\ stage'[e] # stage[e] => stage'[e] = None \/ Fresh(stage'[e])
        /\ pc'[e] = "receipt" /\ pc[e] = "receipt" =>
                name'[e] = name[e] /\ proc'[e] = proc[e]
        /\ pc'[e] = "receipt" /\ pc[e] # "receipt" => e = c /\ Spawn(c)

LEMMA CommandFrame ==
    ASSUME TypeOK, LocalsInv, DiskLockInv, NEW c \in Cli, CliNext(c)
    PROVE  Frame(c)
<1> USE NoneAssumption, OwnerAssumption
<1> USE DEF Frame, TypeOK, CliType, FsType, LockType, VmType, DiskFree, Goto, At, Locked, Step,
        dbVars, fsVars, lockVars, vmVars, localVars
<1>n. pc[c] # "idle" => name[c] \in Name
  BY DEF LocalsInv
<1>e. ASSUME Exit(c), UNCHANGED <<fsVars, vmVars>> PROVE Frame(c)
  BY <1>e DEF Exit
<1>1. ASSUME Begin(c) PROVE Frame(c)
  BY <1>1 DEF Begin
<1>2. ASSUME BeginFork(c) PROVE Frame(c)
  BY <1>2 DEF BeginFork
<1>3. ASSUME LockSecond(c) PROVE Frame(c)
  <2>1. CASE Exit(c)
    BY <1>3, <2>1, <1>e DEF LockSecond
  <2>2. CASE ~Exit(c)
    BY <1>3, <2>2, <1>n DEF LockSecond
  <2> QED BY <2>1, <2>2
<1>4. ASSUME OpenDB(c) PROVE Frame(c)
  BY <1>4, <1>n DEF OpenDB
<1>5. ASSUME LoadWorkspace(c) PROVE Frame(c)
  <2>1. CASE Exit(c)
    BY <1>5, <2>1, <1>e DEF LoadWorkspace
  <2>2. CASE ~Exit(c)
    BY <1>5, <2>2, <1>n DEF LoadWorkspace
  <2> QED BY <2>1, <2>2
<1>6. ASSUME Reconcile(c) PROVE Frame(c)
  <2>1. CASE Exit(c)
    BY <1>6, <2>1, <1>e DEF Reconcile, SetWorkspaceState
  <2>2. CASE ~Exit(c)
    BY <1>6, <2>2, <1>n DEF Reconcile, SetWorkspaceState, AfterLoad, RunStart, RunStop, RunRm, RunSwitch, DoFork
  <2> QED BY <2>1, <2>2
<1>7. ASSUME LockDisk(c) PROVE Frame(c)
  <2>1. CASE Exit(c)
    BY <1>7, <2>1, <1>e DEF LockDisk
  <2>2. CASE ~Exit(c)
    BY <1>7, <2>2, <1>n DEF LockDisk
  <2> QED BY <2>1, <2>2
<1>8. ASSUME Prepare(c) PROVE Frame(c)
  <2>1. CASE Exit(c)
    BY <1>8, <2>1, <1>e DEF Prepare
  <2>2. CASE ~Exit(c)
    <3>1. disk[name[c]] \in Disk /\ diskLock[disk[name[c]]] = c
      BY <1>8 DEF Prepare, DiskLockInv, DiskHeld
    <3> QED
      BY <1>8, <2>2, <3>1 DEF Prepare
  <2> QED BY <2>1, <2>2
<1>9. ASSUME Spawn(c) PROVE Frame(c)
  <2>1. CASE Exit(c) /\ UNCHANGED <<phase, pname, vport>>
    BY <1>9, <2>1, <1>e DEF Spawn
  <2>2. CASE ~(Exit(c) /\ UNCHANGED <<phase, pname, vport>>)
    BY <1>9, <2>2, <1>n DEF Spawn
  <2> QED BY <2>1, <2>2
<1>10. ASSUME WriteProcess(c) PROVE Frame(c)
  <2>1. CASE Exit(c)
    BY <1>10, <2>1, <1>n DEF WriteProcess, Exit, Alive
  <2>2. CASE ~Exit(c)
    BY <1>10, <2>2, <1>n DEF WriteProcess, Alive
  <2> QED BY <2>1, <2>2
<1>11. ASSUME RecordRunning(c) PROVE Frame(c)
  BY <1>11, <1>n, RecordRunningEffect
<1>12. ASSUME WaitForSSH(c) PROVE Frame(c)
  <2>1. CASE Exit(c)
    BY <1>12, <2>1, <1>e DEF WaitForSSH
  <2>2. CASE ~Exit(c)
    BY <1>12, <2>2, <1>n DEF WaitForSSH
  <2> QED BY <2>1, <2>2
<1>13. ASSUME SetActiveWorkspace(c) PROVE Frame(c)
  <2>1. CASE Exit(c)
    BY <1>13, <2>1, <1>e DEF SetActiveWorkspace
  <2>2. CASE ~Exit(c)
    BY <1>13, <2>2, <1>n DEF SetActiveWorkspace
  <2> QED BY <2>1, <2>2
<1>14. ASSUME StopSignal(c) PROVE Frame(c)
  BY <1>14, <1>n DEF StopSignal, Alive
<1>15. ASSUME StopExited(c) PROVE Frame(c)
  BY <1>15, <1>n DEF StopExited
<1>16. ASSUME RecordStopped(c) PROVE Frame(c)
  <2>1. CASE Exit(c)
    BY <1>16, <2>1, <1>e DEF RecordStopped, SetWorkspaceState
  <2>2. CASE ~Exit(c)
    BY <1>16, <2>2, <1>n DEF RecordStopped, SetWorkspaceState
  <2> QED BY <2>1, <2>2
<1>17. ASSUME RmLock(c) PROVE Frame(c)
  <2>1. CASE Exit(c)
    BY <1>17, <2>1, <1>e DEF RmLock
  <2>2. CASE ~Exit(c)
    BY <1>17, <2>2, <1>n DEF RmLock
  <2> QED BY <2>1, <2>2
<1>18. ASSUME RmMeta(c) PROVE Frame(c)
  BY <1>18, <1>n DEF RmMeta
<1>19. ASSUME DeleteWorkspace(c) PROVE Frame(c)
  BY <1>19, <1>n DEF DeleteWorkspace
<1>20. ASSUME RmFiles(c) PROVE Frame(c)
  BY <1>20, <1>n DEF RmFiles
<1>21. ASSUME RmDir(c) PROVE Frame(c)
  BY <1>21, <1>n DEF RmDir, Exit
<1>22. ASSUME LockSource(c) PROVE Frame(c)
  <2>1. CASE Exit(c)
    BY <1>22, <2>1, <1>e DEF LockSource
  <2>2. CASE ~Exit(c)
    BY <1>22, <2>2, <1>n DEF LockSource
  <2> QED BY <2>1, <2>2
<1>23. ASSUME Publish(c) PROVE Frame(c)
  <2>1. CASE Exit(c)
    BY <1>23, <2>1, <1>e DEF Publish
  <2>2. CASE ~Exit(c)
    BY <1>23, <2>2, <1>n DEF Publish
  <2> QED BY <2>1, <2>2
<1>24. ASSUME CloneDisk(c) PROVE Frame(c)
  <2>1. CASE Exit(c)
    BY <1>24, <2>1, <1>e DEF CloneDisk
  <2>2. CASE ~Exit(c)
    BY <1>24, <2>2, <1>n DEF CloneDisk
  <2> QED BY <2>1, <2>2
<1>25. ASSUME LockMetadata(c) PROVE Frame(c)
  BY <1>25, <1>n DEF LockMetadata
<1>26. ASSUME Allocate(c) PROVE Frame(c)
  <2>1. CASE Exit(c)
    BY <1>26, <2>1, <1>e DEF Allocate
  <2>2. CASE ~Exit(c)
    BY <1>26, <2>2, <1>n DEF Allocate
  <2> QED BY <2>1, <2>2
<1>27. ASSUME Rename(c) PROVE Frame(c)
  BY <1>27, <1>n DEF Rename
<1>28. ASSUME CreateWorkspace(c) PROVE Frame(c)
  BY <1>28, <1>n DEF CreateWorkspace
<1>29. ASSUME CreateFails(c) PROVE Frame(c)
  BY <1>29, <1>n DEF CreateFails
<1>30. ASSUME Cleanup(c) PROVE Frame(c)
  BY <1>30, <1>n DEF Cleanup, Exit
<1>31. ASSUME Abort(c) PROVE Frame(c)
  BY <1>31, <1>e DEF Abort
<1> QED
  BY <1>1, <1>2, <1>3, <1>4, <1>5, <1>6, <1>7, <1>8, <1>9, <1>10, <1>11, <1>12,
      <1>13, <1>14, <1>15, <1>16, <1>17, <1>18, <1>19, <1>20, <1>21, <1>22,
      <1>23, <1>24, <1>25, <1>26, <1>27, <1>28, <1>29, <1>30, <1>31
  DEF CliNext, CliStep

(***************************************************************************)
(* A companion attaches a disk after it has locked the inode it opened,    *)
(* and keeps that lock as long as it has the disk (main.c).                *)
(***************************************************************************)
LEMMA AttachedInvStep ==
    ASSUME TypeOK, LocalsInv, DiskLockInv, AttachedInv, Next
    PROVE  AttachedInv'
<1> USE NoneAssumption
<1>1. ASSUME NEW c \in Cli, CliNext(c) PROVE AttachedInv'
  <2>1. Frame(c)
    BY <1>1, CommandFrame
  <2> QED
    BY <2>1 DEF Frame, AttachedInv
<1>2. ASSUME NEW q \in Proc, VmNext(q) PROVE AttachedInv'
  <2> USE DEF TypeOK, VmType, LockType, AttachedInv, DiskFree, lockVars
  <2>1. CASE OpenDisk(q)
    BY <2>1 DEF OpenDisk, Reap
  <2>2. CASE FlockDisk(q)
    BY <2>2 DEF FlockDisk, Reap
  <2>3. CASE AttachDisk(q)
    BY <2>3 DEF AttachDisk, Reap
  <2>4. CASE GuestReady(q)
    BY <2>4 DEF GuestReady
  <2>5. CASE ProcExit(q)
    BY <2>5 DEF ProcExit, Reap
  <2> QED
    BY <1>2, <2>1, <2>2, <2>3, <2>4, <2>5 DEF VmNext
<1> QED
  BY <1>1, <1>2 DEF Next

(***************************************************************************)
(* The inode a companion opened is no other workspace's disk: published    *)
(* disks are new, and one that is attached instead shows that the opened   *)
(* one has no name any more.                                               *)
(***************************************************************************)
LEMMA OpenedInvStep ==
    ASSUME TypeOK, LocalsInv, DiskLockInv, AttachedInv, OpenedInv, FilesInv, Next
    PROVE  OpenedInv'
<1> USE NoneAssumption
<1> SUFFICES ASSUME NEW p \in Proc, fd'[p] # None
             PROVE  /\ \A c \in Cli : stage'[c] # fd'[p]
                    /\ \A n \in Name : disk'[n] = fd'[p] =>
                            n = pname'[p] /\ att'[p] \in {None, fd'[p]}
  BY DEF OpenedInv
<1>1. ASSUME NEW c \in Cli, CliNext(c)
      PROVE  /\ \A e \in Cli : stage'[e] # fd'[p]
             /\ \A n \in Name : disk'[n] = fd'[p] =>
                     n = pname'[p] /\ att'[p] \in {None, fd'[p]}
  <2>1. Frame(c)
    BY <1>1, CommandFrame
  <2>2. /\ fd'[p] = fd[p] /\ att'[p] = att[p] /\ fd[p] # None
        /\ phase[p] # "free"
    BY <2>1 DEF Frame, AttachedInv
  <2>3. pname'[p] = pname[p]
    BY <2>1, <2>2 DEF Frame
  <2>4. \A e \in Cli : stage'[e] # fd'[p]
    BY <2>1, <2>2 DEF Frame, Fresh, OpenedInv
  <2>5. ASSUME NEW n \in Name, disk'[n] = fd'[p]
        PROVE  disk[n] = fd[p]
    BY <2>1, <2>2, <2>5 DEF Frame, OpenedInv
  <2> QED
    BY <2>2, <2>3, <2>4, <2>5 DEF OpenedInv
<1>2. ASSUME NEW q \in Proc, VmNext(q)
      PROVE  /\ \A e \in Cli : stage'[e] # fd'[p]
             /\ \A n \in Name : disk'[n] = fd'[p] =>
                     n = pname'[p] /\ att'[p] \in {None, fd'[p]}
  <2> USE DEF TypeOK, VmType, fsVars, localVars, lockVars
  <2>1. CASE OpenDisk(q)
    <3>2. CASE Reap(q)
      BY <2>1, <3>2 DEF OpenDisk, Reap, OpenedInv
    <3>3. CASE ~Reap(q) /\ p = q
      <4>1. /\ fd'[p] = disk[pname[p]] /\ disk[pname[p]] \in Disk
            /\ UNCHANGED <<disk, stage, att, pname>> /\ att[p] = None
        BY <2>1, <3>3 DEF OpenDisk, AttachedInv
      <4>2. pname[p] \in Name
        BY <2>1, <3>3 DEF OpenDisk, AttachedInv, Alive
      <4> QED
        BY <4>1, <4>2 DEF FilesInv, RecordedFiles
    <3>4. CASE ~Reap(q) /\ p # q
      BY <2>1, <3>4 DEF OpenDisk, OpenedInv
    <3> QED BY <3>2, <3>3, <3>4
  <2>2. CASE FlockDisk(q)
    BY <2>2 DEF FlockDisk, Reap, OpenedInv
  <2>3. CASE AttachDisk(q)
    BY <2>3 DEF AttachDisk, Reap, OpenedInv
  <2>4. CASE GuestReady(q)
    BY <2>4 DEF GuestReady, OpenedInv
  <2>5. CASE ProcExit(q)
    BY <2>5 DEF ProcExit, Reap, OpenedInv
  <2> QED
    BY <1>2, <2>1, <2>2, <2>3, <2>4, <2>5 DEF VmNext
<1> QED
  BY <1>1, <1>2 DEF Next

(***************************************************************************)
(* A recorded companion, and one whose receipt is about to be written,     *)
(* works for the workspace it was launched for: the operation lock keeps   *)
(* the disk of that workspace in place until the receipt is there, and the *)
(* receipt goes before the disk does.                                      *)
(***************************************************************************)
LEMMA ServesInvStep ==
    ASSUME TypeOK, LocalsInv, OpLockInv, DiskLockInv, AttachedInv, OpenedInv,
           ServesInv, FilesInv, LaunchedInv, Next
    PROVE  ServesInv'
<1> USE NoneAssumption
<1>1. ASSUME NEW c \in Cli, CliNext(c) PROVE ServesInv'
  <2>1. Frame(c)
    BY <1>1, CommandFrame
  <2>2. ASSUME NEW p \in Proc, NEW n \in Name, phase[p] # "free", Serves(p, n),
               disk'[n] = disk[n]
        PROVE  Serves(p, n)'
    BY <2>1, <2>2 DEF Frame, Serves, Alive
  <2>3. ASSUME NEW n \in Name, receipt'[n] # None PROVE Serves(receipt[n], n)'
    <3>1. disk'[n] = disk[n]
      BY <2>1, <2>3 DEF Frame
    <3>2. CASE receipt'[n] = receipt[n]
      BY <2>2, <2>3, <3>1, <3>2 DEF ServesInv, LaunchedInv, TypeOK, FsType
    <3>3. CASE receipt'[n] # receipt[n]
      <4>1. pc[c] = "receipt" /\ n = name[c] /\ receipt'[n] = proc[c]
        BY <2>1, <2>3, <3>3 DEF Frame
      <4>2. proc[c] \in Proc /\ phase[proc[c]] # "free" /\ Serves(proc[c], n)
        BY <4>1 DEF LocalsInv, LaunchedInv, ServesInv
      <4> QED
        BY <2>2, <3>1, <4>1, <4>2
    <3> QED BY <3>2, <3>3
  <2>4. ASSUME NEW e \in Cli, pc'[e] = "receipt" PROVE Serves(proc[e], name[e])'
    <3>1. CASE pc[e] = "receipt"
      <4>1. /\ name'[e] = name[e] /\ proc'[e] = proc[e] /\ name[e] \in Name
            /\ proc[e] \in Proc /\ phase[proc[e]] # "free" /\ Serves(proc[e], name[e])
        BY <2>1, <2>4, <3>1 DEF Frame, LocalsInv, LaunchedInv, ServesInv
      <4>2. disk'[name[e]] = disk[name[e]]
        <5>1. CASE e = c
          <6>1. SUFFICES ASSUME disk'[name[e]] # disk[name[e]] PROVE FALSE
            OBVIOUS
          <6>2. WriteProcess(c) \/ Abort(c)
            BY <1>1, <3>1, <5>1 DEF CliNext, CliStep, Begin, BeginFork, LockSecond,
                OpenDB, LoadWorkspace, Reconcile, LockDisk, Prepare, Spawn,
                RecordRunning, WaitForSSH, SetActiveWorkspace, StopSignal, StopExited,
                RecordStopped, RmLock, RmMeta, DeleteWorkspace, RmFiles, RmDir,
                LockSource, Publish, CloneDisk, LockMetadata, Allocate, Rename,
                CreateWorkspace, CreateFails, Cleanup, At
          <6> QED
            BY <6>1, <6>2 DEF WriteProcess, Abort, fsVars
        <5>2. CASE e # c
          BY <2>1, <3>1, <4>1, <5>2, OtherNames DEF Frame, Locked, Step
        <5> QED BY <5>1, <5>2
      <4> QED
        BY <2>2, <4>1, <4>2
    <3>2. CASE pc[e] # "receipt"
      <4>1. e = c /\ Spawn(c)
        BY <2>1, <2>4, <3>2 DEF Frame
      <4>2. PICK p \in Proc : /\ phase[p] = "free"
                              /\ pname' = [pname EXCEPT ![p] = name[c]]
                              /\ proc' = [proc EXCEPT ![c] = p]
                              /\ UNCHANGED <<name, fd, att>>
        BY <2>4, <4>1 DEF Spawn, Exit, Goto, At, TypeOK, CliType
      <4>3. proc'[e] = p /\ pname'[p] = name[c] /\ fd'[p] = None /\ att'[p] = None
        BY <4>1, <4>2 DEF AttachedInv, TypeOK, VmType, CliType
      <4> QED
        BY <4>1, <4>2, <4>3 DEF Serves
    <3> QED BY <3>1, <3>2
  <2> QED
    BY <2>3, <2>4 DEF ServesInv
<1>2. ASSUME NEW q \in Proc, VmNext(q) PROVE ServesInv'
  <2>1. UNCHANGED <<disk, receipt, pc, proc, name>>
    BY <1>2 DEF VmNext, OpenDisk, FlockDisk, AttachDisk, GuestReady, ProcExit,
        fsVars, localVars
  <2>2. ASSUME NEW p \in Proc, NEW n \in Name, Serves(p, n), phase[p] # "free"
        PROVE  Serves(p, n)'
    <3> USE DEF TypeOK, VmType, Serves, Alive, AttachedInv
    <3>1. CASE p # q
      BY <1>2, <2>1, <2>2, <3>1 DEF VmNext, OpenDisk, FlockDisk, AttachDisk,
          GuestReady, ProcExit, Reap
    <3>2. CASE p = q
      <4>1. CASE Reap(q)
        BY <3>2, <4>1 DEF Reap
      <4>2. CASE ~Reap(q)
        BY <1>2, <2>1, <2>2, <3>2, <4>2 DEF VmNext, OpenDisk, FlockDisk, AttachDisk,
            GuestReady, ProcExit
      <4> QED BY <4>1, <4>2
    <3> QED BY <3>1, <3>2
  <2>3. /\ \A n \in Name : receipt[n] # None =>
                receipt[n] \in Proc /\ phase[receipt[n]] # "free"
        /\ \A c \in Cli : pc[c] = "receipt" =>
                name[c] \in Name /\ proc[c] \in Proc /\ phase[proc[c]] # "free"
    BY DEF TypeOK, FsType, LaunchedInv, LocalsInv
  <2> QED
    BY <2>1, <2>2, <2>3 DEF ServesInv
<1> QED
  BY <1>1, <1>2 DEF Next

(***************************************************************************)
(* Preparing a boot, removing and cloning happen under the inode lock of   *)
(* the disk concerned: the path does not change, as the operation lock is  *)
(* held, and nobody takes a lock that is held.                             *)
(***************************************************************************)
LEMMA DiskLockInvStep ==
    ASSUME TypeOK, LocalsInv, OpLockInv, DiskLockInv, Next
    PROVE  DiskLockInv'
<1> USE NameAssumption, NoneAssumption, OwnerAssumption
<1> USE DEF TypeOK, CliType, LockType, FsType, Goto, At,
        dbVars, fsVars, lockVars, vmVars, localVars
<1>e. ASSUME NEW c \in Cli, Exit(c), UNCHANGED <<disk>> PROVE DiskLockInv'
  <2> SUFFICES ASSUME NEW e \in Cli PROVE DiskHeld(e)'
    BY DEF DiskLockInv
  <2>1. CASE e = c
    BY <1>e, <2>1 DEF Exit, DiskHeld, Publishing
  <2>2. CASE e # c
    BY <1>e, <2>2, DiskHeldKept DEF Exit, DiskLockInv
  <2> QED BY <2>1, <2>2
<1>n. ASSUME NEW c \in Cli, pc[c] # "idle" PROVE name[c] \in Name /\ Subject(c) \in Name
  BY <1>n DEF LocalsInv, Subject, CliType
<1>1. ASSUME NEW c \in Cli, Begin(c) PROVE DiskLockInv'
  BY <1>1 DEF Begin, DiskLockInv, DiskHeld, Publishing, LocalsInv
<1>2. ASSUME NEW c \in Cli, BeginFork(c) PROVE DiskLockInv'
  BY <1>2 DEF BeginFork, DiskLockInv, DiskHeld, Publishing, LocalsInv
<1>3. ASSUME NEW c \in Cli, LockSecond(c) PROVE DiskLockInv'
  <2>1. CASE Exit(c)
    BY <1>3, <2>1, <1>e DEF LockSecond
  <2>2. CASE ~Exit(c)
    BY <1>3, <2>2, <1>n DEF LockSecond, DiskLockInv, DiskHeld, Publishing, LocalsInv
  <2> QED BY <2>1, <2>2
<1>4. ASSUME NEW c \in Cli, OpenDB(c) PROVE DiskLockInv'
  BY <1>4, <1>n DEF OpenDB, DiskLockInv, DiskHeld, Publishing, LocalsInv
<1>5. ASSUME NEW c \in Cli, LoadWorkspace(c) PROVE DiskLockInv'
  <2>1. CASE Exit(c)
    BY <1>5, <2>1, <1>e DEF LoadWorkspace
  <2>2. CASE ~Exit(c)
    BY <1>5, <2>2, <1>n DEF LoadWorkspace, DiskLockInv, DiskHeld, Publishing, LocalsInv
  <2> QED BY <2>1, <2>2
<1>6. ASSUME NEW c \in Cli, Reconcile(c) PROVE DiskLockInv'
  <2>1. CASE Exit(c)
    BY <1>6, <2>1, <1>e DEF Reconcile, SetWorkspaceState
  <2>2. CASE ~Exit(c)
    BY <1>6, <2>2, <1>n DEF Reconcile, SetWorkspaceState, DiskLockInv, DiskHeld,
        Publishing, LocalsInv, AfterLoad, RunStart, RunStop, RunRm, RunSwitch, DoFork
  <2> QED BY <2>1, <2>2
<1>7. ASSUME NEW c \in Cli, LockDisk(c) PROVE DiskLockInv'
  <2> SUFFICES ASSUME NEW e \in Cli PROVE DiskHeld(e)'
    BY DEF DiskLockInv
  <2>1. CASE e = c
    BY <1>7, <2>1, <1>n DEF LockDisk, Exit, DiskHeld, DiskLockInv, Publishing, DiskFree
  <2>2. CASE e # c
    BY <1>7, <2>2, <1>n, DiskHeldKept DEF LockDisk, Exit, DiskLockInv, DiskHeld,
        DiskFree, Publishing
  <2> QED BY <2>1, <2>2
<1>8. ASSUME NEW c \in Cli, Prepare(c) PROVE DiskLockInv'
  <2> SUFFICES ASSUME NEW e \in Cli PROVE DiskHeld(e)'
    BY DEF DiskLockInv
  <2>1. CASE e = c
    BY <1>8, <2>1, <1>n DEF Prepare, Exit, DiskHeld, DiskLockInv, Publishing, DiskFree
  <2>2. CASE e # c
    BY <1>8, <2>2, <1>n, DiskHeldKept DEF Prepare, Exit, DiskLockInv, DiskHeld,
        DiskFree, Publishing
  <2> QED BY <2>1, <2>2
<1>9. ASSUME NEW c \in Cli, Spawn(c) PROVE DiskLockInv'
  <2>1. CASE Exit(c)
    BY <1>9, <2>1, <1>e DEF Spawn
  <2>2. CASE ~Exit(c)
    BY <1>9, <2>2, <1>n DEF Spawn, DiskLockInv, DiskHeld, Publishing, LocalsInv
  <2> QED BY <2>1, <2>2
<1>10. ASSUME NEW c \in Cli, WriteProcess(c) PROVE DiskLockInv'
  <2>1. CASE Exit(c)
    BY <1>10, <2>1, <1>e DEF WriteProcess
  <2>2. CASE ~Exit(c)
    BY <1>10, <2>2, <1>n DEF WriteProcess, DiskLockInv, DiskHeld, Publishing, LocalsInv
  <2> QED BY <2>1, <2>2
<1>11. ASSUME NEW c \in Cli, RecordRunning(c) PROVE DiskLockInv'
  BY <1>11, <1>n, RecordRunningEffect DEF DiskLockInv, DiskHeld, Publishing, LocalsInv
<1>12. ASSUME NEW c \in Cli, WaitForSSH(c) PROVE DiskLockInv'
  <2>1. CASE Exit(c)
    BY <1>12, <2>1, <1>e DEF WaitForSSH
  <2>2. CASE ~Exit(c)
    BY <1>12, <2>2, <1>n DEF WaitForSSH, DiskLockInv, DiskHeld, Publishing, LocalsInv
  <2> QED BY <2>1, <2>2
<1>13. ASSUME NEW c \in Cli, SetActiveWorkspace(c) PROVE DiskLockInv'
  <2>1. CASE Exit(c)
    BY <1>13, <2>1, <1>e DEF SetActiveWorkspace
  <2>2. CASE ~Exit(c)
    BY <1>13, <2>2, <1>n DEF SetActiveWorkspace, DiskLockInv, DiskHeld, Publishing,
        LocalsInv
  <2> QED BY <2>1, <2>2
<1>14. ASSUME NEW c \in Cli, StopSignal(c) PROVE DiskLockInv'
  BY <1>14, <1>n DEF StopSignal, DiskLockInv, DiskHeld, Publishing, LocalsInv
<1>15. ASSUME NEW c \in Cli, StopExited(c) PROVE DiskLockInv'
  BY <1>15, <1>n DEF StopExited, DiskLockInv, DiskHeld, Publishing, LocalsInv
<1>16. ASSUME NEW c \in Cli, RecordStopped(c) PROVE DiskLockInv'
  <2>1. CASE Exit(c)
    BY <1>16, <2>1, <1>e DEF RecordStopped, SetWorkspaceState
  <2>2. CASE ~Exit(c)
    BY <1>16, <2>2, <1>n DEF RecordStopped, SetWorkspaceState, DiskLockInv,
        DiskHeld, Publishing, LocalsInv
  <2> QED BY <2>1, <2>2
<1>17. ASSUME NEW c \in Cli, RmLock(c) PROVE DiskLockInv'
  <2>1. CASE Exit(c)
    BY <1>17, <2>1, <1>e DEF RmLock
  <2>2. CASE ~Exit(c)
    <3> SUFFICES ASSUME NEW e \in Cli PROVE DiskHeld(e)'
      BY DEF DiskLockInv
    <3>1. CASE e = c
      <4>1. pc[c] = "rmlock" /\ name[c] \in Name
        BY <1>17, <1>n DEF RmLock
      <4>2. pc'[c] = "rmmeta" /\ disk' = disk /\ name' = name
        BY <1>17, <2>2 DEF RmLock
      <4>3. disk[name[c]] # None => disk[name[c]] \in Disk
        BY <4>1
      <4>4. diskLock' = [b \in Disk |->
                            IF b = disk[name[c]] THEN c ELSE diskLock[b]]
        BY <1>17, <2>2 DEF RmLock
      <4>5. disk'[name'[c]] # None => diskLock'[disk'[name'[c]]] = c
        BY <4>2, <4>3, <4>4
      <4> QED BY <3>1, <4>2, <4>5 DEF DiskHeld, Publishing
    <3>2. CASE e # c
      BY <1>17, <2>2, <3>2, DiskHeldKept DEF RmLock, DiskLockInv, DiskFree
    <3> QED BY <3>1, <3>2
  <2> QED BY <2>1, <2>2
<1>18. ASSUME NEW c \in Cli, RmMeta(c) PROVE DiskLockInv'
  BY <1>18, <1>n DEF RmMeta, DiskLockInv, DiskHeld, Publishing, LocalsInv
<1>19. ASSUME NEW c \in Cli, DeleteWorkspace(c) PROVE DiskLockInv'
  BY <1>19, <1>n DEF DeleteWorkspace, DiskLockInv, DiskHeld, Publishing, LocalsInv
<1>20. ASSUME NEW c \in Cli, RmFiles(c) PROVE DiskLockInv'
  <2> SUFFICES ASSUME NEW e \in Cli PROVE DiskHeld(e)'
    BY DEF DiskLockInv
  <2>1. CASE e = c
    BY <1>20, <2>1, <1>n DEF RmFiles, Exit, DiskHeld, DiskLockInv, Publishing,
        DiskFree, OpLockInv, Locked, Step, LocalsInv
  <2>2. CASE e # c
    BY <1>20, <2>2, <1>n, DiskHeldKept DEF RmFiles, Exit, DiskLockInv, DiskHeld,
        DiskFree, Publishing, OpLockInv, Locked, Step, LocalsInv
  <2> QED BY <2>1, <2>2
<1>21. ASSUME NEW c \in Cli, RmDir(c) PROVE DiskLockInv'
  BY <1>21, <1>e DEF RmDir, DiskLockInv, DiskHeld, Publishing, LocalsInv
<1>22. ASSUME NEW c \in Cli, LockSource(c) PROVE DiskLockInv'
  <2> SUFFICES ASSUME NEW e \in Cli PROVE DiskHeld(e)'
    BY DEF DiskLockInv
  <2>1. CASE e = c
    BY <1>22, <2>1, <1>n DEF LockSource, Exit, DiskHeld, DiskLockInv, Publishing, DiskFree
  <2>2. CASE e # c
    BY <1>22, <2>2, <1>n, DiskHeldKept DEF LockSource, Exit, DiskLockInv, DiskHeld,
        DiskFree, Publishing
  <2> QED BY <2>1, <2>2
<1>23. ASSUME NEW c \in Cli, Publish(c) PROVE DiskLockInv'
  <2>1. CASE Exit(c)
    BY <1>23, <2>1, <1>e DEF Publish
  <2>2. CASE ~Exit(c)
    BY <1>23, <2>2, <1>n DEF Publish, DiskLockInv, DiskHeld, Publishing, LocalsInv
  <2> QED BY <2>1, <2>2
<1>24. ASSUME NEW c \in Cli, CloneDisk(c) PROVE DiskLockInv'
  <2>1. CASE Exit(c)
    BY <1>24, <2>1, <1>e DEF CloneDisk
  <2>2. CASE ~Exit(c)
    BY <1>24, <2>2, <1>n DEF CloneDisk, DiskLockInv, DiskHeld, Publishing, LocalsInv
  <2> QED BY <2>1, <2>2
<1>25. ASSUME NEW c \in Cli, LockMetadata(c) PROVE DiskLockInv'
  BY <1>25, <1>n DEF LockMetadata, DiskLockInv, DiskHeld, Publishing, LocalsInv
<1>26. ASSUME NEW c \in Cli, Allocate(c) PROVE DiskLockInv'
  <2>1. CASE Exit(c)
    BY <1>26, <2>1, <1>e DEF Allocate
  <2>2. CASE ~Exit(c)
    BY <1>26, <2>2, <1>n DEF Allocate, DiskLockInv, DiskHeld, Publishing, LocalsInv
  <2> QED BY <2>1, <2>2
<1>27. ASSUME NEW c \in Cli, Rename(c) PROVE DiskLockInv'
  <2> SUFFICES ASSUME NEW e \in Cli PROVE DiskHeld(e)'
    BY DEF DiskLockInv
  <2>1. CASE e = c
    BY <1>27, <2>1, <1>n DEF Rename, Exit, DiskHeld, DiskLockInv, Publishing,
        DiskFree, OpLockInv, Locked, Step, LocalsInv
  <2>2. CASE e # c
    BY <1>27, <2>2, <1>n, DiskHeldKept DEF Rename, Exit, DiskLockInv, DiskHeld,
        DiskFree, Publishing, OpLockInv, Locked, Step, LocalsInv
  <2> QED BY <2>1, <2>2
<1>28. ASSUME NEW c \in Cli, CreateWorkspace(c) PROVE DiskLockInv'
  <2> SUFFICES ASSUME NEW e \in Cli PROVE DiskHeld(e)'
    BY DEF DiskLockInv
  <2>1. CASE e = c
    BY <1>28, <2>1, <1>n DEF CreateWorkspace, Exit, DiskHeld, DiskLockInv,
        Publishing, DiskFree
  <2>2. CASE e # c
    BY <1>28, <2>2, <1>n, DiskHeldKept DEF CreateWorkspace, Exit, DiskLockInv,
        DiskHeld, DiskFree, Publishing
  <2> QED BY <2>1, <2>2
<1>29. ASSUME NEW c \in Cli, CreateFails(c) PROVE DiskLockInv'
  BY <1>29, <1>n DEF CreateFails, DiskLockInv, DiskHeld, Publishing, LocalsInv
<1>30. ASSUME NEW c \in Cli, Cleanup(c) PROVE DiskLockInv'
  <2> SUFFICES ASSUME NEW e \in Cli PROVE DiskHeld(e)'
    BY DEF DiskLockInv
  <2>1. CASE e = c
    BY <1>30, <2>1, <1>n DEF Cleanup, Exit, DiskHeld, DiskLockInv, Publishing,
        DiskFree, OpLockInv, Locked, Step, LocalsInv
  <2>2. CASE e # c
    BY <1>30, <2>2, <1>n, DiskHeldKept DEF Cleanup, Exit, DiskLockInv, DiskHeld,
        DiskFree, Publishing, OpLockInv, Locked, Step, LocalsInv
  <2> QED BY <2>1, <2>2
<1>31. ASSUME NEW c \in Cli, Abort(c) PROVE DiskLockInv'
  BY <1>31, <1>e DEF Abort, DiskLockInv, DiskHeld, Publishing, LocalsInv
<1>32. ASSUME NEW p \in Proc, OpenDisk(p) PROVE DiskLockInv'
  <2> SUFFICES ASSUME NEW e \in Cli PROVE DiskHeld(e)'
    BY DEF DiskLockInv
  <2> QED
    BY <1>32, DiskHeldKept DEF OpenDisk, Reap, DiskLockInv, DiskFree
<1>33. ASSUME NEW p \in Proc, FlockDisk(p) PROVE DiskLockInv'
  <2> SUFFICES ASSUME NEW e \in Cli PROVE DiskHeld(e)'
    BY DEF DiskLockInv
  <2> QED
    BY <1>33, DiskHeldKept DEF FlockDisk, Reap, DiskLockInv, DiskFree
<1>34. ASSUME NEW p \in Proc, AttachDisk(p) PROVE DiskLockInv'
  <2> SUFFICES ASSUME NEW e \in Cli PROVE DiskHeld(e)'
    BY DEF DiskLockInv
  <2> QED
    BY <1>34, DiskHeldKept DEF AttachDisk, Reap, DiskLockInv, DiskFree
<1>35. ASSUME NEW p \in Proc, GuestReady(p) PROVE DiskLockInv'
  BY <1>35 DEF GuestReady, DiskLockInv, DiskHeld, Publishing, LocalsInv
<1>36. ASSUME NEW p \in Proc, ProcExit(p) PROVE DiskLockInv'
  <2> SUFFICES ASSUME NEW e \in Cli PROVE DiskHeld(e)'
    BY DEF DiskLockInv
  <2> QED
    BY <1>36, DiskHeldKept DEF ProcExit, Reap, DiskLockInv, DiskFree
<1> QED
  BY <1>1, <1>2, <1>3, <1>4, <1>5, <1>6, <1>7, <1>8, <1>9, <1>10, <1>11, <1>12,
      <1>13, <1>14, <1>15, <1>16, <1>17, <1>18, <1>19, <1>20, <1>21, <1>22, <1>23,
      <1>24, <1>25, <1>26, <1>27, <1>28, <1>29, <1>30, <1>31, <1>32, <1>33, <1>34,
      <1>35, <1>36
  DEF Next, CliNext, CliStep, VmNext

(***************************************************************************)
(* Rows have files: files are published before the row and removed after   *)
(* it, and only by the holder of the operation lock.                       *)
(***************************************************************************)
LEMMA FilesInvStep ==
    ASSUME TypeOK, LocalsInv, OpLockInv, FilesInv, PublicationInv, Next
    PROVE  FilesInv'
<1> USE NameAssumption, NoneAssumption, OwnerAssumption
<1> USE DEF TypeOK, DbType, CliType, FsType, LockType, LocalsInv, OpLockInv,
        FilesInv, RecordedFiles, PublicationInv, PublicationOwned, CheckNew, Loaded, Locked,
        Step, Goto, At,
        dbVars, fsVars, lockVars, vmVars, localVars
<1>e. ASSUME NEW c \in Cli, Exit(c), UNCHANGED <<rows, fsVars>> PROVE FilesInv'
  BY <1>e DEF Exit
<1>n. ASSUME NEW c \in Cli, pc[c] # "idle" PROVE name[c] \in Name /\ Subject(c) \in Name
  BY <1>n DEF LocalsInv, Subject, CliType
<1>1. ASSUME NEW c \in Cli, Begin(c) PROVE FilesInv'
  BY <1>1 DEF Begin
<1>2. ASSUME NEW c \in Cli, BeginFork(c) PROVE FilesInv'
  BY <1>2 DEF BeginFork
<1>3. ASSUME NEW c \in Cli, LockSecond(c) PROVE FilesInv'
  <2>1. CASE Exit(c)
    BY <1>3, <2>1, <1>e DEF LockSecond
  <2>2. CASE ~Exit(c)
    BY <1>3, <2>2, <1>n DEF LockSecond
  <2> QED BY <2>1, <2>2
<1>4. ASSUME NEW c \in Cli, OpenDB(c) PROVE FilesInv'
  BY <1>4, <1>n DEF OpenDB
<1>5. ASSUME NEW c \in Cli, LoadWorkspace(c) PROVE FilesInv'
  <2>1. CASE Exit(c)
    BY <1>5, <2>1, <1>e DEF LoadWorkspace
  <2>2. CASE ~Exit(c)
    BY <1>5, <2>2, <1>n DEF LoadWorkspace
  <2> QED BY <2>1, <2>2
<1>6. ASSUME NEW c \in Cli, Reconcile(c) PROVE FilesInv'
  <2>1. CASE Exit(c)
    BY <1>6, <2>1, <1>e DEF Reconcile, SetWorkspaceState
  <2>2. CASE ~Exit(c)
    BY <1>6, <2>2, <1>n DEF Reconcile, SetWorkspaceState,
         AfterLoad, RunStart, RunStop, RunRm, RunSwitch, DoFork
  <2> QED BY <2>1, <2>2
<1>7. ASSUME NEW c \in Cli, LockDisk(c) PROVE FilesInv'
  <2>1. CASE Exit(c)
    BY <1>7, <2>1, <1>e DEF LockDisk
  <2>2. CASE ~Exit(c)
    BY <1>7, <2>2, <1>n DEF LockDisk
  <2> QED BY <2>1, <2>2
<1>8. ASSUME NEW c \in Cli, Prepare(c) PROVE FilesInv'
  <2>1. CASE Exit(c)
    BY <1>8, <2>1, <1>e DEF Prepare
  <2>2. CASE ~Exit(c)
    BY <1>8, <2>2, <1>n DEF Prepare
  <2> QED BY <2>1, <2>2
<1>9. ASSUME NEW c \in Cli, Spawn(c) PROVE FilesInv'
  <2>1. CASE Exit(c)
    BY <1>9, <2>1, <1>e DEF Spawn
  <2>2. CASE ~Exit(c)
    BY <1>9, <2>2, <1>n DEF Spawn
  <2> QED BY <2>1, <2>2
<1>10. ASSUME NEW c \in Cli, WriteProcess(c) PROVE FilesInv'
  <2> HIDE DEF TypeOK, DbType, CliType, FsType, LockType, LocalsInv, OpLockInv,
           FilesInv, PublicationInv, PublicationOwned, RecordedFiles, Locked, Step
  <2>0. pc[c] = "receipt" /\ name[c] \in Name
    BY <1>10, <1>n DEF WriteProcess
  <2>1. name[c] \in dir
    BY <2>0 DEF PublicationInv, FilesInv, RecordedFiles
  <2>2. /\ receipt' = receipt \/ receipt' = [receipt EXCEPT ![name[c]] = proc[c]]
        /\ UNCHANGED <<rows, dir, disk>>
    BY <1>10 DEF WriteProcess
  <2>t. /\ pc \in [Cli -> Step] /\ name \in [Cli -> Name \cup {None}]
        /\ stage \in [Cli -> Disk \cup {None}]
        /\ receipt \in [Name -> Proc \cup {None}]
    BY DEF TypeOK, CliType, FsType
  <2>3. \A e \in Cli :
            /\ pc'[e] # "idle" => name'[e] = name[e]
            /\ pc'[e] = pc[e] \/ (e = c /\ pc'[e] \in {"idle", "recrun"})
            /\ stage'[e] # None => stage'[e] = stage[e]
    <3>1. CASE Exit(c)
      BY <2>t, <3>1 DEF Exit
    <3>2. CASE ~Exit(c)
      BY <1>10, <2>t, <3>2 DEF WriteProcess
    <3> QED
      BY <3>1, <3>2
  <2>4. \A e \in Cli : pc'[e] \in {"rmdir", "insert", "cleanup"} =>
            e # c /\ pc[e] = pc'[e] /\ name'[e] = name[e] /\ name[e] \in Name
    BY <2>0, <2>3, <1>n
  <2>5. \A e \in Cli : pc'[e] \in {"rmdir", "insert", "cleanup"} =>
            name[e] # name[c]
    BY <2>0, <2>4, OtherNames DEF Locked, Step
  <2>6. \A e \in Cli : pc'[e] \in {"rmdir", "insert", "cleanup"} =>
            receipt'[name'[e]] = None
    <3>1. \A e \in Cli : pc'[e] \in {"rmdir", "insert", "cleanup"} =>
              receipt[name[e]] = None
      BY <2>4 DEF FilesInv
    <3>2. \A n \in Name : n # name[c] => receipt'[n] = receipt[n]
      BY <2>t, <2>2
    <3> HIDE DEF FilesInv
    <3> QED
      BY <2>4, <2>5, <3>1, <3>2
  <2>7. \A n \in Name : n \notin dir => disk[n] = None /\ receipt'[n] = None
    BY <2>0, <2>t, <2>1, <2>2 DEF FilesInv
  <2>8. \A e \in Cli : pc'[e] = "rmdir" => disk[name'[e]] = None
    BY <2>4 DEF FilesInv
  <2>9. \A e \in Cli, n \in Name : stage'[e] # None => disk[n] # stage'[e]
    BY <2>3 DEF FilesInv
  <2>10. \A d, e \in Cli : stage'[d] # None /\ stage'[d] = stage'[e] => d = e
    BY <2>3 DEF FilesInv
  <2>11. RecordedFiles'
    BY <2>2 DEF FilesInv, RecordedFiles
  <2> QED
    BY <2>2, <2>6, <2>7, <2>8, <2>9, <2>10, <2>11 DEF FilesInv
<1>11. ASSUME NEW c \in Cli, RecordRunning(c) PROVE FilesInv'
  <2> HIDE DEF TypeOK, LocalsInv, OpLockInv, PublicationInv
  <2>1. UNCHANGED <<rows, dir, disk, receipt, name, stage>>
    BY <1>11, RecordRunningEffect
  <2>2. \A e \in Cli : pc'[e] = pc[e] \/ pc'[e] \in {"wait", "stopping"}
    BY <1>11, RecordRunningEffect DEF TypeOK
  <2> QED
    BY <2>1, <2>2
<1>12. ASSUME NEW c \in Cli, WaitForSSH(c) PROVE FilesInv'
  <2>1. CASE Exit(c)
    BY <1>12, <2>1, <1>e DEF WaitForSSH
  <2>2. CASE ~Exit(c)
    BY <1>12, <2>2, <1>n DEF WaitForSSH
  <2> QED BY <2>1, <2>2
<1>13. ASSUME NEW c \in Cli, SetActiveWorkspace(c) PROVE FilesInv'
  <2>1. CASE Exit(c)
    BY <1>13, <2>1, <1>e DEF SetActiveWorkspace
  <2>2. CASE ~Exit(c)
    BY <1>13, <2>2, <1>n DEF SetActiveWorkspace
  <2> QED BY <2>1, <2>2
<1>14. ASSUME NEW c \in Cli, StopSignal(c) PROVE FilesInv'
  BY <1>14, <1>n DEF StopSignal
<1>15. ASSUME NEW c \in Cli, StopExited(c) PROVE FilesInv'
  BY <1>15, <1>n DEF StopExited
<1>16. ASSUME NEW c \in Cli, RecordStopped(c) PROVE FilesInv'
  <2>1. CASE Exit(c)
    BY <1>16, <2>1, <1>e DEF RecordStopped, SetWorkspaceState
  <2>2. CASE ~Exit(c)
    BY <1>16, <2>2, <1>n DEF RecordStopped, SetWorkspaceState
  <2> QED BY <2>1, <2>2
<1>17. ASSUME NEW c \in Cli, RmLock(c) PROVE FilesInv'
  <2>1. CASE Exit(c)
    BY <1>17, <2>1, <1>e DEF RmLock
  <2>2. CASE ~Exit(c)
    BY <1>17, <2>2, <1>n DEF RmLock
  <2> QED BY <2>1, <2>2
<1>18. ASSUME NEW c \in Cli, RmMeta(c) PROVE FilesInv'
  BY <1>18, <1>n DEF RmMeta
<1>19. ASSUME NEW c \in Cli, DeleteWorkspace(c) PROVE FilesInv'
  BY <1>19, <1>n DEF DeleteWorkspace
<1>20. ASSUME NEW c \in Cli, RmFiles(c) PROVE FilesInv'
  BY <1>20, <1>n DEF RmFiles
<1>21. ASSUME NEW c \in Cli, RmDir(c) PROVE FilesInv'
  BY <1>21, <1>n DEF RmDir, Exit
<1>22. ASSUME NEW c \in Cli, LockSource(c) PROVE FilesInv'
  <2>1. CASE Exit(c)
    BY <1>22, <2>1, <1>e DEF LockSource
  <2>2. CASE ~Exit(c)
    BY <1>22, <2>2, <1>n DEF LockSource
  <2> QED BY <2>1, <2>2
<1>23. ASSUME NEW c \in Cli, Publish(c) PROVE FilesInv'
  <2>1. CASE Exit(c)
    BY <1>23, <2>1, <1>e DEF Publish
  <2>2. CASE ~Exit(c)
    BY <1>23, <2>2, <1>n DEF Publish
  <2> QED BY <2>1, <2>2
<1>24. ASSUME NEW c \in Cli, CloneDisk(c) PROVE FilesInv'
  <2>1. CASE Exit(c)
    BY <1>24, <2>1, <1>e DEF CloneDisk
  <2>2. CASE ~Exit(c)
    BY <1>24, <2>2, <1>n DEF CloneDisk, Fresh
  <2> QED BY <2>1, <2>2
<1>25. ASSUME NEW c \in Cli, LockMetadata(c) PROVE FilesInv'
  BY <1>25, <1>n DEF LockMetadata
<1>26. ASSUME NEW c \in Cli, Allocate(c) PROVE FilesInv'
  <2>1. CASE Exit(c)
    BY <1>26, <2>1, <1>e DEF Allocate
  <2>2. CASE ~Exit(c)
    BY <1>26, <2>2, <1>n DEF Allocate
  <2> QED BY <2>1, <2>2
<1>27. ASSUME NEW c \in Cli, Rename(c) PROVE FilesInv'
  BY <1>27, <1>n DEF Rename
<1>28. ASSUME NEW c \in Cli, CreateWorkspace(c) PROVE FilesInv'
  BY <1>28, <1>n DEF CreateWorkspace
<1>29. ASSUME NEW c \in Cli, CreateFails(c) PROVE FilesInv'
  BY <1>29, <1>n DEF CreateFails
<1>30. ASSUME NEW c \in Cli, Cleanup(c) PROVE FilesInv'
  BY <1>30, <1>n DEF Cleanup, Exit
<1>31. ASSUME NEW c \in Cli, Abort(c) PROVE FilesInv'
  BY <1>31, <1>e DEF Abort
<1>32. ASSUME NEW p \in Proc, OpenDisk(p) PROVE FilesInv'
  BY <1>32 DEF OpenDisk, Reap
<1>33. ASSUME NEW p \in Proc, FlockDisk(p) PROVE FilesInv'
  BY <1>33 DEF FlockDisk, Reap
<1>34. ASSUME NEW p \in Proc, AttachDisk(p) PROVE FilesInv'
  BY <1>34 DEF AttachDisk, Reap
<1>35. ASSUME NEW p \in Proc, GuestReady(p) PROVE FilesInv'
  BY <1>35 DEF GuestReady
<1>36. ASSUME NEW p \in Proc, ProcExit(p) PROVE FilesInv'
  BY <1>36 DEF ProcExit, Reap
<1> QED
  BY <1>1, <1>2, <1>3, <1>4, <1>5, <1>6, <1>7, <1>8, <1>9, <1>10, <1>11, <1>12,
      <1>13, <1>14, <1>15, <1>16, <1>17, <1>18, <1>19, <1>20, <1>21, <1>22, <1>23,
      <1>24, <1>25, <1>26, <1>27, <1>28, <1>29, <1>30, <1>31, <1>32, <1>33, <1>34,
      <1>35, <1>36
  DEF Next, CliNext, CliStep, VmNext

(***************************************************************************)
(* The name a command publishes stays free; the row a command has loaded   *)
(* stays.                                                                  *)
(***************************************************************************)
LEMMA PublicationInvStep ==
    ASSUME TypeOK, LocalsInv, OpLockInv, FilesInv, PublicationInv, Next
    PROVE  PublicationInv'
<1> USE NameAssumption, NoneAssumption, OwnerAssumption
<1> USE DEF TypeOK, DbType, CliType, FsType, LockType, LocalsInv, OpLockInv,
        PublicationInv, PublicationOwned, CheckNew, Loaded, Locked, Step, Subject, Goto, At,
        dbVars, fsVars, lockVars, vmVars, localVars
<1>n. ASSUME NEW c \in Cli, pc[c] # "idle" PROVE name[c] \in Name /\ Subject(c) \in Name
  BY <1>n DEF LocalsInv, Subject, CliType
<1>1. ASSUME NEW c \in Cli, Begin(c) PROVE PublicationInv'
  BY <1>1 DEF Begin
<1>2. ASSUME NEW c \in Cli, BeginFork(c) PROVE PublicationInv'
  BY <1>2 DEF BeginFork
<1>3. ASSUME NEW c \in Cli, LockSecond(c) PROVE PublicationInv'
  BY <1>3, <1>n DEF LockSecond, Exit
<1>4. ASSUME NEW c \in Cli, OpenDB(c) PROVE PublicationInv'
  BY <1>4, <1>n DEF OpenDB
<1>5. ASSUME NEW c \in Cli, LoadWorkspace(c) PROVE PublicationInv'
  BY <1>5, <1>n DEF LoadWorkspace, Exit
<1>6. ASSUME NEW c \in Cli, Reconcile(c) PROVE PublicationInv'
  BY <1>6, <1>n DEF Reconcile, Exit, SetWorkspaceState,
       AfterLoad, RunStart, RunStop, RunRm, RunSwitch, DoFork
<1>7. ASSUME NEW c \in Cli, LockDisk(c) PROVE PublicationInv'
  BY <1>7, <1>n DEF LockDisk, Exit
<1>8. ASSUME NEW c \in Cli, Prepare(c) PROVE PublicationInv'
  BY <1>8, <1>n DEF Prepare, Exit
<1>9. ASSUME NEW c \in Cli, Spawn(c) PROVE PublicationInv'
  BY <1>9, <1>n DEF Spawn, Exit
<1>10. ASSUME NEW c \in Cli, WriteProcess(c) PROVE PublicationInv'
  BY <1>10, <1>n DEF WriteProcess, Exit
<1>11. ASSUME NEW c \in Cli, RecordRunning(c) PROVE PublicationInv'
  BY <1>11, <1>n, RecordRunningEffect
<1>12. ASSUME NEW c \in Cli, WaitForSSH(c) PROVE PublicationInv'
  BY <1>12, <1>n DEF WaitForSSH, Exit
<1>13. ASSUME NEW c \in Cli, SetActiveWorkspace(c) PROVE PublicationInv'
  BY <1>13, <1>n DEF SetActiveWorkspace, Exit
<1>14. ASSUME NEW c \in Cli, StopSignal(c) PROVE PublicationInv'
  BY <1>14, <1>n DEF StopSignal
<1>15. ASSUME NEW c \in Cli, StopExited(c) PROVE PublicationInv'
  BY <1>15, <1>n DEF StopExited
<1>16. ASSUME NEW c \in Cli, RecordStopped(c) PROVE PublicationInv'
  BY <1>16, <1>n DEF RecordStopped, Exit, SetWorkspaceState
<1>17. ASSUME NEW c \in Cli, RmLock(c) PROVE PublicationInv'
  BY <1>17, <1>n DEF RmLock, Exit
<1>18. ASSUME NEW c \in Cli, RmMeta(c) PROVE PublicationInv'
  BY <1>18, <1>n DEF RmMeta
<1>19. ASSUME NEW c \in Cli, DeleteWorkspace(c) PROVE PublicationInv'
  BY <1>19, <1>n DEF DeleteWorkspace
<1>20. ASSUME NEW c \in Cli, RmFiles(c) PROVE PublicationInv'
  BY <1>20, <1>n DEF RmFiles
<1>21. ASSUME NEW c \in Cli, RmDir(c) PROVE PublicationInv'
  BY <1>21, <1>n DEF RmDir, Exit
<1>22. ASSUME NEW c \in Cli, LockSource(c) PROVE PublicationInv'
  BY <1>22, <1>n DEF LockSource, Exit
<1>23. ASSUME NEW c \in Cli, Publish(c) PROVE PublicationInv'
  BY <1>23, <1>n DEF Publish, Exit
<1>24. ASSUME NEW c \in Cli, CloneDisk(c) PROVE PublicationInv'
  BY <1>24, <1>n DEF CloneDisk, Exit
<1>25. ASSUME NEW c \in Cli, LockMetadata(c) PROVE PublicationInv'
  BY <1>25, <1>n DEF LockMetadata
<1>26. ASSUME NEW c \in Cli, Allocate(c) PROVE PublicationInv'
  BY <1>26, <1>n DEF Allocate, Exit
<1>27. ASSUME NEW c \in Cli, Rename(c) PROVE PublicationInv'
  BY <1>27, <1>n DEF Rename
<1>28. ASSUME NEW c \in Cli, CreateWorkspace(c) PROVE PublicationInv'
  BY <1>28, <1>n DEF CreateWorkspace
<1>29. ASSUME NEW c \in Cli, CreateFails(c) PROVE PublicationInv'
  BY <1>29, <1>n DEF CreateFails
<1>30. ASSUME NEW c \in Cli, Cleanup(c) PROVE PublicationInv'
  BY <1>30, <1>n DEF Cleanup, Exit
<1>31. ASSUME NEW c \in Cli, Abort(c) PROVE PublicationInv'
  BY <1>31, <1>n DEF Abort, Exit
<1>32. ASSUME NEW p \in Proc, OpenDisk(p) PROVE PublicationInv'
  BY <1>32 DEF OpenDisk, Reap
<1>33. ASSUME NEW p \in Proc, FlockDisk(p) PROVE PublicationInv'
  BY <1>33 DEF FlockDisk, Reap
<1>34. ASSUME NEW p \in Proc, AttachDisk(p) PROVE PublicationInv'
  BY <1>34 DEF AttachDisk, Reap
<1>35. ASSUME NEW p \in Proc, GuestReady(p) PROVE PublicationInv'
  BY <1>35 DEF GuestReady
<1>36. ASSUME NEW p \in Proc, ProcExit(p) PROVE PublicationInv'
  BY <1>36 DEF ProcExit, Reap
<1> QED
  BY <1>1, <1>2, <1>3, <1>4, <1>5, <1>6, <1>7, <1>8, <1>9, <1>10, <1>11, <1>12,
      <1>13, <1>14, <1>15, <1>16, <1>17, <1>18, <1>19, <1>20, <1>21, <1>22, <1>23,
      <1>24, <1>25, <1>26, <1>27, <1>28, <1>29, <1>30, <1>31, <1>32, <1>33, <1>34,
      <1>35, <1>36
  DEF Next, CliNext, CliStep, VmNext

(***************************************************************************)
(* The metadata lock keeps a chosen port free until its row is inserted.   *)
(***************************************************************************)
LEMMA PortsUniqueStep ==
    ASSUME TypeOK, LocalsInv, MetaLockInv, PublicationInv, PortsUnique, Next
    PROVE  PortsUnique'
<1> USE NameAssumption, NoneAssumption, OwnerAssumption
<1> USE DEF TypeOK, DbType, CliType, LockType, MetaLockInv, PortsUnique,
        Insertable, CheckNew, Goto, At,
        dbVars, fsVars, lockVars, vmVars, localVars
<1>e. ASSUME NEW c \in Cli, Exit(c), UNCHANGED <<rows, sshPort>> PROVE PortsUnique'
  BY <1>e DEF Exit
<1>n. ASSUME NEW c \in Cli, pc[c] # "idle" PROVE name[c] \in Name /\ Subject(c) \in Name
  BY <1>n DEF LocalsInv, Subject, CliType
<1>1. ASSUME NEW c \in Cli, Begin(c) PROVE PortsUnique'
  BY <1>1 DEF Begin
<1>2. ASSUME NEW c \in Cli, BeginFork(c) PROVE PortsUnique'
  BY <1>2 DEF BeginFork
<1>3. ASSUME NEW c \in Cli, LockSecond(c) PROVE PortsUnique'
  <2>1. CASE Exit(c)
    BY <1>3, <2>1, <1>e DEF LockSecond
  <2>2. CASE ~Exit(c)
    BY <1>3, <2>2, <1>n DEF LockSecond
  <2> QED BY <2>1, <2>2
<1>4. ASSUME NEW c \in Cli, OpenDB(c) PROVE PortsUnique'
  BY <1>4, <1>n DEF OpenDB
<1>5. ASSUME NEW c \in Cli, LoadWorkspace(c) PROVE PortsUnique'
  <2>1. CASE Exit(c)
    BY <1>5, <2>1, <1>e DEF LoadWorkspace
  <2>2. CASE ~Exit(c)
    BY <1>5, <2>2, <1>n DEF LoadWorkspace
  <2> QED BY <2>1, <2>2
<1>6. ASSUME NEW c \in Cli, Reconcile(c) PROVE PortsUnique'
  <2>1. CASE Exit(c)
    BY <1>6, <2>1, <1>e DEF Reconcile, SetWorkspaceState
  <2>2. CASE ~Exit(c)
    BY <1>6, <2>2, <1>n DEF Reconcile, SetWorkspaceState,
         AfterLoad, RunStart, RunStop, RunRm, RunSwitch, DoFork
  <2> QED BY <2>1, <2>2
<1>7. ASSUME NEW c \in Cli, LockDisk(c) PROVE PortsUnique'
  <2>1. CASE Exit(c)
    BY <1>7, <2>1, <1>e DEF LockDisk
  <2>2. CASE ~Exit(c)
    BY <1>7, <2>2, <1>n DEF LockDisk
  <2> QED BY <2>1, <2>2
<1>8. ASSUME NEW c \in Cli, Prepare(c) PROVE PortsUnique'
  <2>1. CASE Exit(c)
    BY <1>8, <2>1, <1>e DEF Prepare
  <2>2. CASE ~Exit(c)
    BY <1>8, <2>2, <1>n DEF Prepare
  <2> QED BY <2>1, <2>2
<1>9. ASSUME NEW c \in Cli, Spawn(c) PROVE PortsUnique'
  <2>1. CASE Exit(c)
    BY <1>9, <2>1, <1>e DEF Spawn
  <2>2. CASE ~Exit(c)
    BY <1>9, <2>2, <1>n DEF Spawn
  <2> QED BY <2>1, <2>2
<1>10. ASSUME NEW c \in Cli, WriteProcess(c) PROVE PortsUnique'
  <2>1. CASE Exit(c)
    BY <1>10, <2>1, <1>e DEF WriteProcess
  <2>2. CASE ~Exit(c)
    BY <1>10, <2>2, <1>n DEF WriteProcess
  <2> QED BY <2>1, <2>2
<1>11. ASSUME NEW c \in Cli, RecordRunning(c) PROVE PortsUnique'
  <2>1. UNCHANGED <<rows, sshPort, port, name>>
    BY <1>11, RecordRunningEffect
  <2>2. \A e \in Cli : pc'[e] \in {"rename", "insert"} => pc'[e] = pc[e]
    BY <1>11, RecordRunningEffect
  <2> QED
    BY <2>1, <2>2
<1>12. ASSUME NEW c \in Cli, WaitForSSH(c) PROVE PortsUnique'
  <2>1. CASE Exit(c)
    BY <1>12, <2>1, <1>e DEF WaitForSSH
  <2>2. CASE ~Exit(c)
    BY <1>12, <2>2, <1>n DEF WaitForSSH
  <2> QED BY <2>1, <2>2
<1>13. ASSUME NEW c \in Cli, SetActiveWorkspace(c) PROVE PortsUnique'
  <2>1. CASE Exit(c)
    BY <1>13, <2>1, <1>e DEF SetActiveWorkspace
  <2>2. CASE ~Exit(c)
    BY <1>13, <2>2, <1>n DEF SetActiveWorkspace
  <2> QED BY <2>1, <2>2
<1>14. ASSUME NEW c \in Cli, StopSignal(c) PROVE PortsUnique'
  BY <1>14, <1>n DEF StopSignal
<1>15. ASSUME NEW c \in Cli, StopExited(c) PROVE PortsUnique'
  BY <1>15, <1>n DEF StopExited
<1>16. ASSUME NEW c \in Cli, RecordStopped(c) PROVE PortsUnique'
  <2>1. CASE Exit(c)
    BY <1>16, <2>1, <1>e DEF RecordStopped, SetWorkspaceState
  <2>2. CASE ~Exit(c)
    BY <1>16, <2>2, <1>n DEF RecordStopped, SetWorkspaceState
  <2> QED BY <2>1, <2>2
<1>17. ASSUME NEW c \in Cli, RmLock(c) PROVE PortsUnique'
  <2>1. CASE Exit(c)
    BY <1>17, <2>1, <1>e DEF RmLock
  <2>2. CASE ~Exit(c)
    BY <1>17, <2>2, <1>n DEF RmLock
  <2> QED BY <2>1, <2>2
<1>18. ASSUME NEW c \in Cli, RmMeta(c) PROVE PortsUnique'
  BY <1>18, <1>n DEF RmMeta
<1>19. ASSUME NEW c \in Cli, DeleteWorkspace(c) PROVE PortsUnique'
  BY <1>19, <1>n DEF DeleteWorkspace
<1>20. ASSUME NEW c \in Cli, RmFiles(c) PROVE PortsUnique'
  BY <1>20, <1>n DEF RmFiles
<1>21. ASSUME NEW c \in Cli, RmDir(c) PROVE PortsUnique'
  BY <1>21, <1>e DEF RmDir
<1>22. ASSUME NEW c \in Cli, LockSource(c) PROVE PortsUnique'
  <2>1. CASE Exit(c)
    BY <1>22, <2>1, <1>e DEF LockSource
  <2>2. CASE ~Exit(c)
    BY <1>22, <2>2, <1>n DEF LockSource
  <2> QED BY <2>1, <2>2
<1>23. ASSUME NEW c \in Cli, Publish(c) PROVE PortsUnique'
  <2>1. CASE Exit(c)
    BY <1>23, <2>1, <1>e DEF Publish
  <2>2. CASE ~Exit(c)
    BY <1>23, <2>2, <1>n DEF Publish
  <2> QED BY <2>1, <2>2
<1>24. ASSUME NEW c \in Cli, CloneDisk(c) PROVE PortsUnique'
  <2>1. CASE Exit(c)
    BY <1>24, <2>1, <1>e DEF CloneDisk
  <2>2. CASE ~Exit(c)
    BY <1>24, <2>2, <1>n DEF CloneDisk
  <2> QED BY <2>1, <2>2
<1>25. ASSUME NEW c \in Cli, LockMetadata(c) PROVE PortsUnique'
  BY <1>25, <1>n DEF LockMetadata
<1>26. ASSUME NEW c \in Cli, Allocate(c) PROVE PortsUnique'
  <2>1. CASE Exit(c)
    BY <1>26, <2>1, <1>e DEF Allocate
  <2>2. CASE ~Exit(c)
    <3>1. PICK q \in AvailablePorts : port' = [port EXCEPT ![c] = q]
      BY <1>26, <2>2 DEF Allocate
    <3>2. q \in SSHPort /\ \A m \in rows : sshPort[m] # q
      BY <3>1, PortAssumption DEF AvailablePorts
    <3> QED
      BY <1>26, <2>2, <3>1, <3>2 DEF Allocate
  <2> QED BY <2>1, <2>2
<1>27. ASSUME NEW c \in Cli, Rename(c) PROVE PortsUnique'
  BY <1>27, <1>n DEF Rename
<1>28. ASSUME NEW c \in Cli, CreateWorkspace(c) PROVE PortsUnique'
  BY <1>28, <1>n DEF CreateWorkspace
<1>29. ASSUME NEW c \in Cli, CreateFails(c) PROVE PortsUnique'
  BY <1>29, <1>n DEF CreateFails
<1>30. ASSUME NEW c \in Cli, Cleanup(c) PROVE PortsUnique'
  BY <1>30, <1>n DEF Cleanup, Exit
<1>31. ASSUME NEW c \in Cli, Abort(c) PROVE PortsUnique'
  BY <1>31, <1>e DEF Abort
<1>32. ASSUME NEW p \in Proc, OpenDisk(p) PROVE PortsUnique'
  BY <1>32 DEF OpenDisk, Reap
<1>33. ASSUME NEW p \in Proc, FlockDisk(p) PROVE PortsUnique'
  BY <1>33 DEF FlockDisk, Reap
<1>34. ASSUME NEW p \in Proc, AttachDisk(p) PROVE PortsUnique'
  BY <1>34 DEF AttachDisk, Reap
<1>35. ASSUME NEW p \in Proc, GuestReady(p) PROVE PortsUnique'
  BY <1>35 DEF GuestReady
<1>36. ASSUME NEW p \in Proc, ProcExit(p) PROVE PortsUnique'
  BY <1>36 DEF ProcExit, Reap
<1> QED
  BY <1>1, <1>2, <1>3, <1>4, <1>5, <1>6, <1>7, <1>8, <1>9, <1>10, <1>11, <1>12,
      <1>13, <1>14, <1>15, <1>16, <1>17, <1>18, <1>19, <1>20, <1>21, <1>22, <1>23,
      <1>24, <1>25, <1>26, <1>27, <1>28, <1>29, <1>30, <1>31, <1>32, <1>33, <1>34,
      <1>35, <1>36
  DEF Next, CliNext, CliStep, VmNext

(***************************************************************************)
(* The routing target is unique and recorded as running.                   *)
(***************************************************************************)
LEMMA OneRoutingTargetStep ==
    ASSUME TypeOK, LocalsInv, PublicationInv, OneRoutingTarget, Next
    PROVE  OneRoutingTarget'
<1> USE NameAssumption, NoneAssumption, OwnerAssumption
<1> USE DEF TypeOK, DbType, CliType, PublicationInv, PublicationOwned,
        OneRoutingTarget, Loaded, Subject, Goto, At,
        dbVars, fsVars, lockVars, vmVars, localVars
<1>e. ASSUME NEW c \in Cli, Exit(c), UNCHANGED <<active, rows, dbState>> PROVE
        OneRoutingTarget'
  BY <1>e DEF Exit
<1>n. ASSUME NEW c \in Cli, pc[c] # "idle" PROVE name[c] \in Name /\ Subject(c) \in Name
  BY <1>n DEF LocalsInv, Subject, CliType
<1>1. ASSUME NEW c \in Cli, Begin(c) PROVE OneRoutingTarget'
  BY <1>1 DEF Begin
<1>2. ASSUME NEW c \in Cli, BeginFork(c) PROVE OneRoutingTarget'
  BY <1>2 DEF BeginFork
<1>3. ASSUME NEW c \in Cli, LockSecond(c) PROVE OneRoutingTarget'
  <2>1. CASE Exit(c)
    BY <1>3, <2>1, <1>e DEF LockSecond
  <2>2. CASE ~Exit(c)
    BY <1>3, <2>2, <1>n DEF LockSecond
  <2> QED BY <2>1, <2>2
<1>4. ASSUME NEW c \in Cli, OpenDB(c) PROVE OneRoutingTarget'
  BY <1>4, <1>n DEF OpenDB
<1>5. ASSUME NEW c \in Cli, LoadWorkspace(c) PROVE OneRoutingTarget'
  <2>1. CASE Exit(c)
    BY <1>5, <2>1, <1>e DEF LoadWorkspace
  <2>2. CASE ~Exit(c)
    BY <1>5, <2>2, <1>n DEF LoadWorkspace
  <2> QED BY <2>1, <2>2
<1>6. ASSUME NEW c \in Cli, Reconcile(c) PROVE OneRoutingTarget'
  <2>1. CASE Exit(c)
    BY <1>6, <2>1, <1>e DEF Reconcile, SetWorkspaceState
  <2>2. CASE ~Exit(c)
    BY <1>6, <2>2, <1>n DEF Reconcile, SetWorkspaceState
  <2> QED BY <2>1, <2>2
<1>7. ASSUME NEW c \in Cli, LockDisk(c) PROVE OneRoutingTarget'
  <2>1. CASE Exit(c)
    BY <1>7, <2>1, <1>e DEF LockDisk
  <2>2. CASE ~Exit(c)
    BY <1>7, <2>2, <1>n DEF LockDisk
  <2> QED BY <2>1, <2>2
<1>8. ASSUME NEW c \in Cli, Prepare(c) PROVE OneRoutingTarget'
  <2>1. CASE Exit(c)
    BY <1>8, <2>1, <1>e DEF Prepare
  <2>2. CASE ~Exit(c)
    BY <1>8, <2>2, <1>n DEF Prepare
  <2> QED BY <2>1, <2>2
<1>9. ASSUME NEW c \in Cli, Spawn(c) PROVE OneRoutingTarget'
  <2>1. CASE Exit(c)
    BY <1>9, <2>1, <1>e DEF Spawn
  <2>2. CASE ~Exit(c)
    BY <1>9, <2>2, <1>n DEF Spawn
  <2> QED BY <2>1, <2>2
<1>10. ASSUME NEW c \in Cli, WriteProcess(c) PROVE OneRoutingTarget'
  <2>1. CASE Exit(c)
    BY <1>10, <2>1, <1>e DEF WriteProcess
  <2>2. CASE ~Exit(c)
    BY <1>10, <2>2, <1>n DEF WriteProcess
  <2> QED BY <2>1, <2>2
<1>11. ASSUME NEW c \in Cli, RecordRunning(c) PROVE OneRoutingTarget'
  <2>1. active' = active /\ rows' = rows /\ name[c] \in Name
    BY <1>11, <1>n, RecordRunningEffect
  <2>2. \A n \in Name : dbState[n] = "running" => dbState'[n] = "running"
    BY <1>11, <2>1, RecordRunningEffect
  <2> QED
    BY <2>1, <2>2
<1>12. ASSUME NEW c \in Cli, WaitForSSH(c) PROVE OneRoutingTarget'
  <2>1. CASE Exit(c)
    BY <1>12, <2>1, <1>e DEF WaitForSSH
  <2>2. CASE ~Exit(c)
    BY <1>12, <2>2, <1>n DEF WaitForSSH
  <2> QED BY <2>1, <2>2
<1>13. ASSUME NEW c \in Cli, SetActiveWorkspace(c) PROVE OneRoutingTarget'
  <2>1. CASE Exit(c)
    BY <1>13, <2>1, <1>e DEF SetActiveWorkspace
  <2>2. CASE ~Exit(c)
    BY <1>13, <2>2, <1>n DEF SetActiveWorkspace
  <2> QED BY <2>1, <2>2
<1>14. ASSUME NEW c \in Cli, StopSignal(c) PROVE OneRoutingTarget'
  BY <1>14, <1>n DEF StopSignal
<1>15. ASSUME NEW c \in Cli, StopExited(c) PROVE OneRoutingTarget'
  BY <1>15, <1>n DEF StopExited
<1>16. ASSUME NEW c \in Cli, RecordStopped(c) PROVE OneRoutingTarget'
  <2>1. CASE Exit(c)
    BY <1>16, <2>1, <1>e DEF RecordStopped, SetWorkspaceState
  <2>2. CASE ~Exit(c)
    BY <1>16, <2>2, <1>n DEF RecordStopped, SetWorkspaceState
  <2> QED BY <2>1, <2>2
<1>17. ASSUME NEW c \in Cli, RmLock(c) PROVE OneRoutingTarget'
  <2>1. CASE Exit(c)
    BY <1>17, <2>1, <1>e DEF RmLock
  <2>2. CASE ~Exit(c)
    BY <1>17, <2>2, <1>n DEF RmLock
  <2> QED BY <2>1, <2>2
<1>18. ASSUME NEW c \in Cli, RmMeta(c) PROVE OneRoutingTarget'
  BY <1>18, <1>n DEF RmMeta
<1>19. ASSUME NEW c \in Cli, DeleteWorkspace(c) PROVE OneRoutingTarget'
  BY <1>19, <1>n DEF DeleteWorkspace
<1>20. ASSUME NEW c \in Cli, RmFiles(c) PROVE OneRoutingTarget'
  BY <1>20, <1>n DEF RmFiles
<1>21. ASSUME NEW c \in Cli, RmDir(c) PROVE OneRoutingTarget'
  BY <1>21, <1>e DEF RmDir
<1>22. ASSUME NEW c \in Cli, LockSource(c) PROVE OneRoutingTarget'
  <2>1. CASE Exit(c)
    BY <1>22, <2>1, <1>e DEF LockSource
  <2>2. CASE ~Exit(c)
    BY <1>22, <2>2, <1>n DEF LockSource
  <2> QED BY <2>1, <2>2
<1>23. ASSUME NEW c \in Cli, Publish(c) PROVE OneRoutingTarget'
  <2>1. CASE Exit(c)
    BY <1>23, <2>1, <1>e DEF Publish
  <2>2. CASE ~Exit(c)
    BY <1>23, <2>2, <1>n DEF Publish
  <2> QED BY <2>1, <2>2
<1>24. ASSUME NEW c \in Cli, CloneDisk(c) PROVE OneRoutingTarget'
  <2>1. CASE Exit(c)
    BY <1>24, <2>1, <1>e DEF CloneDisk
  <2>2. CASE ~Exit(c)
    BY <1>24, <2>2, <1>n DEF CloneDisk
  <2> QED BY <2>1, <2>2
<1>25. ASSUME NEW c \in Cli, LockMetadata(c) PROVE OneRoutingTarget'
  BY <1>25, <1>n DEF LockMetadata
<1>26. ASSUME NEW c \in Cli, Allocate(c) PROVE OneRoutingTarget'
  <2>1. CASE Exit(c)
    BY <1>26, <2>1, <1>e DEF Allocate
  <2>2. CASE ~Exit(c)
    BY <1>26, <2>2, <1>n DEF Allocate
  <2> QED BY <2>1, <2>2
<1>27. ASSUME NEW c \in Cli, Rename(c) PROVE OneRoutingTarget'
  BY <1>27, <1>n DEF Rename
<1>28. ASSUME NEW c \in Cli, CreateWorkspace(c) PROVE OneRoutingTarget'
  BY <1>28, <1>n DEF CreateWorkspace
<1>29. ASSUME NEW c \in Cli, CreateFails(c) PROVE OneRoutingTarget'
  BY <1>29, <1>n DEF CreateFails
<1>30. ASSUME NEW c \in Cli, Cleanup(c) PROVE OneRoutingTarget'
  BY <1>30, <1>n DEF Cleanup, Exit
<1>31. ASSUME NEW c \in Cli, Abort(c) PROVE OneRoutingTarget'
  BY <1>31, <1>e DEF Abort
<1>32. ASSUME NEW p \in Proc, OpenDisk(p) PROVE OneRoutingTarget'
  BY <1>32 DEF OpenDisk, Reap
<1>33. ASSUME NEW p \in Proc, FlockDisk(p) PROVE OneRoutingTarget'
  BY <1>33 DEF FlockDisk, Reap
<1>34. ASSUME NEW p \in Proc, AttachDisk(p) PROVE OneRoutingTarget'
  BY <1>34 DEF AttachDisk, Reap
<1>35. ASSUME NEW p \in Proc, GuestReady(p) PROVE OneRoutingTarget'
  BY <1>35 DEF GuestReady
<1>36. ASSUME NEW p \in Proc, ProcExit(p) PROVE OneRoutingTarget'
  BY <1>36 DEF ProcExit, Reap
<1> QED
  BY <1>1, <1>2, <1>3, <1>4, <1>5, <1>6, <1>7, <1>8, <1>9, <1>10, <1>11, <1>12,
      <1>13, <1>14, <1>15, <1>16, <1>17, <1>18, <1>19, <1>20, <1>21, <1>22, <1>23,
      <1>24, <1>25, <1>26, <1>27, <1>28, <1>29, <1>30, <1>31, <1>32, <1>33, <1>34,
      <1>35, <1>36
  DEF Next, CliNext, CliStep, VmNext

(***************************************************************************)
(* The row of a running workspace names the incarnation of its receipt.    *)
(***************************************************************************)
LEMMA RunningHasReceiptStep ==
    ASSUME TypeOK, LocalsInv, FilesInv, PublicationInv, RunningHasReceipt, KnownInv, Next
    PROVE  RunningHasReceipt'
<1> USE NameAssumption, NoneAssumption, OwnerAssumption
<1> USE DEF TypeOK, DbType, CliType, FsType, PublicationInv, PublicationOwned,
        RunningHasReceipt, KnownInv, Known, Loaded, Halted, Goto, At,
        dbVars, fsVars, lockVars, vmVars, localVars
<1>e. ASSUME NEW c \in Cli, Exit(c), UNCHANGED <<rows, dbState, dbPid, receipt>>
        PROVE RunningHasReceipt'
  BY <1>e DEF Exit
<1>n. ASSUME NEW c \in Cli, pc[c] # "idle" PROVE name[c] \in Name /\ Subject(c) \in Name
  BY <1>n DEF LocalsInv, Subject, CliType
<1>1. ASSUME NEW c \in Cli, Begin(c) PROVE RunningHasReceipt'
  BY <1>1 DEF Begin
<1>2. ASSUME NEW c \in Cli, BeginFork(c) PROVE RunningHasReceipt'
  BY <1>2 DEF BeginFork
<1>3. ASSUME NEW c \in Cli, LockSecond(c) PROVE RunningHasReceipt'
  <2>1. CASE Exit(c)
    BY <1>3, <2>1, <1>e DEF LockSecond
  <2>2. CASE ~Exit(c)
    BY <1>3, <2>2, <1>n DEF LockSecond
  <2> QED BY <2>1, <2>2
<1>4. ASSUME NEW c \in Cli, OpenDB(c) PROVE RunningHasReceipt'
  BY <1>4, <1>n DEF OpenDB
<1>5. ASSUME NEW c \in Cli, LoadWorkspace(c) PROVE RunningHasReceipt'
  <2>1. CASE Exit(c)
    BY <1>5, <2>1, <1>e DEF LoadWorkspace
  <2>2. CASE ~Exit(c)
    BY <1>5, <2>2, <1>n DEF LoadWorkspace
  <2> QED BY <2>1, <2>2
<1>6. ASSUME NEW c \in Cli, Reconcile(c) PROVE RunningHasReceipt'
  <2>1. CASE Exit(c)
    BY <1>6, <2>1, <1>e DEF Reconcile, SetWorkspaceState
  <2>2. CASE ~Exit(c)
    BY <1>6, <2>2, <1>n DEF Reconcile, SetWorkspaceState
  <2> QED BY <2>1, <2>2
<1>7. ASSUME NEW c \in Cli, LockDisk(c) PROVE RunningHasReceipt'
  <2>1. CASE Exit(c)
    BY <1>7, <2>1, <1>e DEF LockDisk
  <2>2. CASE ~Exit(c)
    BY <1>7, <2>2, <1>n DEF LockDisk
  <2> QED BY <2>1, <2>2
<1>8. ASSUME NEW c \in Cli, Prepare(c) PROVE RunningHasReceipt'
  <2>1. CASE Exit(c)
    BY <1>8, <2>1, <1>e DEF Prepare
  <2>2. CASE ~Exit(c)
    BY <1>8, <2>2, <1>n DEF Prepare
  <2> QED BY <2>1, <2>2
<1>9. ASSUME NEW c \in Cli, Spawn(c) PROVE RunningHasReceipt'
  <2>1. CASE Exit(c)
    BY <1>9, <2>1, <1>e DEF Spawn
  <2>2. CASE ~Exit(c)
    BY <1>9, <2>2, <1>n DEF Spawn
  <2> QED BY <2>1, <2>2
<1>10. ASSUME NEW c \in Cli, WriteProcess(c) PROVE RunningHasReceipt'
  <2>1. CASE Exit(c)
    BY <1>10, <2>1, <1>e DEF WriteProcess
  <2>2. CASE ~Exit(c)
    BY <1>10, <2>2, <1>n DEF WriteProcess
  <2> QED BY <2>1, <2>2
<1>11. ASSUME NEW c \in Cli, RecordRunning(c) PROVE RunningHasReceipt'
  <2>1. rows' = rows /\ receipt' = receipt
    BY <1>11, RecordRunningEffect
  <2>2. name[c] \in Name /\ proc[c] \in Proc /\ receipt[name[c]] = proc[c]
    BY <1>11, <1>n, RecordRunningEffect DEF LocalsInv
  <2>3. \A n \in Name : \/ dbState'[n] = dbState[n] /\ dbPid'[n] = dbPid[n]
                        \/ n = name[c] /\ dbPid'[n] = proc[c]
    BY <1>11, <2>2, RecordRunningEffect
  <2> QED
    BY <2>1, <2>2, <2>3
<1>12. ASSUME NEW c \in Cli, WaitForSSH(c) PROVE RunningHasReceipt'
  <2>1. CASE Exit(c)
    BY <1>12, <2>1, <1>e DEF WaitForSSH
  <2>2. CASE ~Exit(c)
    BY <1>12, <2>2, <1>n DEF WaitForSSH
  <2> QED BY <2>1, <2>2
<1>13. ASSUME NEW c \in Cli, SetActiveWorkspace(c) PROVE RunningHasReceipt'
  <2>1. CASE Exit(c)
    BY <1>13, <2>1, <1>e DEF SetActiveWorkspace
  <2>2. CASE ~Exit(c)
    BY <1>13, <2>2, <1>n DEF SetActiveWorkspace
  <2> QED BY <2>1, <2>2
<1>14. ASSUME NEW c \in Cli, StopSignal(c) PROVE RunningHasReceipt'
  BY <1>14, <1>n DEF StopSignal
<1>15. ASSUME NEW c \in Cli, StopExited(c) PROVE RunningHasReceipt'
  BY <1>15, <1>n DEF StopExited
<1>16. ASSUME NEW c \in Cli, RecordStopped(c) PROVE RunningHasReceipt'
  <2>1. CASE Exit(c)
    BY <1>16, <2>1, <1>e DEF RecordStopped, SetWorkspaceState
  <2>2. CASE ~Exit(c)
    BY <1>16, <2>2, <1>n DEF RecordStopped, SetWorkspaceState
  <2> QED BY <2>1, <2>2
<1>17. ASSUME NEW c \in Cli, RmLock(c) PROVE RunningHasReceipt'
  <2>1. CASE Exit(c)
    BY <1>17, <2>1, <1>e DEF RmLock
  <2>2. CASE ~Exit(c)
    BY <1>17, <2>2, <1>n DEF RmLock
  <2> QED BY <2>1, <2>2
<1>18. ASSUME NEW c \in Cli, RmMeta(c) PROVE RunningHasReceipt'
  BY <1>18, <1>n DEF RmMeta
<1>19. ASSUME NEW c \in Cli, DeleteWorkspace(c) PROVE RunningHasReceipt'
  BY <1>19, <1>n DEF DeleteWorkspace
<1>20. ASSUME NEW c \in Cli, RmFiles(c) PROVE RunningHasReceipt'
  BY <1>20, <1>n DEF RmFiles
<1>21. ASSUME NEW c \in Cli, RmDir(c) PROVE RunningHasReceipt'
  BY <1>21, <1>e DEF RmDir
<1>22. ASSUME NEW c \in Cli, LockSource(c) PROVE RunningHasReceipt'
  <2>1. CASE Exit(c)
    BY <1>22, <2>1, <1>e DEF LockSource
  <2>2. CASE ~Exit(c)
    BY <1>22, <2>2, <1>n DEF LockSource
  <2> QED BY <2>1, <2>2
<1>23. ASSUME NEW c \in Cli, Publish(c) PROVE RunningHasReceipt'
  <2>1. CASE Exit(c)
    BY <1>23, <2>1, <1>e DEF Publish
  <2>2. CASE ~Exit(c)
    BY <1>23, <2>2, <1>n DEF Publish
  <2> QED BY <2>1, <2>2
<1>24. ASSUME NEW c \in Cli, CloneDisk(c) PROVE RunningHasReceipt'
  <2>1. CASE Exit(c)
    BY <1>24, <2>1, <1>e DEF CloneDisk
  <2>2. CASE ~Exit(c)
    BY <1>24, <2>2, <1>n DEF CloneDisk
  <2> QED BY <2>1, <2>2
<1>25. ASSUME NEW c \in Cli, LockMetadata(c) PROVE RunningHasReceipt'
  BY <1>25, <1>n DEF LockMetadata
<1>26. ASSUME NEW c \in Cli, Allocate(c) PROVE RunningHasReceipt'
  <2>1. CASE Exit(c)
    BY <1>26, <2>1, <1>e DEF Allocate
  <2>2. CASE ~Exit(c)
    BY <1>26, <2>2, <1>n DEF Allocate
  <2> QED BY <2>1, <2>2
<1>27. ASSUME NEW c \in Cli, Rename(c) PROVE RunningHasReceipt'
  BY <1>27, <1>n DEF Rename, CheckNew
<1>28. ASSUME NEW c \in Cli, CreateWorkspace(c) PROVE RunningHasReceipt'
  BY <1>28, <1>n DEF CreateWorkspace
<1>29. ASSUME NEW c \in Cli, CreateFails(c) PROVE RunningHasReceipt'
  BY <1>29, <1>n DEF CreateFails
<1>30. ASSUME NEW c \in Cli, Cleanup(c) PROVE RunningHasReceipt'
  BY <1>30, <1>n DEF Cleanup, Exit
<1>31. ASSUME NEW c \in Cli, Abort(c) PROVE RunningHasReceipt'
  BY <1>31, <1>e DEF Abort
<1>32. ASSUME NEW p \in Proc, OpenDisk(p) PROVE RunningHasReceipt'
  BY <1>32 DEF OpenDisk, Reap
<1>33. ASSUME NEW p \in Proc, FlockDisk(p) PROVE RunningHasReceipt'
  BY <1>33 DEF FlockDisk, Reap
<1>34. ASSUME NEW p \in Proc, AttachDisk(p) PROVE RunningHasReceipt'
  BY <1>34 DEF AttachDisk, Reap
<1>35. ASSUME NEW p \in Proc, GuestReady(p) PROVE RunningHasReceipt'
  BY <1>35 DEF GuestReady
<1>36. ASSUME NEW p \in Proc, ProcExit(p) PROVE RunningHasReceipt'
  BY <1>36 DEF ProcExit, Reap
<1> QED
  BY <1>1, <1>2, <1>3, <1>4, <1>5, <1>6, <1>7, <1>8, <1>9, <1>10, <1>11, <1>12,
      <1>13, <1>14, <1>15, <1>16, <1>17, <1>18, <1>19, <1>20, <1>21, <1>22, <1>23,
      <1>24, <1>25, <1>26, <1>27, <1>28, <1>29, <1>30, <1>31, <1>32, <1>33, <1>34,
      <1>35, <1>36
  DEF Next, CliNext, CliStep, VmNext

(***************************************************************************)
(* A recorded or remembered incarnation has been launched.                 *)
(***************************************************************************)
LEMMA LaunchedInvStep ==
    ASSUME TypeOK, LocalsInv, LaunchedInv, Next
    PROVE  LaunchedInv'
<1> USE NameAssumption, NoneAssumption, OwnerAssumption
<1> USE DEF TypeOK, CliType, FsType, VmType, LaunchedInv, Alive, Goto, At,
        dbVars, fsVars, lockVars, vmVars, localVars
<1>e. ASSUME NEW c \in Cli, Exit(c), UNCHANGED <<receipt, phase>> PROVE LaunchedInv'
  BY <1>e DEF Exit
<1>n. ASSUME NEW c \in Cli, pc[c] # "idle" PROVE name[c] \in Name /\ Subject(c) \in Name
  BY <1>n DEF LocalsInv, Subject, CliType
<1>1. ASSUME NEW c \in Cli, Begin(c) PROVE LaunchedInv'
  BY <1>1 DEF Begin
<1>2. ASSUME NEW c \in Cli, BeginFork(c) PROVE LaunchedInv'
  BY <1>2 DEF BeginFork
<1>3. ASSUME NEW c \in Cli, LockSecond(c) PROVE LaunchedInv'
  <2>1. CASE Exit(c)
    BY <1>3, <2>1, <1>e DEF LockSecond
  <2>2. CASE ~Exit(c)
    BY <1>3, <2>2, <1>n DEF LockSecond
  <2> QED BY <2>1, <2>2
<1>4. ASSUME NEW c \in Cli, OpenDB(c) PROVE LaunchedInv'
  BY <1>4, <1>n DEF OpenDB
<1>5. ASSUME NEW c \in Cli, LoadWorkspace(c) PROVE LaunchedInv'
  <2>1. CASE Exit(c)
    BY <1>5, <2>1, <1>e DEF LoadWorkspace
  <2>2. CASE ~Exit(c)
    BY <1>5, <2>2, <1>n DEF LoadWorkspace
  <2> QED BY <2>1, <2>2
<1>6. ASSUME NEW c \in Cli, Reconcile(c) PROVE LaunchedInv'
  <2>1. CASE Exit(c)
    BY <1>6, <2>1, <1>e DEF Reconcile, SetWorkspaceState
  <2>2. CASE ~Exit(c)
    BY <1>6, <2>2, <1>n DEF Reconcile, SetWorkspaceState
  <2> QED BY <2>1, <2>2
<1>7. ASSUME NEW c \in Cli, LockDisk(c) PROVE LaunchedInv'
  <2>1. CASE Exit(c)
    BY <1>7, <2>1, <1>e DEF LockDisk
  <2>2. CASE ~Exit(c)
    BY <1>7, <2>2, <1>n DEF LockDisk
  <2> QED BY <2>1, <2>2
<1>8. ASSUME NEW c \in Cli, Prepare(c) PROVE LaunchedInv'
  <2>1. CASE Exit(c)
    BY <1>8, <2>1, <1>e DEF Prepare
  <2>2. CASE ~Exit(c)
    BY <1>8, <2>2, <1>n DEF Prepare
  <2> QED BY <2>1, <2>2
<1>9. ASSUME NEW c \in Cli, Spawn(c) PROVE LaunchedInv'
  <2>1. CASE Exit(c)
    BY <1>9, <2>1, <1>e DEF Spawn
  <2>2. CASE ~Exit(c)
    BY <1>9, <2>2, <1>n DEF Spawn
  <2> QED BY <2>1, <2>2
<1>10. ASSUME NEW c \in Cli, WriteProcess(c) PROVE LaunchedInv'
  <2>1. /\ receipt' \in {receipt, [receipt EXCEPT ![name[c]] = proc[c]]}
        /\ proc[c] \in Proc /\ name[c] \in Name
        /\ \A p \in Proc : phase[p] # "free" => phase'[p] # "free"
        /\ \A e \in Cli : proc'[e] \in {proc[e], None}
    BY <1>10, <1>n DEF WriteProcess, Exit, LocalsInv
  <2> QED
    BY <2>1
<1>11. ASSUME NEW c \in Cli, RecordRunning(c) PROVE LaunchedInv'
  BY <1>11, <1>n, RecordRunningEffect
<1>12. ASSUME NEW c \in Cli, WaitForSSH(c) PROVE LaunchedInv'
  <2>1. CASE Exit(c)
    BY <1>12, <2>1, <1>e DEF WaitForSSH
  <2>2. CASE ~Exit(c)
    BY <1>12, <2>2, <1>n DEF WaitForSSH
  <2> QED BY <2>1, <2>2
<1>13. ASSUME NEW c \in Cli, SetActiveWorkspace(c) PROVE LaunchedInv'
  <2>1. CASE Exit(c)
    BY <1>13, <2>1, <1>e DEF SetActiveWorkspace
  <2>2. CASE ~Exit(c)
    BY <1>13, <2>2, <1>n DEF SetActiveWorkspace
  <2> QED BY <2>1, <2>2
<1>14. ASSUME NEW c \in Cli, StopSignal(c) PROVE LaunchedInv'
  BY <1>14, <1>n DEF StopSignal
<1>15. ASSUME NEW c \in Cli, StopExited(c) PROVE LaunchedInv'
  BY <1>15, <1>n DEF StopExited
<1>16. ASSUME NEW c \in Cli, RecordStopped(c) PROVE LaunchedInv'
  <2>1. CASE Exit(c)
    BY <1>16, <2>1, <1>e DEF RecordStopped, SetWorkspaceState
  <2>2. CASE ~Exit(c)
    BY <1>16, <2>2, <1>n DEF RecordStopped, SetWorkspaceState
  <2> QED BY <2>1, <2>2
<1>17. ASSUME NEW c \in Cli, RmLock(c) PROVE LaunchedInv'
  <2>1. CASE Exit(c)
    BY <1>17, <2>1, <1>e DEF RmLock
  <2>2. CASE ~Exit(c)
    BY <1>17, <2>2, <1>n DEF RmLock
  <2> QED BY <2>1, <2>2
<1>18. ASSUME NEW c \in Cli, RmMeta(c) PROVE LaunchedInv'
  BY <1>18, <1>n DEF RmMeta
<1>19. ASSUME NEW c \in Cli, DeleteWorkspace(c) PROVE LaunchedInv'
  BY <1>19, <1>n DEF DeleteWorkspace
<1>20. ASSUME NEW c \in Cli, RmFiles(c) PROVE LaunchedInv'
  BY <1>20, <1>n DEF RmFiles
<1>21. ASSUME NEW c \in Cli, RmDir(c) PROVE LaunchedInv'
  BY <1>21, <1>e DEF RmDir
<1>22. ASSUME NEW c \in Cli, LockSource(c) PROVE LaunchedInv'
  <2>1. CASE Exit(c)
    BY <1>22, <2>1, <1>e DEF LockSource
  <2>2. CASE ~Exit(c)
    BY <1>22, <2>2, <1>n DEF LockSource
  <2> QED BY <2>1, <2>2
<1>23. ASSUME NEW c \in Cli, Publish(c) PROVE LaunchedInv'
  <2>1. CASE Exit(c)
    BY <1>23, <2>1, <1>e DEF Publish
  <2>2. CASE ~Exit(c)
    BY <1>23, <2>2, <1>n DEF Publish
  <2> QED BY <2>1, <2>2
<1>24. ASSUME NEW c \in Cli, CloneDisk(c) PROVE LaunchedInv'
  <2>1. CASE Exit(c)
    BY <1>24, <2>1, <1>e DEF CloneDisk
  <2>2. CASE ~Exit(c)
    BY <1>24, <2>2, <1>n DEF CloneDisk
  <2> QED BY <2>1, <2>2
<1>25. ASSUME NEW c \in Cli, LockMetadata(c) PROVE LaunchedInv'
  BY <1>25, <1>n DEF LockMetadata
<1>26. ASSUME NEW c \in Cli, Allocate(c) PROVE LaunchedInv'
  <2>1. CASE Exit(c)
    BY <1>26, <2>1, <1>e DEF Allocate
  <2>2. CASE ~Exit(c)
    BY <1>26, <2>2, <1>n DEF Allocate
  <2> QED BY <2>1, <2>2
<1>27. ASSUME NEW c \in Cli, Rename(c) PROVE LaunchedInv'
  BY <1>27, <1>n DEF Rename
<1>28. ASSUME NEW c \in Cli, CreateWorkspace(c) PROVE LaunchedInv'
  BY <1>28, <1>n DEF CreateWorkspace
<1>29. ASSUME NEW c \in Cli, CreateFails(c) PROVE LaunchedInv'
  BY <1>29, <1>n DEF CreateFails
<1>30. ASSUME NEW c \in Cli, Cleanup(c) PROVE LaunchedInv'
  BY <1>30, <1>n DEF Cleanup, Exit
<1>31. ASSUME NEW c \in Cli, Abort(c) PROVE LaunchedInv'
  BY <1>31, <1>e DEF Abort
<1>32. ASSUME NEW p \in Proc, OpenDisk(p) PROVE LaunchedInv'
  BY <1>32 DEF OpenDisk, Reap
<1>33. ASSUME NEW p \in Proc, FlockDisk(p) PROVE LaunchedInv'
  BY <1>33 DEF FlockDisk, Reap
<1>34. ASSUME NEW p \in Proc, AttachDisk(p) PROVE LaunchedInv'
  BY <1>34 DEF AttachDisk, Reap
<1>35. ASSUME NEW p \in Proc, GuestReady(p) PROVE LaunchedInv'
  BY <1>35 DEF GuestReady
<1>36. ASSUME NEW p \in Proc, ProcExit(p) PROVE LaunchedInv'
  BY <1>36 DEF ProcExit, Reap
<1> QED
  BY <1>1, <1>2, <1>3, <1>4, <1>5, <1>6, <1>7, <1>8, <1>9, <1>10, <1>11, <1>12,
      <1>13, <1>14, <1>15, <1>16, <1>17, <1>18, <1>19, <1>20, <1>21, <1>22, <1>23,
      <1>24, <1>25, <1>26, <1>27, <1>28, <1>29, <1>30, <1>31, <1>32, <1>33, <1>34,
      <1>35, <1>36
  DEF Next, CliNext, CliStep, VmNext

(***************************************************************************)
(* What a command has observed of its receipt and row stays true under its *)
(* operation lock, except that a live incarnation may exit.                *)
(***************************************************************************)
LEMMA KnownInvStep ==
    ASSUME TypeOK, LocalsInv, OpLockInv, FilesInv, LaunchedInv, KnownInv, Next
    PROVE  KnownInv'
<1> USE NameAssumption, NoneAssumption, OwnerAssumption
<1> USE DEF TypeOK, CliType, DbType, FsType, VmType, Goto, At,
        dbVars, fsVars, lockVars, vmVars, localVars
<1>e. ASSUME NEW c \in Cli, Exit(c), UNCHANGED <<dbState, receipt, phase>> PROVE KnownInv'
  BY <1>e DEF Exit, KnownInv, Known, Halted, Subject, Alive
<1>n. ASSUME NEW c \in Cli, pc[c] # "idle" PROVE name[c] \in Name /\ Subject(c) \in Name
  BY <1>n DEF LocalsInv, Subject, CliType
<1>1. ASSUME NEW c \in Cli, Begin(c) PROVE KnownInv'
  BY <1>1 DEF Begin, KnownInv, Known, Halted, Subject, Alive, LaunchedInv
<1>2. ASSUME NEW c \in Cli, BeginFork(c) PROVE KnownInv'
  BY <1>2 DEF BeginFork, KnownInv, Known, Halted, Subject, Alive, LaunchedInv
<1>3. ASSUME NEW c \in Cli, LockSecond(c) PROVE KnownInv'
  <2>1. CASE Exit(c)
    BY <1>3, <2>1, <1>e DEF LockSecond
  <2>2. CASE ~Exit(c)
    BY <1>3, <2>2, <1>n DEF LockSecond, KnownInv, Known, Halted, Subject, Alive,
        LaunchedInv
  <2> QED BY <2>1, <2>2
<1>4. ASSUME NEW c \in Cli, OpenDB(c) PROVE KnownInv'
  BY <1>4, <1>n DEF OpenDB, KnownInv, Known, Halted, Subject, Alive, LaunchedInv
<1>5. ASSUME NEW c \in Cli, LoadWorkspace(c) PROVE KnownInv'
  <2>1. CASE Exit(c)
    BY <1>5, <2>1, <1>e DEF LoadWorkspace
  <2>2. CASE ~Exit(c)
    BY <1>5, <2>2, <1>n DEF LoadWorkspace, KnownInv, Known, Halted, Subject, Alive,
        LaunchedInv
  <2> QED BY <2>1, <2>2
<1>6. ASSUME NEW c \in Cli, Reconcile(c) PROVE KnownInv'
  <2> SUFFICES ASSUME NEW e \in Cli PROVE Known(e)'
    BY DEF KnownInv
  <2>0. Known(e) /\ Known(c) /\ (pc[e] # "idle" => name[e] \in Name /\ Subject(e)
      \in Name)
    BY <1>n DEF KnownInv
  <2>1. CASE e = c
    BY <1>6, <2>0, <2>1 DEF Reconcile, SetWorkspaceState, Exit,
         AfterLoad, RunStart, RunStop, RunRm, RunSwitch, DoFork, Known,
        Halted, Subject, Alive
  <2>2. CASE e # c
    BY <1>6, <2>0, <2>2, OtherNames, KnownKept DEF Reconcile, SetWorkspaceState,
        Exit, Locked, Step
  <2> QED BY <2>1, <2>2
<1>7. ASSUME NEW c \in Cli, LockDisk(c) PROVE KnownInv'
  <2>1. CASE Exit(c)
    BY <1>7, <2>1, <1>e DEF LockDisk
  <2>2. CASE ~Exit(c)
    BY <1>7, <2>2, <1>n DEF LockDisk, KnownInv, Known, Halted, Subject, Alive, LaunchedInv
  <2> QED BY <2>1, <2>2
<1>8. ASSUME NEW c \in Cli, Prepare(c) PROVE KnownInv'
  <2>1. CASE Exit(c)
    BY <1>8, <2>1, <1>e DEF Prepare
  <2>2. CASE ~Exit(c)
    BY <1>8, <2>2, <1>n DEF Prepare, KnownInv, Known, Halted, Subject, Alive, LaunchedInv
  <2> QED BY <2>1, <2>2
<1>9. ASSUME NEW c \in Cli, Spawn(c) PROVE KnownInv'
  <2> SUFFICES ASSUME NEW e \in Cli PROVE Known(e)'
    BY DEF KnownInv
  <2>0. Known(e) /\ Known(c) /\ (pc[e] # "idle" => name[e] \in Name /\ Subject(e)
      \in Name)
    BY <1>n DEF KnownInv
  <2>1. \A n \in Name : ~Alive(receipt[n]) => ~Alive(receipt[n])'
    BY <1>9 DEF Spawn, LaunchedInv, Alive
  <2>2. CASE e = c
    <3>1. /\ pc[e] = "spawn" /\ pc'[e] \in {"receipt", "idle"}
          /\ UNCHANGED <<receipt, dbState>>
          /\ pc'[e] = "receipt" => name'[e] = name[e]
      BY <1>9, <2>2 DEF Spawn, Exit
    <3>2. pc'[e] = "receipt" => /\ ~Alive(receipt[name[e]])'
                                /\ dbState'[name'[e]] = "stopped"
      BY <2>0, <2>1, <3>1 DEF Known, Halted
    <3> QED BY <3>1, <3>2 DEF Known, Halted, Subject
  <2>3. CASE e # c
    BY <1>9, <2>0, <2>3, OtherNames, KnownKept DEF Spawn, Exit, Locked, Step
  <2> QED BY <2>2, <2>3
<1>10. ASSUME NEW c \in Cli, WriteProcess(c) PROVE KnownInv'
  <2> SUFFICES ASSUME NEW e \in Cli PROVE Known(e)'
    BY DEF KnownInv
  <2>0. Known(e) /\ Known(c) /\ (pc[e] # "idle" => name[e] \in Name /\ Subject(e)
      \in Name)
    BY <1>n DEF KnownInv
  <2>1. CASE e = c
    BY <1>10, <2>0, <2>1 DEF WriteProcess, Exit, Alive, Known, Halted, Subject
  <2>2. CASE e # c
    <3>1. /\ receipt' \in {receipt, [receipt EXCEPT ![name[c]] = proc[c]]}
          /\ pc[c] \in Locked /\ UNCHANGED dbVars
          /\ \A p \in Proc : phase[p] = "dead" => phase'[p] = "dead"
      BY <1>10 DEF WriteProcess, Alive, Locked, Step
    <3>2. /\ pc'[e] = pc[e] /\ op'[e] = op[e] /\ name'[e] = name[e]
          /\ src'[e] = src[e] /\ proc'[e] = proc[e]
      BY <1>10, <2>2 DEF WriteProcess, Exit
    <3>3. pc[e] \in Locked => /\ receipt'[name[e]] = receipt[name[e]]
                               /\ receipt'[Subject(e)] = receipt[Subject(e)]
      <4> SUFFICES ASSUME pc[e] \in Locked
                   PROVE  /\ receipt'[name[e]] = receipt[name[e]]
                          /\ receipt'[Subject(e)] = receipt[Subject(e)]
        OBVIOUS
      <4>1. name[e] # name[c] /\ Subject(e) # name[c]
        BY <2>2, <3>1, OtherNames
      <4>2. name[e] \in Name /\ Subject(e) \in Name
        BY <2>0 DEF Locked, Step
      <4> QED BY <3>1, <4>1, <4>2
    <3> QED
      BY <2>0, <3>1, <3>2, <3>3, KnownKept
  <2> QED BY <2>1, <2>2
<1>11. ASSUME NEW c \in Cli, RecordRunning(c) PROVE KnownInv'
  <2> SUFFICES ASSUME NEW e \in Cli PROVE Known(e)'
    BY DEF KnownInv
  <2>0. Known(e) /\ Known(c) /\ (pc[e] # "idle" => name[e] \in Name /\ Subject(e)
      \in Name)
    BY <1>n DEF KnownInv
  <2>1. CASE e = c
    BY <1>11, <2>0, <2>1, RecordRunningEffect DEF Known, Halted, Alive
  <2>2. CASE e # c
    <3>1. pc[c] \in Locked
      BY <1>11, RecordRunningEffect DEF Locked, Step
    <3>2. pc[e] \in Locked => name[e] \in Name /\ name[e] # name[c]
      BY <2>0, <2>2, <3>1, OtherNames DEF Locked, Step
    <3>3. pc[e] \in Locked => dbState'[name[e]] = dbState[name[e]]
      <4>1. \/ dbState' = [dbState EXCEPT ![name[c]] = "running"]
            \/ dbState' = dbState
        BY <1>11, RecordRunningEffect
      <4> QED
        BY <3>2, <4>1
    <3>4. pc'[e] = pc[e] /\ UNCHANGED <<op, name, src, proc, receipt, phase>>
      BY <1>11, <2>2, RecordRunningEffect
    <3>5. /\ op'[e] = op[e] /\ name'[e] = name[e] /\ src'[e] = src[e]
          /\ proc'[e] = proc[e]
          /\ \A p \in Proc : phase[p] = "dead" => phase'[p] = "dead"
          /\ receipt'[name[e]] = receipt[name[e]]
          /\ receipt'[Subject(e)] = receipt[Subject(e)]
      BY <3>4
    <3> HIDE DEF TypeOK
    <3> QED
      BY <2>0, <3>3, <3>4, <3>5, KnownKept
  <2> QED BY <2>1, <2>2
<1>12. ASSUME NEW c \in Cli, WaitForSSH(c) PROVE KnownInv'
  <2>1. CASE Exit(c)
    BY <1>12, <2>1, <1>e DEF WaitForSSH
  <2>2. CASE ~Exit(c)
    BY <1>12, <2>2, <1>n DEF WaitForSSH, KnownInv, Known, Halted, Subject, Alive,
        LaunchedInv
  <2> QED BY <2>1, <2>2
<1>13. ASSUME NEW c \in Cli, SetActiveWorkspace(c) PROVE KnownInv'
  <2>1. CASE Exit(c)
    BY <1>13, <2>1, <1>e DEF SetActiveWorkspace
  <2>2. CASE ~Exit(c)
    BY <1>13, <2>2, <1>n DEF SetActiveWorkspace, KnownInv, Known, Halted, Subject,
        Alive, LaunchedInv
  <2> QED BY <2>1, <2>2
<1>14. ASSUME NEW c \in Cli, StopSignal(c) PROVE KnownInv'
  BY <1>14, <1>n DEF StopSignal, KnownInv, Known, Halted, Subject, Alive, LaunchedInv
<1>15. ASSUME NEW c \in Cli, StopExited(c) PROVE KnownInv'
  BY <1>15, <1>n DEF StopExited, KnownInv, Known, Halted, Subject, Alive, LaunchedInv
<1>16. ASSUME NEW c \in Cli, RecordStopped(c) PROVE KnownInv'
  <2> SUFFICES ASSUME NEW e \in Cli PROVE Known(e)'
    BY DEF KnownInv
  <2>0. Known(e) /\ Known(c) /\ (pc[e] # "idle" => name[e] \in Name /\ Subject(e)
      \in Name)
    BY <1>n DEF KnownInv
  <2>1. CASE e = c
    BY <1>16, <2>0, <2>1 DEF RecordStopped, SetWorkspaceState, Exit, Known, Halted,
        Subject, Alive
  <2>2. CASE e # c
    BY <1>16, <2>0, <2>2, OtherNames, KnownKept DEF RecordStopped,
        SetWorkspaceState, Exit, Locked, Step
  <2> QED BY <2>1, <2>2
<1>17. ASSUME NEW c \in Cli, RmLock(c) PROVE KnownInv'
  <2>1. CASE Exit(c)
    BY <1>17, <2>1, <1>e DEF RmLock
  <2>2. CASE ~Exit(c)
    BY <1>17, <2>2, <1>n DEF RmLock, KnownInv, Known, Halted, Subject, Alive, LaunchedInv
  <2> QED BY <2>1, <2>2
<1>18. ASSUME NEW c \in Cli, RmMeta(c) PROVE KnownInv'
  BY <1>18, <1>n DEF RmMeta, KnownInv, Known, Halted, Subject, Alive, LaunchedInv
<1>19. ASSUME NEW c \in Cli, DeleteWorkspace(c) PROVE KnownInv'
  BY <1>19, <1>n DEF DeleteWorkspace, KnownInv, Known, Halted, Subject, Alive, LaunchedInv
<1>20. ASSUME NEW c \in Cli, RmFiles(c) PROVE KnownInv'
  <2> SUFFICES ASSUME NEW e \in Cli PROVE Known(e)'
    BY DEF KnownInv
  <2>0. Known(e) /\ Known(c) /\ (pc[e] # "idle" => name[e] \in Name /\ Subject(e)
      \in Name)
    BY <1>n DEF KnownInv
  <2>1. CASE e = c
    BY <1>20, <2>0, <2>1 DEF RmFiles, Known, Halted, Subject
  <2>2. CASE e # c
    BY <1>20, <2>0, <2>2, OtherNames, KnownKept DEF RmFiles, Locked, Step
  <2> QED BY <2>1, <2>2
<1>21. ASSUME NEW c \in Cli, RmDir(c) PROVE KnownInv'
  BY <1>21, <1>e DEF RmDir, KnownInv, Known, Halted, Subject, Alive, LaunchedInv
<1>22. ASSUME NEW c \in Cli, LockSource(c) PROVE KnownInv'
  <2>1. CASE Exit(c)
    BY <1>22, <2>1, <1>e DEF LockSource
  <2>2. CASE ~Exit(c)
    BY <1>22, <2>2, <1>n DEF LockSource, KnownInv, Known, Halted, Subject, Alive,
        LaunchedInv
  <2> QED BY <2>1, <2>2
<1>23. ASSUME NEW c \in Cli, Publish(c) PROVE KnownInv'
  <2>1. CASE Exit(c)
    BY <1>23, <2>1, <1>e DEF Publish
  <2>2. CASE ~Exit(c)
    BY <1>23, <2>2, <1>n DEF Publish, KnownInv, Known, Halted, Subject, Alive, LaunchedInv
  <2> QED BY <2>1, <2>2
<1>24. ASSUME NEW c \in Cli, CloneDisk(c) PROVE KnownInv'
  <2>1. CASE Exit(c)
    BY <1>24, <2>1, <1>e DEF CloneDisk
  <2>2. CASE ~Exit(c)
    BY <1>24, <2>2, <1>n DEF CloneDisk, KnownInv, Known, Halted, Subject, Alive,
        LaunchedInv
  <2> QED BY <2>1, <2>2
<1>25. ASSUME NEW c \in Cli, LockMetadata(c) PROVE KnownInv'
  BY <1>25, <1>n DEF LockMetadata, KnownInv, Known, Halted, Subject, Alive, LaunchedInv
<1>26. ASSUME NEW c \in Cli, Allocate(c) PROVE KnownInv'
  <2>1. CASE Exit(c)
    BY <1>26, <2>1, <1>e DEF Allocate
  <2>2. CASE ~Exit(c)
    BY <1>26, <2>2, <1>n DEF Allocate, KnownInv, Known, Halted, Subject, Alive,
        LaunchedInv
  <2> QED BY <2>1, <2>2
<1>27. ASSUME NEW c \in Cli, Rename(c) PROVE KnownInv'
  <2> SUFFICES ASSUME NEW e \in Cli PROVE Known(e)'
    BY DEF KnownInv
  <2>0. Known(e) /\ Known(c) /\ (pc[e] # "idle" => name[e] \in Name /\ Subject(e)
      \in Name)
    BY <1>n DEF KnownInv
  <2>1. CASE e = c
    BY <1>27, <2>0, <2>1 DEF Rename, Known, Halted, Subject
  <2>2. CASE e # c
    BY <1>27, <2>0, <2>2, OtherNames, KnownKept DEF Rename, Locked, Step
  <2> QED BY <2>1, <2>2
<1>28. ASSUME NEW c \in Cli, CreateWorkspace(c) PROVE KnownInv'
  <2> SUFFICES ASSUME NEW e \in Cli PROVE Known(e)'
    BY DEF KnownInv
  <2>0. Known(e) /\ Known(c) /\ (pc[e] # "idle" => name[e] \in Name /\ Subject(e)
      \in Name)
    BY <1>n DEF KnownInv
  <2>1. CASE e = c
    BY <1>28, <2>0, <2>1 DEF CreateWorkspace, FilesInv, Alive, Known, Halted, Subject
  <2>2. CASE e # c
    BY <1>28, <2>0, <2>2, OtherNames, KnownKept DEF CreateWorkspace, Locked, Step
  <2> QED BY <2>1, <2>2
<1>29. ASSUME NEW c \in Cli, CreateFails(c) PROVE KnownInv'
  BY <1>29, <1>n DEF CreateFails, KnownInv, Known, Halted, Subject, Alive, LaunchedInv
<1>30. ASSUME NEW c \in Cli, Cleanup(c) PROVE KnownInv'
  <2> SUFFICES ASSUME NEW e \in Cli PROVE Known(e)'
    BY DEF KnownInv
  <2>0. Known(e) /\ Known(c) /\ (pc[e] # "idle" => name[e] \in Name /\ Subject(e)
      \in Name)
    BY <1>n DEF KnownInv
  <2>1. CASE e = c
    BY <1>30, <2>0, <2>1 DEF Cleanup, Exit, Known, Halted, Subject
  <2>2. CASE e # c
    BY <1>30, <2>0, <2>2, OtherNames, KnownKept DEF Cleanup, Exit, Locked, Step
  <2> QED BY <2>1, <2>2
<1>31. ASSUME NEW c \in Cli, Abort(c) PROVE KnownInv'
  BY <1>31, <1>e DEF Abort, KnownInv, Known, Halted, Subject, Alive, LaunchedInv
<1>32. ASSUME NEW p \in Proc, OpenDisk(p) PROVE KnownInv'
  BY <1>32 DEF OpenDisk, Reap, KnownInv, Known, Halted, Subject, Alive, LaunchedInv
<1>33. ASSUME NEW p \in Proc, FlockDisk(p) PROVE KnownInv'
  BY <1>33 DEF FlockDisk, Reap, KnownInv, Known, Halted, Subject, Alive, LaunchedInv
<1>34. ASSUME NEW p \in Proc, AttachDisk(p) PROVE KnownInv'
  BY <1>34 DEF AttachDisk, Reap, KnownInv, Known, Halted, Subject, Alive, LaunchedInv
<1>35. ASSUME NEW p \in Proc, GuestReady(p) PROVE KnownInv'
  BY <1>35 DEF GuestReady, KnownInv, Known, Halted, Subject, Alive, LaunchedInv
<1>36. ASSUME NEW p \in Proc, ProcExit(p) PROVE KnownInv'
  BY <1>36 DEF ProcExit, Reap, KnownInv, Known, Halted, Subject, Alive, LaunchedInv
<1> QED
  BY <1>1, <1>2, <1>3, <1>4, <1>5, <1>6, <1>7, <1>8, <1>9, <1>10, <1>11, <1>12,
      <1>13, <1>14, <1>15, <1>16, <1>17, <1>18, <1>19, <1>20, <1>21, <1>22, <1>23,
      <1>24, <1>25, <1>26, <1>27, <1>28, <1>29, <1>30, <1>31, <1>32, <1>33, <1>34,
      <1>35, <1>36
  DEF Next, CliNext, CliStep, VmNext

(***************************************************************************)
(* No step records a live incarnation as stopped, or deletes its row.      *)
(***************************************************************************)
LEMMA NoFalseStopStepHolds ==
    ASSUME TypeOK, LocalsInv, PublicationInv, KnownInv, Next
    PROVE  NoFalseStopStep
<1> USE NameAssumption, NoneAssumption, OwnerAssumption
<1> USE DEF TypeOK, DbType, CliType, FsType, NoFalseStopStep, Goto, At,
        dbVars, fsVars, lockVars, vmVars, localVars
<1>n. ASSUME NEW c \in Cli, pc[c] # "idle" PROVE name[c] \in Name /\ Subject(c) \in Name
  BY <1>n DEF LocalsInv, Subject, CliType
<1>1. ASSUME NEW c \in Cli, Begin(c) PROVE NoFalseStopStep
  BY <1>1 DEF Begin
<1>2. ASSUME NEW c \in Cli, BeginFork(c) PROVE NoFalseStopStep
  BY <1>2 DEF BeginFork
<1>3. ASSUME NEW c \in Cli, LockSecond(c) PROVE NoFalseStopStep
  BY <1>3, <1>n DEF LockSecond, Exit
<1>4. ASSUME NEW c \in Cli, OpenDB(c) PROVE NoFalseStopStep
  BY <1>4, <1>n DEF OpenDB
<1>5. ASSUME NEW c \in Cli, LoadWorkspace(c) PROVE NoFalseStopStep
  BY <1>5, <1>n DEF LoadWorkspace, Exit
<1>6. ASSUME NEW c \in Cli, Reconcile(c) PROVE NoFalseStopStep
  BY <1>6, <1>n DEF Reconcile, Exit, SetWorkspaceState,
       AfterLoad, RunStart, RunStop, RunRm, RunSwitch, DoFork, KnownInv, Known,
      Halted, Subject
<1>7. ASSUME NEW c \in Cli, LockDisk(c) PROVE NoFalseStopStep
  BY <1>7, <1>n DEF LockDisk, Exit
<1>8. ASSUME NEW c \in Cli, Prepare(c) PROVE NoFalseStopStep
  BY <1>8, <1>n DEF Prepare, Exit
<1>9. ASSUME NEW c \in Cli, Spawn(c) PROVE NoFalseStopStep
  BY <1>9, <1>n DEF Spawn, Exit
<1>10. ASSUME NEW c \in Cli, WriteProcess(c) PROVE NoFalseStopStep
  BY <1>10, <1>n DEF WriteProcess, Exit
<1>11. ASSUME NEW c \in Cli, RecordRunning(c) PROVE NoFalseStopStep
  BY <1>11, <1>n, RecordRunningEffect
<1>12. ASSUME NEW c \in Cli, WaitForSSH(c) PROVE NoFalseStopStep
  BY <1>12, <1>n DEF WaitForSSH, Exit
<1>13. ASSUME NEW c \in Cli, SetActiveWorkspace(c) PROVE NoFalseStopStep
  BY <1>13, <1>n DEF SetActiveWorkspace, Exit
<1>14. ASSUME NEW c \in Cli, StopSignal(c) PROVE NoFalseStopStep
  BY <1>14, <1>n DEF StopSignal
<1>15. ASSUME NEW c \in Cli, StopExited(c) PROVE NoFalseStopStep
  BY <1>15, <1>n DEF StopExited
<1>16. ASSUME NEW c \in Cli, RecordStopped(c) PROVE NoFalseStopStep
  BY <1>16, <1>n DEF RecordStopped, Exit, SetWorkspaceState, KnownInv, Known,
      Halted, Subject
<1>17. ASSUME NEW c \in Cli, RmLock(c) PROVE NoFalseStopStep
  BY <1>17, <1>n DEF RmLock, Exit
<1>18. ASSUME NEW c \in Cli, RmMeta(c) PROVE NoFalseStopStep
  BY <1>18, <1>n DEF RmMeta
<1>19. ASSUME NEW c \in Cli, DeleteWorkspace(c) PROVE NoFalseStopStep
  BY <1>19, <1>n DEF DeleteWorkspace, KnownInv, Known, Halted, Subject
<1>20. ASSUME NEW c \in Cli, RmFiles(c) PROVE NoFalseStopStep
  BY <1>20, <1>n DEF RmFiles
<1>21. ASSUME NEW c \in Cli, RmDir(c) PROVE NoFalseStopStep
  BY <1>21, <1>n DEF RmDir, Exit
<1>22. ASSUME NEW c \in Cli, LockSource(c) PROVE NoFalseStopStep
  BY <1>22, <1>n DEF LockSource, Exit
<1>23. ASSUME NEW c \in Cli, Publish(c) PROVE NoFalseStopStep
  BY <1>23, <1>n DEF Publish, Exit
<1>24. ASSUME NEW c \in Cli, CloneDisk(c) PROVE NoFalseStopStep
  BY <1>24, <1>n DEF CloneDisk, Exit
<1>25. ASSUME NEW c \in Cli, LockMetadata(c) PROVE NoFalseStopStep
  BY <1>25, <1>n DEF LockMetadata
<1>26. ASSUME NEW c \in Cli, Allocate(c) PROVE NoFalseStopStep
  BY <1>26, <1>n DEF Allocate, Exit
<1>27. ASSUME NEW c \in Cli, Rename(c) PROVE NoFalseStopStep
  BY <1>27, <1>n DEF Rename
<1>28. ASSUME NEW c \in Cli, CreateWorkspace(c) PROVE NoFalseStopStep
  BY <1>28, <1>n DEF CreateWorkspace, PublicationInv, PublicationOwned
<1>29. ASSUME NEW c \in Cli, CreateFails(c) PROVE NoFalseStopStep
  BY <1>29, <1>n DEF CreateFails
<1>30. ASSUME NEW c \in Cli, Cleanup(c) PROVE NoFalseStopStep
  BY <1>30, <1>n DEF Cleanup, Exit
<1>31. ASSUME NEW c \in Cli, Abort(c) PROVE NoFalseStopStep
  BY <1>31, <1>n DEF Abort, Exit
<1>32. ASSUME NEW p \in Proc, OpenDisk(p) PROVE NoFalseStopStep
  BY <1>32 DEF OpenDisk, Reap
<1>33. ASSUME NEW p \in Proc, FlockDisk(p) PROVE NoFalseStopStep
  BY <1>33 DEF FlockDisk, Reap
<1>34. ASSUME NEW p \in Proc, AttachDisk(p) PROVE NoFalseStopStep
  BY <1>34 DEF AttachDisk, Reap
<1>35. ASSUME NEW p \in Proc, GuestReady(p) PROVE NoFalseStopStep
  BY <1>35 DEF GuestReady
<1>36. ASSUME NEW p \in Proc, ProcExit(p) PROVE NoFalseStopStep
  BY <1>36 DEF ProcExit, Reap
<1> QED
  BY <1>1, <1>2, <1>3, <1>4, <1>5, <1>6, <1>7, <1>8, <1>9, <1>10, <1>11, <1>12,
      <1>13, <1>14, <1>15, <1>16, <1>17, <1>18, <1>19, <1>20, <1>21, <1>22, <1>23,
      <1>24, <1>25, <1>26, <1>27, <1>28, <1>29, <1>30, <1>31, <1>32, <1>33, <1>34,
      <1>35, <1>36
  DEF Next, CliNext, CliStep, VmNext

(***************************************************************************)
(* No step touches the receipt of a live incarnation.                      *)
(***************************************************************************)
LEMMA LiveReceiptKeptStepHolds ==
    ASSUME TypeOK, LocalsInv, PublicationInv, FilesInv, KnownInv, Next
    PROVE  LiveReceiptKeptStep
<1> USE NameAssumption, NoneAssumption, OwnerAssumption
<1> USE DEF TypeOK, CliType, FsType, LiveReceiptKeptStep, Goto, At,
        dbVars, fsVars, lockVars, vmVars, localVars
<1>n. ASSUME NEW c \in Cli, pc[c] # "idle" PROVE name[c] \in Name /\ Subject(c) \in Name
  BY <1>n DEF LocalsInv, Subject, CliType
<1>1. ASSUME NEW c \in Cli, Begin(c) PROVE LiveReceiptKeptStep
  BY <1>1 DEF Begin
<1>2. ASSUME NEW c \in Cli, BeginFork(c) PROVE LiveReceiptKeptStep
  BY <1>2 DEF BeginFork
<1>3. ASSUME NEW c \in Cli, LockSecond(c) PROVE LiveReceiptKeptStep
  BY <1>3, <1>n DEF LockSecond, Exit
<1>4. ASSUME NEW c \in Cli, OpenDB(c) PROVE LiveReceiptKeptStep
  BY <1>4, <1>n DEF OpenDB
<1>5. ASSUME NEW c \in Cli, LoadWorkspace(c) PROVE LiveReceiptKeptStep
  BY <1>5, <1>n DEF LoadWorkspace, Exit
<1>6. ASSUME NEW c \in Cli, Reconcile(c) PROVE LiveReceiptKeptStep
  BY <1>6, <1>n DEF Reconcile, Exit, SetWorkspaceState,
       AfterLoad, RunStart, RunStop, RunRm, RunSwitch, DoFork
<1>7. ASSUME NEW c \in Cli, LockDisk(c) PROVE LiveReceiptKeptStep
  BY <1>7, <1>n DEF LockDisk, Exit
<1>8. ASSUME NEW c \in Cli, Prepare(c) PROVE LiveReceiptKeptStep
  BY <1>8, <1>n DEF Prepare, Exit
<1>9. ASSUME NEW c \in Cli, Spawn(c) PROVE LiveReceiptKeptStep
  BY <1>9, <1>n DEF Spawn, Exit
<1>10. ASSUME NEW c \in Cli, WriteProcess(c) PROVE LiveReceiptKeptStep
  BY <1>10, <1>n DEF WriteProcess, Exit, KnownInv, Known, Halted, Alive
<1>11. ASSUME NEW c \in Cli, RecordRunning(c) PROVE LiveReceiptKeptStep
  BY <1>11, <1>n, RecordRunningEffect
<1>12. ASSUME NEW c \in Cli, WaitForSSH(c) PROVE LiveReceiptKeptStep
  BY <1>12, <1>n DEF WaitForSSH, Exit
<1>13. ASSUME NEW c \in Cli, SetActiveWorkspace(c) PROVE LiveReceiptKeptStep
  BY <1>13, <1>n DEF SetActiveWorkspace, Exit
<1>14. ASSUME NEW c \in Cli, StopSignal(c) PROVE LiveReceiptKeptStep
  BY <1>14, <1>n DEF StopSignal
<1>15. ASSUME NEW c \in Cli, StopExited(c) PROVE LiveReceiptKeptStep
  BY <1>15, <1>n DEF StopExited
<1>16. ASSUME NEW c \in Cli, RecordStopped(c) PROVE LiveReceiptKeptStep
  BY <1>16, <1>n DEF RecordStopped, Exit, SetWorkspaceState
<1>17. ASSUME NEW c \in Cli, RmLock(c) PROVE LiveReceiptKeptStep
  BY <1>17, <1>n DEF RmLock, Exit
<1>18. ASSUME NEW c \in Cli, RmMeta(c) PROVE LiveReceiptKeptStep
  BY <1>18, <1>n DEF RmMeta
<1>19. ASSUME NEW c \in Cli, DeleteWorkspace(c) PROVE LiveReceiptKeptStep
  BY <1>19, <1>n DEF DeleteWorkspace
<1>20. ASSUME NEW c \in Cli, RmFiles(c) PROVE LiveReceiptKeptStep
  BY <1>20, <1>n DEF RmFiles, KnownInv, Known, Halted
<1>21. ASSUME NEW c \in Cli, RmDir(c) PROVE LiveReceiptKeptStep
  BY <1>21, <1>n DEF RmDir, Exit
<1>22. ASSUME NEW c \in Cli, LockSource(c) PROVE LiveReceiptKeptStep
  BY <1>22, <1>n DEF LockSource, Exit
<1>23. ASSUME NEW c \in Cli, Publish(c) PROVE LiveReceiptKeptStep
  BY <1>23, <1>n DEF Publish, Exit
<1>24. ASSUME NEW c \in Cli, CloneDisk(c) PROVE LiveReceiptKeptStep
  BY <1>24, <1>n DEF CloneDisk, Exit
<1>25. ASSUME NEW c \in Cli, LockMetadata(c) PROVE LiveReceiptKeptStep
  BY <1>25, <1>n DEF LockMetadata
<1>26. ASSUME NEW c \in Cli, Allocate(c) PROVE LiveReceiptKeptStep
  BY <1>26, <1>n DEF Allocate, Exit
<1>27. ASSUME NEW c \in Cli, Rename(c) PROVE LiveReceiptKeptStep
  BY <1>27, <1>n DEF Rename, PublicationInv, PublicationOwned, CheckNew, FilesInv, Alive
<1>28. ASSUME NEW c \in Cli, CreateWorkspace(c) PROVE LiveReceiptKeptStep
  BY <1>28, <1>n DEF CreateWorkspace
<1>29. ASSUME NEW c \in Cli, CreateFails(c) PROVE LiveReceiptKeptStep
  BY <1>29, <1>n DEF CreateFails
<1>30. ASSUME NEW c \in Cli, Cleanup(c) PROVE LiveReceiptKeptStep
  BY <1>30, <1>n DEF Cleanup, Exit, FilesInv, Alive
<1>31. ASSUME NEW c \in Cli, Abort(c) PROVE LiveReceiptKeptStep
  BY <1>31, <1>n DEF Abort, Exit
<1>32. ASSUME NEW p \in Proc, OpenDisk(p) PROVE LiveReceiptKeptStep
  BY <1>32 DEF OpenDisk, Reap
<1>33. ASSUME NEW p \in Proc, FlockDisk(p) PROVE LiveReceiptKeptStep
  BY <1>33 DEF FlockDisk, Reap
<1>34. ASSUME NEW p \in Proc, AttachDisk(p) PROVE LiveReceiptKeptStep
  BY <1>34 DEF AttachDisk, Reap
<1>35. ASSUME NEW p \in Proc, GuestReady(p) PROVE LiveReceiptKeptStep
  BY <1>35 DEF GuestReady
<1>36. ASSUME NEW p \in Proc, ProcExit(p) PROVE LiveReceiptKeptStep
  BY <1>36 DEF ProcExit, Reap
<1> QED
  BY <1>1, <1>2, <1>3, <1>4, <1>5, <1>6, <1>7, <1>8, <1>9, <1>10, <1>11, <1>12,
      <1>13, <1>14, <1>15, <1>16, <1>17, <1>18, <1>19, <1>20, <1>21, <1>22, <1>23,
      <1>24, <1>25, <1>26, <1>27, <1>28, <1>29, <1>30, <1>31, <1>32, <1>33, <1>34,
      <1>35, <1>36
  DEF Next, CliNext, CliStep, VmNext

-----------------------------------------------------------------------------
LEMMA InitIInv == Init => IInv
<1> SUFFICES ASSUME Init PROVE IInv
  OBVIOUS
<1> USE NoneAssumption DEF Init
<1>1. TypeOK
  BY DEF TypeOK, DbType, FsType, LockType, VmType, CliType, Step, Op, Phase
<1>2. LocalsInv /\ OpLockInv /\ MetaLockInv
  BY DEF LocalsInv, OpLockInv, MetaLockInv, Locked, Step
<1>3. AttachedInv /\ OpenedInv /\ ServesInv /\ DiskLockInv
  BY DEF AttachedInv, OpenedInv, ServesInv, DiskLockInv, DiskHeld, Publishing
<1>4. FilesInv /\ PublicationInv
  BY DEF FilesInv, RecordedFiles, PublicationInv, PublicationOwned, Loaded
<1>5. PortsUnique /\ OneRoutingTarget /\ RunningHasReceipt
  BY DEF PortsUnique, OneRoutingTarget, RunningHasReceipt
<1>6. LaunchedInv /\ KnownInv
  BY DEF LaunchedInv, KnownInv, Known, Halted
<1> QED
  BY <1>1, <1>2, <1>3, <1>4, <1>5, <1>6 DEF IInv

LEMMA StutterIInv == IInv /\ UNCHANGED vars => IInv'
<1> SUFFICES ASSUME IInv, UNCHANGED vars PROVE IInv'
  OBVIOUS
<1> USE DEF IInv, vars, dbVars, fsVars, lockVars, vmVars, localVars
<1>1. TypeOK'
  BY DEF TypeOK, DbType, FsType, LockType, VmType, CliType
<1>2. LocalsInv' /\ OpLockInv' /\ MetaLockInv'
  BY DEF LocalsInv, OpLockInv, MetaLockInv
<1>3. AttachedInv' /\ OpenedInv' /\ ServesInv' /\ DiskLockInv'
  BY DEF AttachedInv, OpenedInv, ServesInv, Serves, Alive, DiskLockInv, DiskHeld
<1>4. FilesInv' /\ PublicationInv'
  BY DEF FilesInv, RecordedFiles, PublicationInv, PublicationOwned, CheckNew, Subject
<1>5. PortsUnique' /\ OneRoutingTarget' /\ RunningHasReceipt'
  BY DEF PortsUnique, Insertable, OneRoutingTarget, RunningHasReceipt
<1>6. LaunchedInv' /\ KnownInv'
  BY DEF LaunchedInv, KnownInv, Known, Subject, Alive
<1> QED
  BY <1>1, <1>2, <1>3, <1>4, <1>5, <1>6

\* IInv is inductive: Init => IInv, and every step of a command or a companion
\* keeps it (all of internal/cli's lifecycle and devd-vm).
THEOREM Inductive == Spec => []IInv
<1>1. ASSUME IInv, Next PROVE IInv'
  <2> USE <1>1 DEF IInv
  <2>1. TypeOK' /\ LocalsInv' /\ OpLockInv' /\ MetaLockInv'
    BY TypeOKStep, LocalsInvStep, OpLockInvStep, MetaLockInvStep
  <2>2. AttachedInv' /\ DiskLockInv' /\ FilesInv' /\ PublicationInv'
    BY AttachedInvStep, DiskLockInvStep, FilesInvStep, PublicationInvStep
  <2>5. OpenedInv' /\ ServesInv'
    BY OpenedInvStep, ServesInvStep
  <2>3. PortsUnique' /\ OneRoutingTarget' /\ RunningHasReceipt'
    BY PortsUniqueStep, OneRoutingTargetStep, RunningHasReceiptStep
  <2>4. LaunchedInv' /\ KnownInv'
    BY LaunchedInvStep, KnownInvStep
  <2> QED
    BY <2>1, <2>2, <2>3, <2>4, <2>5
<1>2. IInv /\ [Next]_vars => IInv'
  BY <1>1, StutterIInv
<1> QED
  BY InitIInv, <1>2, PTL DEF Spec

\* Every variable keeps its type; a chosen port is a port of the host.
THEOREM TypeCorrect == Spec => []TypeOK
<1>1. IInv => TypeOK
  BY DEF IInv
<1> QED
  BY <1>1, Inductive, PTL

(***************************************************************************)
(* A VM that has attached a disk other than the one it locked, or a disk   *)
(* that somebody else has locked, is a leftover.                           *)
(***************************************************************************)
LEMMA StrayIsLeftover ==
    ASSUME IInv, NEW p \in Proc, att[p] # None, att[p] # fd[p]
    PROVE  Leftover(p)
<1> USE NoneAssumption DEF IInv, TypeOK, VmType, FsType
<1>1. fd[p] \in Disk /\ Alive(p)
  BY DEF AttachedInv, Alive
<1>2. ASSUME NEW n \in Name PROVE disk[n] # fd[p]
  BY <1>1 DEF OpenedInv
<1>3. ASSUME NEW n \in Name PROVE receipt[n] # p
  BY <1>1, <1>2 DEF ServesInv, Serves
<1> QED
  BY <1>2, <1>3 DEF Leftover

LEMMA ForeignIsLeftover ==
    ASSUME IInv, NEW c \in Cli, NEW p \in Proc, att[p] \in Disk, diskLock[att[p]] = c
    PROVE  Leftover(p)
<1>1. att[p] # None /\ att[p] # fd[p]
  BY NoneAssumption, OwnerAssumption DEF IInv, AttachedInv
<1> QED
  BY <1>1, StrayIsLeftover

\* Of two VMs on one root disk one is a leftover of a workspace that was removed
\* after it had opened the old disk (flock and attach by path in devd-vm).
THEOREM DiskExclusion == Spec => []ExclusiveButLeftover
<1>1. ASSUME IInv PROVE ExclusiveButLeftover
  <2> SUFFICES ASSUME NEW p \in Proc, NEW q \in Proc, p # q,
                      att[p] # None, att[p] = att[q]
               PROVE  Leftover(p) \/ Leftover(q)
    BY DEF ExclusiveButLeftover
  <2>1. ~(att[p] = fd[p] /\ att[q] = fd[q])
    BY <1>1 DEF IInv, AttachedInv
  <2> QED
    BY <1>1, <2>1, StrayIsLeftover
<1> QED
  BY <1>1, Inductive, PTL

\* The VM a receipt names writes its own workspace's disk under the disk's lock
\* (startWorkspace's operation lock, vm.Start's receipt, removeWorkspace).
THEOREM RecordedExclusion == Spec => []RecordedOwnDisk
<1>1. ASSUME IInv PROVE RecordedOwnDisk
  <2> SUFFICES ASSUME NEW n \in Name, receipt[n] \in Proc, att[receipt[n]] # None
               PROVE  att[receipt[n]] = disk[n] /\ diskLock[disk[n]] = receipt[n]
    BY DEF RecordedOwnDisk
  <2>1. Alive(receipt[n]) /\ fd[receipt[n]] \in Disk /\ diskLock[fd[receipt[n]]] = receipt[n]
    BY <1>1, NoneAssumption DEF IInv, AttachedInv, Alive
  <2>2. fd[receipt[n]] = disk[n] /\ att[receipt[n]] = disk[n]
    BY <1>1, <2>1, NoneAssumption DEF IInv, ServesInv, Serves
  <2> QED
    BY <2>1, <2>2
<1> QED
  BY <1>1, Inductive, PTL

\* Only a leftover can write the source disk while fork copies it (doFork).
THEOREM ForkIsolation == Spec => []CloneOnlyLeftover
<1>1. ASSUME IInv PROVE CloneOnlyLeftover
  <2> SUFFICES ASSUME NEW c \in Cli, pc[c] = "clone", op[c] = "fork"
               PROVE  /\ disk[src[c]] \in Disk
                      /\ \A p \in Proc : att[p] = disk[src[c]] => Leftover(p)
    BY DEF CloneOnlyLeftover, At
  <2>1. disk[src[c]] \in Disk /\ diskLock[disk[src[c]]] = c
    BY <1>1 DEF IInv, DiskLockInv, DiskHeld, Publishing
  <2> QED
    BY <1>1, <2>1, ForeignIsLeftover
<1> QED
  BY <1>1, Inductive, PTL

\* removeWorkspace unlinks files that no row refers to and only a leftover can
\* have attached.
THEOREM RemovalIsolation == Spec => []RemoveOnlyLeftover
<1>1. ASSUME IInv PROVE RemoveOnlyLeftover
  <2> SUFFICES ASSUME NEW c \in Cli, pc[c] = "rmfiles"
               PROVE  /\ name[c] \notin rows
                      /\ \A p \in Proc : att[p] # None /\ att[p] = disk[name[c]]
                                            => Leftover(p)
    BY DEF RemoveOnlyLeftover, At
  <2>1. name[c] \notin rows
    BY <1>1 DEF IInv, PublicationInv
  <2>2. disk[name[c]] # None => diskLock[disk[name[c]]] = c
    BY <1>1 DEF IInv, DiskLockInv, DiskHeld
  <2> QED
    BY <1>1, <2>1, <2>2, ForeignIsLeftover DEF IInv, TypeOK, VmType
<1> QED
  BY <1>1, Inductive, PTL

\* Crashes leave orphan files, never a row without files, and no two workspaces
\* share a disk (publishWorkspace, removeWorkspace).
THEOREM RecordsHaveFiles == Spec => []RecordedFiles
<1>1. IInv => RecordedFiles
  BY DEF IInv, FilesInv
<1> QED
  BY <1>1, Inductive, PTL

\* Nobody else creates the name a command publishes, and its cleanup removes
\* nobody's workspace (publishWorkspace).
THEOREM PublicationOwnership == Spec => []PublicationOwned
<1>1. IInv => PublicationOwned
  BY DEF IInv, PublicationInv
<1> QED
  BY <1>1, Inductive, PTL

\* SSH ports are allocated to one workspace at a time (nextAvailableSSHPort).
THEOREM PortAllocation == Spec => []PortsUnique
<1>1. IInv => PortsUnique
  BY DEF IInv
<1> QED
  BY <1>1, Inductive, PTL

\* One routing target, recorded as running (SetActiveWorkspace, SetWorkspaceState).
THEOREM RoutingTarget == Spec => []OneRoutingTarget
<1>1. IInv => OneRoutingTarget
  BY DEF IInv
<1> QED
  BY <1>1, Inductive, PTL

\* A row that says running names the incarnation of the receipt (vm.Start).
THEOREM RunningIsRecorded == Spec => []RunningHasReceipt
<1>1. IInv => RunningHasReceipt
  BY DEF IInv
<1> QED
  BY <1>1, Inductive, PTL

\* A workspace is recorded as stopped, or removed, only after the recorded
\* incarnation has exited (stopWorkspace, loadWorkspace, removeWorkspace).
THEOREM StopsAreReal == Spec => NoFalseStop
<1>1. IInv /\ [Next]_vars => [NoFalseStopStep]_vars
  BY NoFalseStopStepHolds DEF IInv
<1> QED
  BY <1>1, Inductive, PTL DEF Spec, NoFalseStop

\* The receipt of a live VM is never replaced or deleted (writeProcess, RemoveAll).
THEOREM ReceiptsSurvive == Spec => LiveReceiptKept
<1>1. IInv /\ [Next]_vars => [LiveReceiptKeptStep]_vars
  BY LiveReceiptKeptStepHolds DEF IInv
<1> QED
  BY <1>1, Inductive, PTL DEF Spec, LiveReceiptKept
=============================================================================
