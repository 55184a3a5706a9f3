------------------------- MODULE LifecycleStoreProofs -------------------------
(***************************************************************************)
(* The commands and companions of Lifecycle implement WorkspaceStore, for  *)
(* any sets of workspaces, commands, companions, disks and ports.  Steps   *)
(* that touch neither the rows nor the receipts nor an incarnation's life  *)
(* are dealt with once (Quiet); the others have one case each.             *)
(***************************************************************************)
EXTENDS LifecycleStore, LifecycleProofs

\* A step the store does not see, and that lets no command rely on more.
Quiet ==
    /\ UNCHANGED <<dbVars, receipt>>
    /\ \A p \in Proc : phase'[p] = "dead" <=> phase[p] = "dead"
    /\ \A e \in Cli : pc'[e] \in {"rmlock", "rmmeta", "rmrow", "receipt"} =>
        /\ name'[e] = name[e] /\ proc'[e] = proc[e]
        /\ IF pc'[e] = "receipt" THEN pc[e] = "receipt"
                                 ELSE pc[e] \in {"rmlock", "rmmeta", "rmrow"}

\* A companion on its way to its disk.
BootStep(p) == OpenDisk(p) \/ FlockDisk(p) \/ AttachDisk(p)

\* The other steps.
Loud ==
    \/ \E c \in Cli :
        \/ Reconcile(c) \/ Spawn(c) \/ WriteProcess(c) \/ RecordRunning(c)
        \/ SetActiveWorkspace(c) \/ RecordStopped(c) \/ DeleteWorkspace(c)
        \/ RmFiles(c) \/ Rename(c) \/ CreateWorkspace(c) \/ Cleanup(c)
    \/ \E p \in Proc : BootStep(p) \/ ProcExit(p)

LEMMA QuietOrLoud ==
    ASSUME TypeOK, LocalsInv, Next
    PROVE  Quiet \/ Loud
<1> USE NoneAssumption DEF TypeOK, VmType, CliType, Phase, Quiet, Goto, At,
        dbVars, fsVars, lockVars, vmVars, localVars
<1>n. ASSUME NEW c \in Cli, pc[c] # "idle" PROVE name[c] \in Name /\ Subject(c) \in Name
  BY <1>n DEF LocalsInv, Subject
<1>1. ASSUME NEW c \in Cli, Begin(c) PROVE Quiet
  BY <1>1, <1>n DEF Begin
<1>2. ASSUME NEW c \in Cli, BeginFork(c) PROVE Quiet
  BY <1>2, <1>n DEF BeginFork
<1>3. ASSUME NEW c \in Cli, LockSecond(c) PROVE Quiet
  BY <1>3, <1>n DEF LockSecond, Exit
<1>4. ASSUME NEW c \in Cli, OpenDB(c) PROVE Quiet
  BY <1>4, <1>n DEF OpenDB
<1>5. ASSUME NEW c \in Cli, LoadWorkspace(c) PROVE Quiet
  BY <1>5, <1>n DEF LoadWorkspace, Exit
<1>6. ASSUME NEW c \in Cli, LockDisk(c) PROVE Quiet
  BY <1>6, <1>n DEF LockDisk, Exit
<1>7. ASSUME NEW c \in Cli, Prepare(c) PROVE Quiet
  BY <1>7, <1>n DEF Prepare, Exit
<1>8. ASSUME NEW c \in Cli, WaitForSSH(c) PROVE Quiet
  BY <1>8, <1>n DEF WaitForSSH, Exit
<1>9. ASSUME NEW c \in Cli, StopSignal(c) PROVE Quiet
  BY <1>9, <1>n DEF StopSignal, Alive
<1>10. ASSUME NEW c \in Cli, StopExited(c) PROVE Quiet
  BY <1>10, <1>n DEF StopExited
<1>11. ASSUME NEW c \in Cli, RmLock(c) PROVE Quiet
  BY <1>11, <1>n DEF RmLock, Exit
<1>12. ASSUME NEW c \in Cli, RmMeta(c) PROVE Quiet
  BY <1>12, <1>n DEF RmMeta
<1>13. ASSUME NEW c \in Cli, RmDir(c) PROVE Quiet
  BY <1>13, <1>n DEF RmDir, Exit
<1>14. ASSUME NEW c \in Cli, LockSource(c) PROVE Quiet
  BY <1>14, <1>n DEF LockSource, Exit
<1>15. ASSUME NEW c \in Cli, Publish(c) PROVE Quiet
  BY <1>15, <1>n DEF Publish, Exit
<1>16. ASSUME NEW c \in Cli, CloneDisk(c) PROVE Quiet
  BY <1>16, <1>n DEF CloneDisk, Exit
<1>17. ASSUME NEW c \in Cli, LockMetadata(c) PROVE Quiet
  BY <1>17, <1>n DEF LockMetadata
<1>18. ASSUME NEW c \in Cli, Allocate(c) PROVE Quiet
  BY <1>18, <1>n DEF Allocate, Exit
<1>19. ASSUME NEW c \in Cli, CreateFails(c) PROVE Quiet
  BY <1>19, <1>n DEF CreateFails
<1>20. ASSUME NEW c \in Cli, Abort(c) PROVE Quiet
  BY <1>20, <1>n DEF Abort, Exit
<1>21. ASSUME NEW p \in Proc, GuestReady(p) PROVE Quiet
  BY <1>21 DEF GuestReady
<1> QED
  BY <1>1, <1>2, <1>3, <1>4, <1>5, <1>6, <1>7, <1>8, <1>9, <1>10, <1>11,
      <1>12, <1>13, <1>14, <1>15, <1>16, <1>17, <1>18, <1>19, <1>20, <1>21
  DEF Next, CliNext, CliStep, VmNext, Loud, BootStep

(***************************************************************************)
(* The two parts of the strengthening.                                     *)
(***************************************************************************)
LEMMA RecordInvStep ==
    ASSUME IInv, RecordInv, Next
    PROVE  RecordInv'
<1> USE NoneAssumption DEF IInv, TypeOK, DbType, CliType, RecordInv, Goto, At,
        dbVars, fsVars, lockVars, vmVars, localVars
<1>n. ASSUME NEW c \in Cli, pc[c] # "idle" PROVE name[c] \in Name /\ Subject(c) \in Name
  BY <1>n DEF LocalsInv, Subject
<1>o. ASSUME NEW c \in Cli, NEW e \in Cli, e # c,
             pc[c] \in Loaded \cup Publishing,
             pc[e] \in {"rmlock", "rmmeta", "rmrow"}
      PROVE  name[e] # name[c] /\ name[e] # Subject(c)
  BY <1>o, OtherNames DEF Locked, Loaded, Publishing, Step
<1>0. CASE Quiet
  BY <1>0, <1>n DEF Quiet
<1>1. ASSUME NEW c \in Cli, Reconcile(c) PROVE RecordInv'
  <2>1. Subject(c) \in rows /\ Subject(c) \in Name /\ proc[c] \in Proc \cup {None}
    BY <1>1, <1>n DEF Reconcile, PublicationInv, Loaded
  <2>2. /\ rows' = rows
        /\ dbState' = [dbState EXCEPT ![Subject(c)] =
                          IF proc[c] = None THEN "stopped" ELSE "running"]
        /\ dbPid' = [dbPid EXCEPT ![Subject(c)] = proc[c]]
    BY <1>1 DEF Reconcile, SetWorkspaceState
  <2>3. ASSUME NEW e \in Cli, pc'[e] \in {"rmlock", "rmmeta", "rmrow"}
        PROVE  dbState'[name'[e]] = "stopped"
    <3>1. CASE e = c
      <4>1. pc'[c] = AfterLoad(c) /\ name'[c] = name[c]
        BY <1>1, <2>3, <3>1 DEF Reconcile, Exit
      <4>2. op[c] # "fork" /\ proc[c] = None
        BY <2>3, <3>1, <4>1 DEF AfterLoad, RunStart, RunStop, RunRm, RunSwitch, DoFork
      <4> QED
        BY <2>1, <2>2, <3>1, <4>1, <4>2 DEF Subject
    <3>2. CASE e # c
      <4>1. pc'[e] = pc[e] /\ name'[e] = name[e]
        BY <1>1, <3>2 DEF Reconcile, Exit
      <4>2. name[e] # Subject(c) /\ name[e] \in Name
        BY <1>1, <2>3, <3>2, <4>1, <1>o, <1>n DEF Reconcile, Loaded
      <4> QED
        BY <2>1, <2>2, <2>3, <4>1, <4>2
    <3> QED
      BY <3>1, <3>2
  <2> QED
    BY <2>1, <2>2, <2>3
<1>2. ASSUME NEW c \in Cli, Spawn(c) PROVE RecordInv'
  BY <1>2, <1>n DEF Spawn, Exit
<1>3. ASSUME NEW c \in Cli, WriteProcess(c) PROVE RecordInv'
  BY <1>3, <1>n DEF WriteProcess, Exit
<1>4. ASSUME NEW c \in Cli, RecordRunning(c) PROVE RecordInv'
  <2>1. name[c] \in Name /\ name[c] \in rows /\ proc[c] \in Proc
    BY <1>4, <1>n, RecordRunningEffect DEF LocalsInv, PublicationInv, Loaded
  <2>2. \A e \in Cli : pc'[e] \in {"rmlock", "rmmeta", "rmrow"} =>
            pc'[e] = pc[e] /\ name'[e] = name[e] /\ name[e] # name[c] /\ name[e] \in Name
    BY <1>4, <1>n, <1>o, RecordRunningEffect DEF Loaded
  <2> QED
    BY <1>4, <2>1, <2>2, RecordRunningEffect
<1>5. ASSUME NEW c \in Cli, SetActiveWorkspace(c) PROVE RecordInv'
  BY <1>5, <1>n DEF SetActiveWorkspace, Exit
<1>6. ASSUME NEW c \in Cli, RecordStopped(c) PROVE RecordInv'
  <2>1. name[c] \in Name
    BY <1>6, <1>n DEF RecordStopped
  <2>2. \A e \in Cli : pc'[e] \in {"rmlock", "rmmeta", "rmrow"} =>
            name'[e] = name[e] /\ name[e] \in Name /\ (e # c => pc'[e] = pc[e])
    BY <1>6, <1>n DEF RecordStopped, Exit
  <2> QED
    BY <1>6, <2>1, <2>2 DEF RecordStopped, SetWorkspaceState
<1>7. ASSUME NEW c \in Cli, DeleteWorkspace(c) PROVE RecordInv'
  BY <1>7, <1>n DEF DeleteWorkspace
<1>8. ASSUME NEW c \in Cli, RmFiles(c) PROVE RecordInv'
  BY <1>8, <1>n DEF RmFiles
<1>9. ASSUME NEW c \in Cli, Rename(c) PROVE RecordInv'
  BY <1>9, <1>n DEF Rename
<1>10. ASSUME NEW c \in Cli, CreateWorkspace(c) PROVE RecordInv'
  BY <1>10, <1>n DEF CreateWorkspace
<1>11. ASSUME NEW c \in Cli, Cleanup(c) PROVE RecordInv'
  BY <1>11, <1>n DEF Cleanup, Exit
<1>12. ASSUME NEW p \in Proc, BootStep(p) PROVE RecordInv'
  BY <1>12 DEF BootStep, OpenDisk, FlockDisk, AttachDisk
<1>13. ASSUME NEW p \in Proc, ProcExit(p) PROVE RecordInv'
  BY <1>13 DEF ProcExit
<1> QED
  BY QuietOrLoud, <1>0, <1>1, <1>2, <1>3, <1>4, <1>5, <1>6, <1>7, <1>8, <1>9, <1>10,
     <1>11, <1>12, <1>13 DEF Loud

LEMMA ReceiptInvStep ==
    ASSUME IInv, ReceiptInv, Next
    PROVE  ReceiptInv'
<1> USE NoneAssumption DEF IInv, TypeOK, FsType, CliType, ReceiptInv, Goto, At,
        dbVars, fsVars, lockVars, vmVars, localVars
<1>n. ASSUME NEW c \in Cli, pc[c] # "idle" PROVE name[c] \in Name
  BY <1>n DEF LocalsInv
<1>p. ASSUME NEW c \in Cli, pc[c] = "receipt" PROVE proc[c] \in Proc
  BY <1>p DEF LocalsInv
<1>0. CASE Quiet
  BY <1>0 DEF Quiet
<1>1. ASSUME NEW c \in Cli, Reconcile(c) PROVE ReceiptInv'
  <2>1. \A e \in Cli : pc'[e] = "receipt" => pc[e] = "receipt" /\ proc'[e] = proc[e]
    BY <1>1 DEF Reconcile, Exit, AfterLoad, RunStart, RunStop, RunRm, RunSwitch, DoFork
  <2> QED
    BY <1>1, <2>1 DEF Reconcile
<1>2. ASSUME NEW c \in Cli, Spawn(c) PROVE ReceiptInv'
  <2>1. CASE Exit(c)
    BY <1>2, <2>1 DEF Spawn, Exit
  <2>2. CASE ~Exit(c)
    <3>1. PICK p \in Proc : /\ phase[p] = "free"
                            /\ proc' = [proc EXCEPT ![c] = p]
                            /\ pc' = [pc EXCEPT ![c] = "receipt"]
      BY <1>2, <2>2 DEF Spawn
    <3>2. /\ \A n \in Name : receipt[n] # p
          /\ \A e \in Cli : proc[e] # p
      BY <3>1 DEF LaunchedInv
    <3> QED
      BY <1>2, <3>1, <3>2 DEF Spawn
  <2> QED
    BY <2>1, <2>2
<1>3. ASSUME NEW c \in Cli, WriteProcess(c) PROVE ReceiptInv'
  <2>1. receipt' \in {receipt, [receipt EXCEPT ![name[c]] = proc[c]]}
    BY <1>3 DEF WriteProcess
  <2>2. \A e \in Cli : pc'[e] = "receipt" => e # c /\ pc[e] = "receipt" /\ proc'[e] = proc[e]
    BY <1>3 DEF WriteProcess, Exit
  <2>3. pc[c] = "receipt" /\ name[c] \in Name /\ proc[c] \in Proc
    BY <1>3, <1>n, <1>p DEF WriteProcess
  <2> QED
    BY <2>1, <2>2, <2>3
<1>4. ASSUME NEW c \in Cli, RecordRunning(c) PROVE ReceiptInv'
  BY <1>4, RecordRunningEffect
<1>5. ASSUME NEW c \in Cli, SetActiveWorkspace(c) PROVE ReceiptInv'
  BY <1>5 DEF SetActiveWorkspace, Exit
<1>6. ASSUME NEW c \in Cli, RecordStopped(c) PROVE ReceiptInv'
  BY <1>6 DEF RecordStopped, Exit
<1>7. ASSUME NEW c \in Cli, DeleteWorkspace(c) PROVE ReceiptInv'
  BY <1>7 DEF DeleteWorkspace
<1>8. ASSUME NEW c \in Cli, RmFiles(c) PROVE ReceiptInv'
  BY <1>8, <1>n, <1>p DEF RmFiles
<1>9. ASSUME NEW c \in Cli, Rename(c) PROVE ReceiptInv'
  BY <1>9, <1>n, <1>p DEF Rename
<1>10. ASSUME NEW c \in Cli, CreateWorkspace(c) PROVE ReceiptInv'
  BY <1>10 DEF CreateWorkspace
<1>11. ASSUME NEW c \in Cli, Cleanup(c) PROVE ReceiptInv'
  BY <1>11, <1>n, <1>p DEF Cleanup, Exit
<1>12. ASSUME NEW p \in Proc, BootStep(p) PROVE ReceiptInv'
  BY <1>12 DEF BootStep, OpenDisk, FlockDisk, AttachDisk
<1>13. ASSUME NEW p \in Proc, ProcExit(p) PROVE ReceiptInv'
  BY <1>13 DEF ProcExit
<1> QED
  BY QuietOrLoud, <1>0, <1>1, <1>2, <1>3, <1>4, <1>5, <1>6, <1>7, <1>8, <1>9, <1>10,
     <1>11, <1>12, <1>13 DEF Loud

(***************************************************************************)
(* The simulation.                                                         *)
(***************************************************************************)
LEMMA StoreStep ==
    ASSUME IInv, RecordInv, ReceiptInv, Next
    PROVE  Store!Next \/ UNCHANGED Store!vars
<1> USE NoneAssumption DEF IInv, TypeOK, DbType, FsType, VmType, CliType, Goto, At,
        dbVars, fsVars, lockVars, vmVars, localVars
<1> DEFINE gone == {p \in Proc : phase[p] = "dead"}
<1>n. ASSUME NEW c \in Cli, pc[c] # "idle" PROVE name[c] \in Name /\ Subject(c) \in Name
  BY <1>n DEF LocalsInv, Subject
\* A recorded incarnation that is not alive has exited.
<1>d. ASSUME NEW n \in Name, dbPid[n] # None, ~Alive(receipt[n])
      PROVE  dbPid[n] \in gone
  <2>1. n \in rows /\ dbState[n] = "running"
    BY <1>d DEF RecordInv
  <2>2. dbPid[n] = receipt[n] /\ receipt[n] \in Proc /\ phase[receipt[n]] # "free"
    BY <2>1 DEF RunningHasReceipt, LaunchedInv
  <2> QED
    BY <1>d, <2>2 DEF Alive
\* No other workspace has this incarnation recorded.
<1>u. ASSUME NEW n \in Name, receipt[n] \in Proc, dbPid[n] = None
      PROVE  \A m \in Name : dbPid[m] # receipt[n]
  <2>1. ASSUME NEW m \in Name, dbPid[m] = receipt[n] PROVE FALSE
    <3>1. m \in rows /\ dbState[m] = "running"
      BY <1>u, <2>1 DEF RecordInv
    <3>2. receipt[m] = receipt[n]
      BY <2>1, <3>1 DEF RunningHasReceipt
    <3> QED
      BY <1>u, <2>1, <3>2 DEF ReceiptInv
  <2> QED
    BY <2>1
\* SetWorkspaceState(n, "stopped", None) of one that has exited, or was stopped.
<1>s. ASSUME NEW n \in Name, SetWorkspaceState(n, "stopped", None), ~Alive(receipt[n]),
             UNCHANGED phase
      PROVE  Store!Next \/ UNCHANGED Store!vars
  <2>1. CASE dbPid[n] = None
    <3>1. n \notin active
      BY <2>1 DEF RecordInv, OneRoutingTarget
    <3> QED
      BY <1>s, <2>1, <3>1 DEF SetWorkspaceState, Store!vars
  <2>2. CASE dbPid[n] # None
    <3>1. Store!Retire(n)
      BY <1>s, <2>2, <1>d DEF SetWorkspaceState, Store!Retire
    <3> QED
      BY <3>1 DEF Store!Next
  <2> QED
    BY <2>1, <2>2
\* SetWorkspaceState(n, "running", p) of the incarnation in the receipt.
<1>r. ASSUME NEW n \in rows, receipt[n] \in Proc, SetWorkspaceState(n, "running", receipt[n]),
             UNCHANGED phase
      PROVE  Store!Next \/ UNCHANGED Store!vars
  <2>1. CASE dbPid[n] = None
    <3>1. Store!Launch(n, receipt[n])
      BY <1>r, <2>1, <1>u DEF SetWorkspaceState, Store!Launch
    <3> QED
      BY <1>r, <3>1 DEF Store!Next
  <2>2. CASE dbPid[n] # None
    <3>1. dbPid[n] = receipt[n]
      BY <2>2 DEF RecordInv, RunningHasReceipt
    <3> QED
      BY <1>r, <3>1 DEF SetWorkspaceState, Store!vars
  <2> QED
    BY <2>1, <2>2
<1>0. CASE Quiet
  BY <1>0 DEF Quiet, Store!vars
<1>1. ASSUME NEW c \in Cli, Reconcile(c) PROVE Store!Next \/ UNCHANGED Store!vars
  <2>1. Subject(c) \in rows /\ Subject(c) \in Name /\ phase' = phase
    BY <1>1, <1>n DEF Reconcile, PublicationInv, Loaded
  <2>2. CASE proc[c] = None
    BY <1>1, <2>1, <2>2, <1>s DEF Reconcile, KnownInv, Known
  <2>3. CASE proc[c] # None
    BY <1>1, <2>1, <2>3, <1>r DEF Reconcile, KnownInv, Known
  <2> QED
    BY <2>2, <2>3
<1>2. ASSUME NEW c \in Cli, Spawn(c) PROVE UNCHANGED Store!vars
  BY <1>2 DEF Spawn, Store!vars
<1>3. ASSUME NEW c \in Cli, WriteProcess(c) PROVE UNCHANGED Store!vars
  BY <1>3 DEF WriteProcess, Alive, Store!vars
<1>4. ASSUME NEW c \in Cli, RecordRunning(c) PROVE Store!Next \/ UNCHANGED Store!vars
  <2>1. /\ name[c] \in rows /\ phase' = phase
        /\ receipt[name[c]] = proc[c] /\ receipt[name[c]] \in Proc
    BY <1>4, RecordRunningEffect DEF LocalsInv, PublicationInv, Loaded, KnownInv, Known
  <2>2. CASE SetWorkspaceState(name[c], "running", proc[c])
    BY <2>1, <2>2, <1>r
  <2>3. CASE UNCHANGED dbVars
    BY <2>1, <2>3 DEF Store!vars
  <2> QED
    BY <1>4, <2>2, <2>3 DEF RecordRunning
<1>5. ASSUME NEW c \in Cli, SetActiveWorkspace(c) PROVE Store!Next \/ UNCHANGED Store!vars
  <2>1. CASE active' = active
    BY <1>5, <2>1 DEF SetActiveWorkspace, Store!vars
  <2>2. CASE active' # active
    <3>1. Store!Activate(name[c]) /\ name[c] \in Name
      BY <1>5, <2>2 DEF SetActiveWorkspace, RecordInv, Store!Activate
    <3> QED
      BY <3>1 DEF Store!Next
  <2> QED
    BY <2>1, <2>2
<1>6. ASSUME NEW c \in Cli, RecordStopped(c) PROVE Store!Next \/ UNCHANGED Store!vars
  BY <1>6, <1>n, <1>s DEF RecordStopped, KnownInv, Known, Halted
<1>7. ASSUME NEW c \in Cli, DeleteWorkspace(c) PROVE Store!Next
  <2>1. name[c] \in rows /\ dbPid[name[c]] = None /\ name[c] \notin active
    BY <1>7, <1>n DEF DeleteWorkspace, PublicationInv, Loaded, RecordInv, OneRoutingTarget
  <2>2. Store!Delete(name[c])
    BY <1>7, <2>1 DEF DeleteWorkspace, Store!Delete
  <2> QED
    BY <2>1, <2>2 DEF Store!Next
<1>8. ASSUME NEW c \in Cli, RmFiles(c) PROVE UNCHANGED Store!vars
  BY <1>8 DEF RmFiles, Store!vars
<1>9. ASSUME NEW c \in Cli, Rename(c) PROVE UNCHANGED Store!vars
  BY <1>9 DEF Rename, Store!vars
<1>10. ASSUME NEW c \in Cli, CreateWorkspace(c) PROVE Store!Next
  <2>1. name[c] \in Name /\ name[c] \notin rows /\ dbPid[name[c]] = None
    BY <1>10, <1>n DEF CreateWorkspace, Insertable, RecordInv
  <2>2. Store!Create(name[c])
    BY <1>10, <2>1 DEF CreateWorkspace, Store!Create
  <2> QED
    BY <2>1, <2>2 DEF Store!Next
<1>11. ASSUME NEW c \in Cli, Cleanup(c) PROVE UNCHANGED Store!vars
  BY <1>11 DEF Cleanup, Store!vars
<1>e. ASSUME NEW p \in Proc, phase' = [phase EXCEPT ![p] = "dead"],
             UNCHANGED <<rows, dbPid, active>>
      PROVE  Store!Next
  <2>1. Store!VmExit(p)
    BY <1>e DEF Store!VmExit
  <2> QED
    BY <2>1 DEF Store!Next
<1>12. ASSUME NEW p \in Proc, BootStep(p) PROVE Store!Next \/ UNCHANGED Store!vars
  <2>1. CASE Reap(p)
    BY <1>12, <2>1, <1>e DEF BootStep, OpenDisk, FlockDisk, AttachDisk, Reap
  <2>2. CASE ~Reap(p)
    BY <1>12, <2>2 DEF BootStep, OpenDisk, FlockDisk, AttachDisk, Store!vars
  <2> QED
    BY <2>1, <2>2
<1>13. ASSUME NEW p \in Proc, ProcExit(p) PROVE Store!Next
  BY <1>13, <1>e DEF ProcExit, Reap
<1> QED
  BY QuietOrLoud, <1>0, <1>1, <1>2, <1>3, <1>4, <1>5, <1>6, <1>7, <1>8, <1>9, <1>10,
     <1>11, <1>12, <1>13 DEF Loud

\* Receipts name one incarnation each, and the columns of a row agree (vm.Start,
\* SetWorkspaceState).
THEOREM RecordsConsistent == Spec => [](RecordInv /\ ReceiptInv)
<1>1. Init => RecordInv /\ ReceiptInv
  BY DEF Init, RecordInv, ReceiptInv
<1>2. IInv /\ RecordInv /\ ReceiptInv /\ [Next]_vars => (RecordInv /\ ReceiptInv)'
  <2>1. CASE Next
    BY <2>1, RecordInvStep, ReceiptInvStep
  <2>2. CASE UNCHANGED vars
    BY <2>2 DEF RecordInv, ReceiptInv, vars, dbVars, fsVars, lockVars, vmVars, localVars
  <2> QED
    BY <2>1, <2>2
<1> QED
  BY <1>1, <1>2, Inductive, PTL DEF Spec

\* Whatever commands interleave and wherever they crash, a reader of the metadata
\* store sees workspaces created, launched, activated, retired and deleted in
\* single steps that the store allows (all of internal/cli's lifecycle).
THEOREM StoreImplemented == Spec => WorkspaceStoreSpec
<1>1. Init => Store!Init
  BY DEF Init, Store!Init
<1>2. IInv /\ RecordInv /\ ReceiptInv /\ [Next]_vars => [Store!Next]_Store!vars
  <2>1. CASE Next
    BY <2>1, StoreStep
  <2>2. CASE UNCHANGED vars
    BY <2>2 DEF vars, dbVars, vmVars, Store!vars
  <2> QED
    BY <2>1, <2>2
<1> QED
  BY <1>1, <1>2, Inductive, RecordsConsistent, PTL DEF Spec, WorkspaceStoreSpec, Store!Spec
=============================================================================
