------------------------------ MODULE Lifecycle ------------------------------
(***************************************************************************)
(* The workspace lifecycle of devd: concurrent CLI commands (run, fork,    *)
(* start, stop, rm, switch, ps/ssh) over a SQLite table of workspaces, one *)
(* directory per workspace, three kinds of flock (operation, metadata and  *)
(* disk inode) and the detached devd-vm companions the commands launch.    *)
(*                                                                         *)
(* A command is a sequence of steps named after the functions of           *)
(* internal/cli; `pc' names the step it takes next.  A command may die or  *)
(* return an error between any two steps (Abort); companions outlive it.   *)
(*                                                                         *)
(* Abstractions.  A Proc is one process incarnation (PID and birth         *)
(* identity), used for one launch.  A Disk is an inode.  A companion opens *)
(* its root disk by path, locks the inode it opened, and hands the path to *)
(* libkrun, which opens it again: three steps, with commands in between.   *)
(***************************************************************************)
EXTENDS Naturals

CONSTANTS
    Name,     \* workspace names; numbers, so that lock order is <
    Cli,      \* concurrently running devd commands
    Proc,     \* incarnations of the devd-vm companion
    Disk,     \* inodes of root disks
    SSHPort,  \* host ports from config.SSHPortBase up to 65535
    Custom,   \* the workspaces whose spec selects a custom kernel
    Command,  \* the commands that users issue
    None

ASSUME NameAssumption == Name \subseteq Nat
ASSUME PortAssumption == SSHPort \subseteq Nat \ {0}
ASSUME CustomAssumption == Custom \subseteq Name
ASSUME CommandAssumption ==
    Command \subseteq {"run", "fork", "start", "stop", "rm", "rmf", "switch", "ps"}
ASSUME NoneAssumption == None \notin Name \cup Cli \cup Proc \cup Disk
ASSUME OwnerAssumption == Cli \cap Proc = {}

VARIABLES
    \* SQLite, table workspaces
    rows, dbState, dbPid, active, sshPort,
    \* the file system: workspaces/<name>/, its rootfs.ext4, its process.json
    dir, disk, receipt,
    \* flocks: locks/<name>.lock, metadata.lock, root disk inodes
    opLock, metaLock, diskLock,
    \* companions: the workspace whose path each was given, the inode it opened
    \* first, the one it has attached, the port its sshd listens on
    phase, pname, fd, att, vport,
    \* commands: the step to take next, the arguments and the local variables
    pc, op, name, src, proc, stage, port

dbVars == <<rows, dbState, dbPid, active, sshPort>>
fsVars == <<dir, disk, receipt>>
lockVars == <<opLock, metaLock, diskLock>>
vmVars == <<phase, pname, fd, att, vport>>
localVars == <<op, name, src, proc, stage, port>>
vars == <<dbVars, fsVars, lockVars, vmVars, pc, localVars>>

Op == {"run", "fork", "start", "stop", "rm", "rmf", "switch", "ps"}
Phase == {"free", "spawned", "opened", "locked", "up", "ready", "dying", "dead"}
Step == {"idle", "second", "open", "load", "reconcile", "lockdisk", "prepare",
         "spawn", "receipt", "recrun", "wait", "activate", "stopping",
         "recstop", "rmlock", "rmmeta", "rmrow", "rmfiles", "rmdir",
         "srclock", "publish", "clone", "pubmeta", "alloc", "rename",
         "insert", "cleanup"}

Init ==
    /\ rows = {}
    /\ dbState = [n \in Name |-> "stopped"]
    /\ dbPid = [n \in Name |-> None]
    /\ active = {}
    /\ sshPort = [n \in Name |-> 0]
    /\ dir = {}
    /\ disk = [n \in Name |-> None]
    /\ receipt = [n \in Name |-> None]
    /\ opLock = [n \in Name |-> None]
    /\ metaLock = None
    /\ diskLock = [d \in Disk |-> None]
    /\ phase = [p \in Proc |-> "free"]
    /\ pname = [p \in Proc |-> None]
    /\ fd = [p \in Proc |-> None]
    /\ att = [p \in Proc |-> None]
    /\ vport = [p \in Proc |-> 0]
    /\ pc = [c \in Cli |-> "idle"]
    /\ op = [c \in Cli |-> "ps"]
    /\ name = [c \in Cli |-> None]
    /\ src = [c \in Cli |-> None]
    /\ proc = [c \in Cli |-> None]
    /\ stage = [c \in Cli |-> None]
    /\ port = [c \in Cli |-> 0]

-----------------------------------------------------------------------------
(***************************************************************************)
(* Helpers shared by the commands.                                         *)
(***************************************************************************)
Goto(c, s) == pc' = [pc EXCEPT ![c] = s]
At(c, s) == pc[c] = s

\* Process.Running: this very incarnation still exists.
Alive(p) == p \in Proc /\ phase[p] \notin {"free", "dead"}

\* Mutant: the flock result is not looked at.
DiskFreeUnchecked(d) == TRUE

\* storage.LockDisk succeeds on this inode.
DiskFree(d) == diskLock[d] = None

\* The workspace loadWorkspace is called for: the source of a fork.
Subject(c) == IF op[c] = "fork" THEN src[c] ELSE name[c]

\* Mutant: no Lstat, an orphan directory is adopted.
CheckNewRecordOnly(n) == n \notin rows

\* checkNewWorkspace: neither a record nor a directory of that name.
CheckNew(n) == n \notin rows /\ n \notin dir

\* A file that no directory entry, staging area, companion or lock refers to.
Fresh(d) == /\ \A n \in Name : disk[n] # d
            /\ \A c \in Cli : stage[c] # d
            /\ \A p \in Proc : fd[p] # d /\ att[p] # d
            /\ diskLock[d] = None

\* Somebody's sshd accepts the devd key on this host port.
Listening(q) == \E p \in Proc : phase[p] = "ready" /\ vport[p] = q

\* Mutant: is_active survives a stop.
SetWorkspaceStateOnly(n, s, p) ==
    /\ dbState' = [dbState EXCEPT ![n] = s]
    /\ dbPid' = [dbPid EXCEPT ![n] = p]
    /\ UNCHANGED <<rows, active, sshPort>>

\* SetWorkspaceState: a stopped workspace is never the routing target.
SetWorkspaceState(n, s, p) ==
    /\ dbState' = [dbState EXCEPT ![n] = s]
    /\ dbPid' = [dbPid EXCEPT ![n] = p]
    /\ active' = IF s = "stopped" THEN active \ {n} ELSE active
    /\ UNCHANGED <<rows, sshPort>>

\* The end of a command process: every descriptor is closed, so every flock it
\* holds is released.
Exit(c) ==
    /\ opLock' = [n \in Name |-> IF opLock[n] = c THEN None ELSE opLock[n]]
    /\ metaLock' = IF metaLock = c THEN None ELSE metaLock
    /\ diskLock' = [d \in Disk |-> IF diskLock[d] = c THEN None ELSE diskLock[d]]
    /\ Goto(c, "idle")
    /\ op' = [op EXCEPT ![c] = "ps"]
    /\ name' = [name EXCEPT ![c] = None]
    /\ src' = [src EXCEPT ![c] = None]
    /\ proc' = [proc EXCEPT ![c] = None]
    /\ stage' = [stage EXCEPT ![c] = None]
    /\ port' = [port EXCEPT ![c] = 0]

\* A command that crashes, is killed, or returns an error on a path that only
\* closes descriptors (a staging directory it owned is unreachable afterwards).
Abort(c) ==
    /\ ~At(c, "idle")
    /\ Exit(c)
    /\ UNCHANGED <<dbVars, fsVars, vmVars>>

-----------------------------------------------------------------------------
(***************************************************************************)
(* workspace.Lock: non-blocking, sorted by name; a busy lock ends the      *)
(* command.  db.Open waits for the metadata lock and releases it.          *)
(***************************************************************************)
Begin(c) ==
    /\ At(c, "idle")
    /\ \E o \in Command \ {"fork"}, n \in Name :
        /\ opLock[n] = None
        /\ opLock' = [opLock EXCEPT ![n] = c]
        /\ op' = [op EXCEPT ![c] = o]
        /\ name' = [name EXCEPT ![c] = n]
        /\ Goto(c, IF o = "ps" THEN "load" ELSE "open")
    /\ UNCHANGED <<dbVars, fsVars, metaLock, diskLock, vmVars, src, proc, stage, port>>

BeginFork(c) ==
    /\ At(c, "idle")
    /\ "fork" \in Command
    /\ \E s, n \in Name :
        LET first == IF s < n THEN s ELSE n IN
        /\ s # n
        /\ opLock[first] = None
        /\ opLock' = [opLock EXCEPT ![first] = c]
        /\ op' = [op EXCEPT ![c] = "fork"]
        /\ name' = [name EXCEPT ![c] = n]
        /\ src' = [src EXCEPT ![c] = s]
        /\ Goto(c, "second")
    /\ UNCHANGED <<dbVars, fsVars, metaLock, diskLock, vmVars, proc, stage, port>>

LockSecond(c) ==
    LET second == IF src[c] < name[c] THEN name[c] ELSE src[c] IN
    /\ At(c, "second")
    /\ \/ /\ opLock[second] = None
          /\ opLock' = [opLock EXCEPT ![second] = c]
          /\ Goto(c, "open")
          /\ UNCHANGED <<metaLock, diskLock, localVars>>
       \/ /\ opLock[second] # None
          /\ Exit(c)
    /\ UNCHANGED <<dbVars, fsVars, vmVars>>

OpenDB(c) ==
    /\ At(c, "open")
    /\ metaLock = None
    /\ Goto(c, IF op[c] = "run" THEN "publish" ELSE "load")
    /\ UNCHANGED <<dbVars, fsVars, lockVars, vmVars, localVars>>

-----------------------------------------------------------------------------
(***************************************************************************)
(* loadWorkspace: observe the receipt, probe the disk, reconcile the row.  *)
(* proc[c] is the observed incarnation, None for a stopped workspace.      *)
(***************************************************************************)
LoadWorkspace(c) ==
    LET n == Subject(c)
        running == Alive(receipt[n])
        legacy == receipt[n] = None /\ Alive(dbPid[n])
        confirmed == running \/ (~legacy /\ (disk[n] = None \/ DiskFree(disk[n])))
    IN
    /\ At(c, "load")
    /\ \/ /\ n \in rows /\ confirmed
          /\ proc' = [proc EXCEPT ![c] = IF running THEN receipt[n] ELSE None]
          /\ Goto(c, "reconcile")
          /\ UNCHANGED <<lockVars, op, name, src, stage, port>>
       \/ /\ ~(n \in rows /\ confirmed)
          /\ Exit(c)
    /\ UNCHANGED <<dbVars, fsVars, vmVars>>

\* Mutant: start does not look at the observed state.
RunStartUnchecked(c) == "lockdisk"

\* What each command does with the workspace it has loaded.
RunStart(c) == IF proc[c] = None THEN "lockdisk" ELSE "idle"

RunStop(c) == IF proc[c] = None THEN "idle" ELSE "stopping"

RunRm(c) == CASE proc[c] = None -> "rmlock"
              [] proc[c] # None /\ op[c] = "rmf" -> "stopping"
              [] OTHER -> "idle"

RunSwitch(c) == IF proc[c] = None \/ name[c] \in active THEN "idle" ELSE "activate"

DoFork(c) == IF proc[c] = None THEN "srclock" ELSE "idle"

\* ps and ssh only observe.
AfterLoad(c) ==
    CASE op[c] = "start" -> RunStart(c)
      [] op[c] = "stop" -> RunStop(c)
      [] op[c] \in {"rm", "rmf"} -> RunRm(c)
      [] op[c] = "switch" -> RunSwitch(c)
      [] op[c] = "fork" -> DoFork(c)
      [] OTHER -> "idle"

Reconcile(c) ==
    /\ At(c, "reconcile")
    /\ SetWorkspaceState(Subject(c),
                         IF proc[c] = None THEN "stopped" ELSE "running", proc[c])
    /\ \/ /\ AfterLoad(c) # "idle"
          /\ Goto(c, AfterLoad(c))
          /\ UNCHANGED <<lockVars, localVars>>
       \/ /\ AfterLoad(c) = "idle"
          /\ Exit(c)
    /\ UNCHANGED <<fsVars, vmVars>>

-----------------------------------------------------------------------------
(***************************************************************************)
(* startWorkspace.                                                         *)
(***************************************************************************)
LockDisk(c) ==
    LET d == disk[name[c]] IN
    /\ At(c, "lockdisk")
    /\ \/ /\ d \in Disk /\ DiskFree(d)
          /\ diskLock' = [diskLock EXCEPT ![d] = c]
          /\ Goto(c, "prepare")
          /\ UNCHANGED <<opLock, metaLock, localVars>>
       \/ /\ ~(d \in Disk /\ DiskFree(d))
          /\ Exit(c)
    /\ UNCHANGED <<dbVars, fsVars, vmVars>>

\* Mutant: the operation lock is given up together with the disk lock.
PrepareUnlocks(c) ==
    /\ At(c, "prepare")
    /\ ~Listening(sshPort[name[c]])
    /\ diskLock' = [diskLock EXCEPT ![disk[name[c]]] = None]
    /\ opLock' = [opLock EXCEPT ![name[c]] = None]
    /\ Goto(c, "spawn")
    /\ UNCHANGED <<dbVars, fsVars, metaLock, vmVars, localVars>>

\* prepareBoot, ensureProxyDaemon and ensurePortAvailable under the disk lock,
\* which is then closed for the companion to take.
Prepare(c) ==
    LET busy == Listening(sshPort[name[c]]) IN
    /\ At(c, "prepare")
    /\ \/ /\ ~busy
          /\ diskLock' = [diskLock EXCEPT ![disk[name[c]]] = None]
          /\ Goto(c, "spawn")
          /\ UNCHANGED <<opLock, metaLock, localVars>>
       \/ /\ busy
          /\ Exit(c)
    /\ UNCHANGED <<dbVars, fsVars, vmVars>>

\* vm.Start up to cmd.Start, which may fail.
Spawn(c) ==
    /\ At(c, "spawn")
    /\ \/ \E p \in Proc :
            /\ phase[p] = "free"
            /\ phase' = [phase EXCEPT ![p] = "spawned"]
            /\ pname' = [pname EXCEPT ![p] = name[c]]
            /\ vport' = [vport EXCEPT ![p] = sshPort[name[c]]]
            /\ proc' = [proc EXCEPT ![c] = p]
            /\ Goto(c, "receipt")
            /\ UNCHANGED <<lockVars, op, name, src, stage, port>>
       \/ /\ Exit(c)
          /\ UNCHANGED <<phase, pname, vport>>
    /\ UNCHANGED <<dbVars, fsVars, fd, att>>

\* Mutant: an error of writeProcess is ignored.
WriteProcessUnchecked(c) ==
    /\ At(c, "receipt")
    /\ receipt' \in {receipt, [receipt EXCEPT ![name[c]] = proc[c]]}
    /\ Goto(c, "recrun")
    /\ UNCHANGED <<dbVars, dir, disk, vmVars, lockVars, localVars>>

\* The rest of vm.Start: a companion whose receipt cannot be published (the
\* rename may have happened before the error) is killed but not waited for.
WriteProcess(c) ==
    LET p == proc[c]
        written == [receipt EXCEPT ![name[c]] = p]
    IN
    /\ At(c, "receipt")
    /\ \/ /\ Alive(p)
          /\ receipt' = written
          /\ Goto(c, "recrun")
          /\ UNCHANGED <<phase, lockVars, localVars>>
       \/ /\ receipt' \in IF Alive(p) THEN {receipt, written} ELSE {receipt}
          /\ phase' = IF Alive(p) THEN [phase EXCEPT ![p] = "dying"] ELSE phase
          /\ Exit(c)
    /\ UNCHANGED <<dbVars, dir, disk, pname, fd, att, vport>>

\* A database error here, and any later failure, stops the launched VM.
RecordRunning(c) ==
    /\ At(c, "recrun")
    /\ \/ /\ SetWorkspaceState(name[c], "running", proc[c])
          /\ Goto(c, "wait")
       \/ /\ Goto(c, "stopping")
          /\ UNCHANGED dbVars
    /\ UNCHANGED <<fsVars, lockVars, vmVars, localVars>>

\* waitForSSH asks whether the launched incarnation runs, then whether an sshd
\* answers on the workspace's port.  A live custom kernel is left running.
WaitForSSH(c) ==
    /\ At(c, "wait")
    /\ \/ /\ Alive(proc[c]) /\ Listening(sshPort[name[c]])
          /\ Goto(c, "activate")
          /\ UNCHANGED <<lockVars, localVars>>
       \/ /\ name[c] \in Custom /\ Alive(proc[c])
          /\ Exit(c)
       \/ /\ ~(name[c] \in Custom /\ Alive(proc[c]))
          /\ Goto(c, "stopping")
          /\ UNCHANGED <<lockVars, localVars>>
    /\ UNCHANGED <<dbVars, fsVars, vmVars>>

\* CompleteBoot and SetActiveWorkspace, one transaction that refuses a row that
\* is not running.
SetActiveWorkspace(c) ==
    /\ At(c, "activate")
    /\ \/ /\ name[c] \in rows /\ dbState[name[c]] = "running"
          /\ active' = {name[c]}
          /\ Exit(c)
       \/ /\ op[c] = "switch"
          /\ Exit(c)
          /\ UNCHANGED active
       \/ /\ op[c] # "switch"
          /\ Goto(c, "stopping")
          /\ UNCHANGED <<active, lockVars, localVars>>
    /\ UNCHANGED <<rows, dbState, dbPid, sshPort, fsVars, vmVars>>

-----------------------------------------------------------------------------
(***************************************************************************)
(* stopWorkspace: vm.Stop on the incarnation the receipt names, then the   *)
(* row.  An error of stopWorkspace is Abort: the row and receipt stay.     *)
(***************************************************************************)
\* Mutant: the guest is asked to exit, never forced.
StopSignalPolite(c) ==
    /\ At(c, "stopping")
    /\ Alive(receipt[name[c]])
    /\ UNCHANGED vars

StopSignal(c) ==
    LET p == receipt[name[c]] IN
    /\ At(c, "stopping")
    /\ Alive(p) /\ phase[p] # "dying"
    /\ phase' = [phase EXCEPT ![p] = "dying"]
    /\ UNCHANGED <<dbVars, fsVars, lockVars, pname, fd, att, vport, pc, localVars>>

\* Mutant: the state is recorded without waiting for the exit.
StopExitedEarly(c) ==
    /\ At(c, "stopping")
    /\ Goto(c, "recstop")
    /\ UNCHANGED <<dbVars, fsVars, lockVars, vmVars, localVars>>

\* Without a receipt a live recorded PID is never assumed to be the VM.
StopExited(c) ==
    /\ At(c, "stopping")
    /\ ~Alive(receipt[name[c]])
    /\ receipt[name[c]] = None => ~Alive(proc[c])
    /\ Goto(c, "recstop")
    /\ UNCHANGED <<dbVars, fsVars, lockVars, vmVars, localVars>>

RecordStopped(c) ==
    /\ At(c, "recstop")
    /\ SetWorkspaceState(name[c], "stopped", None)
    /\ \/ /\ op[c] = "rmf"
          /\ Goto(c, "rmlock")
          /\ UNCHANGED <<lockVars, localVars>>
       \/ /\ op[c] # "rmf"
          /\ Exit(c)
    /\ UNCHANGED <<fsVars, vmVars>>

-----------------------------------------------------------------------------
(***************************************************************************)
(* removeWorkspace: disk lock, metadata lock, the row, then the files.     *)
(***************************************************************************)
\* Mutant: rm trusts the observed state and takes no disk lock.
RmLockSkipped(c) ==
    /\ At(c, "rmlock")
    /\ Goto(c, "rmmeta")
    /\ UNCHANGED <<dbVars, fsVars, lockVars, vmVars, localVars>>

RmLock(c) ==
    LET d == disk[name[c]] IN
    /\ At(c, "rmlock")
    /\ \/ /\ d = None \/ DiskFree(d)
          /\ diskLock' = [e \in Disk |-> IF e = d THEN c ELSE diskLock[e]]
          /\ Goto(c, "rmmeta")
          /\ UNCHANGED <<opLock, metaLock, localVars>>
       \/ /\ ~(d = None \/ DiskFree(d))
          /\ Exit(c)
    /\ UNCHANGED <<dbVars, fsVars, vmVars>>

\* Mutant: the files go before the record.
RmMetaFilesFirst(c) ==
    /\ At(c, "rmmeta")
    /\ metaLock = None
    /\ metaLock' = c
    /\ Goto(c, "rmfiles")
    /\ UNCHANGED <<dbVars, fsVars, opLock, diskLock, vmVars, localVars>>

RmMeta(c) ==
    /\ At(c, "rmmeta")
    /\ metaLock = None
    /\ metaLock' = c
    /\ Goto(c, "rmrow")
    /\ UNCHANGED <<dbVars, fsVars, opLock, diskLock, vmVars, localVars>>

DeleteWorkspace(c) ==
    LET n == name[c] IN
    /\ At(c, "rmrow")
    /\ rows' = rows \ {n}
    /\ dbState' = [dbState EXCEPT ![n] = "stopped"]
    /\ dbPid' = [dbPid EXCEPT ![n] = None]
    /\ active' = active \ {n}
    /\ sshPort' = [sshPort EXCEPT ![n] = 0]
    /\ Goto(c, "rmfiles")
    /\ UNCHANGED <<fsVars, lockVars, vmVars, localVars>>

\* os.RemoveAll, not atomic: first the entries, then the directory.
RmFiles(c) ==
    LET n == name[c] IN
    /\ At(c, "rmfiles")
    /\ disk' = [disk EXCEPT ![n] = None]
    /\ receipt' = [receipt EXCEPT ![n] = None]
    /\ Goto(c, "rmdir")
    /\ UNCHANGED <<dbVars, dir, lockVars, vmVars, localVars>>

\* The command ends after refreshing the ssh config and stopping an idle proxy.
RmDir(c) ==
    /\ At(c, "rmdir")
    /\ dir' = dir \ {name[c]}
    /\ Exit(c)
    /\ UNCHANGED <<dbVars, disk, receipt, vmVars>>

-----------------------------------------------------------------------------
(***************************************************************************)
(* doFork locks the source disk; publishWorkspace, shared with run, clones *)
(* into a staging directory, allocates under the metadata lock, renames    *)
(* and inserts the row.                                                    *)
(***************************************************************************)
\* Mutant: fork trusts the observed state of its source.
LockSourceSkipped(c) ==
    /\ At(c, "srclock")
    /\ Goto(c, "publish")
    /\ UNCHANGED <<dbVars, fsVars, lockVars, vmVars, localVars>>

LockSource(c) ==
    LET d == disk[src[c]] IN
    /\ At(c, "srclock")
    /\ \/ /\ d \in Disk /\ DiskFree(d)
          /\ diskLock' = [diskLock EXCEPT ![d] = c]
          /\ Goto(c, "publish")
          /\ UNCHANGED <<opLock, metaLock, localVars>>
       \/ /\ ~(d \in Disk /\ DiskFree(d))
          /\ Exit(c)
    /\ UNCHANGED <<dbVars, fsVars, vmVars>>

\* provisionWorkspace and publishWorkspace refuse an existing name before they
\* create anything.
Publish(c) ==
    /\ At(c, "publish")
    /\ \/ /\ CheckNew(name[c])
          /\ Goto(c, "clone")
          /\ UNCHANGED <<lockVars, localVars>>
       \/ /\ ~CheckNew(name[c])
          /\ Exit(c)
    /\ UNCHANGED <<dbVars, fsVars, vmVars>>

\* CloneDisk into the staging directory; on error the staging directory goes.
CloneDisk(c) ==
    /\ At(c, "clone")
    /\ \/ \E d \in Disk :
            /\ Fresh(d)
            /\ stage' = [stage EXCEPT ![c] = d]
            /\ Goto(c, "pubmeta")
            /\ UNCHANGED <<lockVars, op, name, src, proc, port>>
       \/ Exit(c)
    /\ UNCHANGED <<dbVars, fsVars, vmVars>>

\* Mutant: allocation outside the metadata lock.
LockMetadataSkipped(c) ==
    /\ At(c, "pubmeta")
    /\ Goto(c, "alloc")
    /\ UNCHANGED <<dbVars, fsVars, lockVars, vmVars, localVars>>

LockMetadata(c) ==
    /\ At(c, "pubmeta")
    /\ metaLock = None
    /\ metaLock' = c
    /\ Goto(c, "alloc")
    /\ UNCHANGED <<dbVars, fsVars, opLock, diskLock, vmVars, localVars>>

\* Mutant: no upper bound on the search.
AvailablePortsUnbounded ==
    {q \in SSHPort \cup {r + 1 : r \in SSHPort} : \A m \in rows : sshPort[m] < q}

\* nextAvailableSSHPort: MAX(ssh_port) + 1, or a later port when host programs
\* listen on the first ones.
AvailablePorts ==
    {q \in SSHPort : ~Listening(q) /\ \A m \in rows : sshPort[m] < q}

Allocate(c) ==
    /\ At(c, "alloc")
    /\ \/ /\ CheckNew(name[c])
          /\ \E q \in AvailablePorts : port' = [port EXCEPT ![c] = q]
          /\ Goto(c, "rename")
          /\ UNCHANGED <<lockVars, op, name, src, proc, stage>>
       \/ Exit(c)
    /\ UNCHANGED <<dbVars, fsVars, vmVars>>

Rename(c) ==
    LET n == name[c] IN
    /\ At(c, "rename")
    /\ dir' = dir \cup {n}
    /\ disk' = [disk EXCEPT ![n] = stage[c]]
    /\ receipt' = [receipt EXCEPT ![n] = None]
    /\ stage' = [stage EXCEPT ![c] = None]
    /\ Goto(c, "insert")
    /\ UNCHANGED <<dbVars, lockVars, vmVars, op, name, src, proc, port>>

\* UNIQUE constraints of the table.
Insertable(n, q) == n \notin rows /\ \A m \in rows : sshPort[m] # q

\* One transaction; then publishWorkspace's deferred metadata unlock and doFork's
\* deferred close of the source disk.
CreateWorkspace(c) ==
    LET n == name[c] IN
    /\ At(c, "insert")
    /\ Insertable(n, port[c])
    /\ rows' = rows \cup {n}
    /\ dbState' = [dbState EXCEPT ![n] = "stopped"]
    /\ dbPid' = [dbPid EXCEPT ![n] = None]
    /\ sshPort' = [sshPort EXCEPT ![n] = port[c]]
    /\ metaLock' = None
    /\ diskLock' = [d \in Disk |-> IF diskLock[d] = c THEN None ELSE diskLock[d]]
    /\ port' = [port EXCEPT ![c] = 0]
    /\ Goto(c, "lockdisk")
    /\ UNCHANGED <<active, fsVars, opLock, vmVars, op, name, src, proc, stage>>

\* The directory sync or the transaction fails.  Deferred calls run last in,
\* first out: the metadata lock is released before the cleanup.
CreateFails(c) ==
    /\ At(c, "insert")
    /\ metaLock' = None
    /\ Goto(c, "cleanup")
    /\ UNCHANGED <<dbVars, fsVars, opLock, diskLock, vmVars, localVars>>

\* os.RemoveAll(ownedDir) of the destination this invocation renamed.
Cleanup(c) ==
    LET n == name[c] IN
    /\ At(c, "cleanup")
    /\ dir' = dir \ {n}
    /\ disk' = [disk EXCEPT ![n] = None]
    /\ receipt' = [receipt EXCEPT ![n] = None]
    /\ Exit(c)
    /\ UNCHANGED <<dbVars, vmVars>>

-----------------------------------------------------------------------------
(***************************************************************************)
(* devd-vm.                                                                *)
(***************************************************************************)
\* The kernel drops the inode lock with the last descriptor.
Reap(p) ==
    /\ phase' = [phase EXCEPT ![p] = "dead"]
    /\ pname' = [pname EXCEPT ![p] = None]
    /\ fd' = [fd EXCEPT ![p] = None]
    /\ att' = [att EXCEPT ![p] = None]
    /\ vport' = [vport EXCEPT ![p] = 0]
    /\ diskLock' = [d \in Disk |-> IF diskLock[d] = p THEN None ELSE diskLock[d]]

\* The disk path is looked up when the companion gets there, not at launch.
OpenDisk(p) ==
    LET d == disk[pname[p]] IN
    /\ phase[p] = "spawned"
    /\ \/ /\ d \in Disk
          /\ fd' = [fd EXCEPT ![p] = d]
          /\ phase' = [phase EXCEPT ![p] = "opened"]
          /\ UNCHANGED <<pname, att, vport, diskLock>>
       \/ /\ d \notin Disk
          /\ Reap(p)
    /\ UNCHANGED <<dbVars, fsVars, opLock, metaLock, pc, localVars>>

\* flock(LOCK_EX | LOCK_NB) on the inode it opened.
FlockDisk(p) ==
    /\ phase[p] = "opened"
    /\ \/ /\ DiskFree(fd[p])
          /\ diskLock' = [diskLock EXCEPT ![fd[p]] = p]
          /\ phase' = [phase EXCEPT ![p] = "locked"]
          /\ UNCHANGED <<pname, fd, att, vport>>
       \/ /\ ~DiskFree(fd[p])
          /\ Reap(p)
    /\ UNCHANGED <<dbVars, fsVars, opLock, metaLock, pc, localVars>>

\* krun_add_disk3 is given the path and not the descriptor: it attaches the inode
\* the path names now.
AttachDisk(p) ==
    LET d == disk[pname[p]] IN
    /\ phase[p] = "locked"
    /\ \/ /\ d \in Disk
          /\ att' = [att EXCEPT ![p] = d]
          /\ phase' = [phase EXCEPT ![p] = "up"]
          /\ UNCHANGED <<pname, fd, vport, diskLock>>
       \/ /\ d \notin Disk
          /\ Reap(p)
    /\ UNCHANGED <<dbVars, fsVars, opLock, metaLock, pc, localVars>>

\* The guest's sshd takes the host port it was given.
GuestReady(p) ==
    /\ phase[p] = "up"
    /\ ~Listening(vport[p])
    /\ phase' = [phase EXCEPT ![p] = "ready"]
    /\ UNCHANGED <<dbVars, fsVars, lockVars, pname, fd, att, vport, pc, localVars>>

\* Guest shutdown, crash or signal.
ProcExit(p) ==
    /\ Alive(p)
    /\ Reap(p)
    /\ UNCHANGED <<dbVars, fsVars, opLock, metaLock, pc, localVars>>

-----------------------------------------------------------------------------
\* What a command does once it holds its first lock, crashes apart.
CliStep(c) ==
    \/ LockSecond(c) \/ OpenDB(c) \/ LoadWorkspace(c) \/ Reconcile(c)
    \/ LockDisk(c) \/ Prepare(c) \/ Spawn(c) \/ WriteProcess(c)
    \/ RecordRunning(c) \/ WaitForSSH(c) \/ SetActiveWorkspace(c)
    \/ StopSignal(c) \/ StopExited(c) \/ RecordStopped(c)
    \/ RmLock(c) \/ RmMeta(c) \/ DeleteWorkspace(c) \/ RmFiles(c) \/ RmDir(c)
    \/ LockSource(c) \/ Publish(c) \/ CloneDisk(c) \/ LockMetadata(c)
    \/ Allocate(c) \/ Rename(c) \/ CreateWorkspace(c) \/ CreateFails(c)
    \/ Cleanup(c)

CliNext(c) == Begin(c) \/ BeginFork(c) \/ CliStep(c) \/ Abort(c)

VmNext(p) == \/ OpenDisk(p) \/ FlockDisk(p) \/ AttachDisk(p)
             \/ GuestReady(p) \/ ProcExit(p)

Next == (\E c \in Cli : CliNext(c)) \/ (\E p \in Proc : VmNext(p))

Spec == Init /\ [][Next]_vars

-----------------------------------------------------------------------------
DbType ==
    /\ rows \subseteq Name
    /\ dbState \in [Name -> {"stopped", "running"}]
    /\ dbPid \in [Name -> Proc \cup {None}]
    /\ active \subseteq Name
    /\ sshPort \in [Name -> SSHPort \cup {0}]

FsType ==
    /\ dir \subseteq Name
    /\ disk \in [Name -> Disk \cup {None}]
    /\ receipt \in [Name -> Proc \cup {None}]

LockType ==
    /\ opLock \in [Name -> Cli \cup {None}]
    /\ metaLock \in Cli \cup {None}
    /\ diskLock \in [Disk -> Cli \cup Proc \cup {None}]

VmType ==
    /\ phase \in [Proc -> Phase]
    /\ pname \in [Proc -> Name \cup {None}]
    /\ fd \in [Proc -> Disk \cup {None}]
    /\ att \in [Proc -> Disk \cup {None}]
    /\ vport \in [Proc -> SSHPort \cup {0}]

CliType ==
    /\ pc \in [Cli -> Step]
    /\ op \in [Cli -> Op]
    /\ name \in [Cli -> Name \cup {None}]
    /\ src \in [Cli -> Name \cup {None}]
    /\ proc \in [Cli -> Proc \cup {None}]
    /\ stage \in [Cli -> Disk \cup {None}]
    /\ port \in [Cli -> SSHPort \cup {0}]

\* The type of every variable.
TypeOK == DbType /\ FsType /\ LockType /\ VmType /\ CliType

(***************************************************************************)
(* Safety.                                                                 *)
(***************************************************************************)
\* Two live VMs never write the same root disk, whichever commands crashed
\* before recording their launch (the flock of devd-vm, main.c).
ExclusiveDisk ==
    \A p, q \in Proc : att[p] # None /\ att[p] = att[q] => p = q

(***************************************************************************)
(* This does not hold of main.c, nor is a disk that fork or rm has locked  *)
(* spared.  What holds is that only a leftover gets there: a companion     *)
(* that no receipt names and that has locked an inode no workspace has any *)
(* more, because the workspace it was launched for was removed after it    *)
(* opened the disk.                                                        *)
(***************************************************************************)
Leftover(p) == \A n \in Name : receipt[n] # p /\ disk[n] # fd[p]

\* Of two VMs that write the same root disk one is a leftover: as long as the
\* workspaces of unrecorded launches are not removed and created again, the
\* inode lock excludes every second VM (main.c, startWorkspace's hand-off).
ExclusiveButLeftover ==
    \A p, q \in Proc : p # q /\ att[p] # None /\ att[p] = att[q] =>
        Leftover(p) \/ Leftover(q)

\* The VM that a receipt names writes the root disk of the receipt's workspace
\* and has locked it, from the attachment to its exit, so no two recorded VMs
\* share a disk (operation lock from launch to receipt, removal after the exit).
RecordedOwnDisk ==
    \A n \in Name : receipt[n] \in Proc /\ att[receipt[n]] # None =>
        /\ att[receipt[n]] = disk[n]
        /\ diskLock[disk[n]] = receipt[n]

\* While fork copies the source disk only a leftover can have it attached
\* (doFork's disk lock).
CloneOnlyLeftover ==
    \A c \in Cli : At(c, "clone") /\ op[c] = "fork" =>
        /\ disk[src[c]] \in Disk
        /\ \A p \in Proc : att[p] = disk[src[c]] => Leftover(p)

\* When removeWorkspace unlinks the files no row refers to them and only a
\* leftover can have the disk attached (removeWorkspace's disk lock).
RemoveOnlyLeftover ==
    \A c \in Cli : At(c, "rmfiles") =>
        /\ name[c] \notin rows
        /\ \A p \in Proc : att[p] # None /\ att[p] = disk[name[c]] => Leftover(p)

\* A workspace visible in SQLite has its directory and its own root disk,
\* whatever crashed during publication or removal: orphans are files without a
\* record, never a record without files (publishWorkspace, removeWorkspace).
RecordedFiles ==
    /\ \A n \in rows : n \in dir /\ disk[n] \in Disk
    /\ \A m, n \in Name : disk[m] = disk[n] /\ disk[m] # None => m = n

\* From the first check to the rename nobody else creates the name; the cleanup
\* after a failed insert removes files no row refers to (publishWorkspace).
PublicationOwned ==
    \A c \in Cli :
        /\ pc[c] \in {"clone", "pubmeta", "alloc", "rename"} =>
                name[c] \notin rows /\ name[c] \notin dir
        /\ pc[c] \in {"insert", "cleanup"} => name[c] \notin rows /\ name[c] \in dir

\* A port chosen under the metadata lock is a port of the host, also when the
\* largest one is recorded, and still unused when the row is inserted; recorded
\* ports are pairwise different (nextAvailableSSHPort).
PortsUnique ==
    /\ \A c \in Cli : pc[c] \in {"rename", "insert"} =>
            port[c] \in SSHPort /\ Insertable(name[c], port[c])
    /\ \A m, n \in rows : sshPort[m] = sshPort[n] => m = n

\* At most one routing target, and it is recorded as running
\* (SetWorkspaceState and SetActiveWorkspace, run by different commands).
OneRoutingTarget ==
    /\ \A m, n \in active : m = n
    /\ \A n \in active : n \in rows /\ dbState[n] = "running"

\* A row that says running names the incarnation of the launch receipt, so a
\* later command can find and stop it (vm.Start before SetWorkspaceState).
RunningHasReceipt ==
    \A n \in rows : dbState[n] = "running" =>
        receipt[n] \in Proc /\ dbPid[n] = receipt[n]

(***************************************************************************)
(* The inductive invariant: what a command may rely on at each step, by    *)
(* virtue of the locks it holds.                                           *)
(***************************************************************************)
\* Steps with the operation locks held.
Locked == Step \ {"idle", "second"}
\* publishWorkspace from the first check to the end of its cleanup.
Publishing == {"publish", "clone", "pubmeta", "alloc", "rename", "insert", "cleanup"}
\* Steps of a command on a workspace that has a row.
Loaded == {"reconcile", "lockdisk", "prepare", "spawn", "receipt", "recrun",
           "wait", "activate", "stopping", "recstop", "rmlock", "rmmeta",
           "rmrow", "srclock"}
\* Steps at which the recorded incarnation is known to have exited.
Halted == {"lockdisk", "prepare", "spawn", "receipt", "recstop", "rmlock",
           "rmmeta", "rmrow", "rmfiles"}

LocalsInv ==
    \A c \in Cli :
        /\ pc[c] # "idle" => name[c] \in Name
        /\ op[c] = "fork" => src[c] \in Name /\ src[c] # name[c]
        /\ pc[c] \in {"second", "srclock"} => op[c] = "fork"
        /\ pc[c] \in {"receipt", "recrun", "wait"} => proc[c] \in Proc
        /\ (stage[c] # None) <=> (pc[c] \in {"pubmeta", "alloc", "rename"})

OpLockInv ==
    \A c \in Cli :
        /\ pc[c] \in Locked => opLock[name[c]] = c
        /\ pc[c] \in Locked /\ op[c] = "fork" => opLock[src[c]] = c
        /\ pc[c] = "second" =>
                opLock[IF src[c] < name[c] THEN src[c] ELSE name[c]] = c

MetaLockInv ==
    \A c \in Cli :
        pc[c] \in {"rmrow", "rmfiles", "rmdir", "alloc", "rename", "insert"} =>
            metaLock = c

\* How far a companion is with its disk: it attaches one after it has locked what
\* it opened, and keeps that lock as long as it has the disk.
AttachedInv ==
    \A p \in Proc :
        /\ phase[p] \notin {"free", "dead"} => pname[p] \in Name
        /\ phase[p] \in {"free", "spawned", "dead"} => fd[p] = None
        /\ phase[p] \in {"free", "spawned", "opened", "locked", "dead"} => att[p] = None
        /\ phase[p] \in {"opened", "locked"} => fd[p] \in Disk
        /\ phase[p] = "locked" \/ att[p] # None => fd[p] \in Disk /\ diskLock[fd[p]] = p

\* An inode that a companion has open is in no staging directory, and has no name
\* but the companion's own; none at all if another one was attached.
OpenedInv ==
    \A p \in Proc : fd[p] # None =>
        /\ \A c \in Cli : stage[c] # fd[p]
        /\ \A n \in Name : disk[n] = fd[p] => n = pname[p] /\ att[p] \in {None, fd[p]}

\* A live companion of workspace n, as its command or its receipt knows it.
Serves(p, n) == Alive(p) => /\ pname[p] = n
                            /\ fd[p] \in {None, disk[n]}
                            /\ att[p] \in {None, disk[n]}

ServesInv ==
    /\ \A n \in Name : receipt[n] # None => Serves(receipt[n], n)
    /\ \A c \in Cli : pc[c] = "receipt" => Serves(proc[c], name[c])

\* The inode lock that removal, boot preparation and cloning rely on.
DiskHeld(c) ==
    /\ pc[c] = "prepare" =>
            disk[name[c]] \in Disk /\ diskLock[disk[name[c]]] = c
    /\ pc[c] \in {"rmmeta", "rmrow", "rmfiles"} /\ disk[name[c]] # None =>
            diskLock[disk[name[c]]] = c
    /\ pc[c] \in Publishing /\ op[c] = "fork" =>
            disk[src[c]] \in Disk /\ diskLock[disk[src[c]]] = c

DiskLockInv == \A c \in Cli : DiskHeld(c)

FilesInv ==
    /\ RecordedFiles
    /\ \A n \in Name : n \notin dir => disk[n] = None /\ receipt[n] = None
    /\ \A c \in Cli :
        /\ pc[c] = "rmdir" => disk[name[c]] = None
        /\ pc[c] \in {"rmdir", "insert", "cleanup"} => receipt[name[c]] = None
    /\ \A c \in Cli, n \in Name : stage[c] # None => disk[n] # stage[c]
    /\ \A c, e \in Cli : stage[c] # None /\ stage[c] = stage[e] => c = e

PublicationInv ==
    /\ PublicationOwned
    /\ \A c \in Cli :
        /\ pc[c] = "insert" => disk[name[c]] \in Disk
        /\ pc[c] \in {"rmfiles", "rmdir"} => name[c] \notin rows
        /\ pc[c] \in Loaded =>
             IF pc[c] \in {"reconcile", "srclock"} THEN Subject(c) \in rows
                                                  ELSE name[c] \in rows

LaunchedInv ==
    /\ \A n \in Name : receipt[n] # None => phase[receipt[n]] # "free"
    /\ \A c \in Cli : proc[c] # None => phase[proc[c]] # "free"

\* What a command knows of the receipt and the row it works on.
Known(c) ==
    /\ pc[c] = "reconcile" /\ proc[c] = None => ~Alive(receipt[Subject(c)])
    /\ pc[c] = "reconcile" /\ proc[c] # None => receipt[Subject(c)] = proc[c]
    /\ pc[c] \in {"recrun", "wait"} => receipt[name[c]] = proc[c]
    /\ pc[c] \in Halted => ~Alive(receipt[name[c]])
    /\ pc[c] \in {"lockdisk", "prepare", "spawn", "receipt", "recrun"} =>
            dbState[name[c]] = "stopped"

KnownInv == \A c \in Cli : Known(c)

IInv ==
    /\ TypeOK /\ LocalsInv /\ OpLockInv /\ MetaLockInv
    /\ AttachedInv /\ OpenedInv /\ ServesInv /\ DiskLockInv
    /\ FilesInv /\ PublicationInv /\ PortsUnique
    /\ OneRoutingTarget /\ RunningHasReceipt /\ LaunchedInv /\ KnownInv

(***************************************************************************)
(* Action properties.                                                      *)
(***************************************************************************)
\* A row goes from running to stopped, or disappears, only when the recorded
\* incarnation has exited (stopWorkspace, loadWorkspace, removeWorkspace).
NoFalseStopStep ==
    \A n \in rows : dbState[n] = "running" /\ (n \notin rows' \/ dbState'[n] = "stopped")
        => ~Alive(receipt[n])
NoFalseStop == [][NoFalseStopStep]_vars

\* The receipt of a live VM is never replaced or deleted (writeProcess, RemoveAll).
LiveReceiptKeptStep ==
    \A n \in Name : Alive(receipt[n]) => receipt'[n] = receipt[n]
LiveReceiptKept == [][LiveReceiptKeptStep]_vars

(***************************************************************************)
(* Liveness.  A command that neither crashes nor is killed is scheduled    *)
(* again and again; a waiter for metadata.lock gets it if it is released   *)
(* infinitely often (strong fairness); a signalled process exits.          *)
(***************************************************************************)
Fairness ==
    /\ \A c \in Cli : SF_vars(CliStep(c))
    /\ \A p \in Proc : WF_vars(phase[p] = "dying" /\ ProcExit(p))

LiveSpec == Spec /\ Fairness

\* Every command ends: no cycle of waits among the three kinds of lock and the
\* VM (LockMetadata blocks, the other locks do not, vm.Stop escalates).
CommandsTerminate == \A c \in Cli : ~At(c, "idle") ~> At(c, "idle")
=============================================================================
