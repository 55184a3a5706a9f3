# TLA+ models of devd

devd gives every workspace a microVM of its own. A short-lived CLI process does
one operation on one workspace, a detached `devd-vm` companion per workspace
runs the VM, one proxy daemon owns the declared host ports, and a cache of ext4
templates made from OCI images is what new workspaces are cloned from. Nothing central
coordinates them: they meet in a SQLite table, in files, and in `flock`s. This
directory models that coordination, checks it with TLC on small instances and
proves every safety property the passing runs check, and both refinements, with TLAPS
for any number of workspaces, commands, processes, disks, ports, connections and images.

## 1. Inventory

| Component (source) | State | Operations | What makes it correct |
|---|---|---|---|
| Workspace commands (`internal/cli/{lifecycle,run,start,stop,rm,fork,switch,ps,ssh}.go`) | local variables of a command | load, start, stop, remove, fork, activate | acts only on what its locks make stable; survives dying anywhere |
| Publication (`internal/cli/provision.go`) | staging directory, destination directory | check, stage, clone, allocate, rename, insert, clean up | a row never lacks files; a name and a port are published once |
| Metadata store (`internal/db/db.go`) | `workspaces`, `reserved_ports`, `metadata.lock` | open, create, set state, activate, delete, list ports | one routing target; running rows name a recorded process |
| Locks (`internal/workspace/lock.go`, `internal/storage/lock.go`) | `locks/<name>.lock`, lock of each root disk inode | lock in name order without blocking; lock a disk | no cycle; released by process exit |
| VM runtime (`internal/vm/runtime.go`, `process*.go`) | `process.json` receipts, OS processes | start, write receipt, observe, stop | never signals or forgets the wrong incarnation |
| Companion (`cmd/devd-vm/main.c`) | disk descriptor, attached disk | open, flock, attach, run | one recorded VM per disk |
| Proxy daemon (`internal/cli/daemon.go`) | `daemon.lock`, control socket, queued requests | start, ensure, reconcile, shut down | one owner; ports pre-empted before a VM boots |
| Port proxy (`internal/proxy/proxy.go`) | listeners, tunnels | ensure, reconcile, route, tunnel, stop | traffic reaches no older VM than the selected one |
| Template cache (`internal/storage/storage.go`, `vm.Pack`, `cmd/devd-image-helper`) | digest-addressed directories, a lock per key, staging directories | inspect, pull, load, lock, discard, convert, sync, publish, clone | under its digest a complete template or none, also after a crash or a power loss |
| Workspace files, guest bootstrap (`internal/workspace/spec.go`, `internal/vm/guest.go`) | spec, control export, identity marker; identity in the guest's page cache and on its disk | save, mark, prepare, boot, complete boot | a fork gets an identity of its own and keeps it; a workspace can be started again |
| Options (`internal/cli/options.go`) | none | validate, resolve, inherit | what is recorded resolves to itself |
| Names, devcontainer, ssh config, logs | none, or a derived view | parsing and formatting | see section 8 |

The hard behaviours are listed line by line under `hazards` in `PROJECT.json`.
They are of five kinds: a command dies (or an error returns it) between two
persistent effects; a companion acts long after the command that launched it has
gone; an observation made without a lock is used after one was taken; a wait
under a lock meets another wait; something is acknowledged before it is durable.

## 2. Modules

| Module | Models | Role |
|---|---|---|
| `Lifecycle` | commands, publication, store, locks, receipts, companions | the core; composes the components, which share all their state |
| `DaemonPorts` | daemon, control protocol, listeners, the port half of commands | the second shared-state protocol |
| `Tunnels` | connections, routing, ssh tunnels, and the reconciliation and `Stop` that race with them | the proxy's inside, given the rows and receipts of `Lifecycle` |
| `WorkspaceStore` | what the commands promise together: an atomic store of workspaces | abstract specification |
| `LifecycleStore` | | the refinement mapping from `Lifecycle` to `WorkspaceStore` |
| `TemplateCache` | `EnsureTemplate`, `CloneDisk`, `vm.Pack`, the image helper | where root disks come from |
| `TemplateStore` | what the cache promises: templates appear whole and never change | abstract specification; `TemplateCache` holds the mapping |
| `Options` | option resolution and fork inheritance | operators, no state |
| `WorkspaceBoot` | workspace files, the guest's init script, identities, with `Options` | what a workspace carries from boot to boot |
| `LifecycleProofs` | | inductive invariant and theorems about `Lifecycle` |
| `LifecycleStoreProofs` | | `Lifecycle` implements `WorkspaceStore` |
| `TemplateCacheProofs` | | theorems about `TemplateCache`, which implements `TemplateStore` |
| `DaemonPortsProofs`, `TunnelsProofs`, `WorkspaceBootProofs` | | theorems about the modules they are named after |
| `MCLifecycle`, `MCDaemonPorts`, `MCTunnels`, `MCTemplateCache`, `MCWorkspaceBoot` | | constants and symmetry for TLC |

Definitions called `...Skipped`, `...Unchecked`, `...Unbounded` and so on,
each after a comment `Mutant:`, are wrong variants of the definition below them.
They are used nowhere in a specification; putting one in place of its original
must make a run fail.

### Lifecycle

A command `c` is at step `pc[c]`, named after the function it executes. Each
action is one step that other processes can observe as a unit: a SQLite
transaction, a rename, a `flock`, an observation of a process, a process start.

* Database: `rows`, `dbState`, `dbPid`, `active` (`is_active`), `sshPort`.
* Files: `dir` (directories under `workspaces/`), `disk` (the inode that
  `rootfs.ext4` names), `receipt` (the incarnation in `process.json`).
* Locks: `opLock`, `metaLock`, `diskLock`. `opLock` and `diskLock` are taken with
  `LOCK_NB`: a busy lock ends the command. `metaLock` blocks.
* Companions: `phase`, `pname` (the path they were given), `fd` (the inode they
  opened), `att` (the inode they have attached), `vport`.
* Commands: `pc`, `op`, `name`, `src`, `proc` (the observed or launched
  incarnation), `stage` (the inode in the staging directory), `port`.

`Begin`, `BeginFork` and `LockSecond` are `workspace.Lock`; `OpenDB` is `db.Open`;
`LoadWorkspace` and `Reconcile` are `loadWorkspace`; `RunStart` ... `DoFork` say
where each command goes from there. `LockDisk`, `Prepare`, `Spawn`,
`WriteProcess`, `RecordRunning`, `WaitForSSH` and `SetActiveWorkspace` are
`startWorkspace`, `vm.Start` and `waitForSSH`; any failure after the launch goes to
`stopping`. `StopSignal`, `StopExited` and `RecordStopped` are `stopWorkspace` and
`vm.Stop`. `RmLock` to `RmDir` are `removeWorkspace`, with `os.RemoveAll` in two
steps. `LockSource` is `doFork`; `Publish` to `Cleanup` are `publishWorkspace`,
including the order of its deferred calls: the metadata lock is released before a
failed publication is cleaned up.

`Abort(c)` is enabled at every step. It stands for a crash, a kill, and every
error return that only closes descriptors. `ProcExit(p)` lets a VM die at any
time. A launched companion opens the path (`OpenDisk`), locks the inode it opened
(`FlockDisk`) and gives libkrun the path again (`AttachDisk`): three steps, between
which its command may die and the workspace be removed and created again. The second
lookup can then find another inode than the first. A companion is a `Leftover` when no
receipt names it and the inode it opened is no longer any workspace's root disk; the
properties about disks say what holds of all the others, and the violations what a
leftover can do.

Abstractions. A `Proc` is a PID with its birth identity, so `Process.Running` is
exact; PID reuse between the check and the signal, which SPEC.md concedes, is not
modelled. The relay port is allocated like the SSH port and left out. Options,
environments and file contents are data. `ps` and `ssh` lock one workspace after
the other; each is a command `"ps"` of its own. An external program may hold any
port: `AvailablePorts` is the set of all ports above the largest recorded one, and
`ensurePortAvailable` failing for a foreign program is `Abort`. An error of
`os.RemoveAll` leaves the rest of the files: it is `Abort` between `RmFiles` and
`RmDir`.

### DaemonPorts

A workspace carries at most one command (its operation lock), so commands are
indexed by workspace: `wpc[w]` is a resting state or the next step. `dpc[d]` is
the main goroutine of daemon incarnation `d`, `rpc[d]` its reconciling goroutine,
and `Handle(d)` any of its request goroutines. `inbox` holds the control
connections that have not been answered; when a client gives up, its request
stays and loses its sender. `Die(d)` is what the kernel does when a process ends.
The deferred calls of `runDaemon` are the steps `StopProxy`, `CloseSocket`,
`ExitDaemon`, in that order. `Faults` selects what may go wrong: deadlines may
expire (`"deadline"`), commands and daemons may be killed (`"kill"`). `abandoned`
is a history variable: it records that one of these has happened, so that a
property can say what holds until then. Binding may fail for any port.

Publication and removal are atomic here because both hold the metadata lock; the
wait of the last removal for the daemon, under that lock, is not. Local variables
(`snap`, `reply`) are reset when they go out of scope, which keeps the state space
small and changes nothing.

### Tunnels

`cpc[c]` is a `handleConnection` goroutine: `Route` reads the rows, `Observe` the
receipt and the process, `Lookup` is `ensureTunnel` under the mutex, `Await` the
wait for `Ready`, then `Dial`, or `DropTunnel` and `Retry`. Between any two of them
the VM may exit, be restarted or be removed. `tpc[t]` is the `startTunnel` goroutine
of one `*Tunnel`, `ssh[t]` its child process, `far[t]` the incarnation the child
reached, `sock` the socket files with the process listening on each. Every section
under `Proxy.mu` is one step; what the code does after unlocking (killing,
signalling, unlinking) is a later step wherever it could meet another goroutine's.
`cmd` holds the tunnels whose process is published in `Tunnel.Cmd`; reconciliation
and `Stop` can signal only those.

The map of tunnels is the set `tunnels` with `tkey`. VM incarnations are numbered by
launch so that "older" can be said. Commands appear as the steps `CreateWorkspace`,
`Boot`, `VmExit`, `RecordStopped`, `Switch` and `Remove`; a boot writes receipt and row in
one step, which `RunningHasReceipt` (proved of `Lifecycle`) permits. Rows have an SSH
port (`sport`), allocated above the largest recorded one and freed by `Remove`; a VM
keeps the port it was launched with (`vport`), and ssh reaches whichever VM has the port
it was given (`SshBind`). `buried` is a history variable: the incarnations whose
workspace has been removed. `deaf` holds the listeners whose accept loop has ended
(`AcceptFails`); they stay in the map. Companions that no receipt names, which could
listen on an SSH port too, are left out; `Lifecycle` has them.

A tunnel object is used once, so `Tun` bounds the tunnels of a behaviour; when they are
used up, `Lookup` fails as it does when `tunnelPath` fails. Behaviours end with the daemon.

### WorkspaceStore and LifecycleStore

`WorkspaceStore` has no commands, locks, files or crashes: a set of workspaces, the
incarnation recorded for each, the routing target and the incarnations that have
exited. Its steps are `Create`, `Launch`, `Activate`, `Retire`, `Delete` and `VmExit`.
`LifecycleStore` maps `rows`, `dbPid`, `active` and the dead companions to it.
`WorkspaceStoreSpec` then says that every step of every command is one of these, or
none: it is the contract that users of `ps`, of routing and of the store rely on.

### TemplateCache and TemplateStore

`pc[c]` is the step of a command in `EnsureTemplate`, `final[d]` the directory
`images/<key>`, `stage[c]` the private staging directory, `tag` the local image store.
A directory is what `loadTemplate` can tell of it (a manifest; a disk that is missing,
`none`, of another size, `truncated`, or of the right one) and what it cannot: how far
the conversion got (`blank`, `copied`, `sanitized`, `packed`), whether the disk is synced,
whether the rename is (`settled`). `Inspect`,
`Pull` and `Load` run without the lock, `Reload` to `SyncImages` under it, `CloneDisk`
without it again: it copies whatever file is there, of any size, and fails only if there
is none. `CopyTree`, `SanitizeIdentity` and `SyncTarget` are the image helper,
which can end anywhere (`HelperExit`); `Pack` asks for the marker. `Fail` is an operation
that cannot succeed, `Abort` any other error, kill or crash. `Damage` is somebody else
deleting or truncating files of a template. `PowerLoss` ends all commands, drops
unsynced contents and may undo an unsynced rename.

In `TemplateStore` a template is published in one step, is `kept` once a power loss
cannot take it back, never changes, is discarded only when broken, and a clone is one
complete image, or `torn` if it was taken from a broken template. The mapping calls a directory `broken` when it does not load, and
`lost` (which no step of the store allows) when it loads without being complete.

### Options and WorkspaceBoot

`Options` has the functions of `options.go` as operators. A string is the sequence of
its colon-separated fields, because `host:guest` is the one thing that is taken apart
(`ParseMount`) and put together again (`MountOf`); `Real[d][f]` is what `filepath.Abs` and
`EvalSymlinks` make of `f` in a command called from `d`. Memory and the kernel path are
treated like CPUs and the host path and left out.

`WorkspaceBoot` follows a workspace through creation, forks, boots, crashes and removal.
Commands on a workspace exclude each other (the operation lock, proved of `Lifecycle`),
so they are indexed by it. `marker` is `regenerate-identity` in the workspace directory,
`control` its copy for the guest. An identity, machine-id and host keys together, is
`<<w, n>>`: the n-th made under the name `w`. The init script changes it in the page
cache (`gid`); `WriteBack` brings it to the disk (`did`) at any time, `StopGuest` (vm.Stop
over ssh, which syncs) always, `VmDies` never. `Faults` contains `"window"` when a VM may
die between the acknowledgement of a fork's first boot and the write-back of its new
identity; without it a VM may die at any other time.

## 3. Properties and runs

Every property has a mutant in `PROJECT.json` that breaks it.

| Run | Instance | Checks |
|---|---|---|
| `ownership` | 1 name, 2 commands of run/start/stop/rm/rm -f/switch/ps, 3 launches, 2 disks | `ExclusiveButLeftover`, `RecordedOwnDisk`, `RemoveOnlyLeftover`, `RunningHasReceipt`, `OneRoutingTarget`, `NoFalseStop`, `LiveReceiptKept`, `WorkspaceStoreSpec` |
| `publication` | 2 names, 2 commands of run/fork/rm, 1 launch, 3 disks, 2 ports | `TypeOK`, `CloneOnlyLeftover`, `RecordedFiles`, `PublicationOwned`, `PortsUnique` |
| `termination` | 2 names (one custom kernel), 2 commands of run/rm -f, 1 launch, with fairness | `CommandsTerminate` |
| `daemon` | 2 workspaces sharing a port, 2 daemons, all faults, with fairness | `OneOwner`, `PreemptedInTime`, `DeclaredKept`, `PortsReleased`, `CommandsEnd` |
| `tunnels` | 1 workspace, 1 launch, 2 connections, 2 tunnels | `NoStraySsh`, `SocketKept`, `StopFinal` and `TypeOK` |
| `tunnels_live` | 2 workspaces sharing a port, 2 SSH ports, 2 launches, 1 connection at a time, 1 tunnel, with fairness | `NeverStale`, `Answered` |
| `template` | 2 commands, 1 reference under which the registry serves 2 images, damage and power loss, with fairness | `TypeOK`, `TemplateWhole`, `RebuildNeeded`, `TemplateStoreSpec`, `EnsureEnds` |
| `boot` | 2 names, 3 identities each, 2 directories, 7 option sets (5 of them refused), 2 sets of overrides | `TypeOK`, `Diverged`, `MountKept`, `SettledKept` |
| `slow_recreate` | 1 name, 1 command slot, 2 launches, 2 disks | `ExclusiveDisk` is violated |
| `late_shutdown` | 2 workspaces sharing a port, 2 daemons, deadlines | `Preempted` is violated |
| `identity_lost` | as `boot`, with the fault `"window"` | `Diverged` is violated |
| `digest_moved` | as `template`, without faults | `DigestAddressed` is violated |

Why the bounds are enough. Two commands exhibit every race between a holder and
a contender of a lock; a dead command's place is taken by the next one, so a run
contains arbitrarily many commands in sequence. Three launches give a leftover
companion, the recorded VM and a contender. Two disks give a removed and a
recreated workspace, or a fork and its source; two ports let allocation run into
the end of the range. Companions are not reused after exit, so `Proc` bounds the
launches of a behaviour; so does `Daemon` for daemons. Commands, processes, disks
and daemons are interchangeable, hence the symmetry sets; names are not (locks
are ordered by name), and the liveness runs use no symmetry.

Two connections and two tunnels give an old tunnel, its replacement, and a
connection that still holds the old one. Two launches over two workspaces and two SSH
ports give a restarted VM, or a removed workspace and the next holder of its port.

Two commands and two images give a template that is being built while it is loaded,
a reference that moves, and a waiter for each lock; a command that has ended begins
again, so caches are filled, damaged and refilled without end. Two names let a fork
of a fork, a source that is removed and created again, and every crash between two
boots happen; three identities are two failed first boots and the one that lasts.
`MaxMint` is the only bound of `WorkspaceBoot` that behaviours run into: a guest that
would need a fourth identity stays before `Keygen`.

Deadlock is checked in all runs but those of `Tunnels`: a command can always abort, a
resting workspace can always begin something. `Tunnels` ends when
the daemon exits.

### What the violations show

* `slow_recreate`. `devd run` dies after starting the companion, which has opened the
  disk; `rm` and a new `run` of the name complete. The first companion, holding the lock
  of the removed inode, resolves the path again and attaches the new disk, of which it
  has no lock, next to the VM of the new run. It can also do so under a fork that clones
  the disk or a second `rm`, although these hold the disk's lock: hence the exception in
  `CloneOnlyLeftover` and `RemoveOnlyLeftover`. SPEC.md calls this lock the final guard
  and says that cloning and deletion own the inode exclusively. Handing the locked
  descriptor (`/proc/self/fd/N`) to libkrun, or comparing the inodes after attaching,
  would close the gap. `ExclusiveButLeftover` shows that such a companion is the only
  way to get there, and `RecordedOwnDisk` that no recorded VM ever is one.
* `late_shutdown`. `rm` of the last declaration asks a daemon that is still in
  `db.Open` to shut down. That daemon waits for the metadata lock `rm` holds. At
  its deadline `rm` gives up and releases the lock; the request stays in the
  socket's queue. A new workspace is published, its `ensure` is queued behind, both
  are served concurrently, `ensure` succeeds, and the daemon exits. `PreemptedInTime`
  shows that an abandoned request (or a killed process) is the only way to get there.
* `identity_lost`. The intent to regenerate a fork's identity is dropped when sshd
  answers. Nothing in the guest has synced by then. A VM that dies before write-back
  leaves the parent's machine-id and host keys on the fork's disk, and no intent. The
  run `boot` shows that this window is the only one: with it closed `Diverged` holds
  through any sequence of crashes. A `sync` in devd-init before sshd starts closes it.
* `digest_moved`. Two commands find the reference missing and pull it; the second pull
  brings a newer image after the first command has inspected the older one. `buildah
  from` is given the reference, so the template with the old digest's key contains the
  new image, for good. Passing the inspected image's ID instead closes the gap.

`NeverStale` has an exception of the same kind. A connection is routed to a workspace, its
receipt and its process are checked, and a tunnel is registered under the incarnation.
If the workspace is removed now, the next one gets MAX(ssh_port)+1, which can be the freed
port; ssh dials the port, does not compare host keys, and the connection ends in the
other workspace. The property says that a removal is the only way to get there, and that
the incarnation is a younger one even then. Pinning the guest's host key would close the
gap.

A daemon that is started but not listening when the last declaration goes is not
shut down at all and stays up without ports; `DaemonPorts` has this behaviour, no
run is spent on it. Nor on five others that the models have: an accept error ends the
service of a port for good while its listener counts as managed; `switch` asks only whether
the process runs, so it activates a custom kernel that never reached SSH; a workspace
whose host directory has a colon in its path is created and can never be started,
because the joined mount is cut at the first colon (the exception in `MountKept`); the cleanup after a
failed insert removes a disk without the disk lock that `storage/lock.go` asks of
every removal, and the daemon exits without waiting for its goroutines, so an ssh
process started just before `Stop` and not yet published outlives it.

## 4. Fairness

`Lifecycle!LiveSpec`: strong fairness of a command's own steps, because each step
is either always possible or waits for `metadata.lock`, whose waiters the kernel
serves when it is released; weak fairness of the exit of a signalled process,
because `vm.Stop` escalates to SIGKILL. Crashes, guest readiness and the exit of
a healthy VM are not fair. `DaemonPorts!LiveSpec`: weak fairness of commands
(their waits are bounded by deadlines in that instance) and of request
goroutines, strong fairness of the two daemon goroutines that wait for the
metadata lock. `Tunnels!LiveSpec`: weak fairness of the goroutines; the timer of
`startTunnel` is what makes `GiveUp` certain. ssh and the guest may hang for ever.
`TemplateCache!LiveSpec`: weak fairness of a command's steps, which assumes that the
programs it runs (buildah, mke2fs, the conversion VM) end, since the code gives them no
timeout; strong fairness of the template lock, whose waiters the kernel serves. Damage,
power loss and kills are not fair. `WorkspaceBoot` states no fairness.

## 5. Proofs

Every theorem holds for all values of the constants that satisfy the named assumptions
of its module. Each component's inductive invariant is called `IInv`; it is defined in
the component's module, is a conjunction of named parts, and was checked by TLC on
the runs' instances before it was proved. Each part has a lemma `...Step`: one step per action that can disturb the part, the other actions
together. `Inductive` combines them, the remaining theorems follow from `IInv`.

### Lifecycle

Assumptions: names are naturals, ports positive, `None` is no identifier, no identifier
is both a command and a process. `TypeCorrect`, `DiskExclusion`, `ForkIsolation`,
`RemovalIsolation`, `RecordedExclusion`, `RecordsHaveFiles`, `PublicationOwnership`, `PortAllocation`,
`RoutingTarget` and `RunningIsRecorded` are the invariants the runs check, `StopsAreReal`
and `ReceiptsSurvive` the two action properties.

None of the safety invariants is inductive: each holds because of what a command
knows at a step, and it knows it because of the locks it holds. `IInv` is the
conjunction of these facts:

* `LocalsInv`: what the local variables hold at each step.
* `OpLockInv`, `MetaLockInv`: which steps are taken under which lock. From
  `OpLockInv` follows `OtherNames`: two commands past their locks work on different
  names, on which all frame arguments rest.
* `AttachedInv`: what a companion has opened, locked and attached at each phase; from
  `locked` to its exit it holds the lock of the inode it opened. `OpenedInv`: that inode
  has no name but the companion's, and none once the companion has attached another one.
  `ServesInv`: as long as a receipt names a companion, or a command has launched it and
  not yet written the receipt, what it opens and attaches is the disk of its workspace,
  because nobody removes that before the recorded incarnation has exited. This gives
  `RecordedExclusion`.
* `DiskLockInv`: the steps at which a command holds the disk lock. A companion that has
  attached an inode it did not lock is a leftover by `OpenedInv` and `ServesInv`
  (`StrayIsLeftover`), and one on a disk that a command has locked is of that kind
  (`ForeignIsLeftover`). `DiskExclusion`, `ForkIsolation` and `RemovalIsolation` follow.
* `FilesInv`, `PublicationInv`, `PortsUnique`: what publication and removal may
  assume of directories, disks, receipts, rows and ports.
* `LaunchedInv`, `KnownInv`: what a command knows of the receipt and the row,
  for instance that from `lockdisk` to `receipt` the recorded incarnation has
  exited. It stays true because an incarnation that has exited never comes back
  and nobody else writes the receipt. This gives `RunningHasReceipt` and both
  action properties.

Most actions that end a command are split into the case `Exit(c)`, handled once per
lemma in a step `<1>e`, and the case that goes on.

### The two refinements

`LifecycleStoreProofs!StoreImplemented` is `Spec => WorkspaceStoreSpec`. `IInv` alone
does not give it: that a recorded VM is launched, retired or deleted in one step of the
store also needs that the columns `state` and `pid` agree (`RecordInv`) and that no two
receipts name one incarnation (`ReceiptInv`), which is `RecordsConsistent`. Then every
action is `Quiet`, which leaves all four variables of the store alone, or one of the
`Loud` ones, each of which is shown to be its store step.

`TemplateCacheProofs!StoreImplemented` is `Spec => TemplateStoreSpec`. Only `Begin`,
`Discard`, `Rename`, `SyncImages`, `CloneDisk`, `Damage` and `PowerLoss` are visible to
the store (`VisibleSteps`). `EntryFacts` says what it sees of a directory that the
invariant allows; in particular the abstract state `lost`, which the store has no step
to, cannot occur because what is renamed into place was synced before.

### TemplateCache

Assumptions: `Served` gives sets of digests, `None` is no identifier, and a missing file
is not a file (`MissingAssumption`). `ResolvedInv`: a command past the inspection has a
digest. `StageInv`: how far the staging directory is at each step. `LockInv`: who holds
the lock of a key from `Reload` to `SyncImages`. `PublishedInv`: what is published was
packed and synced. These give `TemplatesWhole` and, with `RebuildNeeded` itself,
`RebuildsNeeded`: the holder of the lock is alone with a template that does not load, and
`Damage` makes no template load. `CopiesInv`: a clone is packed, or truncated if there is
damage; this gives `ClonesWhole`, which has the hypothesis that there is none.

### DaemonPorts

Assumptions: each workspace of the model declares at least one port, no identifier is
both a workspace and a daemon. `OwnerInv`: from `daemon.lock` to its exit an incarnation
holds the lock, and while its socket is open it has bound the path; this gives
`OwnerAlone`. `MetaInv`: a snapshot is the declared set until it is applied, because
both happen under the metadata lock and declarations change only when it is free; this
gives `ReconciliationSafe`. `RequestInv`, `ReplyInv`: a command has one connection, and
a pending answer is for a command that waits. `InTimeInv` holds as long as nothing was
abandoned: a daemon that goes down has a command waiting for it; that command holds
the metadata lock and has left no declaration, so whatever the daemon releases is needed
by nobody, and the next publication waits until the socket is gone. This gives
`PortsPreempted`. The run `late_shutdown` shows that the hypothesis is needed.

### Tunnels

Assumptions: `MaxVm` is a natural (any), `None` is no identifier. `WorldInv`: launches
are ordered, a receipt names an incarnation of its workspace. `PortInv`: the
incarnations of a recorded workspace were launched with its port, and whoever is alive
on a port is the youngest that was ever launched with it, because a port passes on only
when its workspace, and so its VM, is gone. `ConnInv`, `KeyInv`: the tunnel a connection
joins has the connection's own key, and ssh was given the port of the key's incarnation,
so that it reaches that one or a younger one, of the same workspace unless that was
removed. Together `ConnectionsFresh`. `TunnelInv`: a tunnel
that has left the map does not come back, and its process is published only while it
is in the map. With it `NoStraySsh` and `StopFinal` are inductive. `SocketInv`: sockets
are at their own tunnel's path, so an unlink hits only its own; this gives `SocketsKept`.

### WorkspaceBoot and Options

Assumptions: option values have the types of the flags (valid or not), a canonical path
is not empty and, if it has no colon, names itself from every directory, `None` is no
string, no name and no identity. `MountAgain` and `ParseMountFacts` are about the
operators of `Options`: what `parseMount` accepts is resolved, and a resolved mount
joined with a colon parses to itself. `ResolvedInv` says that every recorded workspace
is resolved; `MountsKept` follows. `StepsInv`, `IntentInv`: the copy of the intent in the
control directory is there only with the original, and from `PrepareControl` until the
guest has acted on it always. This is enough for `IdentityKept`, which holds with every
fault. `ForeignInv`: the identity of somebody else is in a fork that is still marked, or
on the disk of one that has answered and is not yet written back. It is part of `IInv`
only if `"window"` is not among the faults, and so `ForksDiverge` has that hypothesis; the
run `identity_lost` shows that it is needed.

### Only model-checked

Liveness (`CommandsTerminate`, `PortsReleased`, `CommandsEnd`, `Answered`, `EnsureEnds`):
the prover does not reason about fairness and `ENABLED`. The negative results, each of
which needs its instance only.

## 6. Correspondence

`PROJECT.json` maps each definition to the lines it stands for. Where one action
covers several functions (for instance `Prepare`: `prepareBoot`,
`ensureProxyDaemon`, `ensurePortAvailable`) the map names the lines that call them.
`Reap`, `Die`, `GuestReady`, `SshBind`, `WriteBack`, `Damage` and `PowerLoss` describe the
kernel, the guest and the host. The abstract specifications have no source lines.

## 7. Plan

Modules, runs and theorems that exist are described above. What is left, in this order:

1. The interfaces between the modules as theorems instead of arguments: that the rows,
   receipts and processes of `Lifecycle` change as the world of `Tunnels` does, and that
   the commands on one workspace exclude each other, which `DaemonPorts` and
   `WorkspaceBoot` build on.
2. What the abstract specifications promise by themselves, as theorems about
   `WorkspaceStore` and `TemplateStore`.

## 8. Not modelled

Generated names, devcontainer parsing, `ssh` configuration and keys (a derived view,
rewritten in place under the metadata lock), log viewing: pure functions or file I/O
without concurrent state of their own. SQLite is taken to execute a transaction
atomically, `flock` to belong to an inode and to end with its last descriptor, `rename`
to be atomic. Power loss (as opposed to process death) is modelled for the template
cache only; a removal that a power loss undoes is not, and a workspace's own disk is
not synced by devd. The machine-id and the host keys of a guest are one identity: that
one is written back and the other is not is left out. Legacy rows and version 1
specifications are outside `Init`. The macOS process identity is the same abstraction
as the Linux one.
