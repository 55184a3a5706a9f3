---------------------------- MODULE WorkspaceBoot ----------------------------
(***************************************************************************)
(* What a workspace carries from one boot to the next: its specification,  *)
(* the control directory the guest sees, the intent to give a fork a new   *)
(* identity, and the identity on its disk (internal/workspace/spec.go,     *)
(* internal/vm/guest.go, publishWorkspace, prepareBoot and the end of      *)
(* startWorkspace).                                                        *)
(*                                                                         *)
(* Commands exclude each other by the operation lock of a workspace and    *)
(* are indexed by it: `pc' is the next step of the command on w.  `vm' is  *)
(* the next step of the guest's init script; the disk lock admits one VM.  *)
(* An identity (machine-id and SSH host keys) is <<w, n>>, the n-th made   *)
(* under the name w; those after born[w] were made since w was created.    *)
(* The guest changes its identity in its page cache, `gid'; the disk has   *)
(* `did' until the guest writes back.                                      *)
(***************************************************************************)
EXTENDS Options

CONSTANTS
    Ws,          \* workspaces
    RunOptions,  \* what `devd run' is called with
    Overrides,   \* what `devd fork' is called with
    MaxMint,     \* bound: identities made in one workspace
    Faults       \* "window": a VM may die between acknowledgement and write-back

\* The values of the flags; whether they are valid is what ResolvePlan decides.
ASSUME RunOptionsAssumption ==
    RunOptions \subseteq [cpus : Int, ports : Seq(Int), mount : Seq(Field)]
ASSUME OverridesAssumption ==
    \A o \in Overrides :
        /\ "cpus" \in DOMAIN o => o["cpus"] \in Int
        /\ "ports" \in DOMAIN o => o["ports"] \in Seq(Int)
        /\ "mount" \in DOMAIN o => o["mount"] \in Seq(Field)
ASSUME MaxMintAssumption == MaxMint \in Nat \ {0}
ASSUME NoneAssumption == None \notin Ws \cup (Ws \X (1 .. MaxMint))
ASSUME WindowAssumption == Faults \subseteq {"window"}

VARIABLES
    row,      \* workspaces with a row
    parent,   \* parent_name
    plan,     \* cpus and ports of the row
    spec,     \* config.json
    marker,   \* regenerate-identity in the workspace directory
    control,  \* regenerate-identity in the control directory
    pc, vm, gid, did, minted, born

fileVars == <<row, parent, plan, spec, marker, control>>
guestVars == <<vm, gid, did, minted>>
vars == <<fileVars, guestVars, pc, born>>

NoPlan == [cpus |-> 0, ports |-> <<>>]
NoSpec == [host |-> <<>>, guest |-> <<>>]

Init ==
    /\ row = {}
    /\ parent = [w \in Ws |-> None]
    /\ plan = [w \in Ws |-> NoPlan]
    /\ spec = [w \in Ws |-> NoSpec]
    /\ marker = {}
    /\ control = {}
    /\ pc = [w \in Ws |-> "none"]
    /\ vm = [w \in Ws |-> "off"]
    /\ gid = [w \in Ws |-> None]
    /\ did = [w \in Ws |-> None]
    /\ minted = [w \in Ws |-> 0]
    /\ born = [w \in Ws |-> 0]

Goto(w, s) == pc' = [pc EXCEPT ![w] = s]
At(w, s, next) == pc[w] = s /\ Goto(w, next)

-----------------------------------------------------------------------------
(***************************************************************************)
(* Publication.  The staging directory is private until the row is in.     *)
(***************************************************************************)
Stage(w, p, r, from, image, next) ==
    /\ r.ok
    /\ parent' = [parent EXCEPT ![w] = from]
    /\ plan' = [plan EXCEPT ![w] = [cpus |-> p.cpus, ports |-> p.ports]]
    /\ spec' = [spec EXCEPT ![w] = [host |-> r.host, guest |-> r.guest]]
    /\ did' = [did EXCEPT ![w] = image]
    /\ born' = [born EXCEPT ![w] = minted[w]]
    /\ Goto(w, next)
    /\ UNCHANGED <<row, marker, control, vm, gid, minted>>

\* provisionWorkspace: a template has no identity.
Run(w, p, d) ==
    /\ w \notin row
    /\ pc[w] = "none"
    /\ Stage(w, p, ResolvePlan(d, p), None, None, "insert")

\* doFork: the source is stopped, its locks are held until the disk is cloned.
Fork(w, s, o, d) ==
    /\ w \notin row
    /\ pc[w] = "none"
    /\ s \in row
    /\ pc[s] = "none"
    /\ vm[s] = "off"
    /\ LET p == ApplyForkOverrides([cpus |-> plan[s].cpus, ports |-> plan[s].ports,
                                    mount |-> MountOf(spec[s])], o)
       IN Stage(w, p, ResolvePlan(d, p), s, did[s], "mark")

\* Mutant: a fork copies the intent of its source.
MarkRegenerateIdentityCopied(w) ==
    /\ At(w, "mark", "insert")
    /\ marker' = IF parent[w] \in marker THEN marker \cup {w} ELSE marker
    /\ UNCHANGED <<row, parent, plan, spec, control, guestVars, born>>

MarkRegenerateIdentity(w) ==
    /\ At(w, "mark", "insert")
    /\ marker' = marker \cup {w}
    /\ UNCHANGED <<row, parent, plan, spec, control, guestVars, born>>

\* The rename and CreateWorkspace; run and fork go on like start.
Insert(w) ==
    /\ At(w, "insert", "prepare")
    /\ row' = row \cup {w}
    /\ UNCHANGED <<parent, plan, spec, marker, control, guestVars, born>>

-----------------------------------------------------------------------------
(***************************************************************************)
(* Starting.                                                               *)
(***************************************************************************)
Start(w) ==
    /\ w \in row
    /\ vm[w] = "off"
    /\ At(w, "none", "prepare")
    /\ UNCHANGED <<fileVars, guestVars, born>>

\* Mutant: every boot is a first boot.
PrepareControlAlways(w) == control' = control \cup {w}

\* PrepareControl replaces the directory and copies the intent.
PrepareControl(w) ==
    control' = IF w \in marker THEN control \cup {w} ELSE control \ {w}

\* prepareBoot: Load, resolve again, Save, PrepareControl.
PrepareBoot(w, d) ==
    LET r == ResolvePlan(d, [cpus |-> plan[w].cpus, ports |-> <<>>,
                             mount |-> MountOf(spec[w])])
    IN  /\ At(w, "prepare", "spawn")
        /\ r.ok
        /\ spec' = [spec EXCEPT ![w] = [host |-> r.host, guest |-> r.guest]]
        /\ PrepareControl(w)
        /\ UNCHANGED <<row, parent, plan, marker, guestVars, born>>

Spawn(w) ==
    /\ At(w, "spawn", "wait")
    /\ vm' = [vm EXCEPT ![w] = "boot"]
    /\ gid' = [gid EXCEPT ![w] = did[w]]
    /\ UNCHANGED <<fileVars, did, minted, born>>

WaitForSSH(w) ==
    /\ At(w, "wait", "ack")
    /\ vm[w] = "up"
    /\ UNCHANGED <<fileVars, guestVars, born>>

CompleteBoot(w) ==
    /\ At(w, "ack", "none")
    /\ marker' = marker \ {w}
    /\ UNCHANGED <<row, parent, plan, spec, control, guestVars, born>>

-----------------------------------------------------------------------------
(***************************************************************************)
(* The guest: devd-init, and the page cache.                               *)
(***************************************************************************)
Guest(w, from, to) ==
    /\ vm[w] = from
    /\ vm' = [vm EXCEPT ![w] = to]
    /\ UNCHANGED <<row, parent, plan, spec, marker, pc, did, born>>

Wipe(w) ==
    /\ Guest(w, "boot", "keys")
    /\ gid' = IF w \in control THEN [gid EXCEPT ![w] = None] ELSE gid
    /\ UNCHANGED <<control, minted>>

\* The machine-id and ssh-keygen -A: what is missing is made.
Keygen(w) ==
    /\ Guest(w, "keys", "sshd")
    /\ IF gid[w] # None
         THEN UNCHANGED <<gid, minted>>
         ELSE /\ minted[w] < MaxMint
              /\ minted' = [minted EXCEPT ![w] = @ + 1]
              /\ gid' = [gid EXCEPT ![w] = <<w, minted[w] + 1>>]
    /\ UNCHANGED control

\* sshd answers; the guest removes its copy of the intent.
Sshd(w) ==
    /\ Guest(w, "sshd", "up")
    /\ control' = control \ {w}
    /\ UNCHANGED <<gid, minted>>

WriteBack(w) ==
    /\ vm[w] # "off"
    /\ did[w] # gid[w]
    /\ did' = [did EXCEPT ![w] = gid[w]]
    /\ UNCHANGED <<fileVars, pc, vm, gid, minted, born>>

PowerOff(w, disk) ==
    /\ vm[w] # "off"
    /\ vm' = [vm EXCEPT ![w] = "off"]
    /\ gid' = [gid EXCEPT ![w] = None]
    /\ did' = [did EXCEPT ![w] = disk]
    /\ UNCHANGED <<fileVars, pc, minted, born>>

\* vm.Stop through ssh: sync, then TERM for the workload, which syncs again.
StopGuest(w) ==
    /\ vm[w] = "up"
    /\ pc[w] \in {"none", "wait", "ack"}
    /\ PowerOff(w, gid[w])

\* startWorkspace has seen a fork answer, and its new identity is not yet on its
\* disk.
Window(w) ==
    /\ parent[w] # None
    /\ w \notin marker \/ pc[w] = "ack"
    /\ did[w] # gid[w]

\* A guest panic, the death of the companion, SIGKILL: the page cache is gone.
VmDies(w) ==
    /\ Window(w) => "window" \in Faults
    /\ PowerOff(w, did[w])

\* The files of w are gone, or were never renamed out of staging.
NoFiles(w) ==
    /\ parent' = [parent EXCEPT ![w] = None]
    /\ plan' = [plan EXCEPT ![w] = NoPlan]
    /\ spec' = [spec EXCEPT ![w] = NoSpec]
    /\ marker' = marker \ {w}
    /\ control' = control \ {w}
    /\ did' = [did EXCEPT ![w] = None]

Remove(w) ==
    /\ w \in row
    /\ pc[w] = "none"
    /\ vm[w] = "off"
    /\ row' = row \ {w}
    /\ NoFiles(w)
    /\ UNCHANGED <<pc, vm, gid, minted, born>>

\* An error return, a kill or a crash of the command.  A staging directory that
\* stays has a name nobody uses again; a VM that runs goes on.
Abort(w) ==
    /\ pc[w] # "none"
    /\ Goto(w, "none")
    /\ IF w \in row THEN UNCHANGED <<parent, plan, spec, marker, control, did>>
       ELSE NoFiles(w)
    /\ UNCHANGED <<row, vm, gid, minted, born>>

Next ==
    \E w \in Ws :
        \/ \E d \in Cwd : \/ \E p \in RunOptions : Run(w, p, d)
                          \/ \E s \in Ws, o \in Overrides : Fork(w, s, o, d)
                          \/ PrepareBoot(w, d)
        \/ MarkRegenerateIdentity(w) \/ Insert(w) \/ Start(w) \/ Spawn(w)
        \/ WaitForSSH(w) \/ CompleteBoot(w)
        \/ Wipe(w) \/ Keygen(w) \/ Sshd(w) \/ WriteBack(w)
        \/ StopGuest(w) \/ VmDies(w) \/ Remove(w) \/ Abort(w)

Spec == Init /\ [][Next]_vars

-----------------------------------------------------------------------------
Identity == Ws \X (1 .. MaxMint)

TypeOK ==
    /\ row \subseteq Ws
    /\ parent \in [Ws -> Ws \cup {None}]
    /\ plan \in [Ws -> [cpus : 0 .. MaxCPUs, ports : Seq(1 .. MaxPort)]]
    /\ spec \in [Ws -> [host : Seq(Field), guest : Seq(Field)]]
    /\ marker \subseteq Ws
    /\ control \subseteq Ws
    /\ pc \in [Ws -> {"none", "mark", "insert", "prepare", "spawn", "wait", "ack"}]
    /\ vm \in [Ws -> {"off", "boot", "keys", "sshd", "up"}]
    /\ gid \in [Ws -> Identity \cup {None}]
    /\ did \in [Ws -> Identity \cup {None}]
    /\ minted \in [Ws -> 0 .. MaxMint]
    /\ born \in [Ws -> 0 .. MaxMint]

\* Identity i was made under the name w, after the first n.
MadeAfter(w, i, n) == i # None /\ i[1] = w /\ i[2] > n

\* Identity i was made in w, since w was created.
Own(w, i) == MadeAfter(w, i, born[w])

\* A workspace that answers SSH does so under an identity of its own, however
\* often it, its parent or the commands on them have failed before ("Forked disks
\* inherit both from their stopped parent and must diverge",
\* MarkRegenerateIdentity; PrepareControl, CompleteBoot, devd-init).
Diverged == \A w \in Ws : vm[w] = "up" => Own(w, gid[w])

\* The identity is yet to be made, or is its own.
OwnOrNone(w, i) == i = None \/ Own(w, i)

\* Once nothing asks for a new identity and the disk holds one of its own, the
\* workspace keeps it until it is removed: no boot, crash or fork changes what
\* clients have come to know (CompleteBoot, PrepareControl).
Settled(w) ==
    /\ w \in row
    /\ w \notin marker
    /\ Own(w, did[w])
    /\ vm[w] # "off" => gid[w] = did[w]

SettledKept ==
    [][\A w \in Ws : Settled(w) /\ w \in row' => Settled(w)' /\ did'[w] = did[w]]_vars

\* A workspace that was created can be started again from any directory, and
\* mounts the directory that was named when it was created or forked, whatever
\* was forked from what (resolvePlan in doFork and prepareBoot, MountHost and
\* MountGuest of the specification).  The exception is a directory with a colon
\* in its path: parseMount cuts the recorded mount in the wrong place.
MountKept ==
    \A w \in row, d \in Cwd : Len(spec[w].host) <= 1 =>
        LET r == ResolvePlan(d, [cpus |-> plan[w].cpus, ports |-> plan[w].ports,
                                 mount |-> MountOf(spec[w])])
        IN  /\ r.ok /\ r.guest = spec[w].guest
            /\ spec[w].host # <<>> => Real[d][spec[w].host[1]] = spec[w].host

(***************************************************************************)
(* The inductive invariant.                                                *)
(***************************************************************************)
\* Where a command is tells whether the row is in and the VM may run.
StepsInv ==
    \A w \in Ws :
        /\ pc[w] \in {"mark", "insert"} => w \notin row
        /\ pc[w] \in {"prepare", "spawn", "wait", "ack"} => w \in row
        /\ w \notin row => vm[w] = "off"
        /\ pc[w] \in {"prepare", "spawn"} => vm[w] = "off"
        /\ pc[w] = "ack" => vm[w] \in {"up", "off"}
        /\ vm[w] = "off" => gid[w] = None
        /\ born[w] <= minted[w]

\* The intent of the control directory is the intent of the workspace from
\* prepareBoot until the guest has acted on it.
IntentInv ==
    \A w \in Ws :
        /\ w \in control => w \in marker \cap row
        /\ w \in marker /\ (pc[w] = "spawn" \/ vm[w] = "boot") => w \in control
        /\ vm[w] = "up" \/ pc[w] \in {"mark", "insert", "ack"} => w \notin control

\* Who may hold the identity of somebody else: a fork that is still marked, and
\* the disk of one that has answered and is not yet written back.
ForeignInv ==
    \A w \in Ws :
        /\ parent[w] = None => OwnOrNone(w, gid[w]) /\ OwnOrNone(w, did[w])
        /\ pc[w] = "insert" /\ parent[w] # None => w \in marker
        /\ w \in row \ marker =>
              /\ OwnOrNone(w, gid[w])
              /\ vm[w] = "up" \/ OwnOrNone(w, did[w])
        /\ vm[w] = "keys" => OwnOrNone(w, gid[w])
        /\ vm[w] \in {"sshd", "up"} => Own(w, gid[w])
        /\ pc[w] = "ack" /\ vm[w] = "off" => OwnOrNone(w, did[w])

\* What was resolved once is resolved to the same again.
ResolvedInv ==
    \A w \in Ws : w \in row \/ pc[w] \in {"mark", "insert"} =>
        /\ plan[w].cpus \in 1 .. MaxCPUs
        /\ ValidPorts(plan[w].ports)
        /\ spec[w].host = <<>> => spec[w].guest = <<>>
        /\ spec[w].host # <<>> => spec[w].guest # <<>> /\ spec[w].guest[1] \in Absolute
        /\ Len(spec[w].host) = 1 => \A d \in Cwd : Real[d][spec[w].host[1]] = spec[w].host

IInv ==
    /\ TypeOK /\ StepsInv /\ IntentInv /\ ResolvedInv
    /\ "window" \notin Faults => ForeignInv
=============================================================================
