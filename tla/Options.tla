------------------------------- MODULE Options -------------------------------
(***************************************************************************)
(* Option resolution (internal/cli/options.go): what a command line, or    *)
(* the plan of a workspace to be forked or started, resolves to.           *)
(*                                                                         *)
(* A string is the sequence of its colon-separated fields, because the one *)
(* thing that is taken apart and put together again is host:guest; the     *)
(* empty string is <<>>.  Memory is checked like CPUs and left out; so is  *)
(* the kernel path, which is made canonical like a mount's host path and   *)
(* is never joined to anything.                                            *)
(***************************************************************************)
EXTENDS Integers, Sequences

CONSTANTS
    Cwd,       \* the directories commands are called from
    Field,     \* the fields of strings
    Absolute,  \* fields that begin a clean, absolute, unreserved guest path
    Real,      \* Real[d][f]: the canonical path of the directory f names in d
    None

ASSUME AbsoluteAssumption == Absolute \subseteq Field
\* A canonical path is not empty; None stands for an error.
ASSUME RealAssumption == Real \in [Cwd -> [Field -> (Seq(Field) \ {<<>>}) \cup {None}]]
ASSUME ErrorAssumption == None \notin Seq(Field)
\* A canonical path without a colon names the same directory from everywhere.
ASSUME CanonicalAssumption ==
    \A d \in Cwd, f, g \in Field : Real[d][f] = <<g>> => \A e \in Cwd : Real[e][g] = <<g>>

MaxPort == 65535
MaxCPUs == 255

\* The host and guest path of an error are never used.
Error == [ok |-> FALSE, host |-> <<>>, guest |-> <<>>]

-----------------------------------------------------------------------------
\* Mutant: one port too many.
ValidPortsLoose(ports) ==
    /\ \A i \in DOMAIN ports : ports[i] \in 1 .. MaxPort + 1
    /\ \A i, j \in DOMAIN ports : i # j => ports[i] # ports[j]

ValidPorts(ports) ==
    /\ \A i \in DOMAIN ports : ports[i] \in 1 .. MaxPort
    /\ \A i, j \in DOMAIN ports : i # j => ports[i] # ports[j]

\* Mutant: the host path is kept as it was typed.
ParseMountRelative(d, m) ==
    IF m = <<>> THEN [ok |-> TRUE, host |-> <<>>, guest |-> <<>>]
    ELSE IF Len(m) < 2 \/ Real[d][m[1]] = None \/ m[2] \notin Absolute THEN Error
    ELSE [ok |-> TRUE, host |-> <<m[1]>>, guest |-> Tail(m)]

\* strings.Cut at the first colon, filepath.Abs and EvalSymlinks of the host
\* path, validation of the guest path.
ParseMount(d, m) ==
    IF m = <<>> THEN [ok |-> TRUE, host |-> <<>>, guest |-> <<>>]
    ELSE IF Len(m) < 2 \/ Real[d][m[1]] = None \/ m[2] \notin Absolute THEN Error
    ELSE [ok |-> TRUE, host |-> Real[d][m[1]], guest |-> Tail(m)]

ResolvePlan(d, plan) ==
    IF plan.cpus \notin 1 .. MaxCPUs \/ ~ValidPorts(plan.ports) THEN Error
    ELSE ParseMount(d, plan.mount)

\* Omitted values inherit; a value that is given replaces, also by nothing.
ApplyForkOverrides(source, overrides) ==
    [k \in DOMAIN source |-> IF k \in DOMAIN overrides THEN overrides[k] ELSE source[k]]

\* doFork and prepareBoot spell the recorded mount as an option again.
MountOf(spec) == spec.host \o spec.guest
=============================================================================
