-------------------------- MODULE WorkspaceBootProofs --------------------------
(***************************************************************************)
(* Proofs about what a workspace carries from one boot to the next, for    *)
(* any workspaces, working directories, options and file names.  IInv,     *)
(* defined in WorkspaceBoot, is the inductive invariant; each part has a   *)
(* lemma with one case per action that changes what the part is about.     *)
(***************************************************************************)
EXTENDS WorkspaceBoot, SequenceTheorems, TLAPS

(***************************************************************************)
(* Option resolution.                                                      *)
(***************************************************************************)
Plan == [cpus : Int, ports : Seq(Int), mount : Seq(Field)]
SpecFile == [host : Seq(Field), guest : Seq(Field)]

\* What a specification that was resolved once says about its mount.
MountResolved(h, g) ==
    /\ h \in Seq(Field) /\ g \in Seq(Field)
    /\ h = <<>> => g = <<>>
    /\ h # <<>> => g # <<>> /\ g[1] \in Absolute
    /\ Len(h) = 1 => \A d \in Cwd : Real[d][h[1]] = h

LEMMA ValidPortsTyped ==
    ASSUME NEW ports \in Seq(Int), ValidPorts(ports)
    PROVE  ports \in Seq(1 .. MaxPort)
<1>1. Len(ports) \in Nat /\ DOMAIN ports = 1 .. Len(ports)
  BY LenProperties
<1>2. ports \in [1 .. Len(ports) -> 1 .. MaxPort]
  BY <1>1, LenProperties DEF ValidPorts
<1> DEFINE T == 1 .. MaxPort
<1>3. Seq(T) = UNION {[1 .. n -> T] : n \in Nat}
  BY SeqDef
<1> HIDE DEF T
<1> QED
  BY <1>1, <1>2, <1>3 DEF T

LEMMA OneField ==
    ASSUME NEW s \in Seq(Field), s # <<>>, Len(s) <= 1
    PROVE  Len(s) = 1
<1>1. Len(s) \in Nat \ {0}
  BY EmptySeq
<1> QED
  BY <1>1

\* parseMount answers with a canonical host path and a valid guest path, or with
\* no mount.
LEMMA ParseMountFacts ==
    ASSUME NEW d \in Cwd, NEW m \in Seq(Field), ParseMount(d, m).ok
    PROVE  MountResolved(ParseMount(d, m).host, ParseMount(d, m).guest)
<1> DEFINE r == ParseMount(d, m)
<1>0. <<>> \in Seq(Field) /\ Len(<<>>) = 0
  BY EmptySeq
<1>1. CASE m = <<>>
  <2>1. r.host = <<>> /\ r.guest = <<>>
    BY <1>1 DEF ParseMount
  <2> QED
    BY <1>0, <2>1 DEF MountResolved
<1>2. CASE m # <<>>
  <2>1. /\ ~(Len(m) < 2 \/ Real[d][m[1]] = None \/ m[2] \notin Absolute)
        /\ r = [ok |-> TRUE, host |-> Real[d][m[1]], guest |-> Tail(m)]
    BY <1>2 DEF ParseMount, Error
  <2> DEFINE h == Real[d][m[1]]
             g == Tail(m)
  <2>2. Len(m) \in Nat /\ Len(m) >= 2 /\ m[1] \in Field /\ m[2] \in Absolute
    BY <2>1, LenProperties, ElementOfSeq
  <2>3. h \in Seq(Field) /\ h # <<>>
    BY <2>1, <2>2, RealAssumption
  <2>4. g \in Seq(Field) /\ Len(g) = Len(m) - 1 /\ g[1] = m[2]
    BY <1>2, <2>2, HeadTailProperties
  <2>5. g # <<>>
    <3>1. Len(g) # 0
      BY <2>2, <2>4
    <3> HIDE DEF g
    <3> QED
      BY <1>0, <3>1
  <2>6. ASSUME Len(h) = 1, NEW e \in Cwd PROVE Real[e][h[1]] = h
    <3> HIDE DEF h
    <3>1. h[1] \in Field
      BY <2>3, <2>6, ElementOfSeq
    <3>2. PICK x \in Field : x = h[1]
      BY <3>1
    <3>3. <<x>> \in Seq(Field) /\ Len(<<x>>) = 1 /\ <<x>>[1] = x
      OBVIOUS
    <3>4. h = <<x>>
      BY <2>3, <2>6, <3>2, <3>3, SeqEqual
    <3>5. Real[d][m[1]] = <<x>>
      BY <3>4 DEF h
    <3>6. Real[e][x] = <<x>>
      BY <2>2, <3>5, CanonicalAssumption
    <3> QED
      BY <3>2, <3>4, <3>6
  <2>7. r.host = h /\ r.guest = g
    BY <2>1
  <2> HIDE DEF h, g, r
  <2>8. MountResolved(h, g)
    BY <2>2, <2>3, <2>4, <2>5, <2>6 DEF MountResolved
  <2> QED
    BY <2>7, <2>8 DEF r
<1> QED
  BY <1>1, <1>2

\* A recorded mount, spelled as an option again, resolves to itself from any
\* directory, if its host path has no colon.
LEMMA MountAgain ==
    ASSUME NEW h, NEW g, MountResolved(h, g), Len(h) <= 1, NEW d \in Cwd
    PROVE  ParseMount(d, h \o g) = [ok |-> TRUE, host |-> h, guest |-> g]
<1>0. h \in Seq(Field) /\ g \in Seq(Field)
  BY DEF MountResolved
<1>1. CASE h = <<>>
  <2>1. h \o g = <<>>
    BY <1>0, <1>1, ConcatEmptySeq DEF MountResolved
  <2> QED
    BY <1>1, <2>1 DEF ParseMount, MountResolved
<1>2. CASE h # <<>>
  <2> DEFINE m == h \o g
  <2>1. Len(h) = 1 /\ Len(g) \in Nat \ {0}
    <3>1. g # <<>>
      BY <1>2 DEF MountResolved
    <3> QED
      BY <1>0, <1>2, <3>1, EmptySeq, OneField
  <2>2. /\ m \in Seq(Field) /\ Len(m) = 1 + Len(g)
        /\ \A i \in 1 .. 1 + Len(g) : m[i] = IF i <= 1 THEN h[i] ELSE g[i - 1]
    <3>1. /\ m \in Seq(Field) /\ Len(m) = Len(h) + Len(g)
          /\ \A i \in 1 .. Len(h) + Len(g) : m[i] = IF i <= Len(h) THEN h[i] ELSE g[i - Len(h)]
      BY <1>0, ConcatProperties
    <3> HIDE DEF m
    <3> QED
      BY <2>1, <3>1
  <2>3. m # <<>> /\ m[1] = h[1] /\ m[2] = g[1]
    BY <2>1, <2>2, EmptySeq
  <2> HIDE DEF m
  <2>4. Real[d][m[1]] = h /\ h # None /\ m[2] \in Absolute
    BY <1>0, <1>2, <2>1, <2>3, ErrorAssumption DEF MountResolved
  <2>5. Tail(m) = g
    <3>1. /\ Tail(m) \in Seq(Field) /\ Len(Tail(m)) = Len(g)
          /\ \A i \in 1 .. Len(Tail(m)) : Tail(m)[i] = m[i + 1]
      BY <2>1, <2>2, <2>3, HeadTailProperties
    <3>2. \A i \in 1 .. Len(g) : Tail(m)[i] = g[i]
      BY <2>1, <2>2, <3>1
    <3> QED
      BY <1>0, <3>1, <3>2, SeqEqual
  <2> QED
    <3>1. ~(Len(m) < 2 \/ Real[d][m[1]] = None \/ m[2] \notin Absolute)
      BY <2>1, <2>2, <2>4
    <3>2. ParseMount(d, m) = [ok |-> TRUE, host |-> h, guest |-> g]
      BY <2>3, <2>4, <2>5, <3>1 DEF ParseMount
    <3> QED
      BY <3>2 DEF m
<1> QED
  BY <1>1, <1>2

\* What resolvePlan accepts.
LEMMA ResolvePlanFacts ==
    ASSUME NEW d \in Cwd, NEW p \in Plan, ResolvePlan(d, p).ok
    PROVE  /\ p.cpus \in 1 .. MaxCPUs
           /\ ValidPorts(p.ports) /\ p.ports \in Seq(1 .. MaxPort)
           /\ MountResolved(ResolvePlan(d, p).host, ResolvePlan(d, p).guest)
<1>1. p.cpus \in 1 .. MaxCPUs /\ ValidPorts(p.ports) /\ ResolvePlan(d, p) = ParseMount(d, p.mount)
  BY DEF ResolvePlan, Error
<1>2. p.ports \in Seq(Int) /\ p.mount \in Seq(Field)
  BY DEF Plan
<1> QED
  BY <1>1, <1>2, ValidPortsTyped, ParseMountFacts

\* applyForkOverrides keeps the shape of a plan.
LEMMA OverridesTyped ==
    ASSUME NEW p \in Plan, NEW o \in Overrides
    PROVE  ApplyForkOverrides(p, o) \in Plan
<1>1. DOMAIN p = {"cpus", "ports", "mount"}
  BY DEF Plan
<1>2. p.cpus \in Int /\ p.ports \in Seq(Int) /\ p.mount \in Seq(Field)
  BY DEF Plan
<1> QED
  BY <1>1, <1>2, OverridesAssumption DEF ApplyForkOverrides, Plan

-----------------------------------------------------------------------------
(***************************************************************************)
(* What run, fork and prepareBoot record.                                  *)
(***************************************************************************)
PlanFile == [cpus : 0 .. MaxCPUs, ports : Seq(1 .. MaxPort)]

\* A row and a specification that resolution has accepted.
Recorded(p, s) ==
    /\ p \in PlanFile /\ p.cpus # 0 /\ ValidPorts(p.ports)
    /\ s \in SpecFile /\ MountResolved(s.host, s.guest)

LEMMA Ranges ==
    /\ 1 .. MaxPort \subseteq Int
    /\ \A x : x \in 0 .. MaxCPUs => x \in Int
    /\ \A x : x \in 1 .. MaxCPUs <=> x \in 0 .. MaxCPUs /\ x # 0
  BY DEF MaxPort, MaxCPUs

LEMMA PlanAgain ==
    ASSUME TypeOK, NEW w \in Ws
    PROVE  /\ [cpus |-> plan[w].cpus, ports |-> plan[w].ports, mount |-> MountOf(spec[w])] \in Plan
           /\ [cpus |-> plan[w].cpus, ports |-> <<>>, mount |-> MountOf(spec[w])] \in Plan
<1>1. /\ plan[w].cpus \in 0 .. MaxCPUs /\ plan[w].ports \in Seq(1 .. MaxPort)
      /\ spec[w].host \in Seq(Field) /\ spec[w].guest \in Seq(Field)
  BY DEF TypeOK
<1>2. plan[w].cpus \in Int
  BY <1>1, Ranges
<1>3. plan[w].ports \in Seq(Int) /\ <<>> \in Seq(Int)
  BY <1>1, Ranges, EmptySeq, SeqMonotonic
<1>4. MountOf(spec[w]) \in Seq(Field)
  BY <1>1, ConcatProperties DEF MountOf
<1> QED
  BY <1>2, <1>3, <1>4 DEF Plan

LEMMA Resolves ==
    ASSUME NEW d \in Cwd, NEW p \in Plan, ResolvePlan(d, p).ok
    PROVE  LET r == ResolvePlan(d, p) IN
           Recorded([cpus |-> p.cpus, ports |-> p.ports], [host |-> r.host, guest |-> r.guest])
<1> DEFINE h == ResolvePlan(d, p).host
           g == ResolvePlan(d, p).guest
<1>1. /\ p.cpus \in 1 .. MaxCPUs /\ ValidPorts(p.ports) /\ p.ports \in Seq(1 .. MaxPort)
      /\ MountResolved(h, g)
  BY ResolvePlanFacts
<1> HIDE DEF h, g
<1>2. p.cpus \in 0 .. MaxCPUs /\ p.cpus # 0
  BY <1>1, Ranges
<1>3. h \in Seq(Field) /\ g \in Seq(Field)
  BY <1>1 DEF MountResolved
<1>4. Recorded([cpus |-> p.cpus, ports |-> p.ports], [host |-> h, guest |-> g])
  BY <1>1, <1>2, <1>3 DEF Recorded, PlanFile, SpecFile
<1> QED
  BY <1>4 DEF h, g

\* Stage, with a plan that was resolved.
LEMMA StageResolves ==
    ASSUME TypeOK, NEW w \in Ws, NEW p \in Plan, NEW d \in Cwd, NEW from, NEW image, NEW next,
           Stage(w, p, ResolvePlan(d, p), from, image, next)
    PROVE  /\ plan' \in [Ws -> PlanFile] /\ spec' \in [Ws -> SpecFile]
           /\ Recorded(plan'[w], spec'[w])
           /\ \A v \in Ws \ {w} : plan'[v] = plan[v] /\ spec'[v] = spec[v]
<1> DEFINE r == ResolvePlan(d, p)
           x == [cpus |-> p.cpus, ports |-> p.ports]
           y == [host |-> r.host, guest |-> r.guest]
<1>1. plan \in [Ws -> PlanFile] /\ spec \in [Ws -> SpecFile]
  BY DEF TypeOK, PlanFile, SpecFile
<1>2. plan' = [plan EXCEPT ![w] = x] /\ spec' = [spec EXCEPT ![w] = y] /\ r.ok
  BY DEF Stage
<1>3. Recorded(x, y)
  BY <1>2, Resolves
<1> HIDE DEF r, x, y
<1>4. x \in PlanFile /\ y \in SpecFile
  BY <1>3 DEF Recorded
<1> QED
  BY <1>1, <1>2, <1>3, <1>4

LEMMA RunResolves ==
    ASSUME TypeOK, NEW w \in Ws, NEW p \in RunOptions, NEW d \in Cwd, Run(w, p, d)
    PROVE  /\ plan' \in [Ws -> PlanFile] /\ spec' \in [Ws -> SpecFile]
           /\ Recorded(plan'[w], spec'[w])
           /\ \A v \in Ws \ {w} : plan'[v] = plan[v] /\ spec'[v] = spec[v]
<1>1. p \in Plan
  BY RunOptionsAssumption DEF Plan
<1> QED
  BY <1>1, StageResolves DEF Run

LEMMA ForkResolves ==
    ASSUME TypeOK, NEW w \in Ws, NEW s \in Ws, NEW o \in Overrides, NEW d \in Cwd,
           Fork(w, s, o, d)
    PROVE  /\ plan' \in [Ws -> PlanFile] /\ spec' \in [Ws -> SpecFile]
           /\ Recorded(plan'[w], spec'[w])
           /\ \A v \in Ws \ {w} : plan'[v] = plan[v] /\ spec'[v] = spec[v]
<1> DEFINE q == [cpus |-> plan[s].cpus, ports |-> plan[s].ports, mount |-> MountOf(spec[s])]
           p == ApplyForkOverrides(q, o)
<1>1. q \in Plan
  BY PlanAgain
<1> HIDE DEF q
<1>2. p \in Plan
  BY <1>1, OverridesTyped
<1>3. Stage(w, p, ResolvePlan(d, p), s, did[s], "mark")
  BY DEF Fork, q
<1> HIDE DEF p
<1> QED
  BY <1>2, <1>3, StageResolves

LEMMA BootResolves ==
    ASSUME TypeOK, NEW w \in Ws, NEW d \in Cwd, PrepareBoot(w, d)
    PROVE  /\ spec' \in [Ws -> SpecFile] /\ plan' = plan
           /\ MountResolved(spec'[w].host, spec'[w].guest)
           /\ \A v \in Ws \ {w} : spec'[v] = spec[v]
<1> DEFINE p == [cpus |-> plan[w].cpus, ports |-> <<>>, mount |-> MountOf(spec[w])]
           r == ResolvePlan(d, p)
           y == [host |-> r.host, guest |-> r.guest]
<1>1. spec \in [Ws -> SpecFile] /\ p \in Plan
  BY PlanAgain DEF TypeOK, SpecFile
<1>2. spec' = [spec EXCEPT ![w] = y] /\ r.ok /\ plan' = plan
  BY DEF PrepareBoot
<1> HIDE DEF p
<1>3. Recorded([cpus |-> p.cpus, ports |-> p.ports], y)
  BY <1>1, <1>2, Resolves
<1> HIDE DEF r, y
<1>4. y \in SpecFile /\ MountResolved(y.host, y.guest)
  BY <1>3 DEF Recorded
<1> QED
  BY <1>1, <1>2, <1>4

LEMMA NoFilesTyped ==
    NoPlan \in PlanFile /\ NoSpec \in SpecFile
<1>1. <<>> \in Seq(1 .. MaxPort) /\ <<>> \in Seq(Field)
  BY EmptySeq
<1> QED
  BY <1>1 DEF NoPlan, NoSpec, PlanFile, SpecFile, MaxCPUs

(***************************************************************************)
(* Types.                                                                  *)
(***************************************************************************)
LEMMA TypeOKStep ==
    ASSUME TypeOK, Next
    PROVE  TypeOK'
<1> USE DEF TypeOK, Identity, Goto, fileVars, guestVars
<1>1. ASSUME NEW w \in Ws, NEW p \in RunOptions, NEW d \in Cwd, Run(w, p, d)
      PROVE TypeOK'
  <2>1. plan' \in [Ws -> PlanFile] /\ spec' \in [Ws -> SpecFile]
    BY <1>1, RunResolves
  <2>2. parent' \in [Ws -> Ws \cup {None}] /\ did' \in [Ws -> Identity \cup {None}]
    BY <1>1 DEF Run, Stage
  <2> HIDE DEF Identity
  <2> QED
    BY <1>1, <2>1, <2>2 DEF Run, Stage, PlanFile, SpecFile
<1>2. ASSUME NEW w \in Ws, NEW s \in Ws, NEW o \in Overrides, NEW d \in Cwd,
      Fork(w, s, o, d) PROVE TypeOK'
  <2>1. plan' \in [Ws -> PlanFile] /\ spec' \in [Ws -> SpecFile]
    BY <1>2, ForkResolves
  <2>2. parent' \in [Ws -> Ws \cup {None}] /\ did' \in [Ws -> Identity \cup {None}]
    BY <1>2 DEF Fork, Stage
  <2> HIDE DEF Identity
  <2> QED
    BY <1>2, <2>1, <2>2 DEF Fork, Stage, PlanFile, SpecFile
<1>3. ASSUME NEW w \in Ws, MarkRegenerateIdentity(w) PROVE TypeOK'
  BY <1>3 DEF MarkRegenerateIdentity, At
<1>4. ASSUME NEW w \in Ws, Insert(w) PROVE TypeOK'
  BY <1>4 DEF Insert, At
<1>5. ASSUME NEW w \in Ws, Start(w) PROVE TypeOK'
  BY <1>5 DEF Start, At
<1>6. ASSUME NEW w \in Ws, NEW d \in Cwd, PrepareBoot(w, d) PROVE TypeOK'
  <2>1. spec' \in [Ws -> SpecFile]
    BY <1>6, BootResolves
  <2> HIDE DEF Identity
  <2> QED
    BY <1>6, <2>1 DEF PrepareBoot, PrepareControl, At, SpecFile
<1>7. ASSUME NEW w \in Ws, Spawn(w) PROVE TypeOK'
  BY <1>7 DEF Spawn, At
<1>8. ASSUME NEW w \in Ws, WaitForSSH(w) PROVE TypeOK'
  BY <1>8 DEF WaitForSSH, At
<1>9. ASSUME NEW w \in Ws, CompleteBoot(w) PROVE TypeOK'
  BY <1>9 DEF CompleteBoot, At
<1>10. ASSUME NEW w \in Ws, Wipe(w) PROVE TypeOK'
  BY <1>10 DEF Wipe, Guest
<1>11. ASSUME NEW w \in Ws, Keygen(w) PROVE TypeOK'
  <2>1. CASE gid[w] # None
    BY <1>11, <2>1 DEF Keygen, Guest
  <2>2. CASE gid[w] = None
    <3>1. minted[w] \in 0 .. MaxMint /\ minted[w] < MaxMint
      BY <1>11, <2>2 DEF Keygen
    <3>2. minted[w] + 1 \in 0 .. MaxMint /\ minted[w] + 1 \in 1 .. MaxMint
      BY <3>1, MaxMintAssumption
    <3>3. <<w, minted[w] + 1>> \in Identity
      BY <3>2
    <3> HIDE DEF Identity
    <3>4. gid' \in [Ws -> Identity \cup {None}] /\ minted' \in [Ws -> 0 .. MaxMint]
      BY <1>11, <2>2, <3>2, <3>3 DEF Keygen
    <3> QED
      BY <1>11, <3>4 DEF Keygen, Guest
  <2> QED
    BY <2>1, <2>2
<1>12. ASSUME NEW w \in Ws, Sshd(w) PROVE TypeOK'
  BY <1>12 DEF Sshd, Guest
<1>13. ASSUME NEW w \in Ws, WriteBack(w) PROVE TypeOK'
  BY <1>13 DEF WriteBack
<1>14. ASSUME NEW w \in Ws, StopGuest(w) PROVE TypeOK'
  BY <1>14 DEF StopGuest, PowerOff
<1>15. ASSUME NEW w \in Ws, VmDies(w) PROVE TypeOK'
  BY <1>15 DEF VmDies, PowerOff
<1>16. ASSUME NEW w \in Ws, Remove(w) PROVE TypeOK'
  <2>1. NoPlan \in PlanFile /\ NoSpec \in SpecFile
    BY NoFilesTyped
  <2>2. plan' \in [Ws -> PlanFile] /\ spec' \in [Ws -> SpecFile]
    BY <1>16, <2>1 DEF Remove, NoFiles, PlanFile, SpecFile
  <2> HIDE DEF Identity
  <2> QED
    BY <1>16, <2>2 DEF Remove, NoFiles, PlanFile, SpecFile
<1>17. ASSUME NEW w \in Ws, Abort(w) PROVE TypeOK'
  <2>1. NoPlan \in PlanFile /\ NoSpec \in SpecFile
    BY NoFilesTyped
  <2>2. plan' \in [Ws -> PlanFile] /\ spec' \in [Ws -> SpecFile]
    <3>1. CASE w \in row
      BY <1>17, <3>1 DEF Abort, PlanFile, SpecFile
    <3>2. CASE w \notin row
      <4>1. plan' = [plan EXCEPT ![w] = NoPlan] /\ spec' = [spec EXCEPT ![w] = NoSpec]
        BY <1>17, <3>2 DEF Abort, NoFiles
      <4>2. plan \in [Ws -> PlanFile] /\ spec \in [Ws -> SpecFile]
        BY DEF PlanFile, SpecFile
      <4> QED
        BY <2>1, <4>1, <4>2
    <3> QED
      BY <3>1, <3>2
  <2> HIDE DEF Identity
  <2> QED
    BY <1>17, <2>2 DEF Abort, NoFiles, PlanFile, SpecFile
<1> QED
  BY <1>1, <1>2, <1>3, <1>4, <1>5, <1>6, <1>7, <1>8, <1>9, <1>10, <1>11,
     <1>12, <1>13, <1>14, <1>15, <1>16, <1>17
  DEF Next

(***************************************************************************)
(* The row goes in and comes out between commands, with the VM off.        *)
(***************************************************************************)
LEMMA StepsInvStep ==
    ASSUME TypeOK, StepsInv, Next
    PROVE  StepsInv'
<1> USE DEF TypeOK, StepsInv, Goto, fileVars, guestVars
<1>0. CASE UNCHANGED <<row, pc, vm, gid, minted, born>>
  BY <1>0
<1>1. ASSUME NEW w \in Ws, NEW p \in RunOptions, NEW d \in Cwd, Run(w, p, d)
      PROVE StepsInv'
  BY <1>1 DEF Run, Stage
<1>2. ASSUME NEW w \in Ws, NEW s \in Ws, NEW o \in Overrides, NEW d \in Cwd,
      Fork(w, s, o, d) PROVE StepsInv'
  BY <1>2 DEF Fork, Stage
<1>3. ASSUME NEW w \in Ws, MarkRegenerateIdentity(w) PROVE StepsInv'
  BY <1>3 DEF MarkRegenerateIdentity, At
<1>4. ASSUME NEW w \in Ws, Insert(w) PROVE StepsInv'
  BY <1>4 DEF Insert, At
<1>5. ASSUME NEW w \in Ws, Start(w) PROVE StepsInv'
  BY <1>5 DEF Start, At
<1>6. ASSUME NEW w \in Ws, NEW d \in Cwd, PrepareBoot(w, d) PROVE StepsInv'
  BY <1>6 DEF PrepareBoot, PrepareControl, At
<1>7. ASSUME NEW w \in Ws, Spawn(w) PROVE StepsInv'
  BY <1>7 DEF Spawn, At
<1>8. ASSUME NEW w \in Ws, WaitForSSH(w) PROVE StepsInv'
  BY <1>8 DEF WaitForSSH, At
<1>9. ASSUME NEW w \in Ws, CompleteBoot(w) PROVE StepsInv'
  BY <1>9 DEF CompleteBoot, At
<1>10. ASSUME NEW w \in Ws, Wipe(w) PROVE StepsInv'
  BY <1>10 DEF Wipe, Guest
<1>11. ASSUME NEW w \in Ws, Keygen(w) PROVE StepsInv'
  BY <1>11 DEF Keygen, Guest
<1>12. ASSUME NEW w \in Ws, Sshd(w) PROVE StepsInv'
  BY <1>12 DEF Sshd, Guest
<1>13. ASSUME NEW w \in Ws, StopGuest(w) PROVE StepsInv'
  BY <1>13 DEF StopGuest, PowerOff
<1>14. ASSUME NEW w \in Ws, VmDies(w) PROVE StepsInv'
  BY <1>14 DEF VmDies, PowerOff
<1>15. ASSUME NEW w \in Ws, Remove(w) PROVE StepsInv'
  BY <1>15 DEF Remove, NoFiles
<1>16. ASSUME NEW w \in Ws, Abort(w) PROVE StepsInv'
  BY <1>16 DEF Abort, NoFiles
<1> QED
  BY <1>0, <1>1, <1>2, <1>3, <1>4, <1>5, <1>6, <1>7, <1>8, <1>9, <1>10, <1>11,
     <1>12, <1>13, <1>14, <1>15, <1>16
  DEF Next, WriteBack

(***************************************************************************)
(* The control directory is made again for every boot, and the guest       *)
(* clears its copy before the command clears the original.                 *)
(***************************************************************************)
LEMMA IntentInvStep ==
    ASSUME TypeOK, StepsInv, IntentInv, Next
    PROVE  IntentInv'
<1> USE DEF TypeOK, StepsInv, IntentInv, Goto, fileVars, guestVars
<1>0. CASE UNCHANGED <<row, marker, control, pc, vm>>
  BY <1>0
<1>1. ASSUME NEW w \in Ws, NEW p \in RunOptions, NEW d \in Cwd, Run(w, p, d)
      PROVE IntentInv'
  BY <1>1 DEF Run, Stage
<1>2. ASSUME NEW w \in Ws, NEW s \in Ws, NEW o \in Overrides, NEW d \in Cwd,
      Fork(w, s, o, d) PROVE IntentInv'
  BY <1>2 DEF Fork, Stage
<1>3. ASSUME NEW w \in Ws, MarkRegenerateIdentity(w) PROVE IntentInv'
  BY <1>3 DEF MarkRegenerateIdentity, At
<1>4. ASSUME NEW w \in Ws, Insert(w) PROVE IntentInv'
  BY <1>4 DEF Insert, At
<1>5. ASSUME NEW w \in Ws, Start(w) PROVE IntentInv'
  BY <1>5 DEF Start, At
<1>6. ASSUME NEW w \in Ws, NEW d \in Cwd, PrepareBoot(w, d) PROVE IntentInv'
  BY <1>6 DEF PrepareBoot, PrepareControl, At
<1>7. ASSUME NEW w \in Ws, Spawn(w) PROVE IntentInv'
  BY <1>7 DEF Spawn, At
<1>8. ASSUME NEW w \in Ws, WaitForSSH(w) PROVE IntentInv'
  BY <1>8 DEF WaitForSSH, At
<1>9. ASSUME NEW w \in Ws, CompleteBoot(w) PROVE IntentInv'
  BY <1>9 DEF CompleteBoot, At
<1>10. ASSUME NEW w \in Ws, Wipe(w) PROVE IntentInv'
  BY <1>10 DEF Wipe, Guest
<1>11. ASSUME NEW w \in Ws, Keygen(w) PROVE IntentInv'
  BY <1>11 DEF Keygen, Guest
<1>12. ASSUME NEW w \in Ws, Sshd(w) PROVE IntentInv'
  BY <1>12 DEF Sshd, Guest
<1>13. ASSUME NEW w \in Ws, StopGuest(w) PROVE IntentInv'
  BY <1>13 DEF StopGuest, PowerOff
<1>14. ASSUME NEW w \in Ws, VmDies(w) PROVE IntentInv'
  BY <1>14 DEF VmDies, PowerOff
<1>15. ASSUME NEW w \in Ws, Remove(w) PROVE IntentInv'
  BY <1>15 DEF Remove, NoFiles
<1>16. ASSUME NEW w \in Ws, Abort(w) PROVE IntentInv'
  BY <1>16 DEF Abort, NoFiles
<1> QED
  BY <1>0, <1>1, <1>2, <1>3, <1>4, <1>5, <1>6, <1>7, <1>8, <1>9, <1>10, <1>11,
     <1>12, <1>13, <1>14, <1>15, <1>16
  DEF Next, WriteBack

(***************************************************************************)
(* A fork has its source's identity only as long as the intent is there;   *)
(* the guest acts on it before sshd answers, and the command drops it      *)
(* after.                                                                  *)
(***************************************************************************)
LEMMA ForeignInvStep ==
    ASSUME "window" \notin Faults, TypeOK, StepsInv, IntentInv, ForeignInv, Next
    PROVE  ForeignInv'
<1> USE DEF TypeOK, StepsInv, ForeignInv, Own, OwnOrNone, Goto, fileVars,
        guestVars
<1>1. ASSUME NEW w \in Ws, NEW p \in RunOptions, NEW d \in Cwd, Run(w, p, d)
      PROVE ForeignInv'
  BY <1>1 DEF Run, Stage
<1>2. ASSUME NEW w \in Ws, NEW s \in Ws, NEW o \in Overrides, NEW d \in Cwd,
      Fork(w, s, o, d) PROVE ForeignInv'
  BY <1>2, NoneAssumption DEF Fork, Stage
<1>3. ASSUME NEW w \in Ws, MarkRegenerateIdentity(w) PROVE ForeignInv'
  BY <1>3 DEF MarkRegenerateIdentity, At
<1>4. ASSUME NEW w \in Ws, Insert(w) PROVE ForeignInv'
  BY <1>4 DEF Insert, At
<1>5. ASSUME NEW w \in Ws, Start(w) PROVE ForeignInv'
  BY <1>5 DEF Start, At
<1>6. ASSUME NEW w \in Ws, NEW d \in Cwd, PrepareBoot(w, d) PROVE ForeignInv'
  BY <1>6 DEF PrepareBoot, PrepareControl, At
<1>7. ASSUME NEW w \in Ws, Spawn(w) PROVE ForeignInv'
  BY <1>7 DEF Spawn, At
<1>8. ASSUME NEW w \in Ws, WaitForSSH(w) PROVE ForeignInv'
  BY <1>8 DEF WaitForSSH, At
<1>9. ASSUME NEW w \in Ws, CompleteBoot(w) PROVE ForeignInv'
  BY <1>9 DEF CompleteBoot, At
<1>10. ASSUME NEW w \in Ws, Wipe(w) PROVE ForeignInv'
  BY <1>10 DEF Wipe, Guest, IntentInv
<1>11. ASSUME NEW w \in Ws, Keygen(w) PROVE ForeignInv'
  <2>1. CASE gid[w] # None
    BY <1>11, <2>1 DEF Keygen, Guest
  <2>2. CASE gid[w] = None
    <3>1. MadeAfter(w, gid'[w], born[w])
      <4>1. minted[w] \in Nat /\ born[w] \in Nat /\ born[w] <= minted[w]
        BY MaxMintAssumption
      <4>2. gid'[w] = <<w, minted[w] + 1>> /\ minted[w] + 1 \in 1 .. MaxMint
        BY <1>11, <2>2, <4>1, MaxMintAssumption DEF Keygen
      <4> QED
        BY <4>1, <4>2, NoneAssumption DEF MadeAfter
    <3> QED
      BY <1>11, <2>2, <3>1 DEF Keygen, Guest
  <2> QED
    BY <2>1, <2>2
<1>12. ASSUME NEW w \in Ws, Sshd(w) PROVE ForeignInv'
  BY <1>12 DEF Sshd, Guest
<1>13. ASSUME NEW w \in Ws, WriteBack(w) PROVE ForeignInv'
  BY <1>13 DEF WriteBack
<1>14. ASSUME NEW w \in Ws, StopGuest(w) PROVE ForeignInv'
  BY <1>14 DEF StopGuest, PowerOff
<1>15. ASSUME NEW w \in Ws, VmDies(w) PROVE ForeignInv'
  BY <1>15 DEF VmDies, PowerOff, Window
<1>16. ASSUME NEW w \in Ws, Remove(w) PROVE ForeignInv'
  BY <1>16 DEF Remove, NoFiles
<1>17. ASSUME NEW w \in Ws, Abort(w) PROVE ForeignInv'
  BY <1>17 DEF Abort, NoFiles
<1> QED
  BY <1>1, <1>2, <1>3, <1>4, <1>5, <1>6, <1>7, <1>8, <1>9, <1>10, <1>11,
     <1>12, <1>13, <1>14, <1>15, <1>16, <1>17
  DEF Next

(***************************************************************************)
(* What is recorded was resolved, by run, fork or the last boot.           *)
(***************************************************************************)
LEMMA ResolvedInvStep ==
    ASSUME TypeOK, StepsInv, ResolvedInv, Next
    PROVE  ResolvedInv'
<1> USE DEF StepsInv, ResolvedInv, Goto, fileVars, guestVars
<1>0. CASE UNCHANGED <<row, plan, spec, pc>>
  BY <1>0
<1>1. ASSUME NEW w \in Ws, NEW p \in RunOptions, NEW d \in Cwd, Run(w, p, d)
      PROVE ResolvedInv'
  <2>1. Recorded(plan'[w], spec'[w])
    BY <1>1, RunResolves
  <2>2. \A v \in Ws \ {w} : plan'[v] = plan[v] /\ spec'[v] = spec[v] /\ pc'[v] = pc[v]
    BY <1>1, RunResolves DEF Run, Stage, TypeOK
  <2>3. row' = row
    BY <1>1 DEF Run, Stage
  <2>4. /\ plan'[w].cpus \in 1 .. MaxCPUs /\ ValidPorts(plan'[w].ports)
        /\ MountResolved(spec'[w].host, spec'[w].guest)
    BY <2>1, Ranges DEF Recorded, PlanFile
  <2> QED
    BY <2>2, <2>3, <2>4 DEF MountResolved
<1>2. ASSUME NEW w \in Ws, NEW s \in Ws, NEW o \in Overrides, NEW d \in Cwd,
      Fork(w, s, o, d) PROVE ResolvedInv'
  <2>1. Recorded(plan'[w], spec'[w])
    BY <1>2, ForkResolves
  <2>2. \A v \in Ws \ {w} : plan'[v] = plan[v] /\ spec'[v] = spec[v] /\ pc'[v] = pc[v]
    BY <1>2, ForkResolves DEF Fork, Stage, TypeOK
  <2>3. row' = row
    BY <1>2 DEF Fork, Stage
  <2>4. /\ plan'[w].cpus \in 1 .. MaxCPUs /\ ValidPorts(plan'[w].ports)
        /\ MountResolved(spec'[w].host, spec'[w].guest)
    BY <2>1, Ranges DEF Recorded, PlanFile
  <2> QED
    BY <2>2, <2>3, <2>4 DEF MountResolved
<1>3. ASSUME NEW w \in Ws, MarkRegenerateIdentity(w) PROVE ResolvedInv'
  BY <1>3 DEF MarkRegenerateIdentity, At, TypeOK
<1>4. ASSUME NEW w \in Ws, Insert(w) PROVE ResolvedInv'
  BY <1>4 DEF Insert, At, TypeOK
<1>5. ASSUME NEW w \in Ws, Start(w) PROVE ResolvedInv'
  BY <1>5 DEF Start, At, TypeOK
<1>6. ASSUME NEW w \in Ws, NEW d \in Cwd, PrepareBoot(w, d) PROVE ResolvedInv'
  <2>1. MountResolved(spec'[w].host, spec'[w].guest) /\ plan' = plan
    BY <1>6, BootResolves
  <2>2. \A v \in Ws \ {w} : spec'[v] = spec[v] /\ pc'[v] = pc[v]
    BY <1>6, BootResolves DEF PrepareBoot, At, TypeOK
  <2>3. w \in row /\ row' = row
    BY <1>6 DEF PrepareBoot, At
  <2> QED
    BY <2>1, <2>2, <2>3 DEF MountResolved
<1>7. ASSUME NEW w \in Ws, Spawn(w) PROVE ResolvedInv'
  BY <1>7 DEF Spawn, At, TypeOK
<1>8. ASSUME NEW w \in Ws, WaitForSSH(w) PROVE ResolvedInv'
  BY <1>8 DEF WaitForSSH, At, TypeOK
<1>9. ASSUME NEW w \in Ws, CompleteBoot(w) PROVE ResolvedInv'
  BY <1>9 DEF CompleteBoot, At, TypeOK
<1>10. ASSUME NEW w \in Ws, Remove(w) PROVE ResolvedInv'
  BY <1>10 DEF Remove, NoFiles, TypeOK
<1>11. ASSUME NEW w \in Ws, Abort(w) PROVE ResolvedInv'
  BY <1>11 DEF Abort, NoFiles, TypeOK
<1> QED
  BY <1>0, <1>1, <1>2, <1>3, <1>4, <1>5, <1>6, <1>7, <1>8, <1>9, <1>10, <1>11
  DEF Next, Wipe, Guest, Keygen, Sshd, WriteBack, StopGuest, PowerOff, VmDies

-----------------------------------------------------------------------------
LEMMA InitIInv == Init => IInv
<1> SUFFICES ASSUME Init PROVE IInv
  OBVIOUS
<1> USE DEF Init
<1>1. plan \in [Ws -> PlanFile] /\ spec \in [Ws -> SpecFile]
  BY NoFilesTyped
<1>2. TypeOK
  <2>1. 0 \in 0 .. MaxMint
    BY MaxMintAssumption
  <2> QED
    BY <1>1, <2>1 DEF TypeOK, PlanFile, SpecFile
<1>3. StepsInv /\ IntentInv /\ ResolvedInv /\ ForeignInv
  BY NoneAssumption DEF StepsInv, IntentInv, ResolvedInv, ForeignInv, OwnOrNone
<1> QED
  BY <1>2, <1>3 DEF IInv

LEMMA StutterIInv == IInv /\ UNCHANGED vars => IInv'
<1> SUFFICES ASSUME IInv, UNCHANGED vars PROVE IInv'
  OBVIOUS
<1> USE DEF IInv, vars, fileVars, guestVars
<1>1. TypeOK' /\ StepsInv' /\ IntentInv'
  BY DEF TypeOK, StepsInv, IntentInv
<1>2. ResolvedInv'
  BY DEF ResolvedInv
<1>3. "window" \notin Faults => ForeignInv'
  BY DEF ForeignInv, OwnOrNone, Own
<1> QED
  BY <1>1, <1>2, <1>3

\* IInv is inductive: commands, the guest, crashes of either and the page cache
\* keep it (publishWorkspace, prepareBoot, startWorkspace, devd-init).
THEOREM Inductive == Spec => []IInv
<1>1. ASSUME IInv, Next PROVE IInv'
  <2> USE <1>1 DEF IInv
  <2>1. TypeOK' /\ StepsInv' /\ IntentInv' /\ ResolvedInv'
    BY TypeOKStep, StepsInvStep, IntentInvStep, ResolvedInvStep
  <2>2. "window" \notin Faults => ForeignInv'
    BY ForeignInvStep
  <2> QED
    BY <2>1, <2>2
<1>2. IInv /\ [Next]_vars => IInv'
  BY <1>1, StutterIInv
<1> QED
  BY InitIInv, <1>2, PTL DEF Spec

\* Every variable of the workspaces and of their guests keeps its type; a recorded
\* plan is within the limits of options.go.
THEOREM TypeCorrect == Spec => []TypeOK
<1>1. IInv => TypeOK
  BY DEF IInv
<1> QED
  BY <1>1, Inductive, PTL

\* If no VM dies between the acknowledgement and the write-back, a workspace that
\* answers SSH has an identity of its own, whatever else fails and however forks
\* are nested (MarkRegenerateIdentity, PrepareControl, devd-init, CompleteBoot).
THEOREM ForksDiverge ==
    ASSUME "window" \notin Faults
    PROVE  Spec => []Diverged
<1>1. IInv => Diverged
  BY DEF IInv, ForeignInv, Diverged
<1> QED
  BY <1>1, Inductive, PTL

\* A created workspace resolves its recorded mount to itself from any directory
\* (resolvePlan, parseMount), for every assignment of canonical paths.
THEOREM MountsKept == Spec => []MountKept
<1>1. ASSUME IInv PROVE MountKept
  <2> SUFFICES ASSUME NEW w \in row, NEW d \in Cwd, Len(spec[w].host) <= 1
               PROVE  LET r == ResolvePlan(d, [cpus |-> plan[w].cpus, ports |-> plan[w].ports,
                                               mount |-> MountOf(spec[w])])
                      IN  /\ r.ok /\ r.guest = spec[w].guest
                          /\ spec[w].host # <<>> => Real[d][spec[w].host[1]] = spec[w].host
    BY DEF MountKept
  <2> DEFINE h == spec[w].host
             g == spec[w].guest
             p == [cpus |-> plan[w].cpus, ports |-> plan[w].ports, mount |-> h \o g]
  <2>1. w \in Ws /\ spec[w] \in SpecFile
    BY <1>1 DEF IInv, TypeOK, SpecFile
  <2>2. h \in Seq(Field) /\ g \in Seq(Field)
    BY <2>1 DEF SpecFile
  <2>3. MountResolved(h, g) /\ plan[w].cpus \in 1 .. MaxCPUs /\ ValidPorts(plan[w].ports)
    BY <1>1, <2>1, <2>2 DEF IInv, ResolvedInv, MountResolved
  <2>4. ParseMount(d, h \o g) = [ok |-> TRUE, host |-> h, guest |-> g]
    BY <2>3, MountAgain
  <2>5. ResolvePlan(d, p) = ParseMount(d, h \o g)
    BY <2>3 DEF ResolvePlan
  <2>6. ASSUME h # <<>> PROVE Real[d][h[1]] = h
    <3>1. Len(h) = 1
      BY <2>2, <2>6, OneField
    <3> QED
      BY <2>3, <3>1 DEF MountResolved
  <2> QED
    BY <2>4, <2>5, <2>6 DEF MountOf
<1>2. IInv => MountKept
  BY <1>1
<1> QED
  BY <1>2, Inductive, PTL

(***************************************************************************)
(* Identities that are settled.                                            *)
(***************************************************************************)
LEMMA SettledStep ==
    ASSUME TypeOK, StepsInv, IntentInv, Next, NEW w \in Ws, Settled(w), w \in row'
    PROVE  Settled(w)' /\ did'[w] = did[w]
<1> USE DEF TypeOK, Settled, Own, Goto, fileVars, guestVars
<1>0. did[w] # None
  BY DEF MadeAfter
<1>1. ASSUME NEW x \in Ws, NEW p \in RunOptions, NEW d \in Cwd, Run(x, p, d)
      PROVE Settled(w)' /\ did'[w] = did[w]
  BY <1>1 DEF Run, Stage
<1>2. ASSUME NEW x \in Ws, NEW s \in Ws, NEW o \in Overrides, NEW d \in Cwd,
      Fork(x, s, o, d) PROVE Settled(w)' /\ did'[w] = did[w]
  BY <1>2 DEF Fork, Stage
<1>3. ASSUME NEW x \in Ws, MarkRegenerateIdentity(x) PROVE Settled(w)' /\
      did'[w] = did[w]
  BY <1>3 DEF MarkRegenerateIdentity, At, StepsInv
<1>4. ASSUME NEW x \in Ws, Insert(x) PROVE Settled(w)' /\ did'[w] = did[w]
  BY <1>4 DEF Insert, At, StepsInv
<1>5. ASSUME NEW x \in Ws, Start(x) PROVE Settled(w)' /\ did'[w] = did[w]
  BY <1>5 DEF Start, At
<1>6. ASSUME NEW x \in Ws, NEW d \in Cwd, PrepareBoot(x, d) PROVE Settled(w)'
      /\ did'[w] = did[w]
  BY <1>6 DEF PrepareBoot, PrepareControl, At
<1>7. ASSUME NEW x \in Ws, Spawn(x) PROVE Settled(w)' /\ did'[w] = did[w]
  BY <1>7 DEF Spawn, At, StepsInv
<1>8. ASSUME NEW x \in Ws, WaitForSSH(x) PROVE Settled(w)' /\ did'[w] = did[w]
  BY <1>8 DEF WaitForSSH, At
<1>9. ASSUME NEW x \in Ws, CompleteBoot(x) PROVE Settled(w)' /\ did'[w] =
      did[w]
  BY <1>9 DEF CompleteBoot, At
<1>10. ASSUME NEW x \in Ws, Wipe(x) PROVE Settled(w)' /\ did'[w] = did[w]
  BY <1>10 DEF Wipe, Guest, IntentInv
<1>11. ASSUME NEW x \in Ws, Keygen(x) PROVE Settled(w)' /\ did'[w] = did[w]
  BY <1>11, <1>0 DEF Keygen, Guest
<1>12. ASSUME NEW x \in Ws, Sshd(x) PROVE Settled(w)' /\ did'[w] = did[w]
  BY <1>12 DEF Sshd, Guest
<1>13. ASSUME NEW x \in Ws, WriteBack(x) PROVE Settled(w)' /\ did'[w] = did[w]
  BY <1>13 DEF WriteBack
<1>14. ASSUME NEW x \in Ws, StopGuest(x) PROVE Settled(w)' /\ did'[w] = did[w]
  BY <1>14 DEF StopGuest, PowerOff
<1>15. ASSUME NEW x \in Ws, VmDies(x) PROVE Settled(w)' /\ did'[w] = did[w]
  BY <1>15 DEF VmDies, PowerOff
<1>16. ASSUME NEW x \in Ws, Remove(x) PROVE Settled(w)' /\ did'[w] = did[w]
  BY <1>16 DEF Remove, NoFiles
<1>17. ASSUME NEW x \in Ws, Abort(x) PROVE Settled(w)' /\ did'[w] = did[w]
  BY <1>17 DEF Abort, NoFiles
<1> QED
  BY <1>1, <1>2, <1>3, <1>4, <1>5, <1>6, <1>7, <1>8, <1>9, <1>10, <1>11,
     <1>12, <1>13, <1>14, <1>15, <1>16, <1>17
  DEF Next

\* An identity that is on the disk, and that nothing asks to replace, stays until
\* the workspace is removed, whatever dies (CompleteBoot, PrepareControl), also
\* when a VM may die before the write-back.
THEOREM IdentityKept == Spec => SettledKept
<1> DEFINE Kept == \A w \in Ws : Settled(w) /\ w \in row' => Settled(w)' /\ did'[w] = did[w]
<1>1. ASSUME IInv, Next PROVE Kept
  BY <1>1, SettledStep DEF IInv
<1>2. ASSUME UNCHANGED vars PROVE Kept
  BY <1>2 DEF vars, fileVars, guestVars, Settled, Own
<1>3. IInv /\ [Next]_vars => [Kept]_vars
  BY <1>1, <1>2
<1> QED
  BY <1>3, Inductive, PTL DEF Spec, SettledKept
================================================================================
