---------------------------- MODULE WorkspaceStore ----------------------------
(***************************************************************************)
(* What the commands promise together about workspaces, as a reader of the *)
(* metadata store sees it: a workspace is created once and in one step,    *)
(* has at most one recorded VM, gets another only after the recorded one   *)
(* has exited and was retired, is deleted only without one, and traffic    *)
(* goes to at most one workspace, one with a recorded VM.  Commands, locks,*)
(* files and crashes do not appear.                                        *)
(***************************************************************************)
CONSTANTS
    Name,    \* workspace names
    Proc,    \* VM incarnations
    None

VARIABLES
    known,   \* the workspaces
    vm,      \* the incarnation recorded for each
    target,  \* where traffic is routed: nowhere, or one workspace
    gone     \* the incarnations that have exited

vars == <<known, vm, target, gone>>

TypeOK ==
    /\ known \subseteq Name
    /\ vm \in [Name -> Proc \cup {None}]
    /\ target \subseteq known
    /\ gone \subseteq Proc

Init ==
    /\ known = {}
    /\ vm = [n \in Name |-> None]
    /\ target = {}
    /\ gone = {}

Create(n) ==
    /\ n \notin known
    /\ known' = known \cup {n}
    /\ UNCHANGED <<vm, target, gone>>

\* An incarnation belongs to one workspace.
Launch(n, p) ==
    /\ n \in known
    /\ vm[n] = None
    /\ \A m \in Name : vm[m] # p
    /\ vm' = [vm EXCEPT ![n] = p]
    /\ UNCHANGED <<known, target, gone>>

Activate(n) ==
    /\ n \in known
    /\ vm[n] # None
    /\ target' = {n}
    /\ UNCHANGED <<known, vm, gone>>

Retire(n) ==
    /\ vm[n] \in gone
    /\ vm' = [vm EXCEPT ![n] = None]
    /\ target' = target \ {n}
    /\ UNCHANGED <<known, gone>>

Delete(n) ==
    /\ n \in known
    /\ vm[n] = None
    /\ known' = known \ {n}
    /\ UNCHANGED <<vm, target, gone>>

\* A VM exits, recorded or not.
VmExit(p) ==
    /\ gone' = gone \cup {p}
    /\ UNCHANGED <<known, vm, target>>

Next ==
    \/ \E n \in Name : \/ Create(n) \/ Activate(n) \/ Retire(n) \/ Delete(n)
                       \/ \E p \in Proc : Launch(n, p)
    \/ \E p \in Proc : VmExit(p)

Spec == Init /\ [][Next]_vars
=============================================================================
