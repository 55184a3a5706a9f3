---------------------------- MODULE LifecycleStore ----------------------------
(***************************************************************************)
(* The commands, companions, locks and crashes of Lifecycle implement the  *)
(* store of workspaces.                                                    *)
(***************************************************************************)
EXTENDS Lifecycle

\* The state of the store is in SQLite and in the process table; receipts,
\* directories, disks and locks serve to keep it.
Store == INSTANCE WorkspaceStore WITH
    known <- rows,
    vm <- dbPid,
    target <- active,
    gone <- {p \in Proc : phase[p] = "dead"}

\* Whatever commands run concurrently and wherever they die, each step of theirs
\* is one step of the store or none: no workspace is created over another, a
\* recorded VM is replaced, retired or deleted only after it has exited, and
\* routing changes in one step (CreateWorkspace, SetWorkspaceState,
\* SetActiveWorkspace, DeleteWorkspace as loadWorkspace, startWorkspace,
\* stopWorkspace and removeWorkspace call them).
WorkspaceStoreSpec == Store!Spec

(***************************************************************************)
(* What IInv has to be joined with for the proof of WorkspaceStoreSpec.    *)
(***************************************************************************)
\* The columns state and pid of a row agree; without a row both are empty.
RecordInv ==
    /\ \A n \in Name : dbState[n] = "running" <=> dbPid[n] # None
    /\ \A n \in Name \ rows : dbState[n] = "stopped"
    /\ \A c \in Cli : pc[c] \in {"rmlock", "rmmeta", "rmrow"} => dbState[name[c]] = "stopped"

\* No two receipts name one incarnation, and a launched one whose receipt is
\* still to be written is known to its command only.
ReceiptInv ==
    /\ \A m, n \in Name : receipt[m] = receipt[n] /\ receipt[m] # None => m = n
    /\ \A c \in Cli : pc[c] = "receipt" =>
        /\ \A n \in Name : receipt[n] # proc[c]
        /\ \A e \in Cli : pc[e] = "receipt" /\ proc[e] = proc[c] => e = c
=============================================================================
