---------------------------- MODULE TemplateStore ----------------------------
(***************************************************************************)
(* What the template cache promises (the comment of EnsureTemplate and the *)
(* storage section of SPEC.md): under its digest a template is absent or   *)
(* complete, it appears in one step, it never changes in place, it is      *)
(* removed only when something outside devd has damaged it, and a clone of *)
(* one that is not damaged is a complete copy of it.                       *)
(***************************************************************************)
CONSTANTS
    Cmd,     \* commands that need a template
    Digest,  \* image digests
    None

VARIABLES
    entry,   \* what is published under each digest
    out      \* the image on the workspace disk each command has cloned, or "torn"

vars == <<entry, out>>

\* A published template may be undone by a power loss until it is "kept".
Entry == [img : Digest, st : {"fresh", "kept", "broken"}]

TypeOK ==
    /\ entry \in [Digest -> Entry \cup {None}]
    /\ out \in [Cmd -> Digest \cup {None, "torn"}]

Init ==
    /\ entry = [d \in Digest |-> None]
    /\ out = [c \in Cmd |-> None]

Move(d, from, to) ==
    /\ entry[d] # None
    /\ entry[d].st \in from
    /\ entry' = [entry EXCEPT ![d] = [@ EXCEPT !.st = to]]
    /\ UNCHANGED out

Publish(d, i) ==
    /\ entry[d] = None
    /\ entry' = [entry EXCEPT ![d] = [img |-> i, st |-> "fresh"]]
    /\ UNCHANGED out

Keep(d) == Move(d, {"fresh"}, "kept")

Damage(d) == Move(d, {"fresh", "kept"}, "broken")

Discard(d) ==
    /\ entry[d] # None
    /\ entry[d].st = "broken"
    /\ entry' = [entry EXCEPT ![d] = None]
    /\ UNCHANGED out

Clone(c, d) ==
    /\ entry[d] # None
    /\ \/ out' = [out EXCEPT ![c] = entry[d].img]
       \/ entry[d].st = "broken" /\ out' = [out EXCEPT ![c] = "torn"]
    /\ UNCHANGED entry

Forget(c) ==
    /\ out' = [out EXCEPT ![c] = None]
    /\ UNCHANGED entry

\* The host loses power: fresh templates may vanish, the commands are gone.
PowerLoss ==
    \E lost \in SUBSET {d \in Digest : entry[d] # None /\ entry[d].st # "kept"} :
        /\ entry' = [d \in Digest |->
                       IF entry[d] = None \/ d \in lost THEN None
                       ELSE IF entry[d].st = "fresh" THEN [entry[d] EXCEPT !.st = "kept"]
                       ELSE entry[d]]
        /\ out' = [c \in Cmd |-> None]

Next ==
    \/ \E d \in Digest : \/ \E i \in Digest : Publish(d, i)
                         \/ Keep(d) \/ Damage(d) \/ Discard(d)
                         \/ \E c \in Cmd : Clone(c, d)
    \/ \E c \in Cmd : Forget(c)
    \/ PowerLoss

Spec == Init /\ [][Next]_vars
=============================================================================
