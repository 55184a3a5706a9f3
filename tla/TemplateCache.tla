---------------------------- MODULE TemplateCache ----------------------------
(***************************************************************************)
(* The cache of ext4 templates that `devd run' clones its root disks from  *)
(* (internal/storage/storage.go, vm.Pack of internal/vm/runtime.go).       *)
(*                                                                         *)
(* Several commands call EnsureTemplate at once; `pc' is the step each     *)
(* takes next.  A template is a directory images/<key> with a manifest and *)
(* a disk.  It is prepared in a private staging directory under the lock   *)
(* of its key and renamed into place; it is loaded and cloned without any  *)
(* lock.  A write is in the page cache until it is synced, and a power     *)
(* loss forgets what is not.                                               *)
(***************************************************************************)
CONSTANTS
    Cmd,     \* commands that need a template
    Ref,     \* image references, as QualifyImage spells them
    Digest,  \* image digests
    Served,  \* the digests the registry may serve for a reference
    Faults,  \* what may go wrong outside devd: "damage", "power"
    None

ASSUME ServedAssumption == Served \in [Ref -> SUBSET Digest]
ASSUME FaultsAssumption == Faults \subseteq {"damage", "power"}
ASSUME NoneAssumption == None \notin Cmd \cup Ref \cup Digest

VARIABLES
    tag,     \* the local image store: the digest a reference names
    final,   \* images/<key> of each digest
    lock,    \* flock of images/.<key>.lock
    stage,   \* the staging directory of each command
    pc, ref, dig,
    disk     \* what each command has cloned for its workspace

cacheVars == <<final, lock, stage>>
cmdVars == <<pc, ref, dig>>
vars == <<tag, cacheVars, cmdVars, disk>>

\* A disk has its final size from createExt4 on; "lost" is one whose contents a
\* power loss has dropped.
Filled == {"blank", "copied", "sanitized", "packed", "lost"}

\* A "truncated" disk is a file of another size, "none" is no file.
Dir == [img : Digest \cup {None}, disk : Filled \cup {"none", "truncated"},
        manifest : BOOLEAN, synced : BOOLEAN, settled : BOOLEAN]

\* What CloneDisk leaves in a workspace.
Copy == [img : Digest, disk : Filled \cup {"truncated"}]

\* A missing file is none of the files.
ASSUME MissingAssumption ==
    None \notin Dir \cup Copy \cup [img : Digest, st : {"fresh", "kept", "broken"}]

EmptyDir == [img |-> None, disk |-> "none", manifest |-> FALSE,
             synced |-> FALSE, settled |-> FALSE]

Init ==
    /\ tag = [r \in Ref |-> None]
    /\ final = [d \in Digest |-> None]
    /\ lock = [d \in Digest |-> None]
    /\ stage = [c \in Cmd |-> None]
    /\ pc = [c \in Cmd |-> "idle"]
    /\ ref = [c \in Cmd |-> None]
    /\ dig = [c \in Cmd |-> None]
    /\ disk = [c \in Cmd |-> None]

-----------------------------------------------------------------------------
HasDisk(t) == t # None /\ t.disk # "none"

\* loadTemplate: the manifest decodes, the disk is a file of the right size.
Loadable(t) == HasDisk(t) /\ t.disk # "truncated" /\ t.manifest

Goto(c, s) == pc' = [pc EXCEPT ![c] = s]
At(c, s, next) == pc[c] = s /\ Goto(c, next)

\* The deferred calls of EnsureTemplate: remove the staging directory, close the
\* lock.
Unlock(c) == lock' = [d \in Digest |-> IF lock[d] = c THEN None ELSE lock[d]]
Unstage(c) == stage' = [stage EXCEPT ![c] = None]

\* The command has its template (or an error) and drops its local variables.
Done(c) ==
    /\ Goto(c, "idle")
    /\ ref' = [ref EXCEPT ![c] = None]
    /\ dig' = [dig EXCEPT ![c] = None]

SetStage(c, t) ==
    /\ stage' = [stage EXCEPT ![c] = t]
    /\ UNCHANGED <<tag, final, lock, ref, dig, disk>>

-----------------------------------------------------------------------------
(***************************************************************************)
(* Resolving the image.                                                    *)
(***************************************************************************)
Begin(c, r) ==
    /\ At(c, "idle", "inspect")
    /\ ref' = [ref EXCEPT ![c] = r]
    /\ disk' = [disk EXCEPT ![c] = None]
    /\ UNCHANGED <<tag, cacheVars, dig>>

\* ensureLocalImage: None stands for a missing image and for one of another
\* architecture.
Inspect(c) ==
    /\ pc[c] = "inspect"
    /\ IF tag[ref[c]] = None
         THEN Goto(c, "pull") /\ UNCHANGED dig
         ELSE Goto(c, "load") /\ dig' = [dig EXCEPT ![c] = tag[ref[c]]]
    /\ UNCHANGED <<tag, cacheVars, ref, disk>>

\* The reference names what the registry serves now; the second inspection is
\* a command of its own.
Pull(c) ==
    /\ At(c, "pull", "inspect")
    /\ \E d \in Served[ref[c]] : tag' = [tag EXCEPT ![ref[c]] = d]
    /\ UNCHANGED <<cacheVars, ref, dig, disk>>

-----------------------------------------------------------------------------
(***************************************************************************)
(* Loading, without and with the lock.                                     *)
(***************************************************************************)
Load(c) ==
    /\ pc[c] = "load"
    /\ Goto(c, IF Loadable(final[dig[c]]) THEN "clone" ELSE "lock")
    /\ UNCHANGED <<tag, cacheVars, ref, dig, disk>>

\* Mutant: the lock is not exclusive.
LockTemplateShared(c) ==
    /\ At(c, "lock", "reload")
    /\ lock' = [lock EXCEPT ![dig[c]] = c]
    /\ UNCHANGED <<tag, final, stage, ref, dig, disk>>

LockTemplate(c) ==
    /\ At(c, "lock", "reload")
    /\ lock[dig[c]] = None
    /\ lock' = [lock EXCEPT ![dig[c]] = c]
    /\ UNCHANGED <<tag, final, stage, ref, dig, disk>>

Reload(c) ==
    /\ pc[c] = "reload"
    /\ IF Loadable(final[dig[c]])
         THEN Goto(c, "clone") /\ Unlock(c)
         ELSE Goto(c, "discard") /\ UNCHANGED lock
    /\ UNCHANGED <<tag, final, stage, ref, dig, disk>>

\* os.RemoveAll of a directory that does not load, or of none.
Discard(c) ==
    /\ At(c, "discard", "stage")
    /\ final' = [final EXCEPT ![dig[c]] = None]
    /\ UNCHANGED <<tag, lock, stage, ref, dig, disk>>

-----------------------------------------------------------------------------
(***************************************************************************)
(* Preparing: everything happens in the staging directory.                 *)
(***************************************************************************)
Stage(c) ==
    /\ At(c, "stage", "from")
    /\ SetStage(c, EmptyDir)

\* `buildah from' is given the reference, not the digest.
From(c) ==
    /\ At(c, "from", "format")
    /\ SetStage(c, [stage[c] EXCEPT !.img = tag[ref[c]]])

CreateExt4(c) ==
    /\ At(c, "format", "helper")
    /\ SetStage(c, [stage[c] EXCEPT !.disk = "blank"])

\* vm.Pack starts the helper VM and waits for it.  devd-image-helper copies the
\* rootfs, removes the identity and ends with sync and unmount; its completion
\* marker follows.  The VM may end anywhere.
Helper(c, from, to) ==
    /\ pc[c] = "helper"
    /\ stage[c].disk = from
    /\ SetStage(c, [stage[c] EXCEPT !.disk = to])
    /\ UNCHANGED pc

CopyTree(c) == Helper(c, "blank", "copied")
SanitizeIdentity(c) == Helper(c, "copied", "sanitized")
SyncTarget(c) == Helper(c, "sanitized", "packed")

HelperExit(c) ==
    /\ At(c, "helper", "marker")
    /\ UNCHANGED <<tag, cacheVars, ref, dig, disk>>

\* vm.Pack asks for the marker, e2fsck for a consistent file system.  The disk
\* is in the page cache of the host.
Pack(c) ==
    /\ At(c, "marker", "manifest")
    /\ stage[c].disk = "packed"
    /\ UNCHANGED <<tag, cacheVars, ref, dig, disk>>

WriteManifest(c) ==
    /\ At(c, "manifest", "sync")
    /\ SetStage(c, [stage[c] EXCEPT !.manifest = TRUE])

\* Mutant: the disk is renamed into place without a sync.
SyncStageSkipped(c) ==
    /\ At(c, "sync", "rename")
    /\ UNCHANGED <<tag, cacheVars, ref, dig, disk>>

\* syncFile of the disk, syncDir of the staging directory.
SyncStage(c) ==
    /\ At(c, "sync", "rename")
    /\ SetStage(c, [stage[c] EXCEPT !.synced = TRUE])

\* os.Rename onto a directory that exists fails: the template has files in it.
Rename(c) ==
    /\ At(c, "rename", "settle")
    /\ final[dig[c]] = None
    /\ final' = [final EXCEPT ![dig[c]] = stage[c]]
    /\ Unstage(c)
    /\ UNCHANGED <<tag, lock, ref, dig, disk>>

\* syncDir of the images directory; EnsureTemplate returns.
SyncImages(c) ==
    /\ At(c, "settle", "clone")
    /\ final' = [final EXCEPT ![dig[c]] =
                    IF @ = None THEN None ELSE [@ EXCEPT !.settled = TRUE]]
    /\ Unlock(c)
    /\ UNCHANGED <<tag, stage, ref, dig, disk>>

\* Mutant: the error of a copy that was cut short is not looked at.
CloneDiskPartial(c) ==
    /\ pc[c] = "clone"
    /\ HasDisk(final[dig[c]])
    /\ \E content \in {"copied", "packed"} :
         disk' = [disk EXCEPT ![c] = [img |-> final[dig[c]].img, disk |-> content]]
    /\ Done(c)
    /\ UNCHANGED <<tag, cacheVars>>

\* Mutant: a clone of a missing disk does not fail.
CloneDiskUnchecked(c) ==
    /\ pc[c] = "clone"
    /\ final[dig[c]] # None
    /\ disk' = [disk EXCEPT ![c] = [img |-> final[dig[c]].img,
                                    disk |-> final[dig[c]].disk]]
    /\ Done(c)
    /\ UNCHANGED <<tag, cacheVars>>

\* CloneDisk of the path that was loaded, under no lock of the cache: cp takes
\* the file that is there now, whatever its size.
CloneDisk(c) ==
    /\ pc[c] = "clone"
    /\ HasDisk(final[dig[c]])
    /\ disk' = [disk EXCEPT ![c] = [img |-> final[dig[c]].img,
                                    disk |-> final[dig[c]].disk]]
    /\ Done(c)
    /\ UNCHANGED <<tag, cacheVars>>

-----------------------------------------------------------------------------
\* An error return, a kill or a crash.  A crash skips the deferred calls: the
\* kernel closes the lock and the staging directory stays, under a name that
\* nobody uses again.
Abort(c) ==
    /\ pc[c] # "idle"
    /\ Done(c)
    /\ Unlock(c)
    /\ Unstage(c)
    /\ UNCHANGED <<tag, final, disk>>

\* Mutant: without the marker vm.Pack waits on.
RefusedButMarker(c) ==
    \/ pc[c] = "pull" /\ Served[ref[c]] = {}
    \/ pc[c] = "rename" /\ final[dig[c]] # None
    \/ pc[c] = "clone" /\ ~HasDisk(final[dig[c]])

\* Operations that cannot succeed: nothing to pull, no marker, a rename onto a
\* directory that exists, a clone of a disk that is no longer there.
Refused(c) ==
    \/ pc[c] = "pull" /\ Served[ref[c]] = {}
    \/ pc[c] = "marker" /\ stage[c].disk # "packed"
    \/ pc[c] = "rename" /\ final[dig[c]] # None
    \/ pc[c] = "clone" /\ ~HasDisk(final[dig[c]])

Fail(c) == Refused(c) /\ Abort(c)

\* Something that is not devd deletes or truncates files of the cache.
Damage(d) ==
    /\ "damage" \in Faults
    /\ Loadable(final[d])
    /\ \/ final' = [final EXCEPT ![d].manifest = FALSE]
       \/ final' = [final EXCEPT ![d].disk = "none"]
       \/ final' = [final EXCEPT ![d].disk = "truncated"]
    /\ UNCHANGED <<tag, lock, stage, cmdVars, disk>>

Recovered(t) ==
    [t EXCEPT !.settled = TRUE,
              !.synced = TRUE,
              !.disk = IF t.synced \/ t.disk \notin Filled THEN @ ELSE "lost"]

\* Unsynced contents are lost, an unsynced rename may be undone.
PowerLoss ==
    /\ "power" \in Faults
    /\ \E undone \in SUBSET {d \in Digest : final[d] # None /\ ~final[d].settled} :
         final' = [d \in Digest |->
                     IF final[d] = None \/ d \in undone THEN None
                     ELSE Recovered(final[d])]
    /\ lock' = [d \in Digest |-> None]
    /\ stage' = [c \in Cmd |-> None]
    /\ pc' = [c \in Cmd |-> "idle"]
    /\ ref' = [c \in Cmd |-> None]
    /\ dig' = [c \in Cmd |-> None]
    /\ disk' = [c \in Cmd |-> None]
    /\ UNCHANGED tag

-----------------------------------------------------------------------------
Step(c) ==
    \/ Inspect(c) \/ Pull(c) \/ Load(c) \/ Reload(c) \/ Discard(c)
    \/ Stage(c) \/ From(c) \/ CreateExt4(c)
    \/ CopyTree(c) \/ SanitizeIdentity(c) \/ SyncTarget(c) \/ HelperExit(c)
    \/ Pack(c) \/ WriteManifest(c) \/ SyncStage(c) \/ Rename(c) \/ SyncImages(c)
    \/ CloneDisk(c) \/ Fail(c)

Next ==
    \/ \E c \in Cmd : \/ \E r \in Ref : Begin(c, r)
                      \/ Step(c) \/ LockTemplate(c) \/ Abort(c)
    \/ \E d \in Digest : Damage(d)
    \/ PowerLoss

Spec == Init /\ [][Next]_vars

\* Commands are scheduled, the programs they run end, and a waiter for a lock
\* that is free again and again gets it.
Fairness == \A c \in Cmd : WF_vars(Step(c)) /\ SF_vars(LockTemplate(c))

LiveSpec == Spec /\ Fairness

-----------------------------------------------------------------------------
\* The staging steps and the steps under the lock.
Building == {"stage", "from", "format", "helper", "marker", "manifest", "sync", "rename"}
Holding == Building \cup {"reload", "discard", "settle"}

TypeOK ==
    /\ tag \in [Ref -> Digest \cup {None}]
    /\ final \in [Digest -> Dir \cup {None}]
    /\ lock \in [Digest -> Cmd \cup {None}]
    /\ stage \in [Cmd -> Dir \cup {None}]
    /\ pc \in [Cmd -> Holding \cup {"idle", "inspect", "pull", "load", "lock", "clone"}]
    /\ ref \in [Cmd -> Ref \cup {None}]
    /\ dig \in [Cmd -> Digest \cup {None}]
    /\ disk \in [Cmd -> Copy \cup {None}]

\* A template that loads has the complete converted disk, whatever crashed and
\* whenever power was lost: loadTemplate sees only the size of the disk, so this
\* rests on the order pack, sync, rename (prepareTemplate, EnsureTemplate).
TemplateWhole == \A d \in Digest : Loadable(final[d]) => final[d].disk = "packed"

\* A command that removes or replaces a template holds its lock and the template
\* does not load: nobody's finished template is discarded or rebuilt, and a
\* rename never meets a directory (lockTemplate and the second loadTemplate).
RebuildNeeded ==
    \A c \in Cmd :
        /\ pc[c] \in Building \cup {"discard"} =>
              lock[dig[c]] = c /\ ~Loadable(final[dig[c]])
        /\ pc[c] \in Building => final[dig[c]] = None

\* What is published under a digest, as the store sees it.
EntryOf(t) ==
    IF t = None THEN None
    ELSE [img |-> t.img,
          st |-> IF ~Loadable(t) THEN "broken"
                 ELSE IF t.disk # "packed" THEN "lost"
                 ELSE IF t.settled THEN "kept" ELSE "fresh"]

\* What a command has cloned: an image, or "torn" or "lost".
OutOf(x) ==
    IF x = None THEN None
    ELSE IF x.disk = "packed" THEN x.img
    ELSE IF x.disk = "truncated" THEN "torn" ELSE "lost"

Store == INSTANCE TemplateStore WITH
    entry <- [d \in Digest |-> EntryOf(final[d])],
    out <- [c \in Cmd |-> OutOf(disk[c])]

\* The cache implements the store it promises: atomic publication, no change in
\* place, removal of damaged templates only, complete clones unless the template
\* is damaged when cp reads it (EnsureTemplate, CloneDisk).
TemplateStoreSpec == Store!Spec

(***************************************************************************)
(* The inductive invariant.                                                *)
(***************************************************************************)
\* A command past the inspection knows the digest, and its reference stays in the
\* image store.
ResolvedInv ==
    \A c \in Cmd :
        /\ pc[c] # "idle" => ref[c] \in Ref
        /\ pc[c] \notin {"idle", "inspect", "pull"} =>
              dig[c] \in Digest /\ tag[ref[c]] \in Digest

\* What is in the staging directory at each step of the preparation.
StageInv ==
    \A c \in Cmd :
        /\ pc[c] \in Building \ {"stage"} => stage[c] \in Dir /\ ~stage[c].settled
        /\ pc[c] \in Building \ {"stage", "from"} => stage[c].img \in Digest
        /\ pc[c] \in {"helper", "marker"} => stage[c].disk \in Filled
        /\ pc[c] \in {"manifest", "sync", "rename"} => stage[c].disk = "packed"
        /\ pc[c] \in {"sync", "rename"} => stage[c].manifest
        /\ pc[c] = "rename" => stage[c].synced

LockInv == \A c \in Cmd : pc[c] \in Holding => lock[dig[c]] = c

\* What was renamed into place had been packed and synced; damage takes the disk
\* away or truncates it.
PublishedInv ==
    \A d \in Digest : final[d] # None =>
        /\ final[d].img \in Digest /\ final[d].synced
        /\ final[d].disk \in {"packed", "none", "truncated"}
        /\ final[d].disk # "packed" => "damage" \in Faults

CopiesInv ==
    \A c \in Cmd : disk[c] # None =>
        /\ disk[c].disk \in {"packed", "truncated"}
        /\ disk[c].disk # "packed" => "damage" \in Faults

\* What a command has cloned is complete, whatever crashed and whenever power was
\* lost (CloneDisk after EnsureTemplate).  It is not if somebody else truncates the
\* template between the two, so this is a property of Faults without "damage".
CloneWhole == \A c \in Cmd : disk[c] # None => disk[c].disk = "packed"

IInv == /\ TypeOK /\ ResolvedInv /\ StageInv /\ LockInv /\ PublishedInv
        /\ RebuildNeeded /\ CopiesInv

\* Every command gets its template or an error, provided that the programs it
\* runs end: the lock of a key is released on every path (EnsureTemplate).
EnsureEnds == \A c \in Cmd : pc[c] # "idle" ~> pc[c] = "idle"

\* The template under a digest is made of the image with that digest ("prepares
\* one digest-addressed immutable ext4 template", EnsureTemplate).
DigestAddressed == \A d \in Digest : final[d] # None => final[d].img = d
=============================================================================
