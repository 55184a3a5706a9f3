-------------------------- MODULE TemplateCacheProofs --------------------------
(***************************************************************************)
(* Proofs about the template cache, for any sets of commands, references   *)
(* and digests and whatever the registry serves.  IInv, defined in         *)
(* TemplateCache, is the inductive invariant; each part has a lemma with   *)
(* one case per action.                                                    *)
(***************************************************************************)
EXTENDS TemplateCache, TLAPS

(***************************************************************************)
(* A template directory after one of the changes that writing, syncs,      *)
(* damage and a power loss make to it.                                     *)
(***************************************************************************)
LEMMA DirUpdate ==
    ASSUME NEW t \in Dir
    PROVE  /\ LET u == [t EXCEPT !.manifest = TRUE] IN
                /\ u \in Dir /\ u.manifest /\ u.img = t.img /\ u.disk = t.disk
                /\ (u.settled <=> t.settled)
           /\ LET u == [t EXCEPT !.synced = TRUE] IN
                /\ u \in Dir /\ u.synced /\ u.img = t.img /\ u.disk = t.disk
                /\ (u.settled <=> t.settled) /\ (u.manifest <=> t.manifest)
           /\ LET u == [t EXCEPT !.settled = TRUE] IN
                /\ u \in Dir /\ u.settled /\ u.img = t.img /\ u.disk = t.disk
                /\ (u.synced <=> t.synced) /\ (u.manifest <=> t.manifest)
           /\ LET u == [t EXCEPT !.manifest = FALSE] IN
                u \in Dir /\ ~u.manifest /\ u.img = t.img /\ u.disk = t.disk
           /\ LET u == [t EXCEPT !.disk = "none"] IN
                u \in Dir /\ u.disk = "none" /\ u.img = t.img
           /\ LET u == [t EXCEPT !.disk = "truncated"] IN
                u \in Dir /\ u.disk = "truncated" /\ u.img = t.img
  BY DEF Dir, Filled

LEMMA RecoveredDir ==
    ASSUME NEW t \in Dir
    PROVE  LET u == Recovered(t) IN
              /\ u \in Dir /\ u.settled /\ u.synced /\ u.img = t.img
              /\ (u.manifest <=> t.manifest)
              /\ t.synced => u.disk = t.disk
  BY DEF Dir, Filled, Recovered

(***************************************************************************)
(* Types. A digest is known from the inspection on, and a template that is *)
(* cloned has one.                                                         *)
(***************************************************************************)
LEMMA TypeOKStep ==
    ASSUME TypeOK, ResolvedInv, StageInv, PublishedInv, Next
    PROVE  TypeOK'
<1> USE NoneAssumption, MissingAssumption, ServedAssumption DEF TypeOK, Dir, Copy,
        Filled, Building, Holding, At, Goto, cacheVars, cmdVars
<1>1. ASSUME NEW c \in Cmd, NEW r \in Ref, Begin(c, r) PROVE TypeOK'
  BY <1>1 DEF Begin, Done
<1>2. ASSUME NEW c \in Cmd, Inspect(c) PROVE TypeOK'
  BY <1>2 DEF Inspect, ResolvedInv
<1>3. ASSUME NEW c \in Cmd, Pull(c) PROVE TypeOK'
  BY <1>3 DEF Pull, ResolvedInv
<1>4. ASSUME NEW c \in Cmd, Load(c) PROVE TypeOK'
  BY <1>4 DEF Load, Loadable, HasDisk, ResolvedInv
<1>5. ASSUME NEW c \in Cmd, Reload(c) PROVE TypeOK'
  BY <1>5 DEF Reload, Unlock, Loadable, HasDisk, ResolvedInv
<1>6. ASSUME NEW c \in Cmd, Discard(c) PROVE TypeOK'
  BY <1>6 DEF Discard, ResolvedInv
<1>7. ASSUME NEW c \in Cmd, Stage(c) PROVE TypeOK'
  BY <1>7 DEF Stage, SetStage, EmptyDir
<1>8. ASSUME NEW c \in Cmd, From(c) PROVE TypeOK'
  BY <1>8 DEF From, SetStage, ResolvedInv, StageInv
<1>9. ASSUME NEW c \in Cmd, CreateExt4(c) PROVE TypeOK'
  BY <1>9 DEF CreateExt4, SetStage, StageInv
<1>10. ASSUME NEW c \in Cmd, CopyTree(c) PROVE TypeOK'
  BY <1>10 DEF CopyTree, Helper, SetStage, StageInv
<1>11. ASSUME NEW c \in Cmd, SanitizeIdentity(c) PROVE TypeOK'
  BY <1>11 DEF SanitizeIdentity, Helper, SetStage, StageInv
<1>12. ASSUME NEW c \in Cmd, SyncTarget(c) PROVE TypeOK'
  BY <1>12 DEF SyncTarget, Helper, SetStage, StageInv
<1>13. ASSUME NEW c \in Cmd, HelperExit(c) PROVE TypeOK'
  BY <1>13 DEF HelperExit
<1>14. ASSUME NEW c \in Cmd, Pack(c) PROVE TypeOK'
  BY <1>14 DEF Pack
<1>15. ASSUME NEW c \in Cmd, WriteManifest(c) PROVE TypeOK'
  <2> DEFINE u == [stage[c] EXCEPT !.manifest = TRUE]
  <2>1. u \in Dir
    BY <1>15, DirUpdate DEF WriteManifest, StageInv
  <2>2. stage' = [stage EXCEPT ![c] = u] /\ UNCHANGED <<tag, final, lock, ref, dig, disk>>
    BY <1>15 DEF WriteManifest, SetStage
  <2> HIDE DEF u, Dir
  <2> QED
    BY <1>15, <2>1, <2>2 DEF WriteManifest
<1>16. ASSUME NEW c \in Cmd, SyncStage(c) PROVE TypeOK'
  <2> DEFINE u == [stage[c] EXCEPT !.synced = TRUE]
  <2>1. u \in Dir
    BY <1>16, DirUpdate DEF SyncStage, StageInv
  <2>2. stage' = [stage EXCEPT ![c] = u] /\ UNCHANGED <<tag, final, lock, ref, dig, disk>>
    BY <1>16 DEF SyncStage, SetStage
  <2> HIDE DEF u, Dir
  <2> QED
    BY <1>16, <2>1, <2>2 DEF SyncStage
<1>17. ASSUME NEW c \in Cmd, Rename(c) PROVE TypeOK'
  BY <1>17 DEF Rename, Unstage, ResolvedInv, StageInv
<1>18. ASSUME NEW c \in Cmd, SyncImages(c) PROVE TypeOK'
  <2> DEFINE u == IF final[dig[c]] = None THEN None ELSE [final[dig[c]] EXCEPT !.settled = TRUE]
  <2>1. dig[c] \in Digest /\ final[dig[c]] \in Dir \cup {None}
    BY <1>18 DEF SyncImages, ResolvedInv
  <2>2. u \in Dir \cup {None}
    BY <2>1, DirUpdate
  <2>3. /\ final' = [final EXCEPT ![dig[c]] = u]
        /\ pc' = [pc EXCEPT ![c] = "clone"]
        /\ lock' \in [Digest -> Cmd \cup {None}]
        /\ UNCHANGED <<tag, stage, ref, dig, disk>>
    BY <1>18 DEF SyncImages, Unlock
  <2> HIDE DEF u, Dir
  <2> QED
    BY <2>1, <2>2, <2>3
<1>19. ASSUME NEW c \in Cmd, CloneDisk(c) PROVE TypeOK'
  BY <1>19 DEF CloneDisk, Done, HasDisk, ResolvedInv, PublishedInv
<1>20. ASSUME NEW c \in Cmd, LockTemplate(c) PROVE TypeOK'
  BY <1>20 DEF LockTemplate, ResolvedInv
<1>21. ASSUME NEW c \in Cmd, Abort(c) PROVE TypeOK'
  BY <1>21 DEF Abort, Done, Unlock, Unstage
<1>22. ASSUME NEW d \in Digest, Damage(d) PROVE TypeOK'
  <2>1. final[d] \in Dir
    BY <1>22 DEF Damage, Loadable, HasDisk
  <2> HIDE DEF Dir
  <2>2. \E u \in Dir : final' = [final EXCEPT ![d] = u]
    BY <1>22, <2>1, DirUpdate DEF Damage
  <2> QED
    BY <1>22, <2>2 DEF Damage
<1>23. CASE PowerLoss
  <2> HIDE DEF Dir
  <2>1. ASSUME NEW d \in Digest PROVE final'[d] \in Dir \cup {None}
    <3>1. final'[d] = None \/ (final[d] \in Dir /\ final'[d] = Recovered(final[d]))
      BY <1>23 DEF PowerLoss
    <3> QED
      BY <3>1, RecoveredDir
  <2>2. final' \in [Digest -> Dir \cup {None}]
    BY <1>23, <2>1 DEF PowerLoss
  <2> QED
    BY <1>23, <2>2 DEF PowerLoss
<1> QED
  BY <1>1, <1>2, <1>3, <1>4, <1>5, <1>6, <1>7, <1>8, <1>9, <1>10, <1>11,
     <1>12, <1>13, <1>14, <1>15, <1>16, <1>17, <1>18, <1>19, <1>20, <1>21,
     <1>22, <1>23
  DEF Next, Step, Fail

(***************************************************************************)
(* The reference and the digest of a command; nothing forgets an image.    *)
(***************************************************************************)
LEMMA ResolvedInvStep ==
    ASSUME TypeOK, ResolvedInv, Next
    PROVE  ResolvedInv'
<1> USE NoneAssumption, MissingAssumption, ServedAssumption DEF TypeOK, ResolvedInv,
        Holding, Building, At, Goto, cacheVars, cmdVars
<1>1. ASSUME NEW c \in Cmd, NEW r \in Ref, Begin(c, r) PROVE ResolvedInv'
  BY <1>1 DEF Begin
<1>2. ASSUME NEW c \in Cmd, Inspect(c) PROVE ResolvedInv'
  BY <1>2 DEF Inspect
<1>3. ASSUME NEW c \in Cmd, Pull(c) PROVE ResolvedInv'
  BY <1>3 DEF Pull
<1>4. ASSUME NEW c \in Cmd, Load(c) PROVE ResolvedInv'
  BY <1>4 DEF Load, Loadable, HasDisk
<1>5. ASSUME NEW c \in Cmd, Reload(c) PROVE ResolvedInv'
  BY <1>5 DEF Reload, Unlock, Loadable, HasDisk
<1>6. ASSUME NEW c \in Cmd, Discard(c) PROVE ResolvedInv'
  BY <1>6 DEF Discard
<1>7. ASSUME NEW c \in Cmd, Stage(c) PROVE ResolvedInv'
  BY <1>7 DEF Stage, SetStage, EmptyDir
<1>8. ASSUME NEW c \in Cmd, From(c) PROVE ResolvedInv'
  BY <1>8 DEF From, SetStage
<1>9. ASSUME NEW c \in Cmd, CreateExt4(c) PROVE ResolvedInv'
  BY <1>9 DEF CreateExt4, SetStage
<1>10. ASSUME NEW c \in Cmd, CopyTree(c) PROVE ResolvedInv'
  BY <1>10 DEF CopyTree, Helper, SetStage
<1>11. ASSUME NEW c \in Cmd, SanitizeIdentity(c) PROVE ResolvedInv'
  BY <1>11 DEF SanitizeIdentity, Helper, SetStage
<1>12. ASSUME NEW c \in Cmd, SyncTarget(c) PROVE ResolvedInv'
  BY <1>12 DEF SyncTarget, Helper, SetStage
<1>13. ASSUME NEW c \in Cmd, HelperExit(c) PROVE ResolvedInv'
  BY <1>13 DEF HelperExit
<1>14. ASSUME NEW c \in Cmd, Pack(c) PROVE ResolvedInv'
  BY <1>14 DEF Pack
<1>15. ASSUME NEW c \in Cmd, WriteManifest(c) PROVE ResolvedInv'
  BY <1>15 DEF WriteManifest, SetStage
<1>16. ASSUME NEW c \in Cmd, SyncStage(c) PROVE ResolvedInv'
  BY <1>16 DEF SyncStage, SetStage
<1>17. ASSUME NEW c \in Cmd, Rename(c) PROVE ResolvedInv'
  BY <1>17 DEF Rename, Unstage
<1>18. ASSUME NEW c \in Cmd, SyncImages(c) PROVE ResolvedInv'
  BY <1>18 DEF SyncImages, Unlock
<1>19. ASSUME NEW c \in Cmd, CloneDisk(c) PROVE ResolvedInv'
  BY <1>19 DEF CloneDisk, Done, HasDisk
<1>20. ASSUME NEW c \in Cmd, LockTemplate(c) PROVE ResolvedInv'
  BY <1>20 DEF LockTemplate
<1>21. ASSUME NEW c \in Cmd, Abort(c) PROVE ResolvedInv'
  BY <1>21 DEF Abort, Done, Unlock, Unstage
<1>22. ASSUME NEW d \in Digest, Damage(d) PROVE ResolvedInv'
  BY <1>22 DEF Damage, Loadable, HasDisk
<1>23. CASE PowerLoss
  BY <1>23 DEF PowerLoss, Recovered
<1> QED
  BY <1>1, <1>2, <1>3, <1>4, <1>5, <1>6, <1>7, <1>8, <1>9, <1>10, <1>11,
     <1>12, <1>13, <1>14, <1>15, <1>16, <1>17, <1>18, <1>19, <1>20, <1>21,
     <1>22, <1>23
  DEF Next, Step, Fail

(***************************************************************************)
(* The staging directory is private to its command.                        *)
(***************************************************************************)
LEMMA StageInvStep ==
    ASSUME TypeOK, ResolvedInv, StageInv, Next
    PROVE  StageInv'
<1> USE NoneAssumption, MissingAssumption, ServedAssumption DEF TypeOK, StageInv,
        Dir, Filled, Holding, Building, At, Goto, cacheVars, cmdVars
<1>1. ASSUME NEW c \in Cmd, NEW r \in Ref, Begin(c, r) PROVE StageInv'
  BY <1>1 DEF Begin
<1>2. ASSUME NEW c \in Cmd, Inspect(c) PROVE StageInv'
  BY <1>2 DEF Inspect
<1>3. ASSUME NEW c \in Cmd, Pull(c) PROVE StageInv'
  BY <1>3 DEF Pull
<1>4. ASSUME NEW c \in Cmd, Load(c) PROVE StageInv'
  BY <1>4 DEF Load, Loadable, HasDisk
<1>5. ASSUME NEW c \in Cmd, Reload(c) PROVE StageInv'
  BY <1>5 DEF Reload, Unlock, Loadable, HasDisk
<1>6. ASSUME NEW c \in Cmd, Discard(c) PROVE StageInv'
  BY <1>6 DEF Discard
<1>7. ASSUME NEW c \in Cmd, Stage(c) PROVE StageInv'
  BY <1>7 DEF Stage, SetStage, EmptyDir
<1>8. ASSUME NEW c \in Cmd, From(c) PROVE StageInv'
  BY <1>8 DEF From, SetStage, ResolvedInv
<1>9. ASSUME NEW c \in Cmd, CreateExt4(c) PROVE StageInv'
  BY <1>9 DEF CreateExt4, SetStage
<1>10. ASSUME NEW c \in Cmd, CopyTree(c) PROVE StageInv'
  BY <1>10 DEF CopyTree, Helper, SetStage
<1>11. ASSUME NEW c \in Cmd, SanitizeIdentity(c) PROVE StageInv'
  BY <1>11 DEF SanitizeIdentity, Helper, SetStage
<1>12. ASSUME NEW c \in Cmd, SyncTarget(c) PROVE StageInv'
  BY <1>12 DEF SyncTarget, Helper, SetStage
<1>13. ASSUME NEW c \in Cmd, HelperExit(c) PROVE StageInv'
  BY <1>13 DEF HelperExit
<1>14. ASSUME NEW c \in Cmd, Pack(c) PROVE StageInv'
  BY <1>14 DEF Pack
<1>15. ASSUME NEW c \in Cmd, WriteManifest(c) PROVE StageInv'
  <2> DEFINE u == [stage[c] EXCEPT !.manifest = TRUE]
  <2>1. stage[c] \in Dir
    BY <1>15 DEF WriteManifest
  <2>2. /\ u \in Dir /\ u.manifest /\ u.img = stage[c].img /\ u.disk = stage[c].disk
        /\ (u.settled <=> stage[c].settled)
    BY <2>1, DirUpdate
  <2>3. stage' = [stage EXCEPT ![c] = u]
    BY <1>15 DEF WriteManifest, SetStage
  <2> HIDE DEF u, Dir
  <2> QED
    BY <1>15, <2>2, <2>3 DEF WriteManifest, SetStage
<1>16. ASSUME NEW c \in Cmd, SyncStage(c) PROVE StageInv'
  <2> DEFINE u == [stage[c] EXCEPT !.synced = TRUE]
  <2>1. stage[c] \in Dir
    BY <1>16 DEF SyncStage
  <2>2. /\ u \in Dir /\ u.synced /\ u.img = stage[c].img /\ u.disk = stage[c].disk
        /\ (u.settled <=> stage[c].settled) /\ (u.manifest <=> stage[c].manifest)
    BY <2>1, DirUpdate
  <2>3. stage' = [stage EXCEPT ![c] = u]
    BY <1>16 DEF SyncStage, SetStage
  <2> HIDE DEF u, Dir
  <2> QED
    BY <1>16, <2>2, <2>3 DEF SyncStage, SetStage
<1>17. ASSUME NEW c \in Cmd, Rename(c) PROVE StageInv'
  BY <1>17 DEF Rename, Unstage
<1>18. ASSUME NEW c \in Cmd, SyncImages(c) PROVE StageInv'
  BY <1>18 DEF SyncImages, Unlock
<1>19. ASSUME NEW c \in Cmd, CloneDisk(c) PROVE StageInv'
  BY <1>19 DEF CloneDisk, Done, HasDisk
<1>20. ASSUME NEW c \in Cmd, LockTemplate(c) PROVE StageInv'
  BY <1>20 DEF LockTemplate
<1>21. ASSUME NEW c \in Cmd, Abort(c) PROVE StageInv'
  BY <1>21 DEF Abort, Done, Unlock, Unstage
<1>22. ASSUME NEW d \in Digest, Damage(d) PROVE StageInv'
  BY <1>22 DEF Damage, Loadable, HasDisk
<1>23. CASE PowerLoss
  BY <1>23 DEF PowerLoss, Recovered
<1> QED
  BY <1>1, <1>2, <1>3, <1>4, <1>5, <1>6, <1>7, <1>8, <1>9, <1>10, <1>11,
     <1>12, <1>13, <1>14, <1>15, <1>16, <1>17, <1>18, <1>19, <1>20, <1>21,
     <1>22, <1>23
  DEF Next, Step, Fail

(***************************************************************************)
(* The lock of a key belongs to one command at a time.                     *)
(***************************************************************************)
LEMMA LockInvStep ==
    ASSUME TypeOK, ResolvedInv, LockInv, Next
    PROVE  LockInv'
<1> USE NoneAssumption, MissingAssumption, ServedAssumption DEF TypeOK, ResolvedInv,
        LockInv, Holding, Building, At, Goto, cacheVars, cmdVars
<1>1. ASSUME NEW c \in Cmd, NEW r \in Ref, Begin(c, r) PROVE LockInv'
  BY <1>1 DEF Begin
<1>2. ASSUME NEW c \in Cmd, Inspect(c) PROVE LockInv'
  BY <1>2 DEF Inspect
<1>3. ASSUME NEW c \in Cmd, Pull(c) PROVE LockInv'
  BY <1>3 DEF Pull
<1>4. ASSUME NEW c \in Cmd, Load(c) PROVE LockInv'
  BY <1>4 DEF Load, Loadable, HasDisk
<1>5. ASSUME NEW c \in Cmd, Reload(c) PROVE LockInv'
  BY <1>5 DEF Reload, Unlock, Loadable, HasDisk
<1>6. ASSUME NEW c \in Cmd, Discard(c) PROVE LockInv'
  BY <1>6 DEF Discard
<1>7. ASSUME NEW c \in Cmd, Stage(c) PROVE LockInv'
  BY <1>7 DEF Stage, SetStage, EmptyDir
<1>8. ASSUME NEW c \in Cmd, From(c) PROVE LockInv'
  BY <1>8 DEF From, SetStage
<1>9. ASSUME NEW c \in Cmd, CreateExt4(c) PROVE LockInv'
  BY <1>9 DEF CreateExt4, SetStage
<1>10. ASSUME NEW c \in Cmd, CopyTree(c) PROVE LockInv'
  BY <1>10 DEF CopyTree, Helper, SetStage
<1>11. ASSUME NEW c \in Cmd, SanitizeIdentity(c) PROVE LockInv'
  BY <1>11 DEF SanitizeIdentity, Helper, SetStage
<1>12. ASSUME NEW c \in Cmd, SyncTarget(c) PROVE LockInv'
  BY <1>12 DEF SyncTarget, Helper, SetStage
<1>13. ASSUME NEW c \in Cmd, HelperExit(c) PROVE LockInv'
  BY <1>13 DEF HelperExit
<1>14. ASSUME NEW c \in Cmd, Pack(c) PROVE LockInv'
  BY <1>14 DEF Pack
<1>15. ASSUME NEW c \in Cmd, WriteManifest(c) PROVE LockInv'
  BY <1>15 DEF WriteManifest, SetStage
<1>16. ASSUME NEW c \in Cmd, SyncStage(c) PROVE LockInv'
  BY <1>16 DEF SyncStage, SetStage
<1>17. ASSUME NEW c \in Cmd, Rename(c) PROVE LockInv'
  BY <1>17 DEF Rename, Unstage
<1>18. ASSUME NEW c \in Cmd, SyncImages(c) PROVE LockInv'
  BY <1>18 DEF SyncImages, Unlock
<1>19. ASSUME NEW c \in Cmd, CloneDisk(c) PROVE LockInv'
  BY <1>19 DEF CloneDisk, Done, HasDisk
<1>20. ASSUME NEW c \in Cmd, LockTemplate(c) PROVE LockInv'
  BY <1>20 DEF LockTemplate
<1>21. ASSUME NEW c \in Cmd, Abort(c) PROVE LockInv'
  BY <1>21 DEF Abort, Done, Unlock, Unstage
<1>22. ASSUME NEW d \in Digest, Damage(d) PROVE LockInv'
  BY <1>22 DEF Damage, Loadable, HasDisk
<1>23. CASE PowerLoss
  BY <1>23 DEF PowerLoss, Recovered
<1> QED
  BY <1>1, <1>2, <1>3, <1>4, <1>5, <1>6, <1>7, <1>8, <1>9, <1>10, <1>11,
     <1>12, <1>13, <1>14, <1>15, <1>16, <1>17, <1>18, <1>19, <1>20, <1>21,
     <1>22, <1>23
  DEF Next, Step, Fail

(***************************************************************************)
(* What is published was complete when it was renamed.                     *)
(***************************************************************************)
LEMMA PublishedInvStep ==
    ASSUME TypeOK, ResolvedInv, StageInv, PublishedInv, Next
    PROVE  PublishedInv'
<1> USE NoneAssumption, MissingAssumption, ServedAssumption DEF TypeOK, ResolvedInv,
        PublishedInv, Dir, At, Goto, cacheVars, cmdVars
<1>1. ASSUME NEW c \in Cmd, NEW r \in Ref, Begin(c, r) PROVE PublishedInv'
  BY <1>1 DEF Begin
<1>2. ASSUME NEW c \in Cmd, Inspect(c) PROVE PublishedInv'
  BY <1>2 DEF Inspect
<1>3. ASSUME NEW c \in Cmd, Pull(c) PROVE PublishedInv'
  BY <1>3 DEF Pull
<1>4. ASSUME NEW c \in Cmd, Load(c) PROVE PublishedInv'
  BY <1>4 DEF Load, Loadable, HasDisk
<1>5. ASSUME NEW c \in Cmd, Reload(c) PROVE PublishedInv'
  BY <1>5 DEF Reload, Unlock, Loadable, HasDisk
<1>6. ASSUME NEW c \in Cmd, Discard(c) PROVE PublishedInv'
  BY <1>6 DEF Discard
<1>7. ASSUME NEW c \in Cmd, Stage(c) PROVE PublishedInv'
  BY <1>7 DEF Stage, SetStage, EmptyDir
<1>8. ASSUME NEW c \in Cmd, From(c) PROVE PublishedInv'
  BY <1>8 DEF From, SetStage
<1>9. ASSUME NEW c \in Cmd, CreateExt4(c) PROVE PublishedInv'
  BY <1>9 DEF CreateExt4, SetStage
<1>10. ASSUME NEW c \in Cmd, CopyTree(c) PROVE PublishedInv'
  BY <1>10 DEF CopyTree, Helper, SetStage
<1>11. ASSUME NEW c \in Cmd, SanitizeIdentity(c) PROVE PublishedInv'
  BY <1>11 DEF SanitizeIdentity, Helper, SetStage
<1>12. ASSUME NEW c \in Cmd, SyncTarget(c) PROVE PublishedInv'
  BY <1>12 DEF SyncTarget, Helper, SetStage
<1>13. ASSUME NEW c \in Cmd, HelperExit(c) PROVE PublishedInv'
  BY <1>13 DEF HelperExit
<1>14. ASSUME NEW c \in Cmd, Pack(c) PROVE PublishedInv'
  BY <1>14 DEF Pack
<1>15. ASSUME NEW c \in Cmd, WriteManifest(c) PROVE PublishedInv'
  BY <1>15 DEF WriteManifest, SetStage
<1>16. ASSUME NEW c \in Cmd, SyncStage(c) PROVE PublishedInv'
  BY <1>16 DEF SyncStage, SetStage
<1>17. ASSUME NEW c \in Cmd, Rename(c) PROVE PublishedInv'
  BY <1>17 DEF Rename, Unstage, StageInv, Building
<1>18. ASSUME NEW c \in Cmd, SyncImages(c) PROVE PublishedInv'
  BY <1>18 DEF SyncImages, Unlock
<1>19. ASSUME NEW c \in Cmd, CloneDisk(c) PROVE PublishedInv'
  BY <1>19 DEF CloneDisk, Done, HasDisk
<1>20. ASSUME NEW c \in Cmd, LockTemplate(c) PROVE PublishedInv'
  BY <1>20 DEF LockTemplate
<1>21. ASSUME NEW c \in Cmd, Abort(c) PROVE PublishedInv'
  BY <1>21 DEF Abort, Done, Unlock, Unstage
<1>22. ASSUME NEW d \in Digest, Damage(d) PROVE PublishedInv'
  BY <1>22 DEF Damage, Loadable, HasDisk
<1>23. CASE PowerLoss
  <2>1. ASSUME NEW d \in Digest, final'[d] # None
        PROVE  final[d] # None /\ final[d] \in Dir /\ final'[d] = Recovered(final[d])
    BY <1>23, <2>1 DEF PowerLoss
  <2> HIDE DEF Dir
  <2>2. ASSUME NEW d \in Digest, final'[d] # None
        PROVE  /\ final'[d].img \in Digest /\ final'[d].synced
               /\ final'[d].disk = final[d].disk
    BY <2>1, <2>2, RecoveredDir
  <2> QED
    BY <2>1, <2>2
<1> QED
  BY <1>1, <1>2, <1>3, <1>4, <1>5, <1>6, <1>7, <1>8, <1>9, <1>10, <1>11,
     <1>12, <1>13, <1>14, <1>15, <1>16, <1>17, <1>18, <1>19, <1>20, <1>21,
     <1>22, <1>23
  DEF Next, Step, Fail

(***************************************************************************)
(* Holders of the lock of a key are alone with its template.               *)
(***************************************************************************)
LEMMA RebuildNeededStep ==
    ASSUME TypeOK, ResolvedInv, StageInv, LockInv, RebuildNeeded, Next
    PROVE  RebuildNeeded'
<1> USE NoneAssumption, MissingAssumption, ServedAssumption DEF TypeOK, ResolvedInv,
        LockInv, RebuildNeeded, Loadable, HasDisk, Holding, Building, At, Goto,
        cacheVars, cmdVars
<1>1. ASSUME NEW c \in Cmd, NEW r \in Ref, Begin(c, r) PROVE RebuildNeeded'
  BY <1>1 DEF Begin
<1>2. ASSUME NEW c \in Cmd, Inspect(c) PROVE RebuildNeeded'
  BY <1>2 DEF Inspect
<1>3. ASSUME NEW c \in Cmd, Pull(c) PROVE RebuildNeeded'
  BY <1>3 DEF Pull
<1>4. ASSUME NEW c \in Cmd, Load(c) PROVE RebuildNeeded'
  BY <1>4 DEF Load, Loadable, HasDisk
<1>5. ASSUME NEW c \in Cmd, Reload(c) PROVE RebuildNeeded'
  BY <1>5 DEF Reload, Unlock, Loadable, HasDisk
<1>6. ASSUME NEW c \in Cmd, Discard(c) PROVE RebuildNeeded'
  BY <1>6 DEF Discard
<1>7. ASSUME NEW c \in Cmd, Stage(c) PROVE RebuildNeeded'
  BY <1>7 DEF Stage, SetStage, EmptyDir
<1>8. ASSUME NEW c \in Cmd, From(c) PROVE RebuildNeeded'
  BY <1>8 DEF From, SetStage
<1>9. ASSUME NEW c \in Cmd, CreateExt4(c) PROVE RebuildNeeded'
  BY <1>9 DEF CreateExt4, SetStage
<1>10. ASSUME NEW c \in Cmd, CopyTree(c) PROVE RebuildNeeded'
  BY <1>10 DEF CopyTree, Helper, SetStage
<1>11. ASSUME NEW c \in Cmd, SanitizeIdentity(c) PROVE RebuildNeeded'
  BY <1>11 DEF SanitizeIdentity, Helper, SetStage
<1>12. ASSUME NEW c \in Cmd, SyncTarget(c) PROVE RebuildNeeded'
  BY <1>12 DEF SyncTarget, Helper, SetStage
<1>13. ASSUME NEW c \in Cmd, HelperExit(c) PROVE RebuildNeeded'
  BY <1>13 DEF HelperExit
<1>14. ASSUME NEW c \in Cmd, Pack(c) PROVE RebuildNeeded'
  BY <1>14 DEF Pack
<1>15. ASSUME NEW c \in Cmd, WriteManifest(c) PROVE RebuildNeeded'
  BY <1>15 DEF WriteManifest, SetStage
<1>16. ASSUME NEW c \in Cmd, SyncStage(c) PROVE RebuildNeeded'
  BY <1>16 DEF SyncStage, SetStage
<1>17. ASSUME NEW c \in Cmd, Rename(c) PROVE RebuildNeeded'
  BY <1>17 DEF Rename, Unstage
<1>18. ASSUME NEW c \in Cmd, SyncImages(c) PROVE RebuildNeeded'
  BY <1>18 DEF SyncImages, Unlock
<1>19. ASSUME NEW c \in Cmd, CloneDisk(c) PROVE RebuildNeeded'
  BY <1>19 DEF CloneDisk, Done, HasDisk
<1>20. ASSUME NEW c \in Cmd, LockTemplate(c) PROVE RebuildNeeded'
  BY <1>20 DEF LockTemplate
<1>21. ASSUME NEW c \in Cmd, Abort(c) PROVE RebuildNeeded'
  BY <1>21 DEF Abort, Done, Unlock, Unstage
<1>22. ASSUME NEW d \in Digest, Damage(d) PROVE RebuildNeeded'
  BY <1>22 DEF Damage, Loadable, HasDisk
<1>23. CASE PowerLoss
  BY <1>23 DEF PowerLoss, Recovered
<1> QED
  BY <1>1, <1>2, <1>3, <1>4, <1>5, <1>6, <1>7, <1>8, <1>9, <1>10, <1>11,
     <1>12, <1>13, <1>14, <1>15, <1>16, <1>17, <1>18, <1>19, <1>20, <1>21,
     <1>22, <1>23
  DEF Next, Step, Fail

(***************************************************************************)
(* A clone is made of a template that was packed, and that something may   *)
(* have truncated since.                                                   *)
(***************************************************************************)
LEMMA CopiesInvStep ==
    ASSUME TypeOK, ResolvedInv, PublishedInv, CopiesInv, Next
    PROVE  CopiesInv'
<1> USE NoneAssumption, MissingAssumption, ServedAssumption DEF TypeOK, CopiesInv,
        Copy, Filled, At, Goto, cacheVars, cmdVars
<1>1. ASSUME NEW c \in Cmd, NEW r \in Ref, Begin(c, r) PROVE CopiesInv'
  BY <1>1 DEF Begin
<1>2. ASSUME NEW c \in Cmd, Inspect(c) PROVE CopiesInv'
  BY <1>2 DEF Inspect
<1>3. ASSUME NEW c \in Cmd, Pull(c) PROVE CopiesInv'
  BY <1>3 DEF Pull
<1>4. ASSUME NEW c \in Cmd, Load(c) PROVE CopiesInv'
  BY <1>4 DEF Load, Loadable, HasDisk
<1>5. ASSUME NEW c \in Cmd, Reload(c) PROVE CopiesInv'
  BY <1>5 DEF Reload, Unlock, Loadable, HasDisk
<1>6. ASSUME NEW c \in Cmd, Discard(c) PROVE CopiesInv'
  BY <1>6 DEF Discard
<1>7. ASSUME NEW c \in Cmd, Stage(c) PROVE CopiesInv'
  BY <1>7 DEF Stage, SetStage, EmptyDir
<1>8. ASSUME NEW c \in Cmd, From(c) PROVE CopiesInv'
  BY <1>8 DEF From, SetStage
<1>9. ASSUME NEW c \in Cmd, CreateExt4(c) PROVE CopiesInv'
  BY <1>9 DEF CreateExt4, SetStage
<1>10. ASSUME NEW c \in Cmd, CopyTree(c) PROVE CopiesInv'
  BY <1>10 DEF CopyTree, Helper, SetStage
<1>11. ASSUME NEW c \in Cmd, SanitizeIdentity(c) PROVE CopiesInv'
  BY <1>11 DEF SanitizeIdentity, Helper, SetStage
<1>12. ASSUME NEW c \in Cmd, SyncTarget(c) PROVE CopiesInv'
  BY <1>12 DEF SyncTarget, Helper, SetStage
<1>13. ASSUME NEW c \in Cmd, HelperExit(c) PROVE CopiesInv'
  BY <1>13 DEF HelperExit
<1>14. ASSUME NEW c \in Cmd, Pack(c) PROVE CopiesInv'
  BY <1>14 DEF Pack
<1>15. ASSUME NEW c \in Cmd, WriteManifest(c) PROVE CopiesInv'
  BY <1>15 DEF WriteManifest, SetStage
<1>16. ASSUME NEW c \in Cmd, SyncStage(c) PROVE CopiesInv'
  BY <1>16 DEF SyncStage, SetStage
<1>17. ASSUME NEW c \in Cmd, Rename(c) PROVE CopiesInv'
  BY <1>17 DEF Rename, Unstage
<1>18. ASSUME NEW c \in Cmd, SyncImages(c) PROVE CopiesInv'
  BY <1>18 DEF SyncImages, Unlock
<1>19. ASSUME NEW c \in Cmd, CloneDisk(c) PROVE CopiesInv'
  BY <1>19 DEF CloneDisk, Done, HasDisk, ResolvedInv, PublishedInv, Dir, Holding, Building
<1>20. ASSUME NEW c \in Cmd, LockTemplate(c) PROVE CopiesInv'
  BY <1>20 DEF LockTemplate
<1>21. ASSUME NEW c \in Cmd, Abort(c) PROVE CopiesInv'
  BY <1>21 DEF Abort, Done, Unlock, Unstage
<1>22. ASSUME NEW d \in Digest, Damage(d) PROVE CopiesInv'
  BY <1>22 DEF Damage, Loadable, HasDisk
<1>23. CASE PowerLoss
  BY <1>23 DEF PowerLoss, Recovered
<1> QED
  BY <1>1, <1>2, <1>3, <1>4, <1>5, <1>6, <1>7, <1>8, <1>9, <1>10, <1>11,
     <1>12, <1>13, <1>14, <1>15, <1>16, <1>17, <1>18, <1>19, <1>20, <1>21,
     <1>22, <1>23
  DEF Next, Step, Fail


-----------------------------------------------------------------------------
LEMMA InitIInv == Init => IInv
<1> SUFFICES ASSUME Init PROVE IInv
  OBVIOUS
<1> USE DEF Init
<1>1. TypeOK
  BY DEF TypeOK, Holding, Building
<1>2. ResolvedInv /\ StageInv /\ LockInv /\ PublishedInv /\ RebuildNeeded /\ CopiesInv
  BY DEF ResolvedInv, StageInv, LockInv, PublishedInv, RebuildNeeded, CopiesInv,
         Holding, Building
<1> QED
  BY <1>1, <1>2 DEF IInv

LEMMA StutterIInv == IInv /\ UNCHANGED vars => IInv'
  BY DEF IInv, TypeOK, ResolvedInv, StageInv, LockInv, PublishedInv, RebuildNeeded,
         CopiesInv, Loadable, HasDisk, vars, cacheVars, cmdVars

\* IInv is inductive: commands, crashes, damage and power losses keep it
\* (EnsureTemplate, prepareTemplate, CloneDisk).
THEOREM Inductive == Spec => []IInv
<1>1. ASSUME IInv, Next PROVE IInv'
  <2> USE <1>1 DEF IInv
  <2>1. TypeOK' /\ ResolvedInv' /\ StageInv'
    BY TypeOKStep, ResolvedInvStep, StageInvStep
  <2>2. LockInv' /\ PublishedInv' /\ RebuildNeeded' /\ CopiesInv'
    BY LockInvStep, PublishedInvStep, RebuildNeededStep, CopiesInvStep
  <2> QED
    BY <2>1, <2>2
<1>2. IInv /\ [Next]_vars => IInv'
  BY <1>1, StutterIInv
<1> QED
  BY InitIInv, <1>2, PTL DEF Spec

\* Every variable keeps its type; what is cloned has a digest.
THEOREM TypeCorrect == Spec => []TypeOK
<1>1. IInv => TypeOK
  BY DEF IInv
<1> QED
  BY <1>1, Inductive, PTL

\* A template that loads is complete, after every crash and every power loss
\* (the order of Pack, sync and rename in prepareTemplate and EnsureTemplate).
THEOREM TemplatesWhole == Spec => []TemplateWhole
<1>1. IInv => TemplateWhole
  BY DEF IInv, PublishedInv, TemplateWhole, Loadable, HasDisk
<1> QED
  BY <1>1, Inductive, PTL

\* Only a holder of the lock removes or replaces a template, and only one that
\* does not load (lockTemplate, the second loadTemplate).
THEOREM RebuildsNeeded == Spec => []RebuildNeeded
<1>1. IInv => RebuildNeeded
  BY DEF IInv
<1> QED
  BY <1>1, Inductive, PTL

\* What a command has cloned is complete, after every crash and every power loss,
\* if nothing outside devd touches the cache (CloneDisk checks nothing itself).
THEOREM ClonesWhole ==
    ASSUME "damage" \notin Faults
    PROVE  Spec => []CloneWhole
<1>1. IInv => CloneWhole
  BY DEF IInv, CopiesInv, CloneWhole
<1> QED
  BY <1>1, Inductive, PTL

(***************************************************************************)
(* The simulation of TemplateStore.                                        *)
(***************************************************************************)
\* The disks a published template can have.
Left == {"packed", "none", "truncated"}

\* What the store sees of a directory the invariant allows.
LEMMA EntryFacts ==
    ASSUME NEW t \in Dir, t.img \in Digest, t.disk \in Left
    PROVE  /\ EntryOf(t) # None
           /\ EntryOf(t).img = t.img
           /\ EntryOf(t).st = IF t.disk # "packed" \/ ~t.manifest THEN "broken"
                              ELSE IF t.settled THEN "kept" ELSE "fresh"
           /\ EntryOf(t) = [img |-> EntryOf(t).img, st |-> EntryOf(t).st]
<1>1. t # None
  BY MissingAssumption
<1>2. Loadable(t) <=> t.disk = "packed" /\ t.manifest
  BY <1>1 DEF Loadable, HasDisk, Left
<1>3. EntryOf(t) = [img |-> t.img,
                    st |-> IF t.disk # "packed" \/ ~t.manifest THEN "broken"
                           ELSE IF t.settled THEN "kept" ELSE "fresh"]
  BY <1>1, <1>2 DEF EntryOf
<1>4. EntryOf(t) \in [img : Digest, st : {"fresh", "kept", "broken"}]
  BY <1>3
<1> QED
  BY <1>3, <1>4, MissingAssumption

\* A step the store sees is one of these; the others leave the published
\* templates and the clones alone.
LEMMA VisibleSteps ==
    ASSUME Next
    PROVE  \/ UNCHANGED <<final, disk>>
           \/ \E c \in Cmd : \/ \E r \in Ref : Begin(c, r)
                             \/ Discard(c) \/ Rename(c) \/ SyncImages(c) \/ CloneDisk(c)
           \/ \E d \in Digest : Damage(d)
           \/ PowerLoss
  BY DEF Next, Step, Inspect, Pull, Load, LockTemplate, Reload, Stage, From, CreateExt4,
         CopyTree, SanitizeIdentity, SyncTarget, Helper, HelperExit, Pack, WriteManifest,
         SyncStage, SetStage, Fail, Abort, cacheVars

LEMMA StoreStep ==
    ASSUME IInv, IInv', Next
    PROVE  Store!Next \/ UNCHANGED Store!vars
<1> USE NoneAssumption, MissingAssumption DEF IInv
<1> DEFINE E == [d \in Digest |-> EntryOf(final[d])]
           F == [d \in Digest |-> EntryOf(final'[d])]
           O == [c \in Cmd |-> OutOf(disk[c])]
           P == [c \in Cmd |-> OutOf(disk'[c])]
<1>p. E' = F /\ O' = P
  BY DEF EntryOf, OutOf, Loadable, HasDisk
<1>f. ASSUME NEW d \in Digest
      PROVE  /\ final[d] = None \/ (final[d] \in Dir /\ final[d].img \in Digest
                                    /\ final[d].disk \in Left)
             /\ final'[d] = None \/ (final'[d] \in Dir /\ final'[d].img \in Digest
                                     /\ final'[d].disk \in Left)
             /\ E[d] = EntryOf(final[d]) /\ F[d] = EntryOf(final'[d])
             /\ final[d] = None <=> E[d] = None
  <2>1. final[d] \in Dir \cup {None} /\ final'[d] \in Dir \cup {None}
    BY DEF TypeOK
  <2>2. /\ final[d] = None \/ (final[d] \in Dir /\ final[d].img \in Digest
                                /\ final[d].disk \in Left)
        /\ final'[d] = None \/ (final'[d] \in Dir /\ final'[d].img \in Digest
                                 /\ final'[d].disk \in Left)
    BY <2>1 DEF PublishedInv, Left
  <2>3. EntryOf(None) = None
    BY DEF EntryOf
  <2> QED
    BY <2>2, <2>3, EntryFacts
<1>x. ASSUME NEW d \in Digest, NEW u, final \in [Digest -> Dir \cup {None}],
             final' = [final EXCEPT ![d] = u]
      PROVE  F = [E EXCEPT ![d] = EntryOf(u)]
  BY <1>x
<1>t. final \in [Digest -> Dir \cup {None}] /\ disk \in [Cmd -> Copy \cup {None}]
  BY DEF TypeOK
<1> HIDE DEF E, F, O, P
<1>0. CASE UNCHANGED <<final, disk>>
  BY <1>0 DEF Store!vars
<1>1. ASSUME NEW c \in Cmd, NEW r \in Ref, Begin(c, r) PROVE Store!Next
  <2>1. P = [O EXCEPT ![c] = None] /\ F = E
    BY <1>1, <1>t DEF Begin, cacheVars, OutOf, E, F, O, P
  <2>2. Store!Forget(c)
    BY <2>1, <1>p DEF Store!Forget, E, F, O, P
  <2> QED
    BY <2>2 DEF Store!Next
<1>2. ASSUME NEW c \in Cmd, Discard(c) PROVE Store!Next \/ UNCHANGED Store!vars
  <2>1. dig[c] \in Digest /\ ~Loadable(final[dig[c]])
    BY <1>2 DEF Discard, At, ResolvedInv, RebuildNeeded
  <2>2. F = [E EXCEPT ![dig[c]] = None] /\ P = O
    BY <1>2, <2>1, <1>t, <1>x DEF Discard, EntryOf, O, P
  <2>3. CASE final[dig[c]] = None
    <3>1. F = E
      BY <2>1, <2>2, <2>3, <1>f DEF E
    <3> QED
      BY <2>2, <3>1, <1>p DEF Store!vars, E, F, O, P
  <2>4. CASE final[dig[c]] # None
    <3>1. E[dig[c]] # None /\ E[dig[c]].st = "broken"
      BY <2>1, <2>4, <1>f, EntryFacts DEF Loadable, HasDisk, Left
    <3>2. Store!Discard(dig[c])
      BY <2>2, <3>1, <1>p DEF Store!Discard, E, F, O, P
    <3> QED
      BY <2>1, <3>2 DEF Store!Next
  <2> QED
    BY <2>3, <2>4
<1>3. ASSUME NEW c \in Cmd, Rename(c) PROVE Store!Next
  <2>1. /\ dig[c] \in Digest /\ stage[c] \in Dir /\ stage[c].img \in Digest
        /\ stage[c].disk = "packed" /\ stage[c].manifest /\ ~stage[c].settled
    BY <1>3 DEF Rename, At, ResolvedInv, StageInv, Building
  <2>2. EntryOf(stage[c]) = [img |-> stage[c].img, st |-> "fresh"]
    BY <2>1, EntryFacts DEF Left
  <2>3. /\ final[dig[c]] = None /\ disk' = disk
        /\ final' = [final EXCEPT ![dig[c]] = stage[c]]
    BY <1>3 DEF Rename
  <2>4. E[dig[c]] = None /\ P = O
    BY <2>1, <2>3, <1>f DEF O, P, EntryOf
  <2>5. F = [E EXCEPT ![dig[c]] = EntryOf(stage[c])]
    BY <2>1, <2>3, <1>t, <1>x
  <2>6. Store!Publish(dig[c], stage[c].img)
    BY <2>2, <2>4, <2>5, <1>p DEF Store!Publish, E, F, O, P
  <2> QED
    BY <2>1, <2>6 DEF Store!Next
<1>4. ASSUME NEW c \in Cmd, SyncImages(c) PROVE Store!Next \/ UNCHANGED Store!vars
  <2> DEFINE t == final[dig[c]]
             u == [t EXCEPT !.settled = TRUE]
  <2>1. dig[c] \in Digest /\ P = O
    BY <1>4 DEF SyncImages, At, ResolvedInv, O, P
  <2>2. CASE t = None
    <3>1. final' = final
      BY <1>4, <2>1, <2>2, <1>t DEF SyncImages
    <3> QED
      BY <2>1, <3>1, <1>p DEF Store!vars, E, F, O, P
  <2>3. CASE t # None
    <3>1. t \in Dir /\ t.img \in Digest /\ t.disk \in Left
      BY <2>1, <2>3, <1>f
    <3>2. /\ u \in Dir /\ u.settled /\ u.img = t.img /\ u.disk = t.disk
          /\ (u.manifest <=> t.manifest)
      BY <3>1, DirUpdate
    <3>3. final' = [final EXCEPT ![dig[c]] = u]
      BY <1>4, <2>3 DEF SyncImages
    <3> HIDE DEF t, u
    <3>4. F = [E EXCEPT ![dig[c]] = EntryOf(u)]
      BY <2>1, <3>3, <1>t, <1>x
    <3>5. E[dig[c]] = EntryOf(t)
      BY <2>1, <1>f DEF t
    <3>6. CASE EntryOf(t).st = "fresh"
      <4>1. EntryOf(u) = [EntryOf(t) EXCEPT !.st = "kept"] /\ EntryOf(t) # None
        BY <3>1, <3>2, <3>6, EntryFacts
      <4>2. Store!Keep(dig[c])
        BY <2>1, <3>4, <3>5, <3>6, <4>1, <1>p DEF Store!Keep, Store!Move, E, F, O, P
      <4> QED
        BY <2>1, <4>2 DEF Store!Next
    <3>7. CASE EntryOf(t).st # "fresh"
      <4>1. EntryOf(u) = EntryOf(t)
        BY <3>1, <3>2, <3>7, EntryFacts
      <4>2. F = E
        BY <2>1, <3>4, <3>5, <4>1 DEF E
      <4> QED
        BY <2>1, <4>2, <1>p DEF Store!vars, E, F, O, P
    <3> QED
      BY <3>6, <3>7
  <2> QED
    BY <2>2, <2>3
<1>5. ASSUME NEW c \in Cmd, CloneDisk(c) PROVE Store!Next
  <2> DEFINE t == final[dig[c]]
  <2>1. dig[c] \in Digest /\ F = E
    BY <1>5 DEF CloneDisk, ResolvedInv, cacheVars, E, F
  <2>2. t \in Dir /\ t.img \in Digest /\ t.disk \in {"packed", "truncated"}
    BY <1>5, <2>1, <1>f DEF CloneDisk, HasDisk, Left
  <2>3. /\ E[dig[c]] # None /\ E[dig[c]].img = t.img
        /\ t.disk # "packed" => E[dig[c]].st = "broken"
    BY <2>1, <2>2, <1>f, EntryFacts DEF Left
  <2> DEFINE x == [img |-> t.img, disk |-> t.disk]
  <2>4. disk' = [disk EXCEPT ![c] = x]
    BY <1>5 DEF CloneDisk
  <2>5. OutOf(x) = IF t.disk = "packed" THEN t.img ELSE "torn"
    <3>1. x \in Copy
      BY <2>2 DEF Copy, Filled
    <3> QED
      BY <2>2, <3>1 DEF OutOf
  <2> HIDE DEF t, x
  <2>6. P = [O EXCEPT ![c] = OutOf(x)]
    BY <2>4, <1>t DEF O, P
  <2>7. Store!Clone(c, dig[c])
    BY <2>1, <2>3, <2>5, <2>6, <1>p DEF Store!Clone, E, F, O, P
  <2> QED
    BY <2>1, <2>7 DEF Store!Next
<1>6. ASSUME NEW d \in Digest, Damage(d) PROVE Store!Next
  <2> DEFINE t == final[d]
  <2>1. /\ t \in Dir /\ t.img \in Digest /\ t.disk = "packed" /\ t.manifest
        /\ E[d] = EntryOf(t) /\ P = O
    BY <1>6, <1>f DEF Damage, Loadable, HasDisk, O, P, Left
  <2>2. EntryOf(t) # None /\ EntryOf(t).st \in {"fresh", "kept"}
    BY <2>1, EntryFacts DEF Left
  <2>3. PICK u \in Dir : /\ final' = [final EXCEPT ![d] = u]
                         /\ u.img = t.img
                         /\ u.disk \in {"none", "truncated"} \/ (~u.manifest /\ u.disk = "packed")
    <3> DEFINE v == [t EXCEPT !.manifest = FALSE]
               w == [t EXCEPT !.disk = "none"]
               x == [t EXCEPT !.disk = "truncated"]
    <3>1. v \in Dir /\ ~v.manifest /\ v.img = t.img /\ v.disk = "packed"
      BY <2>1, DirUpdate
    <3>2. w \in Dir /\ w.disk = "none" /\ w.img = t.img
      BY <2>1, DirUpdate
    <3>3. x \in Dir /\ x.disk = "truncated" /\ x.img = t.img
      BY <2>1, DirUpdate
    <3>4. \/ final' = [final EXCEPT ![d] = v] \/ final' = [final EXCEPT ![d] = w]
          \/ final' = [final EXCEPT ![d] = x]
      BY <1>6 DEF Damage
    <3> HIDE DEF v, w, x
    <3> QED
      BY <3>1, <3>2, <3>3, <3>4
  <2> HIDE DEF t
  <2>4. F = [E EXCEPT ![d] = EntryOf(u)]
    BY <2>3, <1>t, <1>x
  <2>5. EntryOf(u) = [EntryOf(t) EXCEPT !.st = "broken"]
    BY <2>1, <2>3, EntryFacts DEF Left
  <2>6. Store!Damage(d)
    BY <2>1, <2>2, <2>4, <2>5, <1>p DEF Store!Damage, Store!Move, E, F, O, P
  <2> QED
    BY <2>6 DEF Store!Next
<1>7. CASE PowerLoss
  <2>1. PICK undone \in SUBSET {d \in Digest : final[d] # None /\ ~final[d].settled} :
            final' = [d \in Digest |->
                        IF final[d] = None \/ d \in undone THEN None
                        ELSE Recovered(final[d])]
    BY <1>7 DEF PowerLoss
  <2>2. ASSUME NEW d \in undone PROVE d \in Digest /\ E[d] # None /\ E[d].st # "kept"
    BY <2>1, <2>2, <1>f, EntryFacts
  <2>3. ASSUME NEW d \in Digest
        PROVE  F[d] = IF E[d] = None \/ d \in undone THEN None
                      ELSE IF E[d].st = "fresh" THEN [E[d] EXCEPT !.st = "kept"]
                      ELSE E[d]
    <3>1. CASE final[d] = None \/ d \in undone
      BY <2>1, <3>1, <1>f DEF EntryOf
    <3>2. CASE ~(final[d] = None \/ d \in undone)
      <4> DEFINE t == final[d]
                 u == Recovered(t)
      <4>1. /\ t \in Dir /\ t.img \in Digest /\ t.disk \in Left /\ t.synced
            /\ final'[d] = u
        BY <2>1, <3>2, <1>f DEF PublishedInv
      <4>2. /\ u \in Dir /\ u.settled /\ u.img = t.img /\ u.disk = t.disk
            /\ (u.manifest <=> t.manifest)
        BY <4>1, RecoveredDir
      <4>3. E[d] = EntryOf(t) /\ F[d] = EntryOf(u)
        BY <4>1, <1>f
      <4> HIDE DEF t, u
      <4>4. EntryOf(t) # None
        BY <4>1, EntryFacts
      <4>5. EntryOf(u) = IF EntryOf(t).st = "fresh" THEN [EntryOf(t) EXCEPT !.st = "kept"]
                         ELSE EntryOf(t)
        BY <4>1, <4>2, EntryFacts
      <4> QED
        BY <3>2, <4>3, <4>4, <4>5
    <3> QED
      BY <3>1, <3>2
  <2>4. F = [d \in Digest |-> IF E[d] = None \/ d \in undone THEN None
                              ELSE IF E[d].st = "fresh" THEN [E[d] EXCEPT !.st = "kept"]
                              ELSE E[d]]
    BY <2>3 DEF F
  <2>5. P = [c \in Cmd |-> None]
    BY <1>7 DEF PowerLoss, OutOf, P
  <2>6. undone \in SUBSET {d \in Digest : E[d] # None /\ E[d].st # "kept"}
    BY <2>2
  <2>7. Store!PowerLoss
    BY <2>4, <2>5, <2>6, <1>p DEF Store!PowerLoss, E, F, O, P
  <2> QED
    BY <2>7 DEF Store!Next
<1> QED
  BY VisibleSteps, <1>0, <1>1, <1>2, <1>3, <1>4, <1>5, <1>6, <1>7

\* Commands, crashes, damage and power losses together implement the store of
\* templates (EnsureTemplate, CloneDisk; the storage section of SPEC.md).
THEOREM StoreImplemented == Spec => TemplateStoreSpec
<1>1. Init => Store!Init
  BY DEF Init, Store!Init, EntryOf, OutOf
<1>2. IInv /\ IInv' /\ [Next]_vars => [Store!Next]_Store!vars
  <2>1. CASE Next
    BY <2>1, StoreStep
  <2>2. CASE UNCHANGED vars
    BY <2>2 DEF vars, cacheVars, Store!vars, EntryOf, OutOf, Loadable, HasDisk
  <2> QED
    BY <2>1, <2>2
<1> QED
  BY <1>1, <1>2, Inductive, PTL DEF Spec, TemplateStoreSpec, Store!Spec
=============================================================================
