-------------------------- MODULE RegistryProofs --------------------------
(***************************************************************************)
(* Safety of the registries, for any number of processes, versions, tags   *)
(* and calls: the filesystem adapter, onboarding (for any number of        *)
(* requests and model ids), the cloud adapters and the mirror.             *)
(***************************************************************************)
EXTENDS FileRegistry, Onboarding, CloudRegistries, MirrorRegistry, FiniteSetTheorems,
        SequenceTheorems, WellFoundedInduction, TLAPS

-----------------------------------------------------------------------------
(* The filesystem registry.                                                *)

FsOps == {"none", "create", "alias", "unalias", "tags", "READY", "FAILED"}
FsPlaces == {"idle", "lock", "relock", "read", "write", "record", "unlock", "put"}
FsModels == [next : Nat \ {0}, live : 0 .. FsMaxVersions]
FsFiles == [status : {"none", "PENDING", "READY", "FAILED"}, tags : SUBSET FsTags]
FsCallSet == [op : FsOps, at : FsPlaces, ver : 0 .. FsMaxVersions, tag : FsTags \cup {"none"},
              ok : BOOLEAN, model : FsModels, file : FsFiles]

FsData ==
    /\ fsModel \in FsModels /\ fsFile \in [FsVersions -> FsFiles]
    /\ fsArtifact \in [FsVersions -> {"absent", "partial", "whole"}]
    /\ fsCall \in [FsClients -> FsCallSet] /\ fsCrashed \in BOOLEAN
    /\ fsAnswers \in Seq(FsVersions) /\ fsTagged \subseteq FsVersions \X FsTags

FsInLock(c) == fsCall[c].at \in {"read", "write", "record", "unlock"}

\* c has a reserved version to complete.
FsOwns(c) ==
    \/ fsCall[c].op \in {"READY", "FAILED"}
    \/ fsCall[c].op = "create" /\ fsCall[c].at \in {"record", "put"}
    \/ fsCall[c].op = "create" /\ fsCall[c].at = "unlock" /\ fsCall[c].ok

\* What a call looks like, whatever the registry holds.
FsShape(c) ==
    /\ fsCall[c].at = "idle" <=> fsCall[c].op = "none"
    /\ fsCall[c].at \in {"record", "put"} => fsCall[c].op = "create"
    /\ fsCall[c].at = "relock" => fsCall[c].op \in {"READY", "FAILED"}
    /\ fsCall[c].op \in {"READY", "FAILED"} => fsCall[c].at # "lock"
    /\ fsCall[c].op \in {"alias", "tags"} => fsCall[c].ver # 0
    /\ fsCall[c].op = "tags" => fsCall[c].tag \in FsTags
    /\ FsOwns(c) => fsCall[c].ver # 0
    /\ fsCall[c].at # "unlock" => fsCall[c].ok

\* Who is between the lock's two ends holds it, and the copies it read are still right.
FsHolds(c) ==
    /\ FsInLock(c) => fsLock = c /\ ~fsCrashed
    /\ fsCall[c].at = "write" =>
          /\ fsCall[c].model = fsModel
          /\ fsCall[c].ver # 0 => fsCall[c].file = fsFile[fsCall[c].ver]
          /\ fsCall[c].op = "create" => fsCall[c].ver = fsModel.next
    /\ fsCall[c].at = "record" => fsFile[fsCall[c].ver] = FsNoFile
    /\ fsCall[c].op = "tags" => fsFile[fsCall[c].ver].status # "none"
    /\ fsCall[c].op = "tags" /\ fsCall[c].at = "unlock" /\ fsCall[c].ok =>
          fsCall[c].tag \in fsFile[fsCall[c].ver].tags

\* A version that is being completed is its owner's alone, and unanswered.
FsOwned(c) ==
    FsOwns(c) =>
        /\ fsCall[c].ver < fsModel.next
        /\ \A i \in DOMAIN fsAnswers : fsAnswers[i] # fsCall[c].ver
        /\ fsCall[c].at # "record" =>
              fsFile[fsCall[c].ver].status =
                  IF fsCall[c].op # "create" /\ fsCall[c].at = "unlock" /\ fsCall[c].ok
                  THEN fsCall[c].op ELSE "PENDING"
        /\ fsCall[c].op = "READY" => fsArtifact[fsCall[c].ver] = "whole"

FsApart == \A c, d \in FsClients : FsOwns(c) /\ FsOwns(d) /\ fsCall[c].ver = fsCall[d].ver => c = d

FsKept ==
    /\ \A v \in FsVersions :
          /\ fsFile[v].status = "READY" => fsArtifact[v] = "whole"
          /\ fsFile[v].status = "none" => fsFile[v].tags = {}
          /\ v >= fsModel.next => fsFile[v].status = "none"
    /\ \A i \in DOMAIN fsAnswers : fsFile[fsAnswers[i]].status = "READY"
    /\ FsNoWriteLost

FsInv ==
    /\ FsData /\ FsApart /\ FsKept /\ (fsCrashed => fsLock # FsNobody)
    /\ \A c \in FsClients : FsShape(c) /\ FsHolds(c) /\ FsOwned(c)

\* A process at rest owns nothing and holds nothing.
LEMMA FsIdleTyped ==
    /\ FsIdle \in FsCallSet /\ FsIdle.op = "none" /\ FsIdle.at = "idle" /\ FsIdle.ver = 0
    /\ FsIdle.tag = "none" /\ FsIdle.ok
<1>1. FsNoFile \in FsFiles /\ 0 \in 0 .. FsMaxVersions
  BY FsAssumption DEF FsNoFile, FsFiles
<1>2. [next |-> 1, live |-> 0] \in FsModels
  BY <1>1 DEF FsModels
<1> QED BY <1>1, <1>2 DEF FsIdle, FsCallSet, FsOps, FsPlaces

\* A call that moves on.
LEMMA FsMoveTyped ==
  ASSUME NEW d \in FsCallSet, NEW place \in FsPlaces
  PROVE  /\ [d EXCEPT !.at = place] \in FsCallSet
         /\ [d EXCEPT !.at = place].op = d.op /\ [d EXCEPT !.at = place].ver = d.ver
         /\ [d EXCEPT !.at = place].at = place /\ [d EXCEPT !.at = place].tag = d.tag
         /\ [d EXCEPT !.at = place].ok = d.ok
BY DEF FsCallSet

\* Only one process is between the two ends of the lock, and nobody once it is broken.
LEMMA FsAlone ==
  ASSUME FsInv, NEW c \in FsClients, NEW d \in FsClients, FsInLock(c), FsInLock(d)
  PROVE  c = d
BY DEF FsInv, FsHolds

\* What a step of one process must leave alone for another to be where it was.
LEMMA FsOther ==
  ASSUME FsInv, NEW d \in FsClients, fsCall'[d] = fsCall[d],
         FsInLock(d) => fsLock' = d /\ ~fsCrashed' /\ UNCHANGED <<fsModel, fsFile>>,
         fsModel' \in FsModels, fsModel'.next >= fsModel.next,
         fsCall[d].op = "tags" => fsFile'[fsCall[d].ver].status # "none",
         FsOwns(d) =>
            /\ fsCall[d].at # "record" =>
                  fsFile'[fsCall[d].ver].status = fsFile[fsCall[d].ver].status
            /\ fsArtifact[fsCall[d].ver] = "whole" => fsArtifact'[fsCall[d].ver] = "whole"
            /\ \A i \in DOMAIN fsAnswers' : fsAnswers'[i] # fsCall[d].ver
  PROVE  FsShape(d)' /\ FsHolds(d)' /\ FsOwned(d)' /\ (FsOwns(d)' <=> FsOwns(d))
<1>1. FsShape(d) /\ FsHolds(d) /\ FsOwned(d) /\ fsCall[d] \in FsCallSet /\ fsModel \in FsModels
  BY DEF FsInv, FsData
<1>2. FsOwns(d)' <=> FsOwns(d)
  BY DEF FsOwns
<1>3. FsShape(d)'
  BY <1>1, <1>2 DEF FsShape
<1>4. FsHolds(d)'
  BY <1>1 DEF FsHolds, FsInLock
<1>5. FsOwned(d)'
  <2>1. fsCall[d].ver \in Nat /\ fsModel.next \in Nat /\ fsModel'.next \in Nat
    BY <1>1 DEF FsCallSet, FsModels
  <2> QED BY <1>1, <1>2, <2>1 DEF FsOwned
<1> QED BY <1>2, <1>3, <1>4, <1>5

\* A step that writes nothing leaves what is kept.
LEMMA FsQuiet ==
  ASSUME FsInv, NEW c \in FsClients, NEW e \in FsCallSet, fsCall' = [fsCall EXCEPT ![c] = e],
         UNCHANGED <<fsModel, fsFile, fsArtifact, fsAnswers, fsTagged, fsAliased>>,
         fsCrashed' \in BOOLEAN, fsCrashed' => fsLock' # FsNobody,
         \A d \in FsClients \ {c} : FsInLock(d) => fsLock' = d /\ ~fsCrashed',
         FsShape(c)', FsHolds(c)', FsOwned(c)',
         FsOwns(c)' => FsOwns(c) /\ e.ver = fsCall[c].ver
  PROVE  FsInv'
<1>1. fsCall' \in [FsClients -> FsCallSet] /\ fsCall'[c] = e
      /\ \A d \in FsClients \ {c} : fsCall'[d] = fsCall[d]
  BY DEF FsInv, FsData
<1>2. FsData'
  BY <1>1 DEF FsInv, FsData
<1>3. ASSUME NEW d \in FsClients \ {c}
      PROVE  FsShape(d)' /\ FsHolds(d)' /\ FsOwned(d)' /\ (FsOwns(d)' <=> FsOwns(d))
  <2>1. fsModel' \in FsModels /\ fsModel'.next >= fsModel.next
    BY DEF FsInv, FsData, FsModels
  <2>2. fsCall[d].op = "tags" => fsFile'[fsCall[d].ver].status # "none"
    BY DEF FsInv, FsHolds
  <2>3. FsOwns(d) => \A i \in DOMAIN fsAnswers' : fsAnswers'[i] # fsCall[d].ver
    BY DEF FsInv, FsOwned
  <2> QED BY <1>1, <2>1, <2>2, <2>3, FsOther
<1>4. FsApart'
  BY <1>1, <1>3 DEF FsInv, FsApart
<1>5. FsKept'
  BY DEF FsInv, FsKept, FsNoWriteLost
<1> QED BY <1>2, <1>3, <1>4, <1>5 DEF FsInv

\* A call that starts, takes or misses the lock, or dies.
LEMMA FsArrives ==
  ASSUME FsInv, NEW c \in FsClients,
         \/ FsCreateVersion(c) \/ FsDeleteAlias(c)
         \/ \E v \in FsVersions : FsSetAlias(c, v)
         \/ \E v \in FsVersions, t \in FsTags : FsSetVersionTags(c, v, t)
  PROVE  FsInv'
<1>1. PICK op \in {"create", "alias", "unalias", "tags"}, v \in 0 .. FsMaxVersions,
           t \in FsTags \cup {"none"} :
        /\ FsStart(c, op, v, t)
        /\ op \in {"alias", "tags"} => v # 0 /\ fsFile[v].status # "none"
        /\ op = "tags" => t \in FsTags
  BY FsAssumption DEF FsCreateVersion, FsDeleteAlias, FsSetAlias, FsSetVersionTags, FsRawVersion, FsVersions
<1>e. PICK e : e = [FsIdle EXCEPT !.op = op, !.at = "lock", !.ver = v, !.tag = t]
  OBVIOUS
<1>2. e \in FsCallSet /\ e.op = op /\ e.at = "lock" /\ e.ver = v /\ e.tag = t /\ e.ok
  BY <1>e, FsIdleTyped DEF FsCallSet, FsPlaces, FsOps
<1>3. /\ fsCall' = [fsCall EXCEPT ![c] = e]
      /\ UNCHANGED <<fsModel, fsFile, fsArtifact, fsLock, fsCrashed, fsAnswers, fsTagged, fsAliased>>
  BY <1>1, <1>e DEF FsStart, FsHistory
<1>4. fsCall'[c] = e
  BY <1>3 DEF FsInv, FsData
<1>5. ~FsOwns(c)'
  BY <1>1, <1>2, <1>4 DEF FsOwns
<1>6. FsShape(c)'
  BY <1>1, <1>2, <1>4, <1>5 DEF FsShape
<1>7. FsHolds(c)' /\ FsOwned(c)'
  BY <1>1, <1>2, <1>3, <1>4, <1>5 DEF FsHolds, FsInLock, FsOwned
<1>8. fsCrashed' \in BOOLEAN /\ (fsCrashed' => fsLock' # FsNobody)
      /\ \A d \in FsClients \ {c} : FsInLock(d) => fsLock' = d /\ ~fsCrashed'
  BY <1>3 DEF FsInv, FsData, FsHolds
<1> QED BY <1>2, <1>3, <1>5, <1>6, <1>7, <1>8, FsQuiet

\* A call that gives up on the lock, or dies before it has it, wrote nothing.
LEMMA FsLeaves ==
  ASSUME FsInv, NEW c \in FsClients, FsLockTimeout(c) \/ FsCrash(c)
  PROVE  FsInv'
<1>1. /\ fsCall' = [fsCall EXCEPT ![c] = FsIdle] /\ UNCHANGED fsLock
      /\ UNCHANGED <<fsModel, fsFile, fsArtifact, fsAnswers, fsTagged, fsAliased>>
  BY DEF FsLockTimeout, FsCrash, FsHistory
<1>2. fsCall'[c] = FsIdle
  BY <1>1 DEF FsInv, FsData
<1>3. FsShape(c)' /\ FsHolds(c)' /\ FsOwned(c)' /\ ~FsOwns(c)'
  BY <1>2, FsIdleTyped DEF FsShape, FsHolds, FsInLock, FsOwned, FsOwns
<1>4. fsCrashed' = fsCrashed \/ (fsCrashed' = (fsCrashed \/ fsLock = c))
  BY DEF FsLockTimeout, FsCrash
<1>5. fsCrashed' \in BOOLEAN
  BY <1>4, Zenon DEF FsInv, FsData
<1>6. ASSUME NEW d \in FsClients \ {c}, FsInLock(d)
      PROVE  fsLock' = d /\ ~fsCrashed'
  <2>1. fsLock = d /\ ~fsCrashed
    BY <1>6 DEF FsInv, FsHolds
  <2>2. ~(fsLock = c)
    BY <2>1
  <2>3. ~fsCrashed'
    BY <1>4, <2>1, <2>2, Zenon
  <2> QED BY <1>1, <2>1, <2>3
<1>7. fsCrashed' => fsLock' # FsNobody
  <2>1. c # FsNobody
    BY FsAssumption
  <2>2. fsCrashed => fsLock # FsNobody
    BY DEF FsInv
  <2> QED BY <1>1, <1>4, <2>1, <2>2, Zenon
<1> QED BY <1>1, <1>3, <1>5, <1>6, <1>7, FsIdleTyped, FsQuiet

\* The lock is taken by one call, which then reads the file afresh.
LEMMA FsEnters ==
  ASSUME FsInv, NEW c \in FsClients, FsTakeLock(c)
  PROVE  FsInv'
<1> DEFINE e == [fsCall[c] EXCEPT !.at = "read"]
<1>1. /\ fsCall' = [fsCall EXCEPT ![c] = e] /\ fsLock = FsNobody /\ fsLock' = c
      /\ UNCHANGED <<fsModel, fsFile, fsArtifact, fsCrashed, fsAnswers, fsTagged, fsAliased>>
      /\ fsCall[c].at \in {"lock", "relock"}
  BY DEF FsTakeLock, FsAt, FsLockFree, FsHistory
<1>2. fsCall[c] \in FsCallSet /\ FsShape(c) /\ FsHolds(c) /\ FsOwned(c)
  BY DEF FsInv, FsData
<1>3. e \in FsCallSet /\ e.at = "read" /\ e.op = fsCall[c].op /\ e.ver = fsCall[c].ver
      /\ e.tag = fsCall[c].tag /\ e.ok = fsCall[c].ok
  BY <1>2, FsMoveTyped DEF FsPlaces
<1> HIDE DEF e
<1>4. fsCall'[c] = e
  BY <1>1 DEF FsInv, FsData
<1>5. FsOwns(c)' => FsOwns(c) /\ e.ver = fsCall[c].ver
  BY <1>3, <1>4 DEF FsOwns
<1>6. ~fsCrashed /\ fsCrashed' \in BOOLEAN /\ ~fsCrashed'
  BY <1>1 DEF FsInv, FsData
<1>7. \A d \in FsClients \ {c} : ~FsInLock(d)
  BY <1>1, FsAssumption DEF FsInv, FsHolds
<1>8. FsShape(c)' /\ FsHolds(c)' /\ FsOwned(c)'
  <2>1. FsShape(c)'
    BY <1>1, <1>2, <1>3, <1>4, <1>5 DEF FsShape
  <2>2. FsHolds(c)'
    BY <1>1, <1>2, <1>3, <1>4, <1>6 DEF FsHolds
  <2>3. FsOwned(c)'
    BY <1>1, <1>2, <1>3, <1>4, <1>5 DEF FsOwned
  <2> QED BY <2>1, <2>2, <2>3
<1>9. fsLock' # FsNobody
  BY <1>1, FsAssumption
<1> QED BY <1>1, <1>3, <1>5, <1>6, <1>7, <1>8, <1>9, FsQuiet

\* The copies of the JSON files are read under the lock.
LEMMA FsReads ==
  ASSUME FsInv, NEW c \in FsClients, FsRead(c)
  PROVE  FsInv'
<1>1. /\ fsCall[c] \in FsCallSet /\ FsShape(c) /\ FsHolds(c) /\ FsOwned(c)
      /\ fsModel \in FsModels /\ fsCall[c].at = "read" /\ fsLock = c /\ ~fsCrashed
      /\ fsFile \in [FsVersions -> FsFiles]
  BY DEF FsRead, FsInv, FsData, FsHolds, FsInLock
<1>2. PICK v \in 0 .. FsMaxVersions :
        /\ v = IF fsCall[c].op = "create" THEN fsModel.next ELSE fsCall[c].ver
        /\ fsCall[c].op = "create" => v \in FsVersions
  BY <1>1, FsAssumption DEF FsRead, FsCallSet, FsVersions
<1>3. PICK e : e = [fsCall[c] EXCEPT !.at = "write", !.model = fsModel, !.ver = v,
                       !.file = IF v = 0 THEN FsNoFile ELSE fsFile[v]]
  OBVIOUS
<1>4. /\ fsCall' = [fsCall EXCEPT ![c] = e]
      /\ UNCHANGED <<fsModel, fsFile, fsArtifact, fsLock, fsCrashed, fsAnswers, fsTagged, fsAliased>>
  BY <1>2, <1>3 DEF FsRead, FsHistory
<1>5. (IF v = 0 THEN FsNoFile ELSE fsFile[v]) \in FsFiles
  BY <1>1 DEF FsNoFile, FsFiles, FsVersions
<1>6. /\ e \in FsCallSet /\ e.at = "write" /\ e.op = fsCall[c].op /\ e.ver = v
      /\ e.model = fsModel /\ (v # 0 => e.file = fsFile[v])
      /\ e.tag = fsCall[c].tag /\ e.ok = fsCall[c].ok
  BY <1>1, <1>3, <1>5 DEF FsCallSet, FsPlaces
<1>7. fsCall'[c] = e
  BY <1>4 DEF FsInv, FsData
<1>8. FsOwns(c)' => FsOwns(c) /\ e.ver = fsCall[c].ver
  BY <1>2, <1>6, <1>7 DEF FsOwns
<1>9. FsShape(c)' /\ FsHolds(c)' /\ FsOwned(c)'
  <2>1. FsShape(c)'
    BY <1>1, <1>2, <1>6, <1>7, <1>8 DEF FsShape
  <2>2. FsHolds(c)'
    BY <1>1, <1>2, <1>4, <1>6, <1>7 DEF FsHolds
  <2>3. FsOwned(c)'
    BY <1>1, <1>4, <1>6, <1>7, <1>8 DEF FsOwned
  <2> QED BY <2>1, <2>2, <2>3
<1>10. \A d \in FsClients \ {c} : ~FsInLock(d)
  BY <1>1 DEF FsInv, FsHolds
<1>11. fsCrashed' \in BOOLEAN /\ ~fsCrashed'
  BY <1>1, <1>4 DEF FsInv, FsData
<1> QED BY <1>4, <1>6, <1>8, <1>9, <1>10, <1>11, FsQuiet

\* The volume refuses a write.
LEMMA FsWriteRefused ==
  ASSUME FsInv, NEW c \in FsClients, FsWriteFails(c)
  PROVE  FsInv'
<1>1. /\ fsCall[c] \in FsCallSet /\ FsShape(c) /\ FsHolds(c) /\ FsOwned(c)
      /\ fsCall[c].at \in {"write", "record"} /\ fsLock = c /\ ~fsCrashed
  BY DEF FsWriteFails, FsInv, FsData, FsHolds, FsInLock
<1>2. PICK e : e = [fsCall[c] EXCEPT !.at = "unlock", !.ok = FALSE]
  OBVIOUS
<1>3. /\ fsCall' = [fsCall EXCEPT ![c] = e]
      /\ UNCHANGED <<fsModel, fsFile, fsArtifact, fsLock, fsCrashed, fsAnswers, fsTagged, fsAliased>>
  BY <1>2 DEF FsWriteFails, FsHistory
<1>4. /\ e \in FsCallSet /\ e.at = "unlock" /\ e.op = fsCall[c].op /\ e.ver = fsCall[c].ver
      /\ e.tag = fsCall[c].tag /\ ~e.ok
  BY <1>1, <1>2 DEF FsCallSet, FsPlaces
<1>5. fsCall'[c] = e
  BY <1>3 DEF FsInv, FsData
<1>6. FsOwns(c)' => FsOwns(c) /\ e.ver = fsCall[c].ver /\ e.op \in {"READY", "FAILED"}
  BY <1>4, <1>5 DEF FsOwns
<1>7. FsShape(c)' /\ FsHolds(c)' /\ FsOwned(c)'
  <2>1. FsShape(c)'
    BY <1>1, <1>4, <1>5, <1>6 DEF FsShape
  <2>2. FsHolds(c)'
    BY <1>1, <1>3, <1>4, <1>5 DEF FsHolds
  <2>3. FsOwned(c)'
    BY <1>1, <1>3, <1>4, <1>5, <1>6 DEF FsOwned, FsShape
  <2> QED BY <2>1, <2>2, <2>3
<1>8. \A d \in FsClients \ {c} : ~FsInLock(d)
  BY <1>1 DEF FsInv, FsHolds
<1>9. fsCrashed' \in BOOLEAN /\ ~fsCrashed'
  BY <1>1, <1>3 DEF FsInv, FsData
<1> QED BY <1>3, <1>4, <1>6, <1>7, <1>8, <1>9, FsQuiet

\* A write of model.json or of a version's record under the lock.
LEMMA FsReserves ==
  ASSUME FsInv, NEW c \in FsClients, FsReserve(c)
  PROVE  FsInv'
<1>1. /\ fsCall[c] \in FsCallSet /\ FsShape(c) /\ FsHolds(c) /\ FsOwned(c) /\ fsModel \in FsModels
      /\ fsCall[c].at = "write" /\ fsCall[c].op = "create" /\ fsLock = c /\ ~fsCrashed
      /\ fsCall[c].ver = fsModel.next /\ fsCall[c].model = fsModel
  BY DEF FsReserve, FsInv, FsData, FsHolds, FsInLock
<1>2. PICK e : e = [fsCall[c] EXCEPT !.at = "record"]
  OBVIOUS
<1>3. /\ fsCall' = [fsCall EXCEPT ![c] = e] /\ fsModel' = [fsModel EXCEPT !.next = fsModel.next + 1]
      /\ UNCHANGED <<fsFile, fsArtifact, fsLock, fsCrashed, fsAnswers, fsTagged, fsAliased>>
  BY <1>1, <1>2 DEF FsReserve, FsAt, FsHistory
<1>4. /\ e \in FsCallSet /\ e.at = "record" /\ e.op = "create" /\ e.ver = fsModel.next
      /\ e.ok
  <2>1. fsCall[c].ok
    BY <1>1 DEF FsShape
  <2>2. e \in FsCallSet /\ e.at = "record" /\ e.op = fsCall[c].op /\ e.ver = fsCall[c].ver
        /\ e.ok = fsCall[c].ok
    BY <1>1, <1>2, FsMoveTyped DEF FsPlaces
  <2> QED BY <1>1, <2>1, <2>2
<1>5. fsCall'[c] = e /\ \A d \in FsClients \ {c} : fsCall'[d] = fsCall[d]
  BY <1>3 DEF FsInv, FsData
<1>6. /\ fsModel' \in FsModels /\ fsModel'.next = fsModel.next + 1 /\ fsModel'.live = fsModel.live
      /\ fsModel.next \in Nat \ {0} /\ fsModel'.next >= fsModel.next
  BY <1>1, <1>3 DEF FsModels
<1>7. FsData'
  BY <1>3, <1>4, <1>6 DEF FsInv, FsData
<1>8. ASSUME NEW d \in FsClients \ {c}
      PROVE  FsShape(d)' /\ FsHolds(d)' /\ FsOwned(d)' /\ (FsOwns(d)' <=> FsOwns(d))
  <2>1. ~FsInLock(d) /\ FsHolds(d) /\ FsOwned(d)
    BY <1>1 DEF FsInv, FsHolds
  <2>2. fsCall[d].op = "tags" => fsFile'[fsCall[d].ver].status # "none"
    BY <1>3, <2>1 DEF FsHolds
  <2>3. FsOwns(d) => \A i \in DOMAIN fsAnswers' : fsAnswers'[i] # fsCall[d].ver
    BY <1>3, <2>1 DEF FsOwned
  <2> QED BY <1>3, <1>5, <1>6, <2>1, <2>2, <2>3, FsOther
<1>9. FsKept /\ e.ver \in FsVersions
  BY <1>1, <1>4 DEF FsInv, FsCallSet, FsVersions, FsModels
<1>10. FsShape(c)' /\ FsHolds(c)' /\ FsOwned(c)' /\ FsOwns(c)'
  <2>1. FsOwns(c)'
    BY <1>4, <1>5 DEF FsOwns
  <2>2. FsShape(c)'
    BY <1>4, <1>5, <1>6 DEF FsShape
  <2>3. fsFile[e.ver] = FsNoFile
    <3>1. fsFile[e.ver].status = "none" /\ fsFile[e.ver].tags = {}
      BY <1>4, <1>6, <1>9 DEF FsKept
    <3>2. fsFile[e.ver] \in FsFiles
      BY <1>9 DEF FsInv, FsData
    <3> QED BY <3>1, <3>2 DEF FsFiles, FsNoFile
  <2>4. FsHolds(c)'
    BY <1>1, <1>3, <1>4, <1>5, <2>3 DEF FsHolds
  <2>5. \A i \in DOMAIN fsAnswers : fsAnswers[i] # e.ver
    BY <2>3, <1>9 DEF FsKept, FsNoFile
  <2>6. FsOwned(c)'
    BY <1>3, <1>4, <1>5, <1>6, <2>5 DEF FsOwned
  <2> QED BY <2>1, <2>2, <2>4, <2>6
<1>11. FsApart'
  <2>1. \A d \in FsClients \ {c} : FsOwns(d) => fsCall[d].ver # e.ver
    BY <1>4, <1>6 DEF FsInv, FsOwned, FsData, FsCallSet
  <2> QED BY <1>5, <1>8, <2>1 DEF FsInv, FsApart
<1>12. FsKept'
  BY <1>3, <1>6, <1>9 DEF FsKept, FsNoWriteLost, FsServes, FsReadyIsWhole, FsVersions
<1> QED BY <1>1, <1>3, <1>7, <1>8, <1>10, <1>11, <1>12 DEF FsInv

\* LIVE moves to a version the lock's holder read as whole.
LEMMA FsAliases ==
  ASSUME FsInv, NEW c \in FsClients, FsWriteAlias(c)
  PROVE  FsInv'
<1>1. /\ fsCall[c] \in FsCallSet /\ FsShape(c) /\ FsHolds(c) /\ FsOwned(c) /\ fsModel \in FsModels
      /\ fsCall[c].at = "write" /\ fsCall[c].op \in {"alias", "unalias"} /\ fsLock = c /\ ~fsCrashed
      /\ fsCall[c].model = fsModel
  BY DEF FsWriteAlias, FsInv, FsData, FsHolds, FsInLock
<1>2. PICK e : e = [fsCall[c] EXCEPT !.at = "unlock"]
  OBVIOUS
<1>3. /\ fsCall' = [fsCall EXCEPT ![c] = e] /\ fsModel' = [fsModel EXCEPT !.live = fsCall[c].ver]
      /\ UNCHANGED <<fsFile, fsArtifact, fsLock, fsCrashed, fsAnswers, fsTagged>>
      /\ fsAliased' = fsCall[c].ver
  BY <1>1, <1>2 DEF FsWriteAlias, FsAt
<1>4. /\ e \in FsCallSet /\ e.at = "unlock" /\ e.op = fsCall[c].op /\ e.ver = fsCall[c].ver
  BY <1>1, <1>2, FsMoveTyped DEF FsPlaces
<1>5. fsCall'[c] = e /\ \A d \in FsClients \ {c} : fsCall'[d] = fsCall[d]
  BY <1>3 DEF FsInv, FsData
<1>6. /\ fsModel' \in FsModels /\ fsModel'.next = fsModel.next /\ fsModel'.live = fsCall[c].ver
      /\ fsModel.next \in Nat \ {0} /\ fsModel'.next >= fsModel.next
  BY <1>1, <1>3 DEF FsModels, FsCallSet
<1>7. FsData'
  BY <1>3, <1>4, <1>6 DEF FsInv, FsData
<1>8. ASSUME NEW d \in FsClients \ {c}
      PROVE  FsShape(d)' /\ FsHolds(d)' /\ FsOwned(d)' /\ (FsOwns(d)' <=> FsOwns(d))
  <2>1. ~FsInLock(d) /\ FsHolds(d) /\ FsOwned(d)
    BY <1>1 DEF FsInv, FsHolds
  <2>2. fsCall[d].op = "tags" => fsFile'[fsCall[d].ver].status # "none"
    BY <1>3, <2>1 DEF FsHolds
  <2>3. FsOwns(d) => \A i \in DOMAIN fsAnswers' : fsAnswers'[i] # fsCall[d].ver
    BY <1>3, <2>1 DEF FsOwned
  <2> QED BY <1>3, <1>5, <1>6, <2>1, <2>2, <2>3, FsOther
<1>9. ~FsOwns(c)'
  BY <1>1, <1>4, <1>5 DEF FsOwns
<1>10. FsShape(c)' /\ FsHolds(c)' /\ FsOwned(c)'
  <2>1. FsShape(c)'
    BY <1>1, <1>4, <1>5, <1>9 DEF FsShape
  <2>2. FsHolds(c)'
    BY <1>1, <1>3, <1>4, <1>5 DEF FsHolds
  <2> QED BY <1>9, <2>1, <2>2 DEF FsOwned
<1>11. FsApart'
  BY <1>5, <1>8, <1>9 DEF FsInv, FsApart
<1>12. FsKept'
  BY <1>3, <1>6 DEF FsInv, FsKept, FsNoWriteLost
<1> QED BY <1>1, <1>3, <1>7, <1>8, <1>10, <1>11, <1>12 DEF FsInv

\* A write of one version's record by the holder of the lock.
LEMMA FsWritesFile ==
  ASSUME FsInv, NEW c \in FsClients, NEW v \in FsVersions, NEW f \in FsFiles, NEW e \in FsCallSet,
         FsInLock(c), fsFile' = [fsFile EXCEPT ![v] = f], fsCall' = [fsCall EXCEPT ![c] = e],
         UNCHANGED <<fsModel, fsArtifact, fsLock, fsCrashed, fsAnswers, fsTagged, fsAliased>>,
         f.status # "none", v < fsModel.next, fsFile[v].tags \subseteq f.tags,
         f.status = "READY" => fsArtifact[v] = "whole",
         \A i \in DOMAIN fsAnswers : fsAnswers[i] = v => f.status = "READY",
         \A d \in FsClients \ {c} :
            FsOwns(d) /\ fsCall[d].ver = v => f.status = fsFile[v].status,
         FsShape(c)', FsHolds(c)', FsOwned(c)', FsOwns(c)' => FsOwns(c) /\ e.ver = fsCall[c].ver
  PROVE  FsInv'
<1>1. /\ fsFile' \in [FsVersions -> FsFiles] /\ fsFile'[v] = f
      /\ \A w \in FsVersions \ {v} : fsFile'[w] = fsFile[w]
  BY DEF FsInv, FsData
<1>2. /\ fsCall' \in [FsClients -> FsCallSet] /\ fsCall'[c] = e
      /\ \A d \in FsClients \ {c} : fsCall'[d] = fsCall[d]
  BY DEF FsInv, FsData
<1>3. FsData'
  BY <1>1, <1>2 DEF FsInv, FsData
<1>4. ASSUME NEW d \in FsClients \ {c}
      PROVE  FsShape(d)' /\ FsHolds(d)' /\ FsOwned(d)' /\ (FsOwns(d)' <=> FsOwns(d))
  <2>1. ~FsInLock(d)
    BY FsAlone
  <2>2. /\ FsHolds(d) /\ FsOwned(d) /\ FsShape(d) /\ fsCall[d] \in FsCallSet
        /\ fsModel \in FsModels
    BY DEF FsInv, FsData
  <2>3. fsCall[d].op = "tags" => fsFile'[fsCall[d].ver].status # "none"
    <3>1. fsCall[d].op = "tags" => fsCall[d].ver \in FsVersions
      BY <2>2 DEF FsShape, FsCallSet, FsVersions
    <3> QED BY <1>1, <2>2, <3>1 DEF FsHolds
  <2>4. FsOwns(d) => /\ fsFile'[fsCall[d].ver].status = fsFile[fsCall[d].ver].status
                     /\ \A i \in DOMAIN fsAnswers' : fsAnswers'[i] # fsCall[d].ver
    <3>1. FsOwns(d) => fsCall[d].ver \in FsVersions
      BY <2>2 DEF FsShape, FsCallSet, FsVersions
    <3> QED BY <1>1, <2>2, <3>1 DEF FsOwned
  <2>5. fsModel' \in FsModels /\ fsModel'.next >= fsModel.next
    BY <2>2 DEF FsModels
  <2> QED BY <1>2, <2>1, <2>3, <2>4, <2>5, FsOther
<1>5. FsApart'
  BY <1>2, <1>4 DEF FsInv, FsApart
<1>6. FsKept'
  <2>1. FsKept /\ fsModel.next \in Nat /\ fsAnswers \in Seq(FsVersions)
        /\ fsTagged \subseteq FsVersions \X FsTags
    BY DEF FsInv, FsData, FsModels
  <2>2. ASSUME NEW w \in FsVersions
        PROVE  /\ fsFile'[w].status = "READY" => fsArtifact'[w] = "whole"
               /\ fsFile'[w].status = "none" => fsFile'[w].tags = {}
               /\ w >= fsModel'.next => fsFile'[w].status = "none"
    <3>1. w \in Nat /\ v \in Nat
      BY DEF FsVersions
    <3> QED BY <1>1, <2>1, <3>1 DEF FsKept
  <2>3. \A i \in DOMAIN fsAnswers' : fsFile'[fsAnswers'[i]].status = "READY"
    <3>1. \A i \in DOMAIN fsAnswers : fsAnswers[i] \in FsVersions
      BY <2>1, ElementOfSeq, LenProperties
    <3> QED BY <1>1, <2>1, <3>1 DEF FsKept
  <2>4. \A p \in fsTagged' : p[2] \in fsFile'[p[1]].tags
    BY <1>1, <2>1 DEF FsKept, FsNoWriteLost
  <2>5. FsNoWriteLost'
    BY <2>1, <2>4 DEF FsKept, FsNoWriteLost
  <2> QED BY <2>2, <2>3, <2>5 DEF FsKept
<1> QED BY <1>3, <1>4, <1>5, <1>6 DEF FsInv

\* The record of a reserved version, its last status, and a tag.
LEMMA FsRecords ==
  ASSUME FsInv, NEW c \in FsClients, FsRecord(c)
  PROVE  FsInv'
<1>1. /\ fsCall[c] \in FsCallSet /\ FsShape(c) /\ FsHolds(c) /\ FsOwned(c)
      /\ fsCall[c].at = "record" /\ fsCall[c].op = "create" /\ fsLock = c /\ ~fsCrashed
      /\ FsOwns(c) /\ FsInLock(c) /\ fsFile[fsCall[c].ver] = FsNoFile
  BY DEF FsRecord, FsInv, FsData, FsHolds, FsInLock, FsShape, FsOwns
<1>2. PICK e : e = [fsCall[c] EXCEPT !.at = "unlock"]
  OBVIOUS
<1>3. PICK f : f = [status |-> "PENDING", tags |-> {}]
  OBVIOUS
<1>4. /\ fsCall' = [fsCall EXCEPT ![c] = e] /\ fsFile' = [fsFile EXCEPT ![fsCall[c].ver] = f]
      /\ UNCHANGED <<fsModel, fsArtifact, fsLock, fsCrashed, fsAnswers, fsTagged, fsAliased>>
  BY <1>2, <1>3 DEF FsRecord, FsAt, FsHistory
<1>5. /\ e \in FsCallSet /\ e.at = "unlock" /\ e.op = "create" /\ e.ver = fsCall[c].ver
      /\ fsCall[c].ver \in FsVersions
  <2>1. fsCall[c].ver # 0
    BY <1>1 DEF FsShape
  <2>2. fsCall[c].ver \in FsVersions
    BY <1>1, <2>1 DEF FsCallSet, FsVersions
  <2> QED BY <1>1, <1>2, <2>2, FsMoveTyped DEF FsPlaces
<1>6. f \in FsFiles /\ f.status = "PENDING" /\ f.tags = {}
  BY <1>3 DEF FsFiles
<1>7. fsCall'[c] = e /\ fsFile'[fsCall[c].ver] = f
  BY <1>4, <1>5 DEF FsInv, FsData
<1>8. /\ fsCall[c].ver < fsModel.next /\ \A i \in DOMAIN fsAnswers : fsAnswers[i] # fsCall[c].ver
      /\ \A d \in FsClients \ {c} : FsOwns(d) => fsCall[d].ver # fsCall[c].ver
  BY <1>1 DEF FsOwned, FsInv, FsApart
<1>9. FsShape(c)' /\ FsHolds(c)' /\ FsOwned(c)'
  <2>1. FsShape(c)'
    BY <1>1, <1>5, <1>7 DEF FsShape
  <2>2. FsHolds(c)'
    BY <1>1, <1>4, <1>5, <1>7 DEF FsHolds
  <2>3. FsOwned(c)'
    BY <1>4, <1>5, <1>6, <1>7, <1>8 DEF FsOwned
  <2> QED BY <2>1, <2>2, <2>3
<1>10. fsFile[fsCall[c].ver].tags \subseteq f.tags
  BY <1>1 DEF FsNoFile
<1> QED BY <1>1, <1>4, <1>5, <1>6, <1>8, <1>9, <1>10, FsWritesFile

\* A new version becomes READY or FAILED under the lock, from its own process.
LEMMA FsFinishes ==
  ASSUME FsInv, NEW c \in FsClients, FsFinish(c)
  PROVE  FsInv'
<1>1. /\ fsCall[c] \in FsCallSet /\ FsShape(c) /\ FsHolds(c) /\ FsOwned(c)
      /\ fsCall[c].at = "write" /\ fsCall[c].op \in {"READY", "FAILED"} /\ fsLock = c /\ ~fsCrashed
      /\ FsOwns(c) /\ FsInLock(c)
  BY DEF FsFinish, FsInv, FsData, FsHolds, FsInLock, FsShape, FsOwns
<1>2. PICK e : e = [fsCall[c] EXCEPT !.at = "unlock"]
  OBVIOUS
<1>3. PICK f : f = [fsCall[c].file EXCEPT !.status = fsCall[c].op]
  OBVIOUS
<1>4. /\ fsCall' = [fsCall EXCEPT ![c] = e] /\ fsFile' = [fsFile EXCEPT ![fsCall[c].ver] = f]
      /\ UNCHANGED <<fsModel, fsArtifact, fsLock, fsCrashed, fsAnswers, fsTagged, fsAliased>>
  BY <1>2, <1>3 DEF FsFinish, FsAt, FsHistory
<1>5. /\ e \in FsCallSet /\ e.at = "unlock" /\ e.op = fsCall[c].op /\ e.ver = fsCall[c].ver
      /\ e.ok = fsCall[c].ok /\ fsCall[c].ver \in FsVersions
  <2>1. fsCall[c].ver # 0
    BY <1>1 DEF FsShape
  <2>2. fsCall[c].ver \in FsVersions
    BY <1>1, <2>1 DEF FsCallSet, FsVersions
  <2> QED BY <1>1, <1>2, <2>2, FsMoveTyped DEF FsPlaces
<1>6. fsCall[c].file = fsFile[fsCall[c].ver] /\ fsFile[fsCall[c].ver] \in FsFiles
  BY <1>1, <1>5 DEF FsHolds, FsVersions, FsInv, FsData
<1>7. f \in FsFiles /\ f.status = fsCall[c].op /\ f.tags = fsFile[fsCall[c].ver].tags
  BY <1>1, <1>3, <1>6 DEF FsFiles
<1>8. fsCall'[c] = e /\ fsFile'[fsCall[c].ver] = f
  BY <1>4, <1>5 DEF FsInv, FsData
<1>9. /\ fsCall[c].ver < fsModel.next /\ \A i \in DOMAIN fsAnswers : fsAnswers[i] # fsCall[c].ver
      /\ \A d \in FsClients \ {c} : FsOwns(d) => fsCall[d].ver # fsCall[c].ver
      /\ fsCall[c].op = "READY" => fsArtifact[fsCall[c].ver] = "whole"
  BY <1>1 DEF FsOwned, FsInv, FsApart
<1>k. fsCall[c].ok
  BY <1>1 DEF FsShape
<1>10. FsShape(c)' /\ FsHolds(c)' /\ FsOwned(c)'
  <2>1. FsShape(c)'
    BY <1>1, <1>5, <1>8 DEF FsShape
  <2>2. FsHolds(c)'
    BY <1>1, <1>4, <1>5, <1>8 DEF FsHolds
  <2>3. FsOwned(c)'
    BY <1>1, <1>4, <1>5, <1>7, <1>8, <1>9, <1>k DEF FsOwned
  <2> QED BY <2>1, <2>2, <2>3
<1> QED BY <1>1, <1>4, <1>5, <1>7, <1>9, <1>10, FsWritesFile

\* Tags are written on what the lock's holder read, so none is lost.
LEMMA FsTagsWritten ==
  ASSUME FsInv, NEW c \in FsClients, FsWriteTags(c)
  PROVE  FsInv'
<1>1. /\ fsCall[c] \in FsCallSet /\ FsShape(c) /\ FsHolds(c) /\ FsOwned(c)
      /\ fsCall[c].at = "write" /\ fsCall[c].op = "tags" /\ fsLock = c /\ ~fsCrashed
      /\ FsInLock(c) /\ fsCall[c].tag \in FsTags
  BY DEF FsWriteTags, FsInv, FsData, FsHolds, FsInLock, FsShape
<1>2. PICK e : e = [fsCall[c] EXCEPT !.at = "unlock"]
  OBVIOUS
<1>3. PICK f : f = [fsCall[c].file EXCEPT !.tags = fsCall[c].file.tags \cup {fsCall[c].tag}]
  OBVIOUS
<1>4. /\ fsCall' = [fsCall EXCEPT ![c] = e] /\ fsFile' = [fsFile EXCEPT ![fsCall[c].ver] = f]
      /\ UNCHANGED <<fsModel, fsArtifact, fsLock, fsCrashed, fsAnswers, fsTagged, fsAliased>>
  BY <1>2, <1>3 DEF FsWriteTags, FsAt, FsHistory
<1>5. /\ e \in FsCallSet /\ e.at = "unlock" /\ e.op = "tags" /\ e.ver = fsCall[c].ver
      /\ e.tag = fsCall[c].tag /\ fsCall[c].ver \in FsVersions
  <2>1. fsCall[c].ver # 0
    BY <1>1 DEF FsShape
  <2>2. fsCall[c].ver \in FsVersions
    BY <1>1, <2>1 DEF FsCallSet, FsVersions
  <2> QED BY <1>1, <1>2, <2>2, FsMoveTyped DEF FsPlaces
<1>6. fsCall[c].file = fsFile[fsCall[c].ver] /\ fsFile[fsCall[c].ver] \in FsFiles
  BY <1>1, <1>5 DEF FsHolds, FsVersions, FsInv, FsData
<1>7. /\ f \in FsFiles /\ f.status = fsFile[fsCall[c].ver].status
      /\ f.tags = fsFile[fsCall[c].ver].tags \cup {fsCall[c].tag}
  BY <1>1, <1>3, <1>6 DEF FsFiles
<1>8. fsCall'[c] = e /\ fsFile'[fsCall[c].ver] = f
  BY <1>4, <1>5 DEF FsInv, FsData
<1>9. /\ f.status # "none" /\ fsCall[c].ver < fsModel.next
      /\ \A i \in DOMAIN fsAnswers : fsAnswers[i] = fsCall[c].ver => f.status = "READY"
      /\ f.status = "READY" => fsArtifact[fsCall[c].ver] = "whole"
  <2>1. FsKept /\ fsModel.next \in Nat /\ fsCall[c].ver \in Nat
    BY <1>5 DEF FsInv, FsData, FsModels, FsVersions
  <2>2. f.status # "none"
    BY <1>1, <1>7 DEF FsHolds
  <2> QED BY <1>5, <1>7, <2>1, <2>2 DEF FsKept
<1>10. ~FsOwns(c)'
  BY <1>5, <1>8 DEF FsOwns
<1>11. FsShape(c)' /\ FsHolds(c)' /\ FsOwned(c)'
  <2>1. FsShape(c)'
    BY <1>1, <1>5, <1>8, <1>10 DEF FsShape
  <2>2. FsHolds(c)'
    BY <1>1, <1>4, <1>5, <1>7, <1>8, <1>9 DEF FsHolds
  <2> QED BY <1>10, <2>1, <2>2 DEF FsOwned
<1> QED BY <1>1, <1>4, <1>5, <1>7, <1>9, <1>10, <1>11, FsWritesFile

\* The lock is given back; what the call has done is answered.
LEMMA FsUnlocks ==
  ASSUME FsInv, NEW c \in FsClients, FsUnlock(c)
  PROVE  FsInv'
<1>1. /\ fsCall[c] \in FsCallSet /\ FsShape(c) /\ FsHolds(c) /\ FsOwned(c)
      /\ fsCall[c].at = "unlock" /\ fsLock = c /\ ~fsCrashed /\ FsInLock(c)
  BY DEF FsUnlock, FsInv, FsData, FsHolds, FsInLock
<1>2. PICK e \in FsCallSet :
        /\ fsCall' = [fsCall EXCEPT ![c] = e]
        /\ \/ /\ fsCall[c].op = "create" /\ fsCall[c].ok /\ e.at = "put" /\ e.op = "create"
              /\ e.ver = fsCall[c].ver /\ e.ok
           \/ ~(fsCall[c].op = "create" /\ fsCall[c].ok) /\ e = FsIdle
  <2>1. CASE fsCall[c].op = "create" /\ fsCall[c].ok
    <3>1. PICK e : e = [fsCall[c] EXCEPT !.at = "put"]
      OBVIOUS
    <3>2. e \in FsCallSet /\ e.at = "put" /\ e.op = "create" /\ e.ver = fsCall[c].ver /\ e.ok
      <4>1. e \in FsCallSet /\ e.at = "put" /\ e.op = fsCall[c].op /\ e.ver = fsCall[c].ver
            /\ e.ok = fsCall[c].ok
        BY <1>1, <3>1, FsMoveTyped DEF FsPlaces
      <4> QED BY <2>1, <4>1
    <3> QED BY <2>1, <3>1, <3>2 DEF FsUnlock
  <2>2. CASE ~(fsCall[c].op = "create" /\ fsCall[c].ok)
    BY <2>2, FsIdleTyped DEF FsUnlock
  <2> QED BY <2>1, <2>2
<1>3. /\ UNCHANGED <<fsModel, fsFile, fsArtifact, fsCrashed, fsAliased>> /\ fsLock' = FsNobody
      /\ fsCall'[c] = e /\ \A d \in FsClients \ {c} : fsCall'[d] = fsCall[d]
  BY <1>2 DEF FsUnlock, FsInv, FsData
<1>4. \/ fsTagged' = fsTagged
      \/ /\ fsTagged' = fsTagged \cup {<<fsCall[c].ver, fsCall[c].tag>>}
         /\ fsCall[c].op = "tags" /\ fsCall[c].ok
  BY DEF FsUnlock
<1>5. \/ fsAnswers' = fsAnswers
      \/ /\ fsAnswers' = Append(fsAnswers, fsCall[c].ver)
         /\ fsCall[c].op = "READY" /\ fsCall[c].ok /\ FsOwns(c)
  BY DEF FsUnlock, FsOwns
<1>v. (fsCall[c].op = "tags" \/ FsOwns(c)) => fsCall[c].ver \in FsVersions
  BY <1>1 DEF FsShape, FsCallSet, FsVersions
<1>6. /\ fsAnswers' \in Seq(FsVersions)
      /\ \A i \in DOMAIN fsAnswers' :
            \/ i \in DOMAIN fsAnswers /\ fsAnswers'[i] = fsAnswers[i]
            \/ /\ fsAnswers'[i] = fsCall[c].ver /\ i = Len(fsAnswers) + 1
               /\ fsCall[c].op = "READY" /\ fsCall[c].ok
  <2>1. fsAnswers \in Seq(FsVersions)
    BY DEF FsInv, FsData
  <2>2. CASE fsAnswers' = fsAnswers
    BY <2>1, <2>2
  <2>3. CASE fsAnswers' # fsAnswers
    <3>1. fsAnswers' = Append(fsAnswers, fsCall[c].ver) /\ fsCall[c].ver \in FsVersions
          /\ fsCall[c].op = "READY" /\ fsCall[c].ok
      BY <1>5, <1>v, <2>3
    <3>2. /\ fsAnswers' \in Seq(FsVersions) /\ Len(fsAnswers') = Len(fsAnswers) + 1
          /\ \A i \in 1 .. Len(fsAnswers) : fsAnswers'[i] = fsAnswers[i]
          /\ fsAnswers'[Len(fsAnswers) + 1] = fsCall[c].ver
      BY <2>1, <3>1, AppendProperties
    <3>3. /\ DOMAIN fsAnswers = 1 .. Len(fsAnswers) /\ DOMAIN fsAnswers' = 1 .. Len(fsAnswers')
          /\ Len(fsAnswers) \in Nat
      BY <2>1, <3>2, LenProperties
    <3> QED BY <3>1, <3>2, <3>3
  <2> QED BY <2>2, <2>3
<1>7. FsData'
  BY <1>1, <1>2, <1>3, <1>4, <1>6, <1>v DEF FsInv, FsData, FsShape
<1>8. ASSUME NEW d \in FsClients \ {c}
      PROVE  FsShape(d)' /\ FsHolds(d)' /\ FsOwned(d)' /\ (FsOwns(d)' <=> FsOwns(d))
  <2>1. ~FsInLock(d) /\ FsHolds(d) /\ FsOwned(d)
    BY <1>1 DEF FsInv, FsHolds
  <2>2. fsCall[d].op = "tags" => fsFile'[fsCall[d].ver].status # "none"
    BY <1>3, <2>1 DEF FsHolds
  <2>3. ASSUME FsOwns(d), NEW i \in DOMAIN fsAnswers' PROVE fsAnswers'[i] # fsCall[d].ver
    <3>1. FsOwns(c) => fsCall[d].ver # fsCall[c].ver
      BY <2>3 DEF FsInv, FsApart
    <3> QED BY <1>6, <2>1, <2>3, <3>1 DEF FsOwned, FsOwns
  <2>4. fsModel' \in FsModels /\ fsModel'.next >= fsModel.next
    BY <1>3 DEF FsInv, FsData, FsModels
  <2> QED BY <1>3, <2>1, <2>2, <2>3, <2>4, FsOther
<1>9. FsOwns(c)' => FsOwns(c) /\ e.ver = fsCall[c].ver /\ e.op = "create" /\ e.at = "put"
  BY <1>1, <1>2, <1>3, FsIdleTyped DEF FsOwns
<1>10. FsShape(c)' /\ FsHolds(c)' /\ FsOwned(c)'
  <2>1. FsShape(c)'
    BY <1>1, <1>2, <1>3, <1>9, FsIdleTyped DEF FsShape
  <2>2. FsHolds(c)'
    BY <1>2, <1>3, FsIdleTyped DEF FsHolds, FsInLock
  <2>3. FsOwned(c)'
    <3>1. CASE fsCall[c].op = "create" /\ fsCall[c].ok
      <4>1. fsAnswers' = fsAnswers
        BY <1>5, <3>1
      <4>2. FsOwns(c)
        BY <1>1, <3>1 DEF FsOwns
      <4> QED BY <1>1, <1>2, <1>3, <3>1, <4>1, <4>2 DEF FsOwned
    <3>2. CASE ~(fsCall[c].op = "create" /\ fsCall[c].ok)
      BY <1>2, <1>3, <1>9, <3>2, FsIdleTyped DEF FsOwned
    <3> QED BY <3>1, <3>2
  <2> QED BY <2>1, <2>2, <2>3
<1>11. FsApart'
  BY <1>3, <1>8, <1>9 DEF FsInv, FsApart
<1>12. FsKept'
  <2>1. FsKept /\ DOMAIN fsAnswers = 1 .. Len(fsAnswers) /\ DOMAIN fsAnswers' = 1 .. Len(fsAnswers')
        /\ Len(fsAnswers) \in Nat
    BY <1>6, LenProperties DEF FsInv, FsData
  <2>2. fsCall[c].op = "READY" /\ fsCall[c].ok =>
           /\ fsFile[fsCall[c].ver].status = "READY"
           /\ \A i \in DOMAIN fsAnswers : fsAnswers[i] # fsCall[c].ver
    BY <1>1 DEF FsOwned, FsOwns
  <2>3. \A i \in DOMAIN fsAnswers' : fsFile'[fsAnswers'[i]].status = "READY"
    BY <1>3, <1>6, <2>1, <2>2 DEF FsKept
  <2>4. \A i, j \in 1 .. Len(fsAnswers') : fsAnswers'[i] = fsAnswers'[j] => i = j
    <3> SUFFICES ASSUME NEW i \in DOMAIN fsAnswers', NEW j \in DOMAIN fsAnswers',
                        fsAnswers'[i] = fsAnswers'[j]
                 PROVE  i = j
      BY <2>1
    <3> QED BY <1>6, <2>1, <2>2 DEF FsKept, FsNoWriteLost
  <2>5. \A p \in fsTagged' : p[2] \in fsFile'[p[1]].tags
    <3>1. fsCall[c].op = "tags" /\ fsCall[c].ok => fsCall[c].tag \in fsFile[fsCall[c].ver].tags
      BY <1>1 DEF FsHolds
    <3> QED BY <1>3, <1>4, <2>1, <3>1 DEF FsKept, FsNoWriteLost
  <2> QED BY <1>3, <2>1, <2>3, <2>4, <2>5 DEF FsKept, FsNoWriteLost
<1>13. ~fsCrashed'
  BY <1>1, <1>3
<1> QED BY <1>7, <1>8, <1>10, <1>11, <1>12, <1>13 DEF FsInv

\* The upload, outside the lock, of a version that is the caller's alone.
LEMMA FsUploads ==
  ASSUME FsInv, NEW c \in FsClients, FsPutFile(c) \/ FsPutDone(c) \/ FsPutFails(c)
  PROVE  FsInv'
<1>1. /\ fsCall[c] \in FsCallSet /\ FsShape(c) /\ FsHolds(c) /\ FsOwned(c)
      /\ fsCall[c].at = "put" /\ fsCall[c].op = "create" /\ FsOwns(c)
      /\ UNCHANGED <<fsModel, fsFile, fsLock, fsCrashed, fsAnswers, fsTagged, fsAliased>>
  BY DEF FsPutFile, FsPutDone, FsPutFails, FsInv, FsData, FsShape, FsOwns, FsHistory
<1>2. fsCall[c].ver \in FsVersions
  <2>1. fsCall[c].ver # 0
    BY <1>1 DEF FsShape
  <2> QED BY <1>1, <2>1 DEF FsCallSet, FsVersions
<1>3. PICK e \in FsCallSet, a \in {"absent", "partial", "whole"} :
        /\ fsCall' = [fsCall EXCEPT ![c] = e] /\ fsArtifact' = [fsArtifact EXCEPT ![fsCall[c].ver] = a]
        /\ e.ver = fsCall[c].ver /\ e.ok
        /\ \/ e.at = "put" /\ e.op = "create"
           \/ e.at = "relock" /\ e.op = "READY" /\ a = "whole"
           \/ e.at = "relock" /\ e.op = "FAILED"
  <2>0. /\ fsCall = [fsCall EXCEPT ![c] = fsCall[c]]
        /\ fsArtifact = [fsArtifact EXCEPT ![fsCall[c].ver] = fsArtifact[fsCall[c].ver]]
        /\ fsArtifact[fsCall[c].ver] \in {"absent", "partial", "whole"} /\ fsCall[c].ok
    BY <1>1, <1>2 DEF FsInv, FsData, FsShape
  <2>1. CASE FsPutFile(c)
    BY <1>1, <2>0, <2>1 DEF FsPutFile
  <2>3. CASE FsPutDone(c)
    <3>1. PICK e : e = [fsCall[c] EXCEPT !.at = "relock", !.op = "READY"]
      OBVIOUS
    <3>2. fsCall' = [fsCall EXCEPT ![c] = e]
          /\ fsArtifact' = [fsArtifact EXCEPT ![fsCall[c].ver] = "whole"]
      BY <2>3, <3>1 DEF FsPutDone
    <3>3. e \in FsCallSet /\ e.at = "relock" /\ e.op = "READY" /\ e.ver = fsCall[c].ver
          /\ e.ok = fsCall[c].ok
      BY <1>1, <3>1 DEF FsCallSet, FsOps, FsPlaces
    <3> QED BY <2>0, <3>2, <3>3
  <2>4. CASE FsPutFails(c)
    <3>1. PICK e : e = [fsCall[c] EXCEPT !.at = "relock", !.op = "FAILED"]
      OBVIOUS
    <3>2. fsCall' = [fsCall EXCEPT ![c] = e] /\ UNCHANGED fsArtifact
      BY <2>4, <3>1 DEF FsPutFails, FsAfterFailedPut
    <3>3. e \in FsCallSet /\ e.at = "relock" /\ e.op = "FAILED" /\ e.ver = fsCall[c].ver
          /\ e.ok = fsCall[c].ok
      BY <1>1, <3>1 DEF FsCallSet, FsOps, FsPlaces
    <3> QED BY <2>0, <3>2, <3>3
  <2> QED BY <2>1, <2>3, <2>4
<1>4. /\ fsCall'[c] = e /\ \A d \in FsClients \ {c} : fsCall'[d] = fsCall[d]
      /\ \A v \in FsVersions : v # fsCall[c].ver => fsArtifact'[v] = fsArtifact[v]
      /\ fsArtifact'[fsCall[c].ver] = a
  BY <1>2, <1>3 DEF FsInv, FsData
<1>5. FsData'
  BY <1>1, <1>2, <1>3 DEF FsInv, FsData
<1>6. /\ fsFile[fsCall[c].ver].status = "PENDING"
      /\ \A d \in FsClients \ {c} : FsOwns(d) => fsCall[d].ver # fsCall[c].ver
  BY <1>1 DEF FsOwned, FsInv, FsApart
<1>7. ASSUME NEW d \in FsClients \ {c}
      PROVE  FsShape(d)' /\ FsHolds(d)' /\ FsOwned(d)' /\ (FsOwns(d)' <=> FsOwns(d))
  <2>1. FsHolds(d) /\ FsOwned(d) /\ FsShape(d) /\ fsCall[d] \in FsCallSet
    BY DEF FsInv, FsData
  <2>2. fsModel' \in FsModels /\ fsModel'.next >= fsModel.next
    BY <1>1 DEF FsInv, FsData, FsModels
  <2>3. FsInLock(d) => fsLock' = d /\ ~fsCrashed' /\ UNCHANGED <<fsModel, fsFile>>
    BY <1>1, <2>1 DEF FsHolds
  <2>4. fsCall[d].op = "tags" => fsFile'[fsCall[d].ver].status # "none"
    BY <1>1, <2>1 DEF FsHolds
  <2>5. FsOwns(d) =>
            /\ fsFile'[fsCall[d].ver].status = fsFile[fsCall[d].ver].status
            /\ fsArtifact'[fsCall[d].ver] = fsArtifact[fsCall[d].ver]
            /\ \A i \in DOMAIN fsAnswers' : fsAnswers'[i] # fsCall[d].ver
    <3>1. FsOwns(d) => fsCall[d].ver \in FsVersions
      BY <2>1 DEF FsShape, FsCallSet, FsVersions
    <3> QED BY <1>1, <1>4, <1>6, <2>1, <3>1 DEF FsOwned
  <2> QED BY <1>4, <2>2, <2>3, <2>4, <2>5, FsOther
<1>8. FsOwns(c)' /\ FsShape(c)' /\ FsHolds(c)' /\ FsOwned(c)'
  <2>1. FsOwns(c)'
    BY <1>3, <1>4 DEF FsOwns
  <2>2. FsShape(c)'
    BY <1>2, <1>3, <1>4 DEF FsShape, FsVersions
  <2>3. FsHolds(c)'
    BY <1>3, <1>4 DEF FsHolds, FsInLock
  <2>4. FsOwned(c)'
    BY <1>1, <1>3, <1>4, <1>6 DEF FsOwned
  <2> QED BY <2>1, <2>2, <2>3, <2>4
<1>9. FsApart'
  BY <1>1, <1>3, <1>4, <1>7 DEF FsInv, FsApart
<1>10. FsKept'
  BY <1>1, <1>4, <1>6 DEF FsInv, FsKept, FsNoWriteLost
<1>11. fsCrashed' => fsLock' # FsNobody
  BY <1>1 DEF FsInv
<1> QED BY <1>5, <1>7, <1>8, <1>9, <1>10, <1>11 DEF FsInv

\* However processes that share the directory interleave, crash and time out: what can be
\* downloaded is whole, and no answered version, tag or alias is lost.
THEOREM FsAlwaysKept == FsSpec => []FsNothingLost
<1>1. FsInit => FsInv
  <2> SUFFICES ASSUME FsInit PROVE FsInv
    OBVIOUS
  <2>1. FsNoFile \in FsFiles /\ [next |-> 1, live |-> 0] \in FsModels /\ FsNoFile.status = "none"
        /\ FsNoFile.tags = {} /\ [next |-> 1, live |-> 0].live = 0
    BY FsAssumption DEF FsNoFile, FsFiles, FsModels
  <2>2. fsAnswers = << >> /\ DOMAIN fsAnswers = {} /\ Len(fsAnswers) = 0
    BY DEF FsInit
  <2>3. FsData
    <3>1. fsModel \in FsModels /\ fsFile \in [FsVersions -> FsFiles]
          /\ fsCall \in [FsClients -> FsCallSet]
      BY <2>1, FsIdleTyped DEF FsInit
    <3>2. ~fsCrashed /\ fsCrashed \in BOOLEAN
      BY DEF FsInit
    <3> QED BY <2>2, <3>1, <3>2 DEF FsInit, FsData
  <2>4. \A c \in FsClients : ~FsOwns(c) /\ FsShape(c) /\ FsHolds(c)
    BY FsIdleTyped DEF FsInit, FsOwns, FsShape, FsHolds, FsInLock
  <2>5. FsKept
    BY <2>1, <2>2 DEF FsInit, FsKept, FsNoWriteLost
  <2> QED BY <2>3, <2>4, <2>5 DEF FsInit, FsInv, FsApart, FsOwned
<1>2. FsInv /\ [FsNext]_fsVars => FsInv'
  <2> SUFFICES ASSUME FsInv, [FsNext]_fsVars PROVE FsInv'
    OBVIOUS
  <2>1. CASE UNCHANGED fsVars
    BY <2>1 DEF fsVars, FsInv, FsData, FsApart, FsKept, FsNoWriteLost, FsShape, FsHolds, FsInLock,
       FsOwned, FsOwns
  <2>2. CASE FsRemoveLock
    <3>1. /\ UNCHANGED <<fsModel, fsFile, fsArtifact, fsCall, fsAnswers, fsTagged, fsAliased>>
          /\ fsCrashed /\ fsCrashed' \in BOOLEAN /\ ~fsCrashed'
      BY <2>2 DEF FsRemoveLock, FsHistory
    <3>2. \A c \in FsClients : ~FsInLock(c)
      BY <3>1 DEF FsInv, FsHolds
    <3>3. \A c \in FsClients : FsShape(c)' /\ FsHolds(c)' /\ FsOwned(c)'
      BY <3>1, <3>2 DEF FsInv, FsShape, FsHolds, FsInLock, FsOwned, FsOwns
    <3>4. FsData' /\ FsApart' /\ FsKept'
      BY <3>1 DEF FsInv, FsData, FsApart, FsKept, FsNoWriteLost, FsOwns
    <3> QED BY <3>1, <3>3, <3>4 DEF FsInv
  <2>3. ASSUME NEW c \in FsClients, FsStep(c)
        PROVE  FsInv'
    BY <2>3, FsArrives, FsLeaves, FsEnters, FsReads, FsWriteRefused, FsReserves, FsAliases,
       FsRecords, FsFinishes, FsTagsWritten, FsUnlocks, FsUploads DEF FsStep
  <2> QED BY <2>1, <2>2, <2>3 DEF FsNext
<1>3. FsInv => FsNothingLost
  BY DEF FsInv, FsKept, FsNothingLost, FsReadyIsWhole, FsServes
<1> QED BY <1>1, <1>2, <1>3, PTL DEF FsSpec

-----------------------------------------------------------------------------
(* Onboarding.                                                             *)

ObPlaces == {"new", "adopt", "insert", "publish", "alias", "link", "drifted", "commit", "done",
             "rejected"}
ObRequestSet == [asks : ObAsks, at : ObPlaces, ver : Nat,
                 why : {"none", "conflict", "invalid", "failure"}]

ObData ==
    /\ obReq \in [ObRequests -> ObRequestSet]
    /\ obRows \in [ObModels -> [by : ObRequests \cup {ObNone}, committed : BOOLEAN]]
    /\ obVersions \in Seq(ObRequests \cup {ObNone})

ObLeftNothing(r) == (\A v \in DOMAIN obVersions : obVersions[v] # r) /\ r \notin obMovedBy

\* An onboarding holds the row of its model before it touches the registry, so it cannot conflict
\* after that; and before that it has left nothing.
ObFits(r) ==
    /\ ObKind(r) = "onboard" => obReq[r].at # "adopt"
    /\ obReq[r].at \in {"publish", "alias", "link", "drifted", "commit"} =>
          obRows[ObModel(r)].by = r
    /\ obReq[r].why # "none" => obReq[r].at = "rejected"
    /\ ObKind(r) = "onboard" /\ obReq[r].at \in {"new", "insert", "publish"} => ObLeftNothing(r)
    /\ ObKind(r) = "onboard" /\ obReq[r].why \in {"conflict", "invalid"} => ObLeftNothing(r)

ObInv == ObData /\ \A r \in ObRequests : ObFits(r)

\* What becomes of a request in one field.
LEMMA ObMoveTyped ==
  ASSUME NEW q \in ObRequestSet, NEW place \in ObPlaces
  PROVE  /\ [q EXCEPT !.at = place] \in ObRequestSet
         /\ [q EXCEPT !.at = place].asks = q.asks /\ [q EXCEPT !.at = place].ver = q.ver
         /\ [q EXCEPT !.at = place].at = place /\ [q EXCEPT !.at = place].why = q.why
BY DEF ObRequestSet

\* A step of one request is none of the others' business: it takes no row of theirs and adds
\* nothing to the registry in their name.
LEMMA ObOthers ==
  ASSUME ObInv, NEW r \in ObRequests, NEW q \in ObRequestSet,
         obReq' = [obReq EXCEPT ![r] = q], q.asks = obReq[r].asks,
         obRows' \in [ObModels -> [by : ObRequests \cup {ObNone}, committed : BOOLEAN]],
         \A m \in ObModels : obRows[m].by \in ObRequests \ {r} => obRows'[m].by = obRows[m].by,
         obVersions' = obVersions \/ obVersions' = Append(obVersions, r),
         obMovedBy' = obMovedBy \/ obMovedBy' = obMovedBy \cup {r},
         ObFits(r)'
  PROVE  ObInv'
<1>1. /\ obReq' \in [ObRequests -> ObRequestSet] /\ obReq'[r] = q
      /\ \A s \in ObRequests \ {r} : obReq'[s] = obReq[s]
  BY DEF ObInv, ObData
<1>2. /\ obVersions' \in Seq(ObRequests \cup {ObNone})
      /\ \A v \in DOMAIN obVersions' :
            obVersions'[v] = r \/ (v \in DOMAIN obVersions /\ obVersions'[v] = obVersions[v])
  <2>1. obVersions \in Seq(ObRequests \cup {ObNone}) /\ r \in ObRequests \cup {ObNone}
    BY DEF ObInv, ObData
  <2>2. CASE obVersions' = obVersions
    BY <2>1, <2>2
  <2>3. CASE obVersions' = Append(obVersions, r)
    <3>1. /\ obVersions' \in Seq(ObRequests \cup {ObNone})
          /\ Len(obVersions') = Len(obVersions) + 1
          /\ \A v \in 1 .. Len(obVersions) : obVersions'[v] = obVersions[v]
          /\ obVersions'[Len(obVersions) + 1] = r
      BY <2>1, <2>3, AppendProperties
    <3>2. /\ DOMAIN obVersions = 1 .. Len(obVersions) /\ Len(obVersions) \in Nat
          /\ DOMAIN obVersions' = 1 .. Len(obVersions')
      BY <2>1, <3>1, LenProperties
    <3> QED BY <3>1, <3>2
  <2> QED BY <2>2, <2>3
<1>3. ObData'
  BY <1>1, <1>2 DEF ObData
<1>4. ASSUME NEW s \in ObRequests \ {r}
      PROVE  ObFits(s)'
  <2>1. ObLeftNothing(s) => ObLeftNothing(s)'
    BY <1>2 DEF ObLeftNothing
  <2>2. ObFits(s) /\ obReq'[s] = obReq[s]
    BY <1>1 DEF ObInv
  <2>3. ObModel(s) \in ObModels /\ ObModel(s)' = ObModel(s) /\ ObKind(s)' = ObKind(s)
    BY <1>1 DEF ObInv, ObData, ObModel, ObKind, ObRequestSet, ObAsks
  <2>4. obRows[ObModel(s)].by = s => obRows'[ObModel(s)].by = s
    BY <2>3
  <2> QED BY <2>1, <2>2, <2>3, <2>4 DEF ObFits
<1> QED BY <1>3, <1>4 DEF ObInv

\* A request that raises takes its rows with it.
LEMMA ObEnds ==
  ASSUME ObInv, NEW r \in ObRequests, NEW why \in {"conflict", "invalid", "failure"},
         ObEnd(r, why), UNCHANGED ObRegistry,
         why # "failure" /\ ObKind(r) = "onboard" => ObLeftNothing(r)
  PROVE  ObInv'
<1>1. PICK q : q = [obReq[r] EXCEPT !.at = "rejected", !.why = why]
  OBVIOUS
<1>2. obReq[r] \in ObRequestSet /\ ObFits(r) /\ obReq' = [obReq EXCEPT ![r] = q]
  BY <1>1 DEF ObInv, ObData, ObEnd
<1>3. q \in ObRequestSet /\ q.asks = obReq[r].asks /\ q.at = "rejected" /\ q.why = why
  BY <1>1, <1>2 DEF ObRequestSet, ObPlaces
<1>4. obReq'[r] = q
  BY <1>2 DEF ObInv, ObData
<1>5. UNCHANGED <<obVersions, obMovedBy>>
  BY DEF ObRegistry
<1>6. ObFits(r)'
  BY <1>3, <1>4, <1>5 DEF ObFits, ObKind, ObLeftNothing
<1>7. /\ obRows' \in [ObModels -> [by : ObRequests \cup {ObNone}, committed : BOOLEAN]]
      /\ \A m \in ObModels : obRows[m].by \in ObRequests \ {r} => obRows'[m].by = obRows[m].by
  <2>1. [by |-> ObNone, committed |-> FALSE] \in [by : ObRequests \cup {ObNone}, committed : BOOLEAN]
    OBVIOUS
  <2> QED BY <2>1 DEF ObEnd, ObInv, ObData
<1> QED BY <1>2, <1>3, <1>5, <1>6, <1>7, ObOthers

\* A request goes on from one place to the next, and may touch the registry in its own name.
LEMMA ObMoves ==
  ASSUME ObInv, NEW r \in ObRequests, NEW q \in ObRequestSet,
         obReq' = [obReq EXCEPT ![r] = q], q.asks = obReq[r].asks, q.why = obReq[r].why,
         q.at # "rejected", obReq[r].at # "rejected",
         obRows' \in [ObModels -> [by : ObRequests \cup {ObNone}, committed : BOOLEAN]],
         \A m \in ObModels : obRows[m].by # ObNone => obRows'[m].by = obRows[m].by,
         q.at \in {"publish", "alias", "link", "drifted", "commit"} => obRows'[ObModel(r)].by = r,
         ObKind(r) = "onboard" => q.at # "adopt",
         ObKind(r) = "onboard" /\ q.at \in {"new", "insert", "publish"} =>
             obReq[r].at \in {"new", "insert", "publish"} /\ UNCHANGED <<obVersions, obMovedBy>>,
         obVersions' = obVersions \/ obVersions' = Append(obVersions, r),
         obMovedBy' = obMovedBy \/ obMovedBy' = obMovedBy \cup {r}
  PROVE  ObInv'
<1>1. obReq'[r] = q /\ ObKind(r)' = ObKind(r) /\ ObModel(r)' = ObModel(r) /\ ObFits(r)
  BY DEF ObInv, ObData, ObKind, ObModel
<1>2. obReq[r].why = "none"
  BY <1>1 DEF ObFits, ObInv, ObData, ObRequestSet
<1>3. ObFits(r)'
  BY <1>1, <1>2 DEF ObFits, ObLeftNothing
<1>4. \A m \in ObModels : obRows[m].by \in ObRequests \ {r} => obRows'[m].by = obRows[m].by
  BY ObAssumption
<1> QED BY <1>3, <1>4, ObOthers

\* The checks before anything is written, and the row.
LEMMA ObStarts ==
  ASSUME ObInv, NEW r \in ObRequests, ObStart(r) \/ ObInsert(r)
  PROVE  ObInv'
<1>0. /\ obReq[r] \in ObRequestSet /\ ObFits(r) /\ obReq[r].at \in {"new", "insert"}
      /\ UNCHANGED ObRegistry /\ UNCHANGED <<obVersions, obMovedBy>>
      /\ obRows \in [ObModels -> [by : ObRequests \cup {ObNone}, committed : BOOLEAN]]
      /\ ObModel(r) \in ObModels
  BY DEF ObStart, ObInsert, ObInv, ObData, ObRegistry, ObModel, ObRequestSet, ObAsks
<1>1. ASSUME NEW why \in {"conflict", "invalid"}, ObEnd(r, why)
      PROVE  ObInv'
  BY <1>0, <1>1, ObEnds DEF ObFits
<1>2. CASE ObStart(r) /\ ObAt(r, IF ObKind(r) = "onboard" THEN "insert" ELSE "adopt")
           /\ UNCHANGED obRows
  <2>1. PICK place \in {"insert", "adopt"} :
           /\ place = IF ObKind(r) = "onboard" THEN "insert" ELSE "adopt"
           /\ obReq' = [obReq EXCEPT ![r].at = place]
    BY <1>2 DEF ObAt
  <2>2. PICK q : q = [obReq[r] EXCEPT !.at = place]
    OBVIOUS
  <2>3. q \in ObRequestSet /\ q.asks = obReq[r].asks /\ q.at = place /\ q.why = obReq[r].why
    BY <1>0, <2>1, <2>2 DEF ObRequestSet, ObPlaces
  <2>4. obReq' = [obReq EXCEPT ![r] = q]
    BY <2>1, <2>2
  <2> QED BY <1>0, <1>2, <2>1, <2>3, <2>4, ObMoves
<1>3. CASE /\ obReq[r].at = "insert" /\ ObInsertFinds(ObModel(r)) = "free"
           /\ obRows' = [obRows EXCEPT ![ObModel(r)] = [by |-> r, committed |-> FALSE]]
           /\ ObAt(r, IF ObKind(r) = "onboard" THEN "publish" ELSE "link")
  <2>1. PICK place \in {"publish", "link"} :
           /\ place = IF ObKind(r) = "onboard" THEN "publish" ELSE "link"
           /\ obReq' = [obReq EXCEPT ![r].at = place]
    BY <1>3 DEF ObAt
  <2>2. PICK q : q = [obReq[r] EXCEPT !.at = place]
    OBVIOUS
  <2>3. q \in ObRequestSet /\ q.asks = obReq[r].asks /\ q.at = place /\ q.why = obReq[r].why
    BY <1>0, <2>1, <2>2 DEF ObRequestSet, ObPlaces
  <2>4. obReq' = [obReq EXCEPT ![r] = q]
    BY <2>1, <2>2
  <2>5. obRows[ObModel(r)].by = ObNone
    BY <1>3 DEF ObInsertFinds
  <2>6. PICK row : row = [by |-> r, committed |-> FALSE]
    OBVIOUS
  <2>7. row \in [by : ObRequests \cup {ObNone}, committed : BOOLEAN] /\ row.by = r
    BY <2>6
  <2>8. /\ obRows' \in [ObModels -> [by : ObRequests \cup {ObNone}, committed : BOOLEAN]]
        /\ obRows'[ObModel(r)].by = r
        /\ \A m \in ObModels : obRows[m].by # ObNone => obRows'[m].by = obRows[m].by
    BY <1>0, <1>3, <2>5, <2>6, <2>7
  <2> QED BY <1>0, <2>1, <2>3, <2>4, <2>8, ObMoves
<1> QED BY <1>1, <1>2, <1>3 DEF ObStart, ObInsert

\* attach adopts a version; a new version is published; LIVE moves; the data is linked.
LEMMA ObTouches ==
  ASSUME ObInv, NEW r \in ObRequests,
         ObAdopt(r) \/ ObPublish(r) \/ ObSetAlias(r) \/ ObLink(r) \/ ObDrifted(r)
  PROVE  ObInv'
<1>0. /\ obReq[r] \in ObRequestSet /\ ObFits(r) /\ UNCHANGED obRows
      /\ obReq[r].at \in {"adopt", "publish", "alias", "link", "drifted"}
      /\ obRows \in [ObModels -> [by : ObRequests \cup {ObNone}, committed : BOOLEAN]]
      /\ obVersions \in Seq(ObRequests \cup {ObNone})
  BY DEF ObAdopt, ObPublish, ObSetAlias, ObLink, ObDrifted, ObInv, ObData
<1>1. CASE ObAdopt(r)
  <2>1. PICK v \in DOMAIN obVersions : obReq' = [obReq EXCEPT ![r].at = "insert", ![r].ver = v]
    BY <1>1 DEF ObAdopt
  <2>2. PICK q : q = [obReq[r] EXCEPT !.at = "insert", !.ver = v]
    OBVIOUS
  <2>3. v \in Nat
    BY <1>0, LenProperties
  <2>4. q \in ObRequestSet /\ q.asks = obReq[r].asks /\ q.at = "insert" /\ q.why = obReq[r].why
    BY <1>0, <2>2, <2>3 DEF ObRequestSet, ObPlaces
  <2>5. obReq' = [obReq EXCEPT ![r] = q]
    BY <2>1, <2>2
  <2>6. /\ obVersions' = obVersions /\ obReq[r].at = "adopt"
        /\ obMovedBy' = obMovedBy \/ obMovedBy' = obMovedBy \cup {r}
    BY <1>1 DEF ObAdopt
  <2>7. ObKind(r) # "onboard"
    BY <1>0, <2>6 DEF ObFits
  <2> QED BY <1>0, <2>4, <2>5, <2>6, <2>7, ObMoves
<1>2. CASE ObPublish(r)
  <2>1. PICK q : q = [obReq[r] EXCEPT !.at = "alias", !.ver = Len(obVersions) + 1]
    OBVIOUS
  <2>2. Len(obVersions) + 1 \in Nat
    BY <1>0, LenProperties
  <2>3. q \in ObRequestSet /\ q.asks = obReq[r].asks /\ q.at = "alias" /\ q.why = obReq[r].why
    BY <1>0, <2>1, <2>2 DEF ObRequestSet, ObPlaces
  <2>4. /\ obReq' = [obReq EXCEPT ![r] = q] /\ obReq[r].at = "publish"
        /\ obVersions' = Append(obVersions, r) /\ UNCHANGED obMovedBy
    BY <1>2, <2>1 DEF ObPublish
  <2>5. obRows'[ObModel(r)].by = r
    BY <1>0, <2>4 DEF ObFits
  <2> QED BY <1>0, <2>3, <2>4, <2>5, ObMoves
<1>3. CASE ObSetAlias(r) \/ ObLink(r) \/ ObDrifted(r)
  <2>1. PICK place \in {"link", "drifted", "commit"} : obReq' = [obReq EXCEPT ![r].at = place]
    BY <1>3 DEF ObSetAlias, ObLink, ObDrifted, ObAt
  <2>2. PICK q : q = [obReq[r] EXCEPT !.at = place]
    OBVIOUS
  <2>3. q \in ObRequestSet /\ q.asks = obReq[r].asks /\ q.at = place /\ q.why = obReq[r].why
    BY <1>0, <2>1, <2>2 DEF ObRequestSet, ObPlaces
  <2>4. obReq' = [obReq EXCEPT ![r] = q]
    BY <2>1, <2>2
  <2>5. /\ UNCHANGED obVersions /\ obReq[r].at \in {"alias", "link", "drifted"}
        /\ obMovedBy' = obMovedBy \/ obMovedBy' = obMovedBy \cup {r}
    BY <1>3 DEF ObSetAlias, ObLink, ObDrifted, ObRegistry
  <2>6. obRows'[ObModel(r)].by = r
    BY <1>0, <2>5 DEF ObFits
  <2> QED BY <1>0, <2>1, <2>3, <2>4, <2>5, <2>6, ObMoves
<1> QED BY <1>1, <1>2, <1>3

\* The commit finds the row it inserted; anything else is a failure, which may leave what it told
\* the registry.
LEMMA ObLast ==
  ASSUME ObInv, NEW r \in ObRequests, ObCommit(r) \/ ObFails(r)
  PROVE  ObInv'
<1>0. /\ obReq[r] \in ObRequestSet /\ ObFits(r) /\ UNCHANGED ObRegistry
      /\ UNCHANGED <<obVersions, obMovedBy>>
      /\ obRows \in [ObModels -> [by : ObRequests \cup {ObNone}, committed : BOOLEAN]]
      /\ ObModel(r) \in ObModels
  BY DEF ObCommit, ObFails, ObInv, ObData, ObRegistry, ObModel, ObRequestSet, ObAsks
<1>1. CASE ObFails(r)
  <2>1. ObEnd(r, "failure")
    BY <1>1 DEF ObFails
  <2> QED BY <1>0, <2>1, ObEnds
<1>2. CASE ObCommit(r)
  <2>1. obReq[r].at = "commit" /\ obRows[ObModel(r)].by = r
    BY <1>0, <1>2 DEF ObCommit, ObFits
  <2>2. obRows' = [obRows EXCEPT ![ObModel(r)].committed = TRUE]
        /\ obReq' = [obReq EXCEPT ![r].at = "done"]
    BY <1>2, <2>1 DEF ObCommit, ObAt
  <2>3. PICK q : q = [obReq[r] EXCEPT !.at = "done"]
    OBVIOUS
  <2>4. q \in ObRequestSet /\ q.asks = obReq[r].asks /\ q.at = "done" /\ q.why = obReq[r].why
    BY <1>0, <2>3, ObMoveTyped DEF ObPlaces
  <2>5. obReq' = [obReq EXCEPT ![r] = q]
    BY <2>2, <2>3
  <2>6. /\ obRows' \in [ObModels -> [by : ObRequests \cup {ObNone}, committed : BOOLEAN]]
        /\ \A m \in ObModels : obRows'[m].by = obRows[m].by
    BY <1>0, <2>2
  <2> QED BY <1>0, <2>1, <2>4, <2>5, <2>6, ObMoves
<1> QED BY <1>1, <1>2

\* However requests for the same ids interleave and fail: a rejected onboarding has published and
\* moved nothing.
THEOREM ObAlwaysClean == ObSpec => []ObRejectedLeavesNothing
<1>1. ObInit => ObInv
  <2> SUFFICES ASSUME ObInit PROVE ObInv
    OBVIOUS
  <2>1. PICK asks \in [ObRequests -> ObAsks] :
           obReq = [r \in ObRequests |-> [asks |-> asks[r], at |-> "new", ver |-> 0, why |-> "none"]]
    BY DEF ObInit
  <2>2. ASSUME NEW r \in ObRequests
        PROVE  /\ obReq[r] \in ObRequestSet /\ obReq[r].at = "new" /\ obReq[r].why = "none"
    BY <2>1 DEF ObRequestSet, ObPlaces
  <2>3. obReq \in [ObRequests -> ObRequestSet]
    BY <2>1, <2>2
  <2>4. [by |-> ObNone, committed |-> FALSE] \in [by : ObRequests \cup {ObNone}, committed : BOOLEAN]
    OBVIOUS
  <2>5. obRows \in [ObModels -> [by : ObRequests \cup {ObNone}, committed : BOOLEAN]]
    BY <2>4 DEF ObInit
  <2>6. obVersions = <<ObNone>> /\ obMovedBy = {} /\ DOMAIN obVersions = {1} /\ obVersions[1] = ObNone
    BY DEF ObInit
  <2>7. \A r \in ObRequests : ObLeftNothing(r)
    BY <2>6, ObAssumption DEF ObLeftNothing
  <2> QED BY <2>2, <2>3, <2>5, <2>6, <2>7 DEF ObInv, ObData, ObFits
<1>2. ObInv /\ [ObNext]_obVars => ObInv'
  <2> SUFFICES ASSUME ObInv, [ObNext]_obVars PROVE ObInv'
    OBVIOUS
  <2>1. CASE UNCHANGED obVars
    BY <2>1 DEF obVars, ObInv, ObData, ObFits, ObKind, ObModel, ObLeftNothing
  <2> QED BY <2>1, ObStarts, ObTouches, ObLast DEF ObNext, ObStep
<1>3. ObInv => ObRejectedLeavesNothing
  BY DEF ObInv, ObFits, ObLeftNothing, ObRejectedLeavesNothing
<1> QED BY <1>1, <1>2, <1>3, PTL DEF ObSpec
-----------------------------------------------------------------------------
(* The cloud registries.                                                   *)

CnPlaces == {"idle", "look", "upload", "group", "enter", "fluent", "ensure", "register",
             "current", "remove", "add", "read", "write", "merge"}
CnCallSet == [op : {"none", "create", "download", "alias", "unalias", "tags"}, at : CnPlaces,
              name : CnNames \cup {"none"}, ver : Nat, tag : CnTags \cup {"none"},
              exists : BOOLEAN, current : Nat, seen : SUBSET CnTags, gen : Nat, tries : Nat,
              saved : {"unset", "ours"}]
CnVersions == [by : CnNames, tags : SUBSET CnTags, gen : Nat, raced : BOOLEAN]

CnData ==
  /\ cnBackend \in {"vertex", "sagemaker", "mlflow"} /\ cnOwner \in CnNames \cup {"none"}
  /\ cnVers \in Seq(CnVersions) /\ cnLive \in Nat /\ cnUri \in {"unset", "ours"}
  /\ cnCall \in [CnWriters -> CnCallSet]
  /\ \A p \in cnTagged : p[1] \in DOMAIN cnVers
  /\ cnOwner = "none" => cnVers = <<>>

\* What a call has found out is still so, or will be seen not to be: the name
\* it creates a version of is the owner's, the version it tags is there, and
\* the tags it read are the file's unless the generation has moved on.
CnCallFits(k) ==
  /\ k.at \in {"look", "group", "upload", "ensure", "register"} => k.op = "create"
  /\ k.op = "create" => k.name \in CnNames
  /\ k.at = "remove" => k.op \in {"alias", "unalias"}
  /\ k.at = "upload" => /\ cnBackend = "sagemaker" => cnOwner = k.name
                        /\ k.exists => cnOwner = k.name
  /\ k.at \in {"enter", "fluent", "ensure", "register"} => cnBackend = "mlflow"
  /\ k.at \in {"current", "add"} => k.op = "alias"
  /\ k.at = "merge" => k.op = "tags" /\ cnBackend # "vertex"
  /\ k.at \in {"read", "write"} => k.op = "tags" /\ cnBackend = "vertex"
  /\ k.op \in {"alias", "tags"} => k.ver \in DOMAIN cnVers
  /\ k.op = "tags" => k.tag \in CnTags
  /\ k.at = "write" => /\ k.gen <= cnVers[k.ver].gen
                       /\ k.gen = cnVers[k.ver].gen => k.seen = cnVers[k.ver].tags

\* Without an overlap one call at most is inside _fluent_uris.
CnAlone ==
  ~cnOverlap =>
    \A c \in CnWriters : cnCall[c].at = "fluent" =>
      /\ cnCall[c].saved = "unset"
      /\ \A d \in CnWriters : cnCall[d].at = "fluent" => d = c

\* LIVE is gone only between the two halves of a move.
CnMoving(k) == k.op = "alias" /\ k.at = "add" /\ k.current # 0
CnLiveMoving == cnLive = 0 => cnCut \/ \E c \in CnWriters : CnMoving(cnCall[c])

CnInv ==
  /\ CnData /\ \A c \in CnWriters : CnCallFits(cnCall[c])
  /\ CnAlone /\ CnLiveMoving /\ CnTagsKept /\ CnOwnNames /\ CnUrisRestored

\* CnIdle, field by field.
LEMMA CnIdleTyped ==
  /\ CnIdle \in CnCallSet /\ CnIdle.at = "idle" /\ CnIdle.op = "none" /\ CnIdle.saved = "unset"
  /\ CnIdle.current = 0 /\ CnIdle.tries = 0 /\ CnIdle.seen = {} /\ CnIdle.tag = "none"
  /\ CnIdle.exists = FALSE /\ CnIdle.gen = 0 /\ CnIdle.name = "none" /\ CnIdle.ver = 0
  BY DEF CnIdle, CnCallSet, CnPlaces

\* Nothing is to be kept of an idle call.
LEMMA CnIdleFits == CnCallFits(CnIdle) /\ CnCallFits(CnIdle)' /\ ~CnMoving(CnIdle)
  BY CnIdleTyped DEF CnCallFits, CnMoving

\* No writer takes a version away, gives a version's tags file an older
\* generation, or takes the identifier from its owner: what the others have
\* found out stays true.
CnGrows ==
  /\ cnBackend' = cnBackend /\ DOMAIN cnVers \subseteq DOMAIN cnVers'
  /\ \A v \in DOMAIN cnVers :
       \/ cnVers'[v].gen = cnVers[v].gen /\ cnVers'[v].tags = cnVers[v].tags
       \/ cnVers'[v].gen = cnVers[v].gen + 1
       \/ cnBackend # "vertex"
  /\ cnOwner' = cnOwner \/ cnOwner = "none"

\* What a call has found out survives another writer's step.
LEMMA CnSurvives ==
  ASSUME CnData, CnGrows, NEW k \in CnCallSet, CnCallFits(k)
  PROVE  CnCallFits(k)'
<1>1. k.at = "upload" => /\ cnBackend' = "sagemaker" => cnOwner' = k.name
                         /\ k.exists => cnOwner' = k.name
  <2>1. k.at = "upload" => k.name \in CnNames /\ k.name # "none"
    BY CnAssumption DEF CnCallFits
  <2> QED BY <2>1 DEF CnCallFits, CnGrows
<1>2. k.op \in {"alias", "tags"} => k.ver \in DOMAIN cnVers'
  BY DEF CnCallFits, CnGrows
<1>3. k.at = "write" => /\ k.gen <= cnVers'[k.ver].gen
                        /\ k.gen = cnVers'[k.ver].gen => k.seen = cnVers'[k.ver].tags
  <2> SUFFICES ASSUME k.at = "write"
               PROVE  /\ k.gen <= cnVers'[k.ver].gen
                      /\ k.gen = cnVers'[k.ver].gen => k.seen = cnVers'[k.ver].tags
    OBVIOUS
  <2>1. k.ver \in DOMAIN cnVers /\ cnBackend = "vertex" BY DEF CnCallFits
  <2>2. cnVers[k.ver] \in CnVersions BY <2>1 DEF CnData
  <2>3. k.gen \in Nat /\ cnVers[k.ver].gen \in Nat BY <2>2 DEF CnCallSet, CnVersions
  <2>4. \/ cnVers'[k.ver].gen = cnVers[k.ver].gen /\ cnVers'[k.ver].tags = cnVers[k.ver].tags
        \/ cnVers'[k.ver].gen = cnVers[k.ver].gen + 1
    BY <2>1 DEF CnGrows
  <2>5. /\ k.gen <= cnVers[k.ver].gen
        /\ k.gen = cnVers[k.ver].gen => k.seen = cnVers[k.ver].tags
    BY DEF CnCallFits
  <2> QED BY <2>3, <2>4, <2>5
<1>4. cnBackend' = cnBackend BY DEF CnGrows
<1> QED BY <1>1, <1>2, <1>3, <1>4 DEF CnCallFits

\* One call moves on; the others are as before.
LEMMA CnOthers ==
  ASSUME CnInv, CnData', CnGrows, NEW c \in CnWriters, NEW e \in CnCallSet,
         cnCall' = [cnCall EXCEPT ![c] = e], CnCallFits(e)'
  PROVE  \A d \in CnWriters : CnCallFits(cnCall[d])'
<1> SUFFICES ASSUME NEW d \in CnWriters PROVE CnCallFits(cnCall[d])'
  OBVIOUS
<1>1. CASE d = c
  <2>1. cnCall'[d] = e BY <1>1 DEF CnInv, CnData
  <2> QED BY <2>1 DEF CnCallFits
<1>2. CASE d # c
  <2>1. PICK k : k = cnCall[d] OBVIOUS
  <2>2. k \in CnCallSet /\ CnCallFits(k) BY <2>1 DEF CnInv, CnData
  <2>3. CnCallFits(k)' BY <2>2, CnSurvives DEF CnInv
  <2>4. cnCall'[d] = k BY <1>2, <2>1 DEF CnInv, CnData
  <2> QED BY <2>3, <2>4 DEF CnCallFits
<1> QED BY <1>1, <1>2

\* A call that is not in _fluent_uris, before and after, disturbs nobody there.
LEMMA CnNotFluent ==
  ASSUME CnInv, NEW c \in CnWriters, NEW e \in CnCallSet,
         cnCall' = [cnCall EXCEPT ![c] = e],
         cnCall[c].at # "fluent", e.at # "fluent", UNCHANGED <<cnUri, cnOverlap>>
  PROVE  CnAlone' /\ CnUrisRestored'
<1>1. \A d \in CnWriters : cnCall'[d].at = "fluent" <=> cnCall[d].at = "fluent"
  BY DEF CnInv, CnData
<1>2. \A d \in CnWriters : cnCall'[d].at = "fluent" => cnCall'[d] = cnCall[d]
  BY DEF CnInv, CnData
<1> QED BY <1>1, <1>2 DEF CnInv, CnAlone, CnUrisRestored

\* A call that gives up its move leaves the mark of the cut.
LEMMA CnStillMoving ==
  ASSUME CnInv, NEW c \in CnWriters, NEW e \in CnCallSet,
         cnCall' = [cnCall EXCEPT ![c] = e], cnLive' = cnLive, cnCut => cnCut',
         CnMoving(cnCall[c]) => cnCut' \/ CnMoving(e) \/ cnLive # 0
  PROVE  CnLiveMoving'
<1> SUFFICES ASSUME cnLive = 0, ~cnCut' PROVE \E d \in CnWriters : CnMoving(cnCall'[d])
  BY DEF CnLiveMoving, CnMoving
<1>1. PICK d \in CnWriters : CnMoving(cnCall[d]) BY DEF CnInv, CnLiveMoving
<1>2. CASE d = c
  <2>1. cnCall'[c] = e /\ CnMoving(e) BY <1>1, <1>2 DEF CnInv, CnData
  <2> QED BY <2>1
<1>3. CASE d # c
  <2>1. cnCall'[d] = cnCall[d] BY <1>3 DEF CnInv, CnData
  <2> QED BY <1>1, <2>1
<1> QED BY <1>2, <1>3

\* A call that only moves on itself.
LEMMA CnQuiet ==
  ASSUME CnInv, NEW c \in CnWriters, NEW e \in CnCallSet,
         cnCall' = [cnCall EXCEPT ![c] = e], CnCallFits(e),
         cnCall[c].at # "fluent", e.at # "fluent",
         UNCHANGED <<cnBackend, CnService, cnUri, cnTagged, cnOverlap>>, cnCut => cnCut',
         CnMoving(cnCall[c]) => cnCut' \/ CnMoving(e) \/ cnLive # 0
  PROVE  CnInv'
<1>1. UNCHANGED <<cnBackend, cnOwner, cnVers, cnLive, cnUri, cnTagged, cnOverlap>>
  BY DEF CnService
<1>2. CnData'
  <2>1. cnCall' \in [CnWriters -> CnCallSet] BY DEF CnInv, CnData
  <2> QED BY <1>1, <2>1 DEF CnInv, CnData
<1>3. CnGrows BY <1>1 DEF CnGrows
<1>4. CnCallFits(e)' BY <1>3, CnSurvives DEF CnInv
<1>5. \A d \in CnWriters : CnCallFits(cnCall[d])' BY <1>2, <1>3, <1>4, CnOthers
<1>6. CnAlone' /\ CnUrisRestored' BY <1>1, CnNotFluent
<1>7. CnLiveMoving' BY <1>1, CnStillMoving
<1>8. CnTagsKept' /\ CnOwnNames' BY <1>1 DEF CnInv, CnTagsKept, CnOwnNames
<1> QED BY <1>2, <1>5, <1>6, <1>7, <1>8 DEF CnInv

\* What a writer may start.
LEMMA CnStarts ==
  ASSUME CnInv, NEW c \in CnWriters, NEW e \in CnCallSet, CnStart(c, e), CnCallFits(e),
         e.at # "fluent"
  PROVE  CnInv'
<1>1. /\ cnCall' = [cnCall EXCEPT ![c] = e] /\ cnCall[c].at = "idle"
      /\ UNCHANGED <<cnBackend, CnService, cnUri, cnTagged, cnOverlap, cnCut>>
  BY DEF CnStart, CnTo, CnHistory
<1>2. ~CnMoving(cnCall[c]) BY <1>1 DEF CnMoving
<1> QED BY <1>1, <1>2, CnQuiet

\* The model a call is about is there.
LEMMA CnHasVersion ==
  ASSUME CnInv, NEW n, NEW v, CnRawVersion(n, v)
  PROVE  v \in DOMAIN cnVers
  BY DEF CnRawVersion, CnVertexVersion, CnPackage, CnMlflowVersion

\* The calls that are started.
LEMMA CnBegins ==
  ASSUME CnInv, NEW c \in CnWriters, NEW n \in CnNames,
         \/ CnCreateVersion(c, n) \/ CnDeleteAlias(c, n)
         \/ \E v \in 1 .. CnMaxVersions :
               \/ CnSetAlias(c, n, v) \/ CnDownload(c, n, v)
               \/ \E t \in CnTags : CnSetVersionTags(c, n, v, t)
  PROVE  CnInv'
<1>1. CASE CnCreateVersion(c, n)
  <2> PICK e : e = [CnIdle EXCEPT !.op = "create", !.name = n,
                       !.at = IF cnBackend = "mlflow" THEN "enter" ELSE "look"]
    OBVIOUS
  <2>1. e \in CnCallSet /\ e.op = "create" /\ e.name = n
        /\ e.at = IF cnBackend = "mlflow" THEN "enter" ELSE "look"
    BY CnIdleTyped DEF CnCallSet, CnPlaces
  <2>2. CnStart(c, e) BY <1>1 DEF CnCreateVersion
  <2>3. CnCallFits(e) BY <2>1 DEF CnCallFits
  <2>4. e.at # "fluent" BY <2>1
  <2> QED BY <2>1, <2>2, <2>3, <2>4, CnStarts
<1>2. CASE CnDeleteAlias(c, n)
  <2> PICK e : e = [CnIdle EXCEPT !.op = "unalias", !.name = n, !.at = "remove",
                       !.current = cnLive]
    OBVIOUS
  <2>1. e \in CnCallSet /\ e.op = "unalias" /\ e.at = "remove"
    BY CnIdleTyped DEF CnCallSet, CnPlaces, CnInv, CnData
  <2>2. CnStart(c, e) BY <1>2 DEF CnDeleteAlias
  <2>3. CnCallFits(e) BY <2>1 DEF CnCallFits
  <2> QED BY <2>1, <2>2, <2>3, CnStarts
<1>3. ASSUME NEW v \in 1 .. CnMaxVersions, CnSetAlias(c, n, v) PROVE CnInv'
  <2> PICK e : e = [CnIdle EXCEPT !.op = "alias", !.name = n, !.ver = v, !.at = "current"]
    OBVIOUS
  <2>0. v \in Nat BY CnAssumption
  <2>1. e \in CnCallSet /\ e.op = "alias" /\ e.ver = v /\ e.at = "current"
    BY <2>0, CnIdleTyped DEF CnCallSet, CnPlaces
  <2>2. CnStart(c, e) /\ v \in DOMAIN cnVers
    BY <1>3, CnHasVersion DEF CnSetAlias, CnAliasTarget
  <2>3. CnCallFits(e) BY <2>1, <2>2 DEF CnCallFits
  <2> QED BY <2>1, <2>2, <2>3, CnStarts
<1>4. ASSUME NEW v \in 1 .. CnMaxVersions, CnDownload(c, n, v) PROVE CnInv'
  <2> PICK e : e = [CnIdle EXCEPT !.op = "download", !.name = n, !.at = "enter"]
    OBVIOUS
  <2>1. e \in CnCallSet /\ e.op = "download" /\ e.at = "enter"
    BY CnIdleTyped DEF CnCallSet, CnPlaces
  <2>2. CnStart(c, e) /\ cnBackend = "mlflow" BY <1>4 DEF CnDownload
  <2>3. CnCallFits(e) BY <2>1, <2>2 DEF CnCallFits
  <2> QED BY <2>1, <2>2, <2>3, CnStarts
<1>5. ASSUME NEW v \in 1 .. CnMaxVersions, NEW t \in CnTags, CnSetVersionTags(c, n, v, t)
      PROVE  CnInv'
  <2> PICK e : e = [CnIdle EXCEPT !.op = "tags", !.name = n, !.ver = v, !.tag = t,
                       !.at = IF cnBackend = "vertex" THEN "read" ELSE "merge"]
    OBVIOUS
  <2>0. v \in Nat BY CnAssumption
  <2>1. e \in CnCallSet /\ e.op = "tags" /\ e.ver = v /\ e.tag = t
        /\ e.at = IF cnBackend = "vertex" THEN "read" ELSE "merge"
    BY <2>0, CnIdleTyped DEF CnCallSet, CnPlaces
  <2>2. CnStart(c, e) /\ v \in DOMAIN cnVers
    BY <1>5, CnHasVersion DEF CnSetVersionTags
  <2>3. CnCallFits(e) BY <2>1, <2>2 DEF CnCallFits
  <2>4. e.at # "fluent" BY <2>1
  <2> QED BY <2>1, <2>2, <2>3, <2>4, CnStarts
<1> QED BY <1>1, <1>2, <1>3, <1>4, <1>5

\* The requests that only look, and the calls that end without having written.
LEMMA CnLooks ==
  ASSUME CnInv, NEW c \in CnWriters,
         CnFails(c) \/ CnVertexLook(c) \/ CnGroupLook(c) \/ CnEnsureModel(c)
           \/ CnVertexCurrent(c) \/ CnReadTags(c)
  PROVE  CnInv'
<1>1. cnCall[c] \in CnCallSet /\ CnCallFits(cnCall[c])
  BY DEF CnInv, CnData
<1>2. CASE CnFails(c)
  <2>1. /\ cnCall' = [cnCall EXCEPT ![c] = CnIdle] /\ cnCall[c].at # "fluent"
        /\ UNCHANGED <<cnBackend, CnService, cnUri, cnTagged, cnOverlap>>
        /\ cnCut' = (cnCut \/ (cnCall[c].at = "add" /\ cnCall[c].current # 0))
    BY <1>2 DEF CnFails, CnTo
  <2>2. CnMoving(cnCall[c]) => cnCut' BY <2>1 DEF CnMoving
  <2>3. cnCut => cnCut' BY <2>1
  <2> QED BY <2>1, <2>2, <2>3, CnIdleTyped, CnIdleFits, CnQuiet
<1>3. ASSUME UNCHANGED <<cnBackend, CnService, cnUri, CnHistory>>,
             cnCall[c].at \notin {"fluent", "add"},
             NEW e \in CnCallSet, CnTo(c, e), CnCallFits(e), e.at # "fluent"
      PROVE  CnInv'
  <2>1. UNCHANGED <<cnTagged, cnCut, cnOverlap>> BY <1>3 DEF CnHistory
  <2>2. ~CnMoving(cnCall[c]) BY <1>3 DEF CnMoving
  <2> QED BY <1>3, <2>1, <2>2, CnQuiet DEF CnTo
<1>4. CASE CnVertexLook(c)
  <2>1. PICK e : e = [cnCall[c] EXCEPT !.at = "upload", !.exists = cnOwner # "none"]
    OBVIOUS
  <2>2. /\ e \in CnCallSet /\ e.at = "upload" /\ e.name = cnCall[c].name
        /\ e.op = cnCall[c].op /\ e.ver = cnCall[c].ver
    BY <1>1, <2>1 DEF CnCallSet, CnPlaces
  <2>3. e.exists <=> cnOwner # "none" BY <1>1, <2>1 DEF CnCallSet
  <2>4. CnNotAnothers(cnCall[c].name) => CnCallFits(e)
    BY <1>1, <1>4, <2>2, <2>3 DEF CnCallFits, CnNotAnothers, CnVertexLook
  <2>5. \/ CnNotAnothers(cnCall[c].name) /\ CnTo(c, e)
        \/ CnTo(c, CnIdle)
    BY <1>4, <2>1 DEF CnVertexLook
  <2>6. UNCHANGED <<cnBackend, CnService, cnUri, CnHistory>> /\ cnCall[c].at = "look"
    BY <1>4 DEF CnVertexLook
  <2> QED BY <1>3, <2>2, <2>4, <2>5, <2>6, CnIdleTyped, CnIdleFits
<1>5. CASE CnGroupLook(c)
  <2>1. PICK e : e = [cnCall[c] EXCEPT !.at = IF cnOwner = "none" THEN "group" ELSE "upload"]
    OBVIOUS
  <2>2. /\ e \in CnCallSet /\ e.at = (IF cnOwner = "none" THEN "group" ELSE "upload")
        /\ e.name = cnCall[c].name /\ e.op = cnCall[c].op /\ e.ver = cnCall[c].ver
    BY <1>1, <2>1 DEF CnCallSet, CnPlaces
  <2>4. CnNotAnothers(cnCall[c].name) => CnCallFits(e)
    BY <1>1, <1>5, <2>2 DEF CnCallFits, CnNotAnothers, CnGroupLook
  <2>5. \/ CnNotAnothers(cnCall[c].name) /\ CnTo(c, e)
        \/ CnTo(c, CnIdle)
    BY <1>5, <2>1 DEF CnGroupLook
  <2>6. UNCHANGED <<cnBackend, CnService, cnUri, CnHistory>> /\ cnCall[c].at = "look"
    BY <1>5 DEF CnGroupLook
  <2>7. e.at # "fluent" BY <2>2
  <2> QED BY <1>3, <2>2, <2>4, <2>5, <2>6, <2>7, CnIdleTyped, CnIdleFits
<1>6. CASE CnEnsureModel(c)
  <2>1. PICK e : e = [cnCall[c] EXCEPT !.at = "register", !.exists = cnOwner # "none"]
    OBVIOUS
  <2>2. /\ e \in CnCallSet /\ e.at = "register" /\ e.name = cnCall[c].name
        /\ e.op = cnCall[c].op /\ e.ver = cnCall[c].ver
    BY <1>1, <2>1 DEF CnCallSet, CnPlaces
  <2>4. CnCallFits(e) BY <1>1, <1>6, <2>2 DEF CnCallFits, CnEnsureModel
  <2>6. UNCHANGED <<cnBackend, CnService, cnUri, CnHistory>> /\ cnCall[c].at = "ensure"
        /\ CnTo(c, e)
    BY <1>6, <2>1 DEF CnEnsureModel
  <2> QED BY <1>3, <2>2, <2>4, <2>6
<1>7. CASE CnVertexCurrent(c)
  <2>1. PICK e : e = [cnCall[c] EXCEPT !.current = cnLive,
                                       !.at = IF cnLive = 0 THEN "add" ELSE "remove"]
    OBVIOUS
  <2>2. /\ e \in CnCallSet /\ e.at \in {"add", "remove"} /\ e.name = cnCall[c].name
        /\ e.op = cnCall[c].op /\ e.ver = cnCall[c].ver
    BY <1>1, <2>1 DEF CnCallSet, CnPlaces, CnInv, CnData
  <2>4. CnCallFits(e) BY <1>1, <1>7, <2>2 DEF CnCallFits, CnVertexCurrent
  <2>5. CnTo(c, e) \/ CnTo(c, CnIdle) BY <1>7, <2>1 DEF CnVertexCurrent
  <2>6. UNCHANGED <<cnBackend, CnService, cnUri, CnHistory>> /\ cnCall[c].at = "current"
    BY <1>7 DEF CnVertexCurrent
  <2> QED BY <1>3, <2>2, <2>4, <2>5, <2>6, CnIdleTyped, CnIdleFits
<1>8. CASE CnReadTags(c)
  <2>1. PICK e : e = [cnCall[c] EXCEPT !.at = "write", !.tries = @ + 1,
                        !.seen = cnVers[cnCall[c].ver].tags,
                        !.gen = cnVers[cnCall[c].ver].gen]
    OBVIOUS
  <2>2. cnCall[c].at = "read" /\ cnCall[c].op = "tags" /\ cnBackend = "vertex"
        /\ cnCall[c].ver \in DOMAIN cnVers
    BY <1>1, <1>8 DEF CnReadTags, CnCallFits
  <2>3. cnVers[cnCall[c].ver] \in CnVersions BY <2>2 DEF CnInv, CnData
  <2>4. cnVers[cnCall[c].ver].tags \in SUBSET CnTags /\ cnVers[cnCall[c].ver].gen \in Nat
        /\ cnCall[c].tries + 1 \in Nat
    BY <1>1, <2>3 DEF CnVersions, CnCallSet
  <2>5. e \in CnCallSet BY <1>1, <2>1, <2>4 DEF CnCallSet, CnPlaces
  <2>6. /\ e.at = "write" /\ e.op = cnCall[c].op /\ e.ver = cnCall[c].ver
        /\ e.tag = cnCall[c].tag
        /\ e.seen = cnVers[e.ver].tags /\ e.gen = cnVers[e.ver].gen
    BY <1>1, <2>1 DEF CnCallSet
  <2>7. CnCallFits(e) BY <1>1, <2>2, <2>4, <2>6 DEF CnCallFits
  <2>8. CnTo(c, e) \/ CnTo(c, CnIdle) BY <1>8, <2>1 DEF CnReadTags
  <2>9. UNCHANGED <<cnBackend, CnService, cnUri, CnHistory>>
    BY <1>8 DEF CnReadTags
  <2> QED BY <1>3, <2>2, <2>5, <2>6, <2>7, <2>8, <2>9, CnIdleTyped, CnIdleFits
<1> QED BY <1>2, <1>4, <1>5, <1>6, <1>7, <1>8

\* A request that writes, once what it wrote is seen to be fine.
LEMMA CnWrites ==
  ASSUME CnInv, NEW c \in CnWriters, NEW e \in CnCallSet,
         cnCall' = [cnCall EXCEPT ![c] = e], CnCallFits(e)',
         cnCall[c].at # "fluent", e.at # "fluent", UNCHANGED <<cnUri, cnOverlap>>,
         CnData', CnGrows, CnLiveMoving', CnTagsKept', CnOwnNames'
  PROVE  CnInv'
<1>1. \A d \in CnWriters : CnCallFits(cnCall[d])' BY CnOthers
<1>2. CnAlone' /\ CnUrisRestored' BY CnNotFluent
<1> QED BY <1>1, <1>2 DEF CnInv

\* A new version stands under the owner's name, or raced with the owner's model.
LEMMA CnNewVersions ==
  ASSUME CnInv, NEW x \in CnVersions, cnVers' = Append(cnVers, x),
         UNCHANGED <<cnBackend, cnTagged>>, cnOwner' \in CnNames,
         cnOwner' = cnOwner \/ cnOwner = "none",
         cnBackend # "mlflow" => x.by = cnOwner' \/ x.raced
  PROVE  CnGrows /\ cnVers' \in Seq(CnVersions) /\ CnTagsKept' /\ CnOwnNames'
<1>1. cnVers \in Seq(CnVersions) /\ DOMAIN cnVers = 1 .. Len(cnVers) /\ Len(cnVers) \in Nat
  BY LenProperties DEF CnInv, CnData
<1>2. /\ cnVers' \in Seq(CnVersions) /\ Len(cnVers') = Len(cnVers) + 1
      /\ \A i \in 1 .. Len(cnVers) : cnVers'[i] = cnVers[i]
      /\ cnVers'[Len(cnVers) + 1] = x
  BY <1>1, AppendProperties
<1>3. DOMAIN cnVers' = 1 .. Len(cnVers) + 1 BY <1>2, LenProperties
<1>4. \A v \in DOMAIN cnVers' : v \in DOMAIN cnVers \/ v = Len(cnVers) + 1
  BY <1>1, <1>3
<1>5. DOMAIN cnVers \subseteq DOMAIN cnVers' BY <1>1, <1>3
<1>6. \A v \in DOMAIN cnVers : cnVers'[v] = cnVers[v] BY <1>1, <1>2
<1>7. CnGrows BY <1>5, <1>6 DEF CnGrows
<1>8. CnTagsKept' BY <1>6 DEF CnInv, CnData, CnTagsKept
<1>9. CnOwnNames'
  <2> SUFFICES ASSUME NEW v \in DOMAIN cnVers', cnBackend # "mlflow", cnVers'[v].by # cnOwner'
               PROVE  cnVers'[v].raced
    BY DEF CnOwnNames
  <2>1. CASE v = Len(cnVers) + 1 BY <1>2, <2>1
  <2>2. CASE v \in DOMAIN cnVers
    <3>1. cnOwner # "none"
      <4>1. ASSUME cnOwner = "none" PROVE FALSE
        <5>1. cnVers = <<>> BY <4>1 DEF CnInv, CnData
        <5> QED BY <2>2, <5>1
      <4> QED BY <4>1
    <3> QED BY <1>6, <2>2, <3>1 DEF CnInv, CnOwnNames
  <2> QED BY <1>4, <2>1, <2>2
<1> QED BY <1>2, <1>7, <1>8, <1>9

\* create_version's last request.
LEMMA CnCreates ==
  ASSUME CnInv, NEW c \in CnWriters,
         CnVertexUpload(c) \/ CnPackageCreate(c) \/ CnGroupCreate(c) \/ CnModelVersionCreate(c)
  PROVE  CnInv'
<1>1. cnCall[c] \in CnCallSet /\ CnCallFits(cnCall[c]) /\ cnCall[c].name \in CnNames
      /\ cnOwner \in CnNames \cup {"none"}
  <2>1. cnCall[c] \in CnCallSet /\ CnCallFits(cnCall[c]) /\ cnOwner \in CnNames \cup {"none"}
    BY DEF CnInv, CnData
  <2>2. cnCall[c].at \in {"upload", "group", "register"}
    BY DEF CnVertexUpload, CnPackageCreate, CnGroupCreate, CnModelVersionCreate
  <2> QED BY <2>1, <2>2 DEF CnCallFits
<1>2. ASSUME NEW raced \in BOOLEAN, cnVers' = Append(cnVers, CnNewVersion(cnCall[c].name, raced)),
             cnCall[c].at \in {"upload", "register"}, CnTo(c, CnIdle),
             UNCHANGED <<cnBackend, cnLive, cnUri, CnHistory>>, cnOwner' \in CnNames,
             cnOwner' = cnOwner \/ cnOwner = "none",
             cnBackend # "mlflow" => cnCall[c].name = cnOwner' \/ raced
      PROVE  CnInv'
  <2>1. PICK x : x = CnNewVersion(cnCall[c].name, raced) OBVIOUS
  <2>2. x \in CnVersions /\ x.by = cnCall[c].name /\ (x.raced <=> raced)
    BY <1>1, <2>1 DEF CnNewVersion, CnVersions
  <2>3. UNCHANGED <<cnTagged, cnCut, cnOverlap>> BY <1>2 DEF CnHistory
  <2>4. CnGrows /\ cnVers' \in Seq(CnVersions) /\ CnTagsKept' /\ CnOwnNames'
    BY <1>2, <2>1, <2>2, <2>3, CnNewVersions
  <2>5. cnCall' = [cnCall EXCEPT ![c] = CnIdle] BY <1>2 DEF CnTo
  <2>6. CnData'
    <3>1. cnCall' \in [CnWriters -> CnCallSet] BY <2>5, CnIdleTyped DEF CnInv, CnData
    <3>2. cnOwner' # "none" BY <1>2, CnAssumption
    <3>3. \A p \in cnTagged' : p[1] \in DOMAIN cnVers'
      BY <2>3, <2>4 DEF CnGrows, CnInv, CnData
    <3> QED BY <1>2, <2>4, <3>1, <3>2, <3>3 DEF CnInv, CnData
  <2>7. ~CnMoving(cnCall[c]) BY <1>2 DEF CnMoving
  <2>8. CnLiveMoving' BY <1>2, <2>3, <2>5, <2>7, CnIdleTyped, CnStillMoving
  <2> QED BY <1>2, <2>3, <2>4, <2>5, <2>6, <2>8, CnIdleTyped, CnIdleFits, CnWrites
<1>3. CASE CnVertexUpload(c)
  <2>1. PICK raced \in BOOLEAN : raced <=> ~cnCall[c].exists /\ cnOwner # "none"
    OBVIOUS
  <2>2. cnVers' = Append(cnVers, CnNewVersion(cnCall[c].name, raced))
    <3>1. raced = (~cnCall[c].exists /\ cnOwner # "none") BY <2>1
    <3> QED BY <1>3, <3>1 DEF CnVertexUpload, CnAppend
  <2>3. cnOwner' = (IF cnOwner = "none" THEN cnCall[c].name ELSE cnOwner)
    BY <1>3 DEF CnVertexUpload
  <2>4. /\ cnCall[c].at = "upload" /\ cnBackend = "vertex" /\ CnTo(c, CnIdle)
        /\ UNCHANGED <<cnBackend, cnLive, cnUri, CnHistory>>
    BY <1>3 DEF CnVertexUpload
  <2>5. cnCall[c].name = cnOwner' \/ raced
    BY <1>1, <2>1, <2>3, <2>4 DEF CnCallFits
  <2>6. cnOwner' \in CnNames /\ (cnOwner' = cnOwner \/ cnOwner = "none") BY <1>1, <2>3
  <2> QED BY <1>2, <2>2, <2>4, <2>5, <2>6
<1>4. CASE CnPackageCreate(c)
  <2>1. cnVers' = Append(cnVers, CnNewVersion(cnCall[c].name, FALSE))
    BY <1>4 DEF CnPackageCreate, CnAppend
  <2>2. /\ cnCall[c].at = "upload" /\ cnBackend = "sagemaker" /\ CnTo(c, CnIdle)
        /\ UNCHANGED <<cnBackend, cnLive, cnUri, CnHistory>> /\ cnOwner' = cnOwner
    BY <1>4 DEF CnPackageCreate
  <2>3. cnCall[c].name = cnOwner BY <1>1, <2>2 DEF CnCallFits
  <2>4. cnOwner' \in CnNames BY <1>1, <2>2, <2>3
  <2> QED BY <1>2, <2>1, <2>2, <2>3, <2>4
<1>5. CASE CnModelVersionCreate(c)
  <2>0. /\ cnCall[c].at = "register" /\ CnTo(c, CnIdle)
        /\ UNCHANGED <<cnBackend, cnUri, CnHistory>>
    BY <1>5 DEF CnModelVersionCreate
  <2>1. CASE UNCHANGED CnService
    <3>1. UNCHANGED <<cnTagged, cnCut, cnOverlap>> BY <2>0 DEF CnHistory
    <3>2. ~CnMoving(cnCall[c]) BY <2>0 DEF CnMoving
    <3> QED BY <2>0, <2>1, <3>1, <3>2, CnIdleTyped, CnIdleFits, CnQuiet DEF CnTo
  <2>2. CASE CnAppend(c, FALSE) /\ UNCHANGED cnLive
             /\ cnOwner' = IF cnOwner = "none" THEN cnCall[c].name ELSE cnOwner
    <3>1. cnVers' = Append(cnVers, CnNewVersion(cnCall[c].name, FALSE))
      BY <2>2 DEF CnAppend
    <3>2. cnBackend = "mlflow"
      BY <1>1, <2>0 DEF CnCallFits
    <3>3. cnOwner' \in CnNames /\ (cnOwner' = cnOwner \/ cnOwner = "none") BY <1>1, <2>2
    <3> QED BY <1>2, <2>0, <2>2, <3>1, <3>2, <3>3
  <2> QED BY <1>5, <2>1, <2>2 DEF CnModelVersionCreate
<1>6. CASE CnGroupCreate(c)
  <2>0. /\ cnCall[c].at = "group" /\ cnBackend = "sagemaker"
        /\ UNCHANGED <<cnBackend, cnVers, cnLive, cnUri, CnHistory>>
    BY <1>6 DEF CnGroupCreate
  <2>1. UNCHANGED <<cnTagged, cnCut, cnOverlap>> BY <2>0 DEF CnHistory
  <2>2. ~CnMoving(cnCall[c]) BY <2>0 DEF CnMoving
  <2>3. CASE cnOwner # "none"
    <3>1. cnOwner' = cnOwner /\ CnTo(c, CnIdle) BY <1>6, <2>3 DEF CnGroupCreate
    <3>2. UNCHANGED CnService BY <2>0, <3>1 DEF CnService
    <3> QED BY <2>0, <2>1, <2>2, <3>1, <3>2, CnIdleTyped, CnIdleFits, CnQuiet DEF CnTo
  <2>4. CASE cnOwner = "none"
    <3>1. PICK e : e = [cnCall[c] EXCEPT !.at = "upload"] OBVIOUS
    <3>2. /\ e \in CnCallSet /\ e.at = "upload" /\ e.name = cnCall[c].name
          /\ e.op = cnCall[c].op /\ e.ver = cnCall[c].ver
      BY <1>1, <3>1 DEF CnCallSet, CnPlaces
    <3>3. cnOwner' = cnCall[c].name /\ cnCall' = [cnCall EXCEPT ![c] = e]
      BY <1>6, <2>4, <3>1 DEF CnGroupCreate, CnTo
    <3>4. cnVers = <<>> /\ DOMAIN cnVers = {} BY <2>4 DEF CnInv, CnData
    <3>5. CnGrows BY <2>0, <2>4 DEF CnGrows
    <3>6. CnData'
      <4>1. cnCall' \in [CnWriters -> CnCallSet] BY <3>2, <3>3 DEF CnInv, CnData
      <4> QED BY <1>1, <2>0, <2>1, <3>3, <3>4, <4>1 DEF CnInv, CnData
    <3>7. CnCallFits(e)' BY <1>1, <2>0, <3>2, <3>3 DEF CnCallFits
    <3>8. CnTagsKept' /\ CnOwnNames'
      BY <2>0, <2>1, <3>4 DEF CnInv, CnTagsKept, CnOwnNames
    <3>9. CnLiveMoving' BY <2>0, <2>1, <2>2, <3>2, <3>3, CnStillMoving
    <3> QED BY <2>0, <2>1, <3>2, <3>3, <3>5, <3>6, <3>7, <3>8, <3>9, CnWrites
  <2> QED BY <2>3, <2>4
<1> QED BY <1>3, <1>4, <1>5, <1>6

\* The requests that move LIVE.  A move takes it off one version and puts it on
\* another; whoever takes it off without putting it back leaves the mark.
LEMMA CnMovesLive ==
  ASSUME CnInv, NEW c \in CnWriters,
         CnVertexRemoveAlias(c) \/ CnVertexAddAlias(c) \/ CnDeleteTag(c) \/ CnAddTag(c)
           \/ CnMlflowDeleteAlias(c) \/ CnMlflowSetAlias(c)
  PROVE  CnInv'
<1>1. /\ cnCall[c] \in CnCallSet /\ CnCallFits(cnCall[c]) /\ cnLive \in Nat
      /\ cnCall[c].ver \in Nat /\ cnCall[c].current \in Nat
  BY DEF CnInv, CnData, CnCallSet
<1>2. \A v \in DOMAIN cnVers : v # 0
  <2>1. cnVers \in Seq(CnVersions) BY DEF CnInv, CnData
  <2>2. DOMAIN cnVers = 1 .. Len(cnVers) /\ Len(cnVers) \in Nat BY <2>1, LenProperties
  <2> QED BY <2>2
<1>3. ASSUME NEW v \in Nat, CnLiveIs(v), NEW e \in CnCallSet, CnTo(c, e), CnCallFits(e),
             cnCall[c].at \notin {"fluent"}, e.at # "fluent", CnLiveMoving'
      PROVE  CnInv'
  <2>1. /\ UNCHANGED <<cnBackend, cnOwner, cnVers, cnUri, cnTagged, cnOverlap>> /\ cnLive' = v
        /\ cnCall' = [cnCall EXCEPT ![c] = e]
    BY <1>3 DEF CnLiveIs, CnTo
  <2>2. CnGrows BY <2>1 DEF CnGrows
  <2>3. CnData'
    <3>1. cnCall' \in [CnWriters -> CnCallSet] BY <2>1 DEF CnInv, CnData
    <3> QED BY <2>1, <3>1 DEF CnInv, CnData
  <2>4. CnCallFits(e)' BY <1>3, <2>2, CnSurvives DEF CnInv
  <2>5. CnTagsKept' /\ CnOwnNames' BY <2>1 DEF CnInv, CnTagsKept, CnOwnNames
  <2> QED BY <1>3, <2>1, <2>2, <2>3, <2>4, <2>5, CnWrites
<1>4. CASE CnVertexRemoveAlias(c)
  <2>1. PICK e : e = [cnCall[c] EXCEPT !.at = "add"] OBVIOUS
  <2>2. /\ e \in CnCallSet /\ e.at = "add" /\ e.name = cnCall[c].name
        /\ e.op = cnCall[c].op /\ e.ver = cnCall[c].ver /\ e.current = cnCall[c].current
    BY <1>1, <2>1 DEF CnCallSet, CnPlaces
  <2>3. PICK taken : taken = (cnLive # 0 /\ cnLive = cnCall[c].current) OBVIOUS
  <2>4. /\ CnLiveIs(IF taken THEN 0 ELSE cnLive) /\ cnCall[c].at = "remove"
        /\ cnCut' = (cnCut \/ (taken /\ cnCall[c].op = "unalias"))
        /\ CnTo(c, IF cnCall[c].op = "alias" THEN e ELSE CnIdle)
    BY <1>4, <2>1, <2>3 DEF CnVertexRemoveAlias
  <2>5. ~CnMoving(cnCall[c]) BY <2>4 DEF CnMoving
  <2>6. CASE ~taken
    <3>1. CnLiveIs(cnLive) /\ cnLive' = cnLive /\ (cnCut => cnCut')
      BY <2>4, <2>6 DEF CnLiveIs
    <3>2. CASE cnCall[c].op = "alias"
      <4>1. CnTo(c, e) BY <2>4, <3>2
      <4>2. CnLiveMoving' BY <2>2, <2>5, <3>1, <4>1, CnStillMoving DEF CnTo
      <4>3. CnCallFits(e) BY <1>1, <2>2, <3>2 DEF CnCallFits
      <4> QED BY <1>1, <1>3, <2>2, <2>4, <3>1, <4>1, <4>2, <4>3
    <3>3. CASE cnCall[c].op # "alias"
      <4>1. CnTo(c, CnIdle) BY <2>4, <3>3
      <4>2. CnLiveMoving' BY <2>5, <3>1, <4>1, CnIdleTyped, CnStillMoving DEF CnTo
      <4> QED BY <1>1, <1>3, <2>4, <3>1, <4>1, <4>2, CnIdleTyped, CnIdleFits
    <3> QED BY <3>2, <3>3
  <2>7. CASE taken
    <3>1. CnLiveIs(0) BY <2>4, <2>7
    <3>2. CASE cnCall[c].op = "alias"
      <4>1. CnTo(c, e) BY <2>4, <3>2
      <4>2. CnMoving(e) BY <2>2, <2>3, <2>7, <3>2 DEF CnMoving
      <4>3. cnCall'[c] = e BY <4>1 DEF CnTo, CnInv, CnData
      <4>4. CnLiveMoving' BY <4>2, <4>3 DEF CnLiveMoving, CnMoving
      <4>5. CnCallFits(e) BY <1>1, <2>2, <3>2 DEF CnCallFits
      <4> QED BY <1>3, <2>2, <2>4, <3>1, <4>1, <4>4, <4>5
    <3>3. CASE cnCall[c].op # "alias"
      <4>1. CnTo(c, CnIdle) BY <2>4, <3>3
      <4>2. CnLiveMoving'
        <5>1. CASE cnCall[c].op = "unalias"
          <6>1. cnCut' BY <2>4, <2>7, <5>1
          <6> QED BY <6>1 DEF CnLiveMoving
        <5>2. CASE cnCall[c].op # "unalias"
          BY <1>1, <2>4, <3>3, <5>2 DEF CnCallFits
        <5> QED BY <5>1, <5>2
      <4> QED BY <1>3, <2>4, <3>1, <4>1, <4>2, CnIdleTyped, CnIdleFits
    <3> QED BY <3>2, <3>3
  <2> QED BY <2>6, <2>7
<1>5. CASE CnVertexAddAlias(c)
  <2>1. PICK refused : refused = (cnLive \notin {0, cnCall[c].ver}
                                  \/ cnCall[c].ver \notin DOMAIN cnVers)
    OBVIOUS
  <2>2. /\ CnLiveIs(IF refused THEN cnLive ELSE cnCall[c].ver) /\ cnCall[c].at = "add"
        /\ cnCut' = (cnCut /\ refused) /\ CnTo(c, CnIdle)
    BY <1>5, <2>1 DEF CnVertexAddAlias
  <2>3. cnCall[c].ver \in DOMAIN cnVers BY <1>1, <2>2 DEF CnCallFits
  <2>4. PICK v \in Nat : v = IF refused THEN cnLive ELSE cnCall[c].ver BY <1>1
  <2>5. v # 0 BY <1>2, <2>1, <2>3, <2>4
  <2>6. CnLiveMoving' BY <2>2, <2>4, <2>5 DEF CnLiveIs, CnLiveMoving
  <2> QED BY <1>3, <2>2, <2>4, <2>6, CnIdleTyped, CnIdleFits
<1>6. CASE CnDeleteTag(c) \/ CnMlflowDeleteAlias(c)
  <2>1. CnLiveIs(0) /\ cnCut' = (cnCut \/ cnLive # 0) /\ CnTo(c, CnIdle)
        /\ cnCall[c].at = "remove"
    BY <1>6 DEF CnDeleteTag, CnMlflowDeleteAlias
  <2>2. CnLiveMoving'
    <3>1. CASE cnLive # 0
      <4>1. cnCut' BY <2>1, <3>1
      <4> QED BY <4>1 DEF CnLiveMoving
    <3>2. CASE cnLive = 0
      <4>1. cnLive' = cnLive /\ (cnCut => cnCut') BY <2>1, <3>2 DEF CnLiveIs
      <4>2. ~CnMoving(cnCall[c]) BY <2>1 DEF CnMoving
      <4> QED BY <2>1, <4>1, <4>2, CnIdleTyped, CnStillMoving DEF CnTo
    <3> QED BY <3>1, <3>2
  <2> QED BY <1>3, <2>1, <2>2, CnIdleTyped, CnIdleFits
<1>7. CASE CnAddTag(c) \/ CnMlflowSetAlias(c)
  <2>1. CnLiveIs(cnCall[c].ver) /\ CnTo(c, CnIdle) /\ cnCall[c].at = "current"
    BY <1>7 DEF CnAddTag, CnMlflowSetAlias
  <2>2. cnCall[c].ver \in DOMAIN cnVers BY <1>1, <2>1 DEF CnCallFits
  <2>3. cnCall[c].ver # 0 BY <1>2, <2>2
  <2>4. CnLiveMoving' BY <2>1, <2>3 DEF CnLiveIs, CnLiveMoving
  <2> QED BY <1>1, <1>3, <2>1, <2>4, CnIdleTyped, CnIdleFits
<1> QED BY <1>4, <1>5, <1>6, <1>7

\* A version's tags are replaced by ones that hold what they held and the new one.
LEMMA CnTagsStored ==
  ASSUME CnInv, NEW v \in DOMAIN cnVers, NEW x \in CnVersions, NEW t,
         cnVers' = [cnVers EXCEPT ![v] = x],
         x.by = cnVers[v].by, x.raced = cnVers[v].raced,
         cnVers[v].tags \cup {t} \subseteq x.tags,
         x.gen = cnVers[v].gen + 1 \/ cnBackend # "vertex",
         cnTagged' = cnTagged \cup {<<v, t>>}, UNCHANGED <<cnBackend, cnOwner>>
  PROVE  CnGrows /\ cnVers' \in Seq(CnVersions) /\ CnTagsKept' /\ CnOwnNames'
         /\ \A p \in cnTagged' : p[1] \in DOMAIN cnVers'
<1>1. cnVers \in Seq(CnVersions) /\ DOMAIN cnVers = 1 .. Len(cnVers) /\ Len(cnVers) \in Nat
  BY LenProperties DEF CnInv, CnData
<1>2. cnVers' \in [1 .. Len(cnVers) -> CnVersions] BY <1>1
<1>3. cnVers' \in Seq(CnVersions)
  BY <1>1, <1>2
<1>4. DOMAIN cnVers' = DOMAIN cnVers /\ cnVers'[v] = x
      /\ \A w \in DOMAIN cnVers : w # v => cnVers'[w] = cnVers[w]
  OBVIOUS
<1>5. CnGrows BY <1>4 DEF CnGrows
<1>6. \A p \in cnTagged' : p[1] \in DOMAIN cnVers'
  BY <1>4 DEF CnInv, CnData
<1>7. CnTagsKept'
  <2> SUFFICES ASSUME NEW p \in cnTagged' PROVE p[2] \in cnVers'[p[1]].tags
    BY DEF CnTagsKept
  <2>1. CASE p = <<v, t>> BY <1>4, <2>1
  <2>2. CASE p \in cnTagged
    <3>1. p[2] \in cnVers[p[1]].tags /\ p[1] \in DOMAIN cnVers
      BY <2>2 DEF CnInv, CnTagsKept, CnData
    <3> QED BY <1>4, <3>1
  <2> QED BY <2>1, <2>2
<1>8. CnOwnNames'
  <2>1. \A w \in DOMAIN cnVers :
          cnVers'[w].by = cnVers[w].by /\ cnVers'[w].raced = cnVers[w].raced
    BY <1>4
  <2> QED BY <1>4, <2>1 DEF CnInv, CnOwnNames
<1> QED BY <1>3, <1>5, <1>6, <1>7, <1>8

\* set_version_tags: the server merges, or the generation says that what was
\* read is still there.
LEMMA CnStoresTags ==
  ASSUME CnInv, NEW c \in CnWriters,
         CnUpdatePackage(c) \/ CnMlflowSetTag(c) \/ CnWriteTags(c)
  PROVE  CnInv'
<1> DEFINE k == cnCall[c]
<1>1. /\ k \in CnCallSet /\ CnCallFits(k) /\ k.at \in {"merge", "write"} /\ k.op = "tags"
      /\ k.ver \in DOMAIN cnVers
  <2>1. k \in CnCallSet /\ CnCallFits(k) BY DEF CnInv, CnData
  <2>2. k.at \in {"merge", "write"} BY DEF CnUpdatePackage, CnMlflowSetTag, CnWriteTags
  <2> QED BY <2>1, <2>2 DEF CnCallFits
<1>2. cnVers[k.ver] \in CnVersions BY <1>1 DEF CnInv, CnData
<1>3. ASSUME NEW x \in CnVersions,
             cnVers' = [cnVers EXCEPT ![k.ver] = x],
             x.by = cnVers[k.ver].by, x.raced = cnVers[k.ver].raced,
             cnVers[k.ver].tags \cup {k.tag} \subseteq x.tags,
             x.gen = cnVers[k.ver].gen + 1 \/ cnBackend # "vertex",
             cnTagged' = cnTagged \cup {<<k.ver, k.tag>>}, CnTo(c, CnIdle),
             UNCHANGED <<cnBackend, cnOwner, cnLive, cnUri, cnCalls, cnCut, cnOverlap>>
      PROVE  CnInv'
  <2>1. PICK v, t : v = k.ver /\ t = k.tag OBVIOUS
  <2>2. CnGrows /\ cnVers' \in Seq(CnVersions) /\ CnTagsKept' /\ CnOwnNames'
        /\ \A p \in cnTagged' : p[1] \in DOMAIN cnVers'
    BY <1>1, <1>3, <2>1, CnTagsStored
  <2>3. cnCall' = [cnCall EXCEPT ![c] = CnIdle] BY <1>3 DEF CnTo
  <2>4. CnData'
    <3>1. cnCall' \in [CnWriters -> CnCallSet] BY <2>3, CnIdleTyped DEF CnInv, CnData
    <3>2. cnOwner' = "none" => cnVers' = <<>>
      <4>1. cnOwner # "none"
        <5>1. ASSUME cnOwner = "none" PROVE FALSE
          <6>1. cnVers = <<>> BY <5>1 DEF CnInv, CnData
          <6> QED BY <1>1, <6>1
        <5> QED BY <5>1
      <4> QED BY <1>3, <4>1
    <3> QED BY <1>3, <2>2, <3>1, <3>2 DEF CnInv, CnData
  <2>5. ~CnMoving(k) BY <1>1 DEF CnMoving
  <2>6. CnLiveMoving' BY <1>3, <2>3, <2>5, CnIdleTyped, CnStillMoving
  <2>7. k.at # "fluent" BY <1>1
  <2> QED BY <1>3, <2>2, <2>3, <2>4, <2>6, <2>7, CnIdleTyped, CnIdleFits, CnWrites
<1>4. k.tag \in CnTags
  BY <1>1 DEF CnCallFits
<1>5. CASE CnUpdatePackage(c) \/ CnMlflowSetTag(c)
  <2>1. PICK x : x = [cnVers[k.ver] EXCEPT !.tags = @ \cup {k.tag}] OBVIOUS
  <2>2. /\ x \in CnVersions /\ x.by = cnVers[k.ver].by /\ x.raced = cnVers[k.ver].raced
        /\ x.tags = cnVers[k.ver].tags \cup {k.tag}
    BY <1>2, <1>4, <2>1 DEF CnVersions
  <2>3. cnBackend # "vertex" /\ CnMerge(c) BY <1>5 DEF CnUpdatePackage, CnMlflowSetTag
  <2>4. cnVers' = [cnVers EXCEPT ![k.ver] = x] BY <2>1, <2>3 DEF CnMerge
  <2> QED BY <1>3, <2>2, <2>3, <2>4 DEF CnMerge
<1>6. CASE CnWriteTags(c) /\ ~CnGenerationMatches(c)
  <2>1. PICK e : e = [k EXCEPT !.at = "read"] OBVIOUS
  <2>2. e \in CnCallSet /\ e.at = "read" /\ e.op = k.op /\ e.ver = k.ver /\ e.tag = k.tag
    BY <1>1, <2>1 DEF CnCallSet, CnPlaces
  <2>3. /\ cnCall' = [cnCall EXCEPT ![c] = e] /\ k.at = "write"
        /\ UNCHANGED <<cnBackend, cnVers, cnTagged, cnOwner, cnLive, cnUri, cnCut, cnOverlap>>
    BY <1>6, <2>1 DEF CnWriteTags, CnTo
  <2>4. CnCallFits(e) BY <1>1, <1>4, <2>2, <2>3 DEF CnCallFits
  <2>5. ~CnMoving(k) BY <2>3 DEF CnMoving
  <2>6. UNCHANGED CnService BY <2>3 DEF CnService
  <2> QED BY <2>2, <2>3, <2>4, <2>5, <2>6, CnQuiet
<1>7. CASE CnWriteTags(c) /\ CnGenerationMatches(c)
  <2>1. PICK x : x = [cnVers[k.ver] EXCEPT !.tags = k.seen \cup {k.tag},
                                           !.gen = cnVers[k.ver].gen + 1]
    OBVIOUS
  <2>2. k.seen = cnVers[k.ver].tags
    BY <1>1, <1>7 DEF CnWriteTags, CnGenerationMatches, CnCallFits
  <2>3. cnVers[k.ver].gen + 1 \in Nat /\ k.seen \cup {k.tag} \in SUBSET CnTags
    BY <1>2, <1>4, <2>2 DEF CnVersions
  <2>4. /\ x \in CnVersions /\ x.by = cnVers[k.ver].by /\ x.raced = cnVers[k.ver].raced
        /\ x.tags = k.seen \cup {k.tag} /\ x.gen = cnVers[k.ver].gen + 1
    BY <1>2, <2>1, <2>3 DEF CnVersions
  <2>5. cnVers[k.ver].tags \cup {k.tag} \subseteq x.tags BY <2>2, <2>4
  <2>6. cnTagged' = cnTagged \cup {<<k.ver, k.tag>>} /\ CnTo(c, CnIdle)
    BY <1>7 DEF CnWriteTags
  <2>7. cnVers' = [cnVers EXCEPT ![k.ver] = x] BY <1>7, <2>1 DEF CnWriteTags
  <2>8. UNCHANGED <<cnBackend, cnOwner, cnLive, cnUri, cnCalls, cnCut, cnOverlap>>
    BY <1>7 DEF CnWriteTags
  <2> QED BY <1>3, <2>4, <2>5, <2>6, <2>7, <2>8
<1> QED BY <1>5, <1>6, <1>7

\* MLflow's URIs.
LEMMA CnFluent ==
  ASSUME CnInv, NEW c \in CnWriters,
         CnFluentEnter(c) \/ \E logged \in BOOLEAN : CnFluentExit(c, logged)
  PROVE  CnInv'
<1>1. cnCall[c] \in CnCallSet /\ CnCallFits(cnCall[c]) BY DEF CnInv, CnData
<1>2. ASSUME NEW e \in CnCallSet, cnCall' = [cnCall EXCEPT ![c] = e], CnCallFits(e),
             ~CnMoving(cnCall[c]), UNCHANGED <<cnBackend, CnService, cnTagged, cnCut>>,
             cnUri' \in {"unset", "ours"}, CnAlone', CnUrisRestored'
      PROVE  CnInv'
  <2>1. UNCHANGED <<cnBackend, cnOwner, cnVers, cnLive, cnTagged, cnCut>>
    BY <1>2 DEF CnService
  <2>2. CnData'
    <3>1. cnCall' \in [CnWriters -> CnCallSet] BY <1>2 DEF CnInv, CnData
    <3> QED BY <1>2, <2>1, <3>1 DEF CnInv, CnData
  <2>3. CnGrows BY <2>1 DEF CnGrows
  <2>4. CnCallFits(e)' BY <1>2, <2>3, CnSurvives DEF CnInv
  <2>5. \A d \in CnWriters : CnCallFits(cnCall[d])' BY <1>2, <2>2, <2>3, <2>4, CnOthers
  <2>6. CnLiveMoving'
    <3>1. cnLive' = cnLive /\ (cnCut => cnCut') BY <2>1
    <3> QED BY <1>2, <3>1, CnStillMoving
  <2>7. CnTagsKept' /\ CnOwnNames' BY <2>1 DEF CnInv, CnTagsKept, CnOwnNames
  <2> QED BY <1>2, <2>2, <2>5, <2>6, <2>7 DEF CnInv
<1>3. CASE CnFluentEnter(c)
  <2>1. PICK e : e = [cnCall[c] EXCEPT !.at = "fluent", !.saved = cnUri] OBVIOUS
  <2>2. /\ e \in CnCallSet /\ e.at = "fluent" /\ e.saved = cnUri /\ e.op = cnCall[c].op
        /\ e.ver = cnCall[c].ver /\ e.tag = cnCall[c].tag /\ e.name = cnCall[c].name
    BY <1>1, <2>1 DEF CnCallSet, CnPlaces, CnInv, CnData
  <2>3. /\ cnCall' = [cnCall EXCEPT ![c] = e] /\ cnCall[c].at = "enter" /\ cnUri' = "ours"
        /\ cnOverlap' = (cnOverlap \/ \E d \in CnWriters : cnCall[d].at = "fluent")
        /\ UNCHANGED <<cnBackend, CnService, cnTagged, cnCut>>
    BY <1>3, <2>1 DEF CnFluentEnter, CnTo
  <2>4. CnCallFits(e) BY <1>1, <2>2, <2>3 DEF CnCallFits
  <2>5. ~CnMoving(cnCall[c]) BY <2>3 DEF CnMoving
  <2>6. cnCall'[c] = e /\ \A d \in CnWriters : d # c => cnCall'[d] = cnCall[d]
    BY <2>3 DEF CnInv, CnData
  <2>7. CnUrisRestored' BY <2>2, <2>6 DEF CnUrisRestored
  <2>8. CnAlone'
    <3> SUFFICES ASSUME ~cnOverlap', NEW d \in CnWriters, cnCall'[d].at = "fluent"
                 PROVE  d = c /\ cnCall'[c].saved = "unset"
      BY DEF CnAlone
    <3>1. ~cnOverlap /\ \A f \in CnWriters : cnCall[f].at # "fluent" BY <2>3
    <3>2. cnUri = "unset" BY <3>1 DEF CnInv, CnUrisRestored
    <3> QED BY <2>2, <2>6, <3>1, <3>2
  <2> QED BY <1>2, <2>2, <2>3, <2>4, <2>5, <2>7, <2>8
<1>4. ASSUME NEW logged \in BOOLEAN, CnFluentExit(c, logged) PROVE CnInv'
  <2>1. PICK f : f = [cnCall[c] EXCEPT !.at = "ensure"] OBVIOUS
  <2>2. /\ f \in CnCallSet /\ f.at = "ensure" /\ f.op = cnCall[c].op
        /\ f.ver = cnCall[c].ver /\ f.tag = cnCall[c].tag /\ f.name = cnCall[c].name
    BY <1>1, <2>1 DEF CnCallSet, CnPlaces
  <2>3. /\ cnCall[c].at = "fluent" /\ cnUri' = cnCall[c].saved
        /\ UNCHANGED <<cnBackend, CnService, cnTagged, cnCut, cnOverlap>>
        /\ CnTo(c, IF logged /\ cnCall[c].op = "create" THEN f ELSE CnIdle)
    BY <1>4, <2>1 DEF CnFluentExit, CnRestored, CnHistory
  <2>4. cnCall[c].op = "create" => CnCallFits(f) BY <1>1, <2>2, <2>3 DEF CnCallFits
  <2>5. PICK e \in CnCallSet : cnCall' = [cnCall EXCEPT ![c] = e] /\ CnCallFits(e)
                               /\ e.at # "fluent"
    BY <2>2, <2>3, <2>4, CnIdleTyped, CnIdleFits DEF CnTo
  <2>6. cnCall'[c] = e /\ \A d \in CnWriters : d # c => cnCall'[d] = cnCall[d]
    BY <2>5 DEF CnInv, CnData
  <2>7. CnAlone' BY <2>3, <2>5, <2>6 DEF CnInv, CnAlone
  <2>8. CnUrisRestored'
    <3>1. ~cnOverlap => cnCall[c].saved = "unset" BY <2>3 DEF CnInv, CnAlone
    <3> QED BY <2>3, <3>1 DEF CnUrisRestored
  <2>9. ~CnMoving(cnCall[c]) BY <2>3 DEF CnMoving
  <2>10. cnUri' \in {"unset", "ours"} BY <1>1, <2>3 DEF CnCallSet
  <2> QED BY <1>2, <2>3, <2>5, <2>7, <2>8, <2>9, <2>10
<1> QED BY <1>3, <1>4

\* An empty registry with idle writers is one.
LEMMA CnEmpty == CnInit => CnInv
<1> SUFFICES ASSUME CnInit PROVE CnInv
  OBVIOUS
<1>1. \A c \in CnWriters : cnCall[c] = CnIdle BY DEF CnInit
<1>2. CnData BY CnIdleTyped DEF CnInit, CnData
<1>3. \A c \in CnWriters : CnCallFits(cnCall[c]) BY <1>1, CnIdleFits
<1>4. CnAlone BY <1>1, CnIdleTyped DEF CnAlone
<1>5. CnLiveMoving BY DEF CnInit, CnLiveMoving
<1>6. CnTagsKept /\ CnOwnNames /\ CnUrisRestored
  BY DEF CnInit, CnTagsKept, CnOwnNames, CnUrisRestored
<1> QED BY <1>2, <1>3, <1>4, <1>5, <1>6 DEF CnInv

\* The writers of a cloud registry, however their requests interleave, fail and
\* race, undo nothing of each other's: stored tags stay, LIVE is lost only by a
\* move that was cut off, an identifier keeps its owner, and MLflow's URIs are
\* put back; for any writers, names, tags and versions.
THEOREM CnAlwaysKept == CnSpec => []CnNothingUndone
<1>1. CnInv /\ [CnNext]_cnVars => CnInv'
  <2> SUFFICES ASSUME CnInv, [CnNext]_cnVars PROVE CnInv'
    OBVIOUS
  <2>1. ASSUME NEW c \in CnWriters, CnStep(c) PROVE CnInv'
    BY <2>1, CnBegins, CnLooks, CnCreates, CnMovesLive, CnStoresTags, CnFluent DEF CnStep
  <2>2. CASE UNCHANGED cnVars
    BY <2>2 DEF cnVars, CnInv, CnData, CnCallFits, CnAlone, CnLiveMoving, CnMoving, CnTagsKept,
                CnOwnNames, CnUrisRestored
  <2> QED BY <2>1, <2>2 DEF CnNext
<1>2. CnInv => CnNothingUndone
  <2>1. CnLiveMoving => CnLiveGoneOnlyByCut
    BY DEF CnLiveMoving, CnMoving, CnLiveGoneOnlyByCut
  <2> QED BY <2>1 DEF CnInv, CnNothingUndone
<1> QED BY <1>1, <1>2, CnEmpty, PTL DEF CnSpec

-----------------------------------------------------------------------------
(* The mirror.                                                             *)

MrTags == MrTagValues \cup {"unset"}
MrPrimaryVersion == [ready : BOOLEAN, tag : MrTagValues]
MrReplicaCopy == [src : Nat, tag : MrTagValues, ready : BOOLEAN]
MrOps == {"none", "create", "alias", "unalias", "tags"}
MrCallSet == [op : MrOps, at : {"idle", "upload", "replica", "copy"}, ver : Nat, tag : MrTags,
              copy : Nat]
MrSyncSet == [at : {"idle", "look", "copy", "upload", "tags", "aliases", "done"},
              list : Seq(MrPrimaryVersion), i : Nat, live : Nat, copy : Nat]
MrPrimaries == [vers : Seq(MrPrimaryVersion), live : Nat]
MrReplicas == [vers : Seq(MrReplicaCopy), live : Nat]

\* A replica that holds vs has a copy of version v; the first one is used.
MrHas(vs, v) == \E r \in DOMAIN vs : vs[r].src = v
MrHasWhole(vs, v) == \E r \in DOMAIN vs : vs[r].src = v /\ vs[r].ready
MrFirst(vs, v) == CHOOSE r \in {r \in DOMAIN vs : vs[r].src = v} :
                    \A s \in {s \in DOMAIN vs : vs[s].src = v} : r <= s

MrData ==
  /\ mrPrimary \in MrPrimaries
  /\ mrPrimary.live = 0 \/ mrPrimary.live \in DOMAIN mrPrimary.vers
  /\ mrReplica \in MrReplicas
  /\ mrMode \in {"fail", "log"} /\ mrCall \in [MrClients -> MrCallSet]
  /\ mrSync \in MrSyncSet /\ mrLevel \in BOOLEAN

\* The primary has the whole of version v; replica version r is a copy of v.
MrReadyVersion(v) == v \in DOMAIN mrPrimary.vers /\ mrPrimary.vers[v].ready
MrCopyIs(r, v) == r \in DOMAIN mrReplica.vers /\ mrReplica.vers[r].src = v

\* A call is repeated on the replica once the primary has it, and uploads into
\* the copy it has reserved.
MrCallFits(k) ==
  /\ k.at \in {"upload", "replica"} /\ k.op \in {"create", "tags"} => k.tag \in MrTagValues
  /\ k.at \in {"upload", "copy"} => k.op = "create"
  /\ k.at = "upload" => k.ver \in DOMAIN mrPrimary.vers
  /\ k.at \in {"replica", "copy"} /\ k.op = "create" => MrReadyVersion(k.ver)
  /\ k.at = "copy" => MrCopyIs(k.copy, k.ver)

MrSourced == \A r \in DOMAIN mrReplica.vers : MrReadyVersion(mrReplica.vers[r].src)

MrSettled(r) ==
  mrReplica.vers[r].ready \/ mrReplica.vers[r].src \in mrCut \/ MrUploading(r)
MrAllSettled == \A r \in DOMAIN mrReplica.vers : MrSettled(r)

\* The list of a sync never runs ahead of the primary.
MrListed ==
  /\ mrSync.at \in {"look", "copy", "upload", "tags"} =>
       Len(mrSync.list) <= Len(mrPrimary.vers) /\ mrSync.i \in Nat \ {0}
  /\ mrSync.at \in {"copy", "upload"} =>
       mrSync.i \in DOMAIN mrSync.list /\ MrReadyVersion(mrSync.i)
  /\ mrSync.at = "upload" => MrCopyIs(mrSync.copy, mrSync.i)

MrAnswersKept == mrMode = "fail" => \A v \in mrAnswered : MrHasWhole(mrReplica.vers, v)

MrTagIsLevel(v) ==
  mrReplica.vers[MrFirst(mrReplica.vers, v)].tag = mrPrimary.vers[v].tag

\* How far an undisturbed sync has come: versions copied, then tags, then LIVE.
MrCopied(n) == \A v \in DOMAIN mrPrimary.vers : v < n => MrHas(mrReplica.vers, v)
MrTagged(n) == \A v \in DOMAIN mrPrimary.vers : v < n => MrTagIsLevel(v)
MrProgress ==
  mrLevel =>
    /\ mrSync.at \in {"look", "copy", "upload", "tags"} => mrSync.list = mrPrimary.vers
    /\ mrSync.at \in {"look", "copy", "upload"} => MrCopied(mrSync.i)
    /\ mrSync.at \in {"tags", "aliases", "done"} =>
         \A v \in DOMAIN mrPrimary.vers : MrHas(mrReplica.vers, v)
    /\ mrSync.at = "tags" => MrTagged(mrSync.i)
    /\ mrSync.at \in {"aliases", "done"} => \A v \in DOMAIN mrPrimary.vers : MrTagIsLevel(v)
    /\ mrSync.at = "aliases" => mrSync.live = mrPrimary.live
    /\ mrSync.at = "done" =>
         mrReplica.live = IF mrPrimary.live = 0 THEN 0
                          ELSE MrFirst(mrReplica.vers, mrPrimary.live)

MrInv ==
  /\ MrData /\ (\A c \in MrClients : MrCallFits(mrCall[c]))
  /\ MrSourced /\ MrAllSettled /\ MrListed /\ MrAnswersKept /\ MrProgress

\* Every set of natural numbers has a least element.
LEMMA LeastNat ==
  ASSUME NEW T, T \subseteq Nat, T # {}
  PROVE  \E x \in T : \A y \in T : x <= y
<1>1. PICK x \in T : \A y \in T : ~(<<y, x>> \in OpToRel(<, Nat))
  BY WFMin, NatLessThanWellFounded, Zenon
<1>2. \A y \in T : ~(y < x)
  BY <1>1 DEF OpToRel
<1>3. \A y \in T : x <= y
  BY <1>2
<1> QED BY <1>3

\* The first copy is a copy, and no copy is before it.
LEMMA MrFirstIs ==
  ASSUME NEW vs \in Seq(MrReplicaCopy), NEW v, MrHas(vs, v)
  PROVE  /\ MrFirst(vs, v) \in DOMAIN vs /\ vs[MrFirst(vs, v)].src = v
         /\ \A s \in DOMAIN vs : vs[s].src = v => MrFirst(vs, v) <= s
<1>1. PICK T : T = {r \in DOMAIN vs : vs[r].src = v} OBVIOUS
<1>2. T \subseteq Nat /\ T # {}
  <2>1. DOMAIN vs = 1 .. Len(vs) OBVIOUS
  <2> QED BY <1>1, <2>1 DEF MrHas
<1>3. \E x \in T : \A y \in T : x <= y BY <1>2, LeastNat
<1>4. MrFirst(vs, v) = CHOOSE r \in T : \A s \in T : r <= s BY <1>1 DEF MrFirst
<1>5. MrFirst(vs, v) \in T /\ \A s \in T : MrFirst(vs, v) <= s BY <1>3, <1>4
<1> QED BY <1>1, <1>5

\* The first copy is the only one that no copy is before.
LEMMA MrFirstOnly ==
  ASSUME NEW vs, DOMAIN vs \subseteq Nat, NEW v, NEW r \in DOMAIN vs, vs[r].src = v,
         \A s \in DOMAIN vs : vs[s].src = v => r <= s
  PROVE  MrHas(vs, v) /\ MrFirst(vs, v) = r
<1>1. PICK T : T = {s \in DOMAIN vs : vs[s].src = v} OBVIOUS
<1>2. r \in T /\ T \subseteq Nat /\ \A s \in T : r <= s BY <1>1
<1>3. MrFirst(vs, v) = CHOOSE q \in T : \A s \in T : q <= s BY <1>1 DEF MrFirst
<1>4. PICK q : q = MrFirst(vs, v) OBVIOUS
<1>5. q \in T /\ \A s \in T : q <= s BY <1>2, <1>3, <1>4
<1>6. q = r BY <1>2, <1>5
<1>7. MrHas(vs, v) BY DEF MrHas
<1> QED BY <1>4, <1>6, <1>7

\* ws has every copy of vs where it was, and the whole ones whole.
MrGrows(vs, ws) ==
  /\ DOMAIN vs \subseteq DOMAIN ws
  /\ \A r \in DOMAIN vs : ws[r].src = vs[r].src /\ (vs[r].ready => ws[r].ready)

\* A replica that grows keeps the copies it uses.
LEMMA MrGrowsKeeps ==
  ASSUME NEW vs \in Seq(MrReplicaCopy), NEW ws \in Seq(MrReplicaCopy), MrGrows(vs, ws)
  PROVE  /\ \A v : MrHas(vs, v) => MrHas(ws, v) /\ MrFirst(ws, v) = MrFirst(vs, v)
         /\ \A v : MrHasWhole(vs, v) => MrHasWhole(ws, v)
<1>1. /\ DOMAIN vs = 1 .. Len(vs) /\ DOMAIN ws = 1 .. Len(ws)
      /\ Len(vs) \in Nat /\ Len(ws) \in Nat
  OBVIOUS
<1>2. ASSUME NEW v, MrHas(vs, v)
      PROVE  MrHas(ws, v) /\ MrFirst(ws, v) = MrFirst(vs, v)
  <2>1. PICK r : r = MrFirst(vs, v) OBVIOUS
  <2>2. /\ r \in DOMAIN vs /\ vs[r].src = v
        /\ \A s \in DOMAIN vs : vs[s].src = v => r <= s
    BY <1>2, <2>1, MrFirstIs
  <2>3. r \in DOMAIN ws /\ ws[r].src = v BY <2>2 DEF MrGrows
  <2>4. ASSUME NEW s \in DOMAIN ws, ws[s].src = v PROVE r <= s
    <3>1. CASE s \in DOMAIN vs BY <2>2, <2>4, <3>1 DEF MrGrows
    <3>2. CASE s \notin DOMAIN vs BY <1>1, <2>2, <3>2
    <3> QED BY <3>1, <3>2
  <2>5. DOMAIN ws \subseteq Nat BY <1>1
  <2>6. MrHas(ws, v) /\ MrFirst(ws, v) = r BY <2>3, <2>4, <2>5, MrFirstOnly
  <2> QED BY <2>1, <2>6
<1>3. ASSUME NEW v, MrHasWhole(vs, v) PROVE MrHasWhole(ws, v)
  <2>1. PICK r \in DOMAIN vs : vs[r].src = v /\ vs[r].ready BY <1>3 DEF MrHasWhole
  <2> QED BY <2>1 DEF MrGrows, MrHasWhole
<1> QED BY <1>2, <1>3

\* One more copy.
LEMMA MrAppendGrows ==
  ASSUME NEW vs \in Seq(MrReplicaCopy), NEW e \in MrReplicaCopy
  PROVE  /\ Append(vs, e) \in Seq(MrReplicaCopy) /\ MrGrows(vs, Append(vs, e))
         /\ DOMAIN Append(vs, e) = DOMAIN vs \cup {Len(vs) + 1} /\ Len(vs) + 1 \in Nat
         /\ Append(vs, e)[Len(vs) + 1] = e
         /\ \A r \in DOMAIN vs : Append(vs, e)[r] = vs[r]
<1>1. PICK ws : ws = Append(vs, e) OBVIOUS
<1>2. /\ ws \in Seq(MrReplicaCopy) /\ Len(ws) = Len(vs) + 1 /\ ws[Len(vs) + 1] = e
      /\ \A i \in 1 .. Len(vs) : ws[i] = vs[i]
  BY <1>1, AppendProperties
<1>3. /\ DOMAIN vs = 1 .. Len(vs) /\ DOMAIN ws = 1 .. Len(vs) + 1 /\ Len(vs) \in Nat
  BY <1>2
<1>4. DOMAIN ws = DOMAIN vs \cup {Len(vs) + 1} BY <1>3
<1>5. MrGrows(vs, ws) BY <1>2, <1>3 DEF MrGrows
<1> QED BY <1>1, <1>2, <1>3, <1>4, <1>5

\* ws is vs with another copy of the same version at r, whole if it was.
LEMMA MrWriteGrows ==
  ASSUME NEW vs \in Seq(MrReplicaCopy), NEW r \in DOMAIN vs, NEW e \in MrReplicaCopy,
         e.src = vs[r].src, vs[r].ready => e.ready,
         NEW ws, ws = [vs EXCEPT ![r] = e]
  PROVE  /\ ws \in Seq(MrReplicaCopy) /\ DOMAIN ws = DOMAIN vs /\ MrGrows(vs, ws)
         /\ ws[r] = e /\ \A s \in DOMAIN vs : s # r => ws[s] = vs[s]
<1>1. r \in 1 .. Len(vs) OBVIOUS
<1>2. [vs EXCEPT ![r] = e] \in Seq(MrReplicaCopy) BY <1>1, ExceptSeq
<1>3. /\ DOMAIN ws = DOMAIN vs /\ ws[r] = e
      /\ \A s \in DOMAIN vs : s # r => ws[s] = vs[s]
  OBVIOUS
<1>4. MrGrows(vs, ws) BY <1>3 DEF MrGrows
<1> QED BY <1>2, <1>3, <1>4

\* MrIdle and MrNoSync, field by field.
LEMMA MrIdleTyped ==
  /\ MrIdle \in MrCallSet /\ MrIdle.at = "idle" /\ MrIdle.op = "none"
  /\ MrCallFits(MrIdle) /\ MrCallFits(MrIdle)'
  /\ MrNoSync \in MrSyncSet /\ MrNoSync.at = "idle"
<1>1. MrIdle \in MrCallSet /\ MrIdle.at = "idle" /\ MrIdle.op = "none"
  BY DEF MrIdle, MrCallSet, MrOps, MrTags
<1>2. MrNoSync.list \in Seq(MrPrimaryVersion) BY DEF MrNoSync
<1>3. MrNoSync \in MrSyncSet /\ MrNoSync.at = "idle" BY <1>2 DEF MrNoSync, MrSyncSet
<1> QED BY <1>1, <1>3 DEF MrCallFits

\* The replica's side in terms of its list of copies.
LEMMA MrReplicaSide ==
  ASSUME NEW v
  PROVE  /\ MrMapped(v) <=> MrHas(mrReplica.vers, v)
         /\ MrReplicaVersion(v) = MrFirst(mrReplica.vers, v)
         /\ (\E r \in MrCopies(v) : mrReplica.vers[r].ready) <=> MrHasWhole(mrReplica.vers, v)
BY DEF MrMapped, MrHas, MrHasWhole, MrCopies, MrReplicaVersion, MrFirst

\* What each write does to the list of copies.
LEMMA MrReplicaAfter ==
  ASSUME mrReplica \in MrReplicas, NEW vs, vs = mrReplica.vers
  PROVE  /\ \A v \in Nat, t \in MrTagValues : MrReplicaReserve(v, t) =>
              LET ws == mrReplica'.vers
              IN  /\ mrReplica' \in MrReplicas /\ MrGrows(vs, ws)
                  /\ DOMAIN ws = DOMAIN vs \cup {Len(vs) + 1} /\ Len(vs) + 1 \in Nat
                  /\ ws[Len(vs) + 1] = [src |-> v, tag |-> t, ready |-> FALSE]
                  /\ \A r \in DOMAIN vs : ws[r] = vs[r]
         /\ \A r \in DOMAIN vs : MrReplicaWhole(r) =>
              LET ws == mrReplica'.vers
              IN  /\ mrReplica' \in MrReplicas /\ MrGrows(vs, ws) /\ DOMAIN ws = DOMAIN vs
                  /\ ws[r].ready /\ ws[r].src = vs[r].src
                  /\ \A s \in DOMAIN vs : s # r => ws[s] = vs[s]
         /\ \A v : \A t \in MrTagValues : MrHas(vs, v) /\ MrReplicaTag(v, t) =>
              LET ws == mrReplica'.vers
              IN  /\ mrReplica' \in MrReplicas /\ MrGrows(vs, ws) /\ DOMAIN ws = DOMAIN vs
                  /\ ws[MrFirst(vs, v)].tag = t
                  /\ \A r \in DOMAIN vs : ws[r].ready = vs[r].ready
                  /\ \A s \in DOMAIN vs : s # MrFirst(vs, v) => ws[s] = vs[s]
         /\ \A n \in Nat : mrReplica' = [mrReplica EXCEPT !.live = n] =>
              /\ mrReplica' \in MrReplicas /\ mrReplica'.vers = vs /\ MrGrows(vs, vs)
              /\ mrReplica'.live = n
<1>1. vs \in Seq(MrReplicaCopy) BY DEF MrReplicas
<1>2. ASSUME NEW ws \in Seq(MrReplicaCopy), mrReplica' = [mrReplica EXCEPT !.vers = ws]
      PROVE  mrReplica' \in MrReplicas /\ mrReplica'.vers = ws
  BY <1>2 DEF MrReplicas
<1>3. ASSUME NEW v \in Nat, NEW t \in MrTagValues, MrReplicaReserve(v, t)
      PROVE  /\ mrReplica' \in MrReplicas /\ MrGrows(vs, mrReplica'.vers)
             /\ DOMAIN mrReplica'.vers = DOMAIN vs \cup {Len(vs) + 1} /\ Len(vs) + 1 \in Nat
             /\ mrReplica'.vers[Len(vs) + 1] = [src |-> v, tag |-> t, ready |-> FALSE]
             /\ \A r \in DOMAIN vs : mrReplica'.vers[r] = vs[r]
  <2>1. PICK e : e = [src |-> v, tag |-> t, ready |-> FALSE] OBVIOUS
  <2>2. e \in MrReplicaCopy BY <2>1 DEF MrReplicaCopy
  <2>3. PICK ws : ws = Append(vs, e) OBVIOUS
  <2>4. mrReplica' = [mrReplica EXCEPT !.vers = ws] BY <1>3, <2>1, <2>3 DEF MrReplicaReserve
  <2>5. /\ ws \in Seq(MrReplicaCopy) /\ MrGrows(vs, ws)
        /\ DOMAIN ws = DOMAIN vs \cup {Len(vs) + 1} /\ Len(vs) + 1 \in Nat
        /\ ws[Len(vs) + 1] = e /\ \A r \in DOMAIN vs : ws[r] = vs[r]
    BY <1>1, <2>2, <2>3, MrAppendGrows
  <2>6. mrReplica' \in MrReplicas /\ mrReplica'.vers = ws BY <1>2, <2>4, <2>5
  <2> QED BY <2>1, <2>5, <2>6
<1>4. ASSUME NEW r \in DOMAIN vs, MrReplicaWhole(r)
      PROVE  /\ mrReplica' \in MrReplicas /\ MrGrows(vs, mrReplica'.vers)
             /\ DOMAIN mrReplica'.vers = DOMAIN vs
             /\ mrReplica'.vers[r].ready /\ mrReplica'.vers[r].src = vs[r].src
             /\ \A s \in DOMAIN vs : s # r => mrReplica'.vers[s] = vs[s]
  <2>1. PICK e : e = [vs[r] EXCEPT !.ready = TRUE] OBVIOUS
  <2>2. vs[r] \in MrReplicaCopy BY <1>1
  <2>3. e \in MrReplicaCopy /\ e.src = vs[r].src /\ e.ready BY <2>1, <2>2 DEF MrReplicaCopy
  <2>4. PICK ws : ws = [vs EXCEPT ![r] = e] OBVIOUS
  <2>5. mrReplica' = [mrReplica EXCEPT !.vers = ws] BY <1>4, <2>1, <2>4 DEF MrReplicaWhole
  <2>6. /\ ws \in Seq(MrReplicaCopy) /\ DOMAIN ws = DOMAIN vs /\ MrGrows(vs, ws)
        /\ ws[r] = e /\ \A s \in DOMAIN vs : s # r => ws[s] = vs[s]
    BY <1>1, <2>3, <2>4, MrWriteGrows
  <2>7. mrReplica' \in MrReplicas /\ mrReplica'.vers = ws BY <1>2, <2>5, <2>6
  <2> QED BY <2>3, <2>6, <2>7
<1>5. ASSUME NEW v, NEW t \in MrTagValues, MrHas(vs, v), MrReplicaTag(v, t)
      PROVE  /\ mrReplica' \in MrReplicas /\ MrGrows(vs, mrReplica'.vers)
             /\ DOMAIN mrReplica'.vers = DOMAIN vs
             /\ mrReplica'.vers[MrFirst(vs, v)].tag = t
             /\ \A r \in DOMAIN vs : mrReplica'.vers[r].ready = vs[r].ready
             /\ \A s \in DOMAIN vs : s # MrFirst(vs, v) => mrReplica'.vers[s] = vs[s]
  <2>1. PICK f : f = MrFirst(vs, v) OBVIOUS
  <2>2. f \in DOMAIN vs BY <1>1, <1>5, <2>1, MrFirstIs
  <2>3. PICK e : e = [vs[f] EXCEPT !.tag = t] OBVIOUS
  <2>4. vs[f] \in MrReplicaCopy BY <1>1, <2>2
  <2>5. e \in MrReplicaCopy /\ e.src = vs[f].src /\ e.ready = vs[f].ready /\ e.tag = t
    BY <2>3, <2>4 DEF MrReplicaCopy
  <2>6. PICK ws : ws = [vs EXCEPT ![f] = e] OBVIOUS
  <2>7. mrReplica' = [mrReplica EXCEPT !.vers[f].tag = t]
    BY <1>5, <2>1, MrReplicaSide DEF MrReplicaTag
  <2>8. mrReplica' = [mrReplica EXCEPT !.vers = ws] BY <2>3, <2>6, <2>7
  <2>9. /\ ws \in Seq(MrReplicaCopy) /\ DOMAIN ws = DOMAIN vs /\ MrGrows(vs, ws)
        /\ ws[f] = e /\ \A s \in DOMAIN vs : s # f => ws[s] = vs[s]
    BY <1>1, <2>2, <2>5, <2>6, MrWriteGrows
  <2>10. mrReplica' \in MrReplicas /\ mrReplica'.vers = ws BY <1>2, <2>8, <2>9
  <2> QED BY <2>1, <2>5, <2>9, <2>10
<1>6. ASSUME NEW n \in Nat, mrReplica' = [mrReplica EXCEPT !.live = n]
      PROVE  mrReplica' \in MrReplicas /\ mrReplica'.vers = vs /\ MrGrows(vs, vs)
             /\ mrReplica'.live = n
  BY <1>6 DEF MrReplicas, MrGrows
<1> QED BY <1>3, <1>4, <1>5, <1>6

\* The primary after a write: no version goes, and a whole one stays whole.
MrPrimaryKept ==
  /\ mrPrimary' \in MrPrimaries
  /\ mrPrimary'.live = 0 \/ mrPrimary'.live \in DOMAIN mrPrimary'.vers
  /\ Len(mrPrimary.vers) <= Len(mrPrimary'.vers)
  /\ DOMAIN mrPrimary.vers \subseteq DOMAIN mrPrimary'.vers
  /\ \A v \in DOMAIN mrPrimary.vers : mrPrimary.vers[v].ready => mrPrimary'.vers[v].ready

LEMMA MrPrimaryAfter ==
  ASSUME mrPrimary \in MrPrimaries,
         mrPrimary.live = 0 \/ mrPrimary.live \in DOMAIN mrPrimary.vers,
         \/ \E e \in MrPrimaryVersion : mrPrimary' = [mrPrimary EXCEPT !.vers = Append(@, e)]
         \/ \E n \in DOMAIN mrPrimary.vers \cup {0} : mrPrimary' = [mrPrimary EXCEPT !.live = n]
         \/ \E v \in DOMAIN mrPrimary.vers, t \in MrTagValues :
               mrPrimary' = [mrPrimary EXCEPT !.vers[v].tag = t]
         \/ \E v \in DOMAIN mrPrimary.vers : MrPrimaryWhole(v)
         \/ mrPrimary' = mrPrimary
  PROVE  MrPrimaryKept
<1>1. PICK p, old : p = mrPrimary' /\ old = mrPrimary.vers OBVIOUS
<1>2. old \in Seq(MrPrimaryVersion) /\ DOMAIN old = 1 .. Len(old) /\ Len(old) \in Nat
  BY <1>1 DEF MrPrimaries
<1>3. CASE \E e \in MrPrimaryVersion : p = [mrPrimary EXCEPT !.vers = Append(@, e)]
  <2>1. PICK e \in MrPrimaryVersion : p = [mrPrimary EXCEPT !.vers = Append(@, e)] BY <1>3
  <2>2. PICK new : new = Append(old, e) OBVIOUS
  <2>3. /\ new \in Seq(MrPrimaryVersion) /\ Len(new) = Len(old) + 1
        /\ \A i \in 1 .. Len(old) : new[i] = old[i]
    BY <1>2, <2>2, AppendProperties
  <2>4. p = [mrPrimary EXCEPT !.vers = new] BY <1>1, <2>1, <2>2
  <2>5. p.vers = new /\ p.live = mrPrimary.live /\ p \in MrPrimaries
    BY <2>3, <2>4 DEF MrPrimaries
  <2>6. DOMAIN new = 1 .. Len(old) + 1 BY <2>3
  <2> QED BY <1>1, <1>2, <2>3, <2>5, <2>6 DEF MrPrimaryKept
<1>4. CASE \E n \in DOMAIN old \cup {0} : p = [mrPrimary EXCEPT !.live = n]
  BY <1>1, <1>2, <1>4 DEF MrPrimaryKept, MrPrimaries
<1>5. ASSUME NEW v \in DOMAIN old, NEW e \in MrPrimaryVersion, old[v].ready => e.ready,
             p = [mrPrimary EXCEPT !.vers[v] = e]
      PROVE  MrPrimaryKept
  <2>1. PICK new : new = [old EXCEPT ![v] = e] OBVIOUS
  <2>2. v \in 1 .. Len(old) BY <1>2
  <2>3. new \in Seq(MrPrimaryVersion) /\ Len(new) = Len(old) BY <1>2, <1>5, <2>1, <2>2, ExceptSeq
  <2>4. p = [mrPrimary EXCEPT !.vers = new] BY <1>1, <1>5, <2>1
  <2>5. p.vers = new /\ p.live = mrPrimary.live /\ p \in MrPrimaries
    BY <2>3, <2>4 DEF MrPrimaries
  <2>6. DOMAIN new = DOMAIN old /\ \A i \in DOMAIN old : old[i].ready => new[i].ready
    BY <1>5, <2>1
  <2> QED BY <1>1, <1>2, <2>3, <2>5, <2>6 DEF MrPrimaryKept
<1>6. CASE \E v \in DOMAIN old, t \in MrTagValues : p = [mrPrimary EXCEPT !.vers[v].tag = t]
  <2>1. PICK v \in DOMAIN old, t \in MrTagValues : p = [mrPrimary EXCEPT !.vers[v].tag = t]
    BY <1>6
  <2>2. PICK e : e = [old[v] EXCEPT !.tag = t] OBVIOUS
  <2>3. old[v] \in MrPrimaryVersion BY <1>2
  <2>4. e \in MrPrimaryVersion /\ e.ready = old[v].ready BY <2>2, <2>3 DEF MrPrimaryVersion
  <2>5. p = [mrPrimary EXCEPT !.vers[v] = e] BY <1>1, <2>1, <2>2
  <2> QED BY <1>5, <2>4, <2>5
<1>7. CASE \E v \in DOMAIN old : MrPrimaryWhole(v)
  <2>1. PICK v \in DOMAIN old : p = [mrPrimary EXCEPT !.vers[v].ready = TRUE]
    BY <1>1, <1>7 DEF MrPrimaryWhole
  <2>2. PICK e : e = [old[v] EXCEPT !.ready = TRUE] OBVIOUS
  <2>3. old[v] \in MrPrimaryVersion BY <1>2
  <2>4. e \in MrPrimaryVersion /\ e.ready BY <2>2, <2>3 DEF MrPrimaryVersion
  <2>5. p = [mrPrimary EXCEPT !.vers[v] = e] BY <1>1, <2>1, <2>2
  <2> QED BY <1>5, <2>4, <2>5
<1>8. CASE p = mrPrimary
  BY <1>1, <1>2, <1>8 DEF MrPrimaryKept
<1> QED BY <1>1, <1>3, <1>4, <1>6, <1>7, <1>8

\* A copy's upload is still under way when another call moves.
LEMMA MrUploadGoesOn ==
  ASSUME mrCall \in [MrClients -> MrCallSet], NEW r, MrUploading(r),
         NEW c \in MrClients, NEW k, mrCall' = [mrCall EXCEPT ![c] = k],
         mrCall[c].at # "copy" \/ mrCall[c].copy # r, mrSync' = mrSync
  PROVE  MrUploading(r)'
<1>1. CASE mrSync.at = "upload" /\ mrSync.copy = r
  BY <1>1 DEF MrUploading
<1>2. CASE \E d \in MrClients : mrCall[d].at = "copy" /\ mrCall[d].copy = r
  <2>1. PICK d \in MrClients : mrCall[d].at = "copy" /\ mrCall[d].copy = r BY <1>2
  <2>2. mrCall'[d] = mrCall[d] BY <2>1
  <2> QED BY <2>1, <2>2 DEF MrUploading
<1> QED BY <1>1, <1>2 DEF MrUploading

\* So it is when the sync moves.
LEMMA MrUploadOutlastsSync ==
  ASSUME NEW r, MrUploading(r), mrCall' = mrCall, mrSync.at # "upload" \/ mrSync.copy # r
  PROVE  MrUploading(r)'
BY DEF MrUploading

\* A write to the primary takes no version away, and ends what an earlier sync
\* could promise.
LEMMA MrPrimaryMoves ==
  ASSUME MrInv, NEW c \in MrClients, NEW k \in MrCallSet, MrCallFits(k)',
         mrCall[c].at # "copy", MrPrimaryKept,
         mrCall' = [mrCall EXCEPT ![c] = k], mrLevel' = FALSE,
         UNCHANGED <<mrReplica, mrMode, mrSync, mrAnswered, mrCut>>
  PROVE  MrInv'
<1>1. /\ mrPrimary.vers \in Seq(MrPrimaryVersion) /\ mrCall \in [MrClients -> MrCallSet]
      /\ mrPrimary'.vers \in Seq(MrPrimaryVersion)
  BY DEF MrInv, MrData, MrPrimaryKept, MrPrimaries
<1>2. \A v : MrReadyVersion(v) => MrReadyVersion(v)' BY DEF MrPrimaryKept, MrReadyVersion
<1>3. MrData' BY <1>1 DEF MrInv, MrData, MrPrimaryKept
<1>4. ASSUME NEW d \in MrClients PROVE MrCallFits(mrCall[d])'
  <2>1. CASE d = c BY <1>1, <2>1
  <2>2. CASE d # c
    <3>1. mrCall'[d] = mrCall[d] /\ MrCallFits(mrCall[d]) BY <1>1, <2>2 DEF MrInv
    <3>2. DOMAIN mrPrimary.vers \subseteq DOMAIN mrPrimary'.vers BY DEF MrPrimaryKept
    <3> QED BY <1>2, <3>1, <3>2 DEF MrCallFits, MrCopyIs
  <2> QED BY <2>1, <2>2
<1>5. MrSourced' BY <1>2 DEF MrInv, MrSourced
<1>6. MrListed'
  <2>1. mrSync' = mrSync /\ mrSync.list \in Seq(MrPrimaryVersion) BY DEF MrInv, MrData, MrSyncSet
  <2>2. Len(mrSync.list) \in Nat /\ Len(mrPrimary.vers) \in Nat /\ Len(mrPrimary'.vers) \in Nat
    BY <1>1, <2>1
  <2>3. Len(mrPrimary.vers) <= Len(mrPrimary'.vers) BY DEF MrPrimaryKept
  <2> QED BY <1>2, <2>1, <2>2, <2>3 DEF MrInv, MrListed, MrCopyIs
<1>7. MrAnswersKept' BY DEF MrInv, MrAnswersKept
<1>8. MrAllSettled'
  <2> SUFFICES ASSUME NEW r \in DOMAIN mrReplica.vers PROVE MrSettled(r)'
    BY DEF MrAllSettled
  <2>1. MrSettled(r) BY DEF MrInv, MrAllSettled
  <2>2. MrUploading(r) => MrUploading(r)' BY <1>1, MrUploadGoesOn
  <2> QED BY <2>1, <2>2 DEF MrSettled
<1>9. MrProgress' BY DEF MrProgress
<1> QED BY <1>3, <1>4, <1>5, <1>6, <1>7, <1>8, <1>9 DEF MrInv

\* A write to the replica keeps the copies, and ends what an earlier sync could
\* promise.
LEMMA MrReplicaMoves ==
  ASSUME MrInv, NEW c \in MrClients, NEW k \in MrCallSet, MrCallFits(k)',
         mrCall' = [mrCall EXCEPT ![c] = k],
         mrReplica' \in MrReplicas, MrGrows(mrReplica.vers, mrReplica'.vers),
         MrSourced', MrAllSettled', MrAnswersKept',
         mrLevel' = FALSE, UNCHANGED <<mrPrimary, mrMode, mrSync>>
  PROVE  MrInv'
<1>1. mrCall \in [MrClients -> MrCallSet] BY DEF MrInv, MrData
<1>2. MrData' BY <1>1 DEF MrInv, MrData
<1>3. \A r, v : MrCopyIs(r, v) => MrCopyIs(r, v)' BY DEF MrCopyIs, MrGrows
<1>4. ASSUME NEW d \in MrClients PROVE MrCallFits(mrCall[d])'
  <2>1. CASE d = c BY <1>1, <2>1
  <2>2. CASE d # c
    <3>1. mrCall'[d] = mrCall[d] /\ MrCallFits(mrCall[d]) BY <1>1, <2>2 DEF MrInv
    <3> QED BY <1>3, <3>1 DEF MrCallFits, MrReadyVersion
  <2> QED BY <2>1, <2>2
<1>5. MrListed' BY <1>3 DEF MrInv, MrListed, MrReadyVersion
<1>6. MrProgress' BY DEF MrProgress
<1> QED BY <1>2, <1>4, <1>5, <1>6 DEF MrInv

\* A step of a sync leaves the primary and its callers alone.
LEMMA MrSyncMoves ==
  ASSUME MrInv, NEW s \in MrSyncSet, MrSyncStep(s), mrLevel' \in BOOLEAN,
         mrReplica' \in MrReplicas, MrGrows(mrReplica.vers, mrReplica'.vers),
         MrSourced', MrAllSettled', MrListed', MrProgress'
  PROVE  MrInv'
<1>1. mrSync' = s /\ UNCHANGED <<mrPrimary, mrMode, mrCall, mrCalls, mrAnswered>>
  BY DEF MrSyncStep
<1>2. MrData' BY <1>1 DEF MrInv, MrData
<1>3. \A r, v : MrCopyIs(r, v) => MrCopyIs(r, v)' BY DEF MrCopyIs, MrGrows
<1>4. \A c \in MrClients : MrCallFits(mrCall[c])'
  BY <1>1, <1>3 DEF MrInv, MrCallFits, MrReadyVersion
<1>5. MrAnswersKept'
  <2>1. mrReplica.vers \in Seq(MrReplicaCopy) /\ mrReplica'.vers \in Seq(MrReplicaCopy)
    BY DEF MrInv, MrData, MrReplicas
  <2>2. \A v : MrHasWhole(mrReplica.vers, v) => MrHasWhole(mrReplica'.vers, v)
    BY <2>1, MrGrowsKeeps
  <2> QED BY <1>1, <2>2 DEF MrInv, MrAnswersKept
<1> QED BY <1>2, <1>4, <1>5 DEF MrInv

\* The port's writes, on the primary.
LEMMA MrWrites ==
  ASSUME MrInv, NEW c \in MrClients,
         \/ \E tag \in MrTagValues : MrCreateVersion(c, tag)
         \/ \E v \in 1 .. MrMaxVersions : MrSetAlias(c, v)
         \/ \E v \in 1 .. MrMaxVersions, tag \in MrTagValues : MrSetVersionTags(c, v, tag)
         \/ MrDeleteAlias(c)
  PROVE  MrInv'
<1>1. /\ mrPrimary \in MrPrimaries
      /\ mrPrimary.live = 0 \/ mrPrimary.live \in DOMAIN mrPrimary.vers
      /\ mrCall \in [MrClients -> MrCallSet]
  BY DEF MrInv, MrData
<1>2. ASSUME NEW op \in MrOps, NEW at \in {"upload", "replica"}, NEW v \in Nat,
             NEW tag \in MrTags, MrPrimaryWrite(c, op, at, v, tag), MrPrimaryKept,
             op \in {"create", "tags"} => tag \in MrTagValues,
             at = "upload" => op = "create" /\ v \in DOMAIN mrPrimary'.vers,
             at = "replica" => op # "create"
      PROVE  MrInv'
  <2>1. PICK k : k = [MrIdle EXCEPT !.op = op, !.at = at, !.ver = v, !.tag = tag] OBVIOUS
  <2>2. k \in MrCallSet /\ k.op = op /\ k.at = at /\ k.ver = v /\ k.tag = tag
    BY <2>1, MrIdleTyped DEF MrCallSet
  <2>3. /\ mrCall' = [mrCall EXCEPT ![c] = k] /\ mrLevel' = FALSE /\ mrCall[c].at = "idle"
        /\ UNCHANGED <<mrReplica, mrMode, mrSync, mrAnswered, mrCut>>
    BY <1>2, <2>1 DEF MrPrimaryWrite
  <2>4. MrCallFits(k)' BY <1>2, <2>2 DEF MrCallFits
  <2> QED BY <1>2, <2>2, <2>3, <2>4, MrPrimaryMoves
<1>3. CASE \E tag \in MrTagValues : MrCreateVersion(c, tag)
  <2>1. PICK tag \in MrTagValues : MrCreateVersion(c, tag) BY <1>3
  <2>2. PICK e, n : e = [ready |-> FALSE, tag |-> tag] /\ n = Len(mrPrimary.vers) + 1 OBVIOUS
  <2>3. e \in MrPrimaryVersion BY <2>2 DEF MrPrimaryVersion
  <2>4. mrPrimary' = [mrPrimary EXCEPT !.vers = Append(@, e)] BY <2>1, <2>2 DEF MrCreateVersion
  <2>5. MrPrimaryWrite(c, "create", "upload", n, tag) BY <2>1, <2>2 DEF MrCreateVersion
  <2>6. mrPrimary.vers \in Seq(MrPrimaryVersion) BY <1>1 DEF MrPrimaries
  <2>7. n \in Nat /\ mrPrimary'.vers = Append(mrPrimary.vers, e)
    BY <1>1, <2>2, <2>4, <2>6 DEF MrPrimaries
  <2>8. n \in DOMAIN mrPrimary'.vers
    <3>1. Append(mrPrimary.vers, e) \in Seq(MrPrimaryVersion)
          /\ Len(Append(mrPrimary.vers, e)) = n
      BY <2>2, <2>3, <2>6, AppendProperties
    <3> QED BY <2>2, <2>6, <2>7, <3>1, LenProperties
  <2>9. MrPrimaryKept BY <1>1, <2>3, <2>4, MrPrimaryAfter
  <2>10. "create" \in MrOps /\ tag \in MrTags BY DEF MrOps, MrTags
  <2> QED BY <1>2, <2>5, <2>7, <2>8, <2>9, <2>10
<1>4. CASE \E v \in 1 .. MrMaxVersions : MrSetAlias(c, v)
  <2>1. PICK v \in 1 .. MrMaxVersions : MrSetAlias(c, v) BY <1>4
  <2>2. /\ v \in DOMAIN mrPrimary.vers /\ mrPrimary' = [mrPrimary EXCEPT !.live = v]
        /\ MrPrimaryWrite(c, "alias", "replica", v, "unset")
    BY <2>1 DEF MrSetAlias
  <2>3. MrPrimaryKept BY <1>1, <2>2, MrPrimaryAfter
  <2>4. "alias" \in MrOps /\ "unset" \in MrTags /\ v \in Nat BY DEF MrOps, MrTags
  <2> QED BY <1>2, <2>2, <2>3, <2>4
<1>5. CASE \E v \in 1 .. MrMaxVersions, tag \in MrTagValues : MrSetVersionTags(c, v, tag)
  <2>1. PICK v \in 1 .. MrMaxVersions, tag \in MrTagValues : MrSetVersionTags(c, v, tag)
    BY <1>5
  <2>2. /\ v \in DOMAIN mrPrimary.vers /\ mrPrimary' = [mrPrimary EXCEPT !.vers[v].tag = tag]
        /\ MrPrimaryWrite(c, "tags", "replica", v, tag)
    BY <2>1 DEF MrSetVersionTags
  <2>3. MrPrimaryKept BY <1>1, <2>2, MrPrimaryAfter
  <2>4. "tags" \in MrOps /\ tag \in MrTags /\ v \in Nat BY DEF MrOps, MrTags
  <2> QED BY <1>2, <2>2, <2>3, <2>4
<1>6. CASE MrDeleteAlias(c)
  <2>2. /\ mrPrimary' = [mrPrimary EXCEPT !.live = 0]
        /\ MrPrimaryWrite(c, "unalias", "replica", 0, "unset")
    BY <1>6 DEF MrDeleteAlias
  <2>3. MrPrimaryKept BY <1>1, <2>2, MrPrimaryAfter
  <2>4. "unalias" \in MrOps /\ "unset" \in MrTags /\ 0 \in Nat BY DEF MrOps, MrTags
  <2> QED BY <1>2, <2>2, <2>3, <2>4
<1> QED BY <1>3, <1>4, <1>5, <1>6

\* The end of the primary's create_version, well or not.
LEMMA MrUploaded ==
  ASSUME MrInv, NEW c \in MrClients, MrUploads(c) \/ MrCreateFails(c)
  PROVE  MrInv'
<1>1. PICK k : k = mrCall[c] OBVIOUS
<1>2. /\ mrPrimary \in MrPrimaries
      /\ mrPrimary.live = 0 \/ mrPrimary.live \in DOMAIN mrPrimary.vers
      /\ mrCall \in [MrClients -> MrCallSet] /\ k \in MrCallSet /\ MrCallFits(k)
  BY <1>1 DEF MrInv, MrData
<1>3. /\ k.at = "upload" /\ mrLevel' = FALSE
      /\ UNCHANGED <<mrReplica, mrMode, mrSync, mrAnswered, mrCut>>
      /\ MrPrimaryWhole(k.ver) \/ UNCHANGED mrPrimary
  BY <1>1 DEF MrUploads, MrCreateFails, MrPrimaryFinish
<1>4. k.op = "create" /\ k.ver \in DOMAIN mrPrimary.vers /\ k.tag \in MrTagValues
  BY <1>2, <1>3 DEF MrCallFits
<1>5. MrPrimaryKept BY <1>2, <1>3, <1>4, MrPrimaryAfter
<1>6. CASE MrCreateFails(c)
  <2>1. mrCall' = [mrCall EXCEPT ![c] = MrIdle] BY <1>6 DEF MrCreateFails, MrPrimaryFinish
  <2> QED BY <1>1, <1>3, <1>5, <2>1, MrIdleTyped, MrPrimaryMoves
<1>7. CASE MrUploads(c)
  <2>1. PICK l : l = [k EXCEPT !.at = "replica"] OBVIOUS
  <2>2. /\ l \in MrCallSet /\ l.at = "replica" /\ l.op = k.op /\ l.ver = k.ver /\ l.tag = k.tag
    BY <1>2, <2>1 DEF MrCallSet
  <2>3. mrCall' = [mrCall EXCEPT ![c] = l] /\ MrPrimaryWhole(k.ver)
    BY <1>1, <1>7, <2>1 DEF MrUploads, MrPrimaryFinish
  <2>4. MrReadyVersion(k.ver)'
    <3>1. mrPrimary'.vers[k.ver].ready
      <4>1. mrPrimary.vers \in Seq(MrPrimaryVersion) BY <1>2 DEF MrPrimaries
      <4>2. mrPrimary.vers[k.ver] \in MrPrimaryVersion BY <1>4, <4>1
      <4> QED BY <1>2, <1>4, <2>3, <4>1, <4>2 DEF MrPrimaryWhole, MrPrimaries, MrPrimaryVersion
    <3> QED BY <1>4, <1>5, <3>1 DEF MrReadyVersion, MrPrimaryKept
  <2>5. MrCallFits(l)' BY <1>4, <2>2, <2>4 DEF MrCallFits, MrReadyVersion
  <2> QED BY <1>1, <1>3, <1>5, <2>2, <2>3, <2>5, MrPrimaryMoves
<1> QED BY <1>6, <1>7

\* A caller reserves its copy.
LEMMA MrReserves ==
  ASSUME MrInv, NEW c \in MrClients, MrReplicaCreates(c)
  PROVE  MrInv'
<1>1. PICK k, old : k = mrCall[c] /\ old = mrReplica.vers OBVIOUS
<1>2. /\ k \in MrCallSet /\ MrCallFits(k) /\ mrCall \in [MrClients -> MrCallSet]
      /\ mrReplica \in MrReplicas /\ mrPrimary \in MrPrimaries
  BY <1>1 DEF MrInv, MrData
<1>0. PICK n : n = Len(old) + 1 OBVIOUS
<1>3. PICK l : n = Len(old) + 1 /\ l = [k EXCEPT !.at = "copy", !.copy = n] BY <1>0
<1>4. /\ k.at = "replica" /\ k.op = "create" /\ MrReplicaReserve(k.ver, k.tag)
      /\ mrCall' = [mrCall EXCEPT ![c] = l] /\ mrLevel' = FALSE
      /\ UNCHANGED <<mrPrimary, mrMode, mrSync, mrAnswered, mrCut>>
  BY <1>1, <1>3 DEF MrReplicaCreates, MrReplicaStep
<1>5. k.ver \in Nat /\ k.tag \in MrTagValues /\ MrReadyVersion(k.ver)
  BY <1>2, <1>4 DEF MrCallSet, MrCallFits
<1>6. PICK new : new = mrReplica'.vers OBVIOUS
<1>7. /\ mrReplica' \in MrReplicas /\ MrGrows(old, new) /\ DOMAIN new = DOMAIN old \cup {n}
      /\ n \in Nat /\ new[n] = [src |-> k.ver, tag |-> k.tag, ready |-> FALSE]
      /\ \A r \in DOMAIN old : new[r] = old[r]
  BY <1>1, <1>2, <1>3, <1>4, <1>5, <1>6, MrReplicaAfter
<1>8. /\ l \in MrCallSet /\ l.at = "copy" /\ l.copy = n /\ l.op = k.op /\ l.ver = k.ver
  BY <1>2, <1>3, <1>7 DEF MrCallSet
<1>9. MrCallFits(l)'
  BY <1>4, <1>5, <1>6, <1>7, <1>8 DEF MrCallFits, MrReadyVersion, MrCopyIs
<1>10. MrSourced'
  BY <1>1, <1>4, <1>5, <1>6, <1>7 DEF MrInv, MrSourced, MrReadyVersion
<1>11. MrAnswersKept'
  <2>1. old \in Seq(MrReplicaCopy) /\ new \in Seq(MrReplicaCopy)
    BY <1>1, <1>2, <1>6, <1>7 DEF MrReplicas
  <2>2. \A v : MrHasWhole(old, v) => MrHasWhole(new, v) BY <1>7, <2>1, MrGrowsKeeps
  <2> QED BY <1>1, <1>4, <1>6, <2>2 DEF MrInv, MrAnswersKept
<1>12. MrAllSettled'
  <2> SUFFICES ASSUME NEW r \in DOMAIN new PROVE MrSettled(r)'
    BY <1>6 DEF MrAllSettled
  <2>1. CASE r = n
    <3>1. mrCall'[c] = l BY <1>2, <1>4
    <3> QED BY <1>8, <2>1, <3>1 DEF MrSettled, MrUploading
  <2>2. CASE r \in DOMAIN old
    <3>1. MrSettled(r) /\ new[r] = old[r] BY <1>1, <1>7, <2>2 DEF MrInv, MrAllSettled
    <3>2. MrUploading(r) => MrUploading(r)' BY <1>1, <1>2, <1>4, MrUploadGoesOn
    <3> QED BY <1>1, <1>4, <1>6, <3>1, <3>2 DEF MrSettled
  <2> QED BY <1>7, <2>1, <2>2
<1> QED BY <1>1, <1>4, <1>6, <1>7, <1>8, <1>9, <1>10, <1>11, <1>12, MrReplicaMoves

\* A caller's copy is whole, with its answer or without.
LEMMA MrUploadsWhole ==
  ASSUME MrInv, NEW c \in MrClients, mrCall[c].at = "copy", MrReplicaWhole(mrCall[c].copy),
         MrReplicaStep(c, MrIdle),
         mrMode = "fail" => mrAnswered' \subseteq mrAnswered \cup {mrCall[c].ver}
  PROVE  MrInv'
<1>1. PICK k, old : k = mrCall[c] /\ old = mrReplica.vers OBVIOUS
<1>2. /\ k \in MrCallSet /\ MrCallFits(k) /\ mrCall \in [MrClients -> MrCallSet]
      /\ mrReplica \in MrReplicas
  BY <1>1 DEF MrInv, MrData
<1>3. k.copy \in DOMAIN old /\ old[k.copy].src = k.ver
  BY <1>1, <1>2 DEF MrCallFits, MrCopyIs
<1>4. PICK new : new = mrReplica'.vers OBVIOUS
<1>5. /\ mrReplica' \in MrReplicas /\ MrGrows(old, new) /\ DOMAIN new = DOMAIN old
      /\ new[k.copy].ready /\ new[k.copy].src = old[k.copy].src
      /\ \A s \in DOMAIN old : s # k.copy => new[s] = old[s]
  BY <1>1, <1>2, <1>3, <1>4, MrReplicaAfter
<1>6. /\ mrCall' = [mrCall EXCEPT ![c] = MrIdle] /\ mrLevel' = FALSE
      /\ UNCHANGED <<mrPrimary, mrMode, mrSync, mrCut>>
  BY DEF MrReplicaStep, MrReplicaWhole
<1>7. MrSourced' BY <1>1, <1>4, <1>5, <1>6 DEF MrInv, MrSourced, MrReadyVersion
<1>8. MrAnswersKept'
  <2>1. old \in Seq(MrReplicaCopy) /\ new \in Seq(MrReplicaCopy)
    BY <1>1, <1>2, <1>4, <1>5 DEF MrReplicas
  <2>2. \A v : MrHasWhole(old, v) => MrHasWhole(new, v) BY <1>5, <2>1, MrGrowsKeeps
  <2>3. MrHasWhole(new, k.ver) BY <1>3, <1>5 DEF MrHasWhole
  <2> QED BY <1>1, <1>4, <1>6, <2>2, <2>3 DEF MrInv, MrAnswersKept
<1>9. MrAllSettled'
  <2> SUFFICES ASSUME NEW r \in DOMAIN old PROVE MrSettled(r)'
    BY <1>4, <1>5 DEF MrAllSettled
  <2>1. CASE r = k.copy BY <1>4, <1>5, <2>1 DEF MrSettled
  <2>2. CASE r # k.copy
    <3>1. MrSettled(r) /\ new[r] = old[r] BY <1>1, <1>5, <2>2 DEF MrInv, MrAllSettled
    <3>2. MrUploading(r) => MrUploading(r)' BY <1>1, <1>2, <1>6, <2>2, MrUploadGoesOn
    <3> QED BY <1>1, <1>4, <1>6, <3>1, <3>2 DEF MrSettled
  <2> QED BY <2>1, <2>2
<1> QED BY <1>1, <1>4, <1>5, <1>6, <1>7, <1>8, <1>9, MrIdleTyped, MrReplicaMoves

\* A step that leaves every copy as it is, but for its tag, or cuts one short.
LEMMA MrCopiesAlone ==
  ASSUME MrInv, NEW c \in MrClients, MrReplicaStep(c, MrIdle),
         mrMode = "fail" => mrAnswered' = mrAnswered,
         mrReplica' \in MrReplicas, MrGrows(mrReplica.vers, mrReplica'.vers),
         DOMAIN mrReplica'.vers = DOMAIN mrReplica.vers,
         mrCut \subseteq mrCut', mrCall[c].at = "copy" => mrCall[c].ver \in mrCut'
  PROVE  MrInv'
<1>1. PICK k, old, new : k = mrCall[c] /\ old = mrReplica.vers /\ new = mrReplica'.vers OBVIOUS
<1>2. /\ MrCallFits(k) /\ mrCall \in [MrClients -> MrCallSet]
      /\ old \in Seq(MrReplicaCopy) /\ new \in Seq(MrReplicaCopy)
  BY <1>1 DEF MrInv, MrData, MrReplicas
<1>3. /\ mrCall' = [mrCall EXCEPT ![c] = MrIdle] /\ mrLevel' = FALSE
      /\ UNCHANGED <<mrPrimary, mrMode, mrSync>>
  BY DEF MrReplicaStep
<1>4. \A r \in DOMAIN old : new[r].src = old[r].src /\ (old[r].ready => new[r].ready)
  BY <1>1 DEF MrGrows
<1>5. MrSourced' BY <1>1, <1>3, <1>4 DEF MrInv, MrSourced, MrReadyVersion
<1>6. MrAnswersKept'
  <2>1. \A v : MrHasWhole(old, v) => MrHasWhole(new, v) BY <1>1, <1>2, MrGrowsKeeps
  <2> QED BY <1>1, <1>3, <2>1 DEF MrInv, MrAnswersKept
<1>7. MrAllSettled'
  <2> SUFFICES ASSUME NEW r \in DOMAIN old PROVE MrSettled(r)'
    BY <1>1 DEF MrAllSettled
  <2>1. MrSettled(r) /\ new[r].src = old[r].src /\ (old[r].ready => new[r].ready)
    BY <1>1, <1>4 DEF MrInv, MrAllSettled
  <2>2. CASE k.at = "copy" /\ k.copy = r
    <3>1. old[r].src = k.ver BY <1>1, <1>2, <2>2 DEF MrCallFits, MrCopyIs
    <3> QED BY <1>1, <2>1, <2>2, <3>1 DEF MrSettled
  <2>3. CASE ~(k.at = "copy" /\ k.copy = r)
    <3>1. MrUploading(r) => MrUploading(r)' BY <1>1, <1>2, <1>3, <2>3, MrUploadGoesOn
    <3> QED BY <1>1, <2>1, <3>1 DEF MrSettled
  <2> QED BY <2>2, <2>3
<1> QED BY <1>3, <1>5, <1>6, <1>7, MrIdleTyped, MrReplicaMoves

\* The same write on the replica, or its failure.
LEMMA MrReplicates ==
  ASSUME MrInv, NEW c \in MrClients,
         MrReplicaUploads(c) \/ MrReplicate(c) \/ MrReplicaFails(c)
  PROVE  MrInv'
<1>1. PICK k : k = mrCall[c] OBVIOUS
<1>2. /\ k \in MrCallSet /\ MrCallFits(k) /\ mrReplica \in MrReplicas
      /\ mrReplica.vers \in Seq(MrReplicaCopy)
  BY <1>1 DEF MrInv, MrData, MrReplicas
<1>3. MrReplicaStep(c, MrIdle) BY DEF MrReplicaUploads, MrReplicate, MrReplicaFails
<1>4. CASE MrReplicaUploads(c)
  BY <1>3, <1>4, MrUploadsWhole DEF MrReplicaUploads
<1>5. CASE MrReplicate(c)
  <2>1. k.at = "replica" /\ UNCHANGED <<mrAnswered, mrCut>> BY <1>1, <1>5 DEF MrReplicate
  <2>2. CASE k.op = "tags" /\ MrMapped(k.ver) /\ MrReplicaTag(k.ver, k.tag)
    <3>1. k.tag \in MrTagValues /\ MrHas(mrReplica.vers, k.ver)
      BY <1>2, <2>1, <2>2, MrReplicaSide DEF MrCallFits
    <3>2. /\ mrReplica' \in MrReplicas /\ MrGrows(mrReplica.vers, mrReplica'.vers)
          /\ DOMAIN mrReplica'.vers = DOMAIN mrReplica.vers
      BY <1>2, <2>2, <3>1, MrReplicaAfter
    <3> QED BY <1>1, <1>3, <2>1, <3>2, MrCopiesAlone
  <2>3. CASE \E n \in Nat : mrReplica' = [mrReplica EXCEPT !.live = n]
    <3>1. /\ mrReplica' \in MrReplicas /\ MrGrows(mrReplica.vers, mrReplica'.vers)
          /\ mrReplica'.vers = mrReplica.vers
      BY <1>2, <2>3, MrReplicaAfter
    <3> QED BY <1>1, <1>3, <2>1, <3>1, MrCopiesAlone
  <2>4. CASE k.op = "alias" /\ MrMapped(k.ver) /\ MrReplicaAlias(k.ver)
    <3>1. MrHas(mrReplica.vers, k.ver) BY <2>4, MrReplicaSide
    <3>2. MrFirst(mrReplica.vers, k.ver) \in DOMAIN mrReplica.vers BY <1>2, <3>1, MrFirstIs
    <3>3. MrFirst(mrReplica.vers, k.ver) \in Nat BY <1>2, <3>2
    <3> QED BY <2>3, <2>4, <3>3, MrReplicaSide DEF MrReplicaAlias
  <2>5. CASE k.op = "unalias" /\ mrReplica' = [mrReplica EXCEPT !.live = 0]
    BY <2>3, <2>5
  <2> QED BY <1>1, <1>5, <2>2, <2>4, <2>5 DEF MrReplicate
<1>6. CASE MrReplicaFails(c)
  <2>1. /\ mrMode = "fail" => mrAnswered' = mrAnswered
        /\ \/ k.at = "replica" /\ UNCHANGED <<mrReplica, mrCut>>
           \/ k.at = "copy" /\ (MrReplicaCut(k.ver) \/ MrReplicaWhole(k.copy))
    BY <1>1, <1>6 DEF MrReplicaFails, MrReplicaErrorLogged
  <2>2. CASE k.at = "copy" /\ MrReplicaWhole(k.copy)
    BY <1>1, <1>3, <2>1, <2>2, MrUploadsWhole
  <2>3. CASE \/ k.at = "replica" /\ UNCHANGED <<mrReplica, mrCut>>
             \/ k.at = "copy" /\ MrReplicaCut(k.ver)
    <3>1. /\ mrReplica' = mrReplica /\ mrCut \subseteq mrCut'
          /\ k.at = "copy" => k.ver \in mrCut'
      BY <2>3 DEF MrReplicaCut
    <3>2. MrGrows(mrReplica.vers, mrReplica'.vers) BY <3>1 DEF MrGrows
    <3> QED BY <1>1, <1>2, <1>3, <2>1, <3>1, <3>2, MrCopiesAlone
  <2> QED BY <2>1, <2>2, <2>3
<1> QED BY <1>4, <1>5, <1>6

\* A step of a sync that writes nothing.
LEMMA MrSyncReads ==
  ASSUME MrInv, mrSync.at # "upload",
         \/ MrSyncStart \/ MrSyncFails \/ MrSyncLook \/ MrSyncRelist
         \/ MrSyncReadAliases \/ MrSyncReturns
  PROVE  MrInv'
<1> DEFINE n == Len(mrPrimary.vers)
<1>1. /\ mrSync \in MrSyncSet /\ mrLevel \in BOOLEAN /\ MrNoSync \in MrSyncSet
      /\ mrReplica \in MrReplicas
      /\ mrPrimary \in MrPrimaries
  BY MrIdleTyped DEF MrInv, MrData
<1>2. DOMAIN mrPrimary.vers = 1 .. n /\ n \in Nat /\ mrPrimary.vers \in Seq(MrPrimaryVersion)
  BY <1>1 DEF MrPrimaries
<1>3. mrReplica' = mrReplica /\ mrCut' = mrCut
  BY DEF MrSyncStart, MrSyncFails, MrSyncLook, MrSyncRelist, MrSyncReadAliases, MrSyncReturns
<1>4. ASSUME NEW s \in MrSyncSet, MrSyncStep(s), mrLevel' \in BOOLEAN, MrListed', MrProgress'
      PROVE  MrInv'
  <2>1. mrPrimary' = mrPrimary /\ mrCall' = mrCall BY <1>4 DEF MrSyncStep
  <2>2. MrSourced' BY <1>3, <2>1 DEF MrInv, MrSourced, MrReadyVersion
  <2>3. MrAllSettled'
    <3> SUFFICES ASSUME NEW r \in DOMAIN mrReplica.vers PROVE MrSettled(r)'
      BY <1>3 DEF MrAllSettled
    <3>1. MrSettled(r) BY DEF MrInv, MrAllSettled
    <3>2. MrUploading(r) => MrUploading(r)' BY <2>1, MrUploadOutlastsSync
    <3> QED BY <1>3, <3>1, <3>2 DEF MrSettled
  <2>4. MrGrows(mrReplica.vers, mrReplica'.vers) BY <1>3 DEF MrGrows
  <2> QED BY <1>1, <1>3, <1>4, <2>2, <2>3, <2>4, MrSyncMoves
<1>5. CASE MrSyncStart
  <2>1. PICK s : s = [MrNoSync EXCEPT !.at = "look", !.list = mrPrimary.vers, !.i = 1] OBVIOUS
  <2>2. s \in MrSyncSet /\ s.at = "look" /\ s.list = mrPrimary.vers /\ s.i = 1
    BY <1>1, <1>2, <2>1 DEF MrSyncSet
  <2>3. MrSyncStep(s) /\ mrLevel' = TRUE BY <1>5, <2>1 DEF MrSyncStart
  <2>4. mrSync' = s /\ mrPrimary' = mrPrimary BY <2>3 DEF MrSyncStep
  <2>5. MrListed' BY <1>2, <2>2, <2>4 DEF MrListed
  <2>6. MrProgress' BY <1>2, <2>2, <2>4 DEF MrProgress, MrCopied
  <2> QED BY <1>4, <2>2, <2>3, <2>5, <2>6
<1>6. CASE MrSyncFails \/ MrSyncReturns
  <2>1. /\ MrSyncStep(MrNoSync) /\ mrLevel' \in BOOLEAN
    BY <1>1, <1>6 DEF MrSyncFails, MrSyncReturns
  <2>2. mrSync'.at = "idle" BY <2>1, MrIdleTyped DEF MrSyncStep
  <2> QED BY <1>1, <1>4, <2>1, <2>2 DEF MrListed, MrProgress
<1>7. CASE MrSyncLook
  <2>1. mrSync.at = "look" /\ mrSync.i <= Len(mrSync.list) /\ mrLevel' = mrLevel
    BY <1>7 DEF MrSyncLook
  <2>2. Len(mrSync.list) <= n /\ mrSync.i \in Nat \ {0} /\ mrSync.list \in Seq(MrPrimaryVersion)
    BY <1>1, <2>1 DEF MrInv, MrListed, MrSyncSet
  <2>3. CASE MrMapped(mrSync.i)
    <3>1. PICK s : s = [mrSync EXCEPT !.i = @ + 1] OBVIOUS
    <3>2. s \in MrSyncSet /\ s.at = "look" /\ s.list = mrSync.list /\ s.i = mrSync.i + 1
      <4>1. PICK i \in Nat : i = mrSync.i + 1 BY <2>2
      <4>2. s = [mrSync EXCEPT !.i = i] BY <3>1, <4>1
      <4> QED BY <1>1, <2>1, <4>1, <4>2 DEF MrSyncSet
    <3>3. MrSyncStep(s) BY <1>7, <2>3, <3>1 DEF MrSyncLook
    <3>4. mrSync' = s /\ mrPrimary' = mrPrimary BY <3>3 DEF MrSyncStep
    <3>5. MrListed' BY <2>1, <2>2, <3>2, <3>4 DEF MrListed
    <3>6. MrHas(mrReplica.vers, mrSync.i) BY <2>3, MrReplicaSide
    <3>7. MrProgress'
      <4> SUFFICES ASSUME mrLevel PROVE MrProgress' BY <2>1 DEF MrProgress
      <4>1. MrCopied(mrSync.i) /\ mrSync.list = mrPrimary.vers BY <2>1 DEF MrInv, MrProgress
      <4>2. \A v \in DOMAIN mrPrimary.vers : v < mrSync.i + 1 => MrHas(mrReplica.vers, v)
        BY <1>2, <2>2, <3>6, <4>1 DEF MrCopied
      <4> QED BY <1>3, <3>2, <3>4, <4>1, <4>2 DEF MrProgress, MrCopied
    <3> QED BY <1>1, <1>4, <2>1, <3>2, <3>3, <3>5, <3>7
  <2>4. CASE ~MrMapped(mrSync.i)
    <3>1. PICK s : s = [mrSync EXCEPT !.at = "copy"] OBVIOUS
    <3>2. s \in MrSyncSet /\ s.at = "copy" /\ s.list = mrSync.list /\ s.i = mrSync.i
      BY <1>1, <3>1 DEF MrSyncSet
    <3>3. MrSyncStep(s) BY <1>7, <2>4, <3>1 DEF MrSyncLook
    <3>4. mrSync' = s /\ mrPrimary' = mrPrimary BY <3>3 DEF MrSyncStep
    <3>5. mrSync.i \in DOMAIN mrSync.list BY <2>1, <2>2
    <3>6. mrSync.i \in DOMAIN mrPrimary'.vers /\ mrPrimary'.vers[mrSync.i].ready
      <4>1. mrPrimary.vers[mrSync.i].ready BY <1>7, <2>4 DEF MrSyncLook
      <4>2. mrSync.i \in DOMAIN mrPrimary.vers
        <5>1. Len(mrSync.list) \in Nat BY <2>2
        <5> QED BY <1>2, <2>1, <2>2, <5>1
      <4>3. mrPrimary'.vers = mrPrimary.vers BY <3>4
      <4> QED BY <4>1, <4>2, <4>3
    <3>7. MrListed'
      BY <2>1, <2>2, <3>2, <3>4, <3>5, <3>6 DEF MrListed, MrReadyVersion
    <3>8. MrProgress'
      BY <1>3, <2>1, <3>2, <3>4 DEF MrInv, MrProgress, MrCopied
    <3> QED BY <1>1, <1>4, <2>1, <3>2, <3>3, <3>7, <3>8
  <2> QED BY <2>3, <2>4
<1>8. CASE MrSyncRelist
  <2>1. PICK s : s = [mrSync EXCEPT !.at = "tags", !.list = mrPrimary.vers, !.i = 1] OBVIOUS
  <2>2. s \in MrSyncSet /\ s.at = "tags" /\ s.list = mrPrimary.vers /\ s.i = 1
    BY <1>1, <1>2, <2>1 DEF MrSyncSet
  <2>3. MrSyncStep(s) /\ mrLevel' = mrLevel BY <1>8, <2>1 DEF MrSyncRelist
  <2>4. mrSync' = s /\ mrPrimary' = mrPrimary BY <2>3 DEF MrSyncStep
  <2>5. MrListed' BY <1>2, <2>2, <2>4 DEF MrListed
  <2>6. MrProgress'
    <3> SUFFICES ASSUME mrLevel PROVE MrProgress' BY <2>3 DEF MrProgress
    <3>1. mrSync.at = "look" /\ mrSync.i > Len(mrSync.list) BY <1>8 DEF MrSyncRelist
    <3>2. MrCopied(mrSync.i) /\ mrSync.list = mrPrimary.vers BY <3>1 DEF MrInv, MrProgress
    <3>3. \A v \in DOMAIN mrPrimary.vers : MrHas(mrReplica.vers, v)
      <4>1. mrSync.i \in Nat BY <1>1 DEF MrSyncSet
      <4> QED BY <1>2, <3>1, <3>2, <4>1 DEF MrCopied
    <3>4. MrTagged(1)' BY <1>2, <2>4 DEF MrTagged
    <3> QED BY <1>3, <2>2, <2>4, <3>3, <3>4 DEF MrProgress
  <2> QED BY <1>1, <1>4, <2>2, <2>3, <2>5, <2>6
<1>9. CASE MrSyncReadAliases
  <2>1. PICK s : s = [mrSync EXCEPT !.at = "aliases", !.live = mrPrimary.live] OBVIOUS
  <2>2. s \in MrSyncSet /\ s.at = "aliases" /\ s.live = mrPrimary.live
    BY <1>1, <2>1 DEF MrSyncSet, MrPrimaries
  <2>3. MrSyncStep(s) /\ mrLevel' = mrLevel BY <1>9, <2>1 DEF MrSyncReadAliases
  <2>4. mrSync' = s /\ mrPrimary' = mrPrimary BY <2>3 DEF MrSyncStep
  <2>5. MrListed' BY <2>2, <2>4 DEF MrListed
  <2>6. MrProgress'
    <3> SUFFICES ASSUME mrLevel PROVE MrProgress' BY <2>3 DEF MrProgress
    <3>1. mrSync.at = "tags" /\ mrSync.i > Len(mrSync.list) BY <1>9 DEF MrSyncReadAliases
    <3>2. /\ MrTagged(mrSync.i) /\ mrSync.list = mrPrimary.vers
          /\ \A v \in DOMAIN mrPrimary.vers : MrHas(mrReplica.vers, v)
      BY <3>1 DEF MrInv, MrProgress
    <3>3. \A v \in DOMAIN mrPrimary.vers : MrTagIsLevel(v)
      <4>1. mrSync.i \in Nat BY <1>1 DEF MrSyncSet
      <4> QED BY <1>2, <3>1, <3>2, <4>1 DEF MrTagged
    <3>4. \A v \in DOMAIN mrPrimary'.vers : MrTagIsLevel(v)'
      BY <1>3, <2>4, <3>3 DEF MrTagIsLevel
    <3> QED BY <1>3, <2>2, <2>4, <3>2, <3>4 DEF MrProgress
  <2> QED BY <1>1, <1>4, <2>2, <2>3, <2>5, <2>6
<1> QED BY <1>5, <1>6, <1>7, <1>8, <1>9

\* sync reserves a copy of a version the replica does not have.
LEMMA MrSyncReserves ==
  ASSUME MrInv, MrSyncCopy
  PROVE  MrInv'
<1>1. PICK i, l, old : i = mrSync.i /\ l = mrSync.list /\ old = mrReplica.vers OBVIOUS
<1>2. /\ mrSync \in MrSyncSet /\ mrLevel \in BOOLEAN /\ mrCall \in [MrClients -> MrCallSet]
      /\ mrReplica \in MrReplicas /\ mrPrimary \in MrPrimaries
  BY DEF MrInv, MrData
<1>0. PICK n : n = Len(old) + 1 OBVIOUS
<1>3. PICK s : n = Len(old) + 1 /\ s = [mrSync EXCEPT !.at = "upload", !.copy = n] BY <1>0
<1>4. /\ mrSync.at = "copy" /\ UNCHANGED <<mrCut, mrLevel>> /\ MrReplicaReserve(i, l[i].tag)
      /\ MrSyncStep(s)
  BY <1>1, <1>3 DEF MrSyncCopy
<1>5. /\ i \in Nat \ {0} /\ i \in DOMAIN l /\ l \in Seq(MrPrimaryVersion)
      /\ Len(l) <= Len(mrPrimary.vers) /\ MrReadyVersion(i)
  BY <1>1, <1>2, <1>4 DEF MrInv, MrListed, MrSyncSet
<1>6. l[i].tag \in MrTagValues
  <2>1. l[i] \in MrPrimaryVersion BY <1>5
  <2> QED BY <2>1 DEF MrPrimaryVersion
<1>7. PICK new : new = mrReplica'.vers OBVIOUS
<1>8. /\ mrReplica' \in MrReplicas /\ MrGrows(old, new) /\ DOMAIN new = DOMAIN old \cup {n}
      /\ n \in Nat /\ new[n] = [src |-> i, tag |-> l[i].tag, ready |-> FALSE]
      /\ \A r \in DOMAIN old : new[r] = old[r]
  BY <1>1, <1>2, <1>3, <1>4, <1>5, <1>6, <1>7, MrReplicaAfter
<1>9. s \in MrSyncSet /\ s.at = "upload" /\ s.list = l /\ s.i = i /\ s.copy = n
  BY <1>1, <1>2, <1>3, <1>8 DEF MrSyncSet
<1>10. mrSync' = s /\ UNCHANGED <<mrPrimary, mrMode, mrCall, mrAnswered>>
  BY <1>4 DEF MrSyncStep
<1>11. MrSourced' BY <1>1, <1>5, <1>7, <1>8, <1>10 DEF MrInv, MrSourced, MrReadyVersion
<1>12. MrAllSettled'
  <2> SUFFICES ASSUME NEW r \in DOMAIN new PROVE MrSettled(r)'
    BY <1>7 DEF MrAllSettled
  <2>1. CASE r = n BY <1>9, <1>10, <2>1 DEF MrSettled, MrUploading
  <2>2. CASE r \in DOMAIN old
    <3>1. MrSettled(r) /\ new[r] = old[r] BY <1>1, <1>8, <2>2 DEF MrInv, MrAllSettled
    <3>2. MrUploading(r) => MrUploading(r)' BY <1>4, <1>10, MrUploadOutlastsSync
    <3> QED BY <1>1, <1>4, <1>7, <3>1, <3>2 DEF MrSettled
  <2> QED BY <1>8, <2>1, <2>2
<1>13. MrListed' BY <1>5, <1>7, <1>8, <1>9, <1>10 DEF MrListed, MrReadyVersion, MrCopyIs
<1>14. MrProgress'
  <2> SUFFICES ASSUME mrLevel PROVE MrProgress' BY <1>4 DEF MrProgress
  <2>1. MrCopied(i) /\ l = mrPrimary.vers BY <1>1, <1>4 DEF MrInv, MrProgress
  <2>2. old \in Seq(MrReplicaCopy) /\ new \in Seq(MrReplicaCopy)
    BY <1>1, <1>2, <1>7, <1>8 DEF MrReplicas
  <2>3. \A v : MrHas(old, v) => MrHas(new, v) BY <1>8, <2>2, MrGrowsKeeps
  <2>4. MrCopied(i)' BY <1>1, <1>7, <1>10, <2>1, <2>3 DEF MrCopied
  <2> QED BY <1>9, <1>10, <2>1, <2>4 DEF MrProgress
<1> QED BY <1>1, <1>2, <1>4, <1>7, <1>8, <1>9, <1>11, <1>12, <1>13, <1>14, MrSyncMoves

\* The upload of sync's copy ends, with the sync or without.
LEMMA MrSyncUploaded ==
  ASSUME MrInv, mrSync.at = "upload", MrSyncUpload \/ MrSyncFails
  PROVE  MrInv'
<1>1. PICK i, l, old, n : i = mrSync.i /\ l = mrSync.list /\ old = mrReplica.vers /\ n = mrSync.copy
  OBVIOUS
<1>2. /\ mrSync \in MrSyncSet /\ mrLevel \in BOOLEAN /\ mrCall \in [MrClients -> MrCallSet]
      /\ mrReplica \in MrReplicas /\ mrPrimary \in MrPrimaries
  BY DEF MrInv, MrData
<1>3. /\ i \in Nat \ {0} /\ i \in DOMAIN l /\ l \in Seq(MrPrimaryVersion)
      /\ Len(l) <= Len(mrPrimary.vers) /\ MrReadyVersion(i)
      /\ n \in DOMAIN old /\ old[n].src = i
  BY <1>1, <1>2 DEF MrInv, MrListed, MrSyncSet, MrCopyIs
<1>4. MrReplicaWhole(n) \/ MrReplicaCut(i) BY <1>1 DEF MrSyncUpload, MrSyncFails
<1>5. PICK new : new = mrReplica'.vers OBVIOUS
<1>6. /\ mrReplica' \in MrReplicas /\ MrGrows(old, new) /\ DOMAIN new = DOMAIN old
      /\ mrCut \subseteq mrCut'
      /\ new[n].ready \/ i \in mrCut'
  <2>1. CASE MrReplicaWhole(n)
    <3>1. mrCut' = mrCut BY <2>1 DEF MrReplicaWhole
    <3> QED BY <1>1, <1>2, <1>3, <1>5, <2>1, <3>1, MrReplicaAfter
  <2>2. CASE MrReplicaCut(i)
    <3>1. mrReplica' = mrReplica /\ mrCut' = mrCut \cup {i} BY <2>2 DEF MrReplicaCut
    <3>2. MrGrows(old, old) BY DEF MrGrows
    <3> QED BY <1>1, <1>2, <1>5, <3>1, <3>2
  <2> QED BY <1>4, <2>1, <2>2
<1>7. old \in Seq(MrReplicaCopy) /\ new \in Seq(MrReplicaCopy)
  BY <1>1, <1>2, <1>5, <1>6 DEF MrReplicas
<1>8. \A r \in DOMAIN old : new[r].src = old[r].src /\ (old[r].ready => new[r].ready)
  BY <1>6 DEF MrGrows
<1>9. UNCHANGED <<mrPrimary, mrMode, mrCall, mrAnswered>> /\ mrLevel' \in BOOLEAN
  BY <1>2 DEF MrSyncUpload, MrSyncFails, MrSyncStep
<1>10. MrSourced' BY <1>1, <1>5, <1>6, <1>8, <1>9 DEF MrInv, MrSourced, MrReadyVersion
<1>11. MrAllSettled'
  <2> SUFFICES ASSUME NEW r \in DOMAIN old PROVE MrSettled(r)'
    BY <1>5, <1>6 DEF MrAllSettled
  <2>1. MrSettled(r) BY <1>1 DEF MrInv, MrAllSettled
  <2>2. CASE r = n BY <1>3, <1>5, <1>6, <1>8, <2>2 DEF MrSettled
  <2>3. CASE r # n
    <3>1. MrUploading(r) => MrUploading(r)' BY <1>1, <1>9, <2>3, MrUploadOutlastsSync
    <3> QED BY <1>1, <1>5, <1>6, <1>8, <2>1, <3>1 DEF MrSettled
  <2> QED BY <2>2, <2>3
<1>12. CASE MrSyncFails
  <2>1. MrSyncStep(MrNoSync) /\ mrLevel' = FALSE BY <1>12 DEF MrSyncFails
  <2>2. mrSync'.at = "idle" BY <2>1, MrIdleTyped DEF MrSyncStep
  <2>3. MrListed' /\ MrProgress' BY <2>1, <2>2 DEF MrListed, MrProgress
  <2> QED BY <1>1, <1>5, <1>6, <1>9, <1>10, <1>11, <2>1, <2>3, MrIdleTyped, MrSyncMoves
<1>13. CASE MrSyncUpload
  <2>1. PICK j \in Nat \ {0} : j = i + 1 BY <1>3
  <2>2. PICK s : s = [mrSync EXCEPT !.at = "look", !.i = j, !.copy = 0] OBVIOUS
  <2>3. s \in MrSyncSet /\ s.at = "look" /\ s.list = l /\ s.i = j
    BY <1>1, <1>2, <2>1, <2>2 DEF MrSyncSet
  <2>4. MrSyncStep(s) /\ mrLevel' = mrLevel BY <1>1, <1>13, <2>1, <2>2 DEF MrSyncUpload
  <2>5. mrSync' = s BY <2>4 DEF MrSyncStep
  <2>6. MrListed' BY <1>3, <1>9, <2>3, <2>5 DEF MrListed
  <2>7. MrProgress'
    <3> SUFFICES ASSUME mrLevel PROVE MrProgress' BY <2>4 DEF MrProgress
    <3>1. MrCopied(i) /\ l = mrPrimary.vers BY <1>1 DEF MrInv, MrProgress
    <3>2. \A v : MrHas(old, v) => MrHas(new, v) BY <1>6, <1>7, MrGrowsKeeps
    <3>3. MrHas(old, i) BY <1>3 DEF MrHas
    <3>4. ASSUME NEW v \in DOMAIN mrPrimary.vers, v < j PROVE MrHas(new, v)
      <4>1. v \in Nat
        <5>1. mrPrimary.vers \in Seq(MrPrimaryVersion) BY <1>2 DEF MrPrimaries
        <5> QED BY <5>1
      <4>2. CASE v = i BY <3>2, <3>3, <4>2
      <4>3. CASE v # i
        <5>1. v < i BY <1>3, <2>1, <3>4, <4>1, <4>3
        <5> QED BY <1>1, <3>1, <3>2, <5>1 DEF MrCopied
      <4> QED BY <4>2, <4>3
    <3>5. MrCopied(j)' BY <1>5, <1>9, <3>4 DEF MrCopied
    <3> QED BY <1>9, <2>3, <2>5, <3>1, <3>5 DEF MrProgress
  <2> QED BY <1>1, <1>5, <1>6, <1>9, <1>10, <1>11, <2>3, <2>4, <2>6, <2>7, MrSyncMoves
<1> QED BY <1>12, <1>13

\* A step of sync that leaves every copy as it is, but for its tag.
LEMMA MrSyncSettled ==
  ASSUME MrInv, mrSync.at # "upload", UNCHANGED <<mrPrimary, mrCall, mrCut>>,
         mrReplica' \in MrReplicas, MrGrows(mrReplica.vers, mrReplica'.vers),
         DOMAIN mrReplica'.vers = DOMAIN mrReplica.vers
  PROVE  MrSourced' /\ MrAllSettled'
<1>1. \A r \in DOMAIN mrReplica.vers : /\ mrReplica'.vers[r].src = mrReplica.vers[r].src
                                       /\ mrReplica.vers[r].ready => mrReplica'.vers[r].ready
  BY DEF MrGrows
<1>2. MrSourced' BY <1>1 DEF MrInv, MrSourced, MrReadyVersion
<1>4. MrAllSettled'
  <2> SUFFICES ASSUME NEW r \in DOMAIN mrReplica.vers PROVE MrSettled(r)'
    BY DEF MrAllSettled
  <2>1. MrSettled(r) BY DEF MrInv, MrAllSettled
  <2>2. MrUploading(r) => MrUploading(r)' BY MrUploadOutlastsSync
  <2> QED BY <1>1, <2>1, <2>2 DEF MrSettled
<1> QED BY <1>2, <1>4

\* sync levels one version's tag.
LEMMA MrSyncTagsOne ==
  ASSUME MrInv, MrSyncTags
  PROVE  MrInv'
<1>1. PICK i, l, old, p : /\ i = mrSync.i /\ l = mrSync.list
                          /\ old = mrReplica.vers /\ p = mrPrimary.vers
  OBVIOUS
<1>2. /\ mrSync \in MrSyncSet /\ mrLevel \in BOOLEAN
      /\ mrReplica \in MrReplicas /\ mrPrimary \in MrPrimaries
      /\ old \in Seq(MrReplicaCopy) /\ p \in Seq(MrPrimaryVersion)
  BY <1>1 DEF MrInv, MrData, MrReplicas, MrPrimaries
<1>3. /\ mrSync.at = "tags" /\ i <= Len(l) /\ MrHas(old, i) /\ UNCHANGED <<mrCut, mrLevel>>
      /\ MrReplicaTag(i, l[i].tag) /\ MrSyncStep([mrSync EXCEPT !.i = i + 1])
  BY <1>1, MrReplicaSide DEF MrSyncTags
<1>4. /\ i \in Nat \ {0} /\ i \in DOMAIN l /\ l \in Seq(MrPrimaryVersion)
      /\ Len(l) <= Len(p) /\ DOMAIN p = 1 .. Len(p)
  BY <1>1, <1>2, <1>3 DEF MrInv, MrListed, MrSyncSet
<1>5. l[i].tag \in MrTagValues
  <2>1. l[i] \in MrPrimaryVersion BY <1>4
  <2> QED BY <2>1 DEF MrPrimaryVersion
<1>6. PICK j \in Nat \ {0} : j = i + 1 BY <1>4
<1>7. PICK s : s = [mrSync EXCEPT !.i = j] OBVIOUS
<1>8. s \in MrSyncSet /\ s.at = "tags" /\ s.list = l /\ s.i = j
  BY <1>1, <1>2, <1>3, <1>6, <1>7 DEF MrSyncSet
<1>9. MrSyncStep(s) BY <1>3, <1>6, <1>7
<1>10. mrSync' = s /\ UNCHANGED <<mrPrimary, mrMode, mrCall, mrAnswered>> BY <1>9 DEF MrSyncStep
<1>11. PICK new, f : new = mrReplica'.vers /\ f = MrFirst(old, i) OBVIOUS
<1>12. /\ mrReplica' \in MrReplicas /\ MrGrows(old, new) /\ DOMAIN new = DOMAIN old
       /\ new[f].tag = l[i].tag /\ \A r \in DOMAIN old : r # f => new[r] = old[r]
  BY <1>1, <1>2, <1>3, <1>5, <1>11, MrReplicaAfter
<1>13. MrSourced' /\ MrAllSettled' BY <1>1, <1>3, <1>10, <1>11, <1>12, MrSyncSettled
<1>14. MrListed' BY <1>1, <1>3, <1>4, <1>8, <1>10 DEF MrListed, MrInv
<1>15. MrProgress'
  <2> SUFFICES ASSUME mrLevel PROVE MrProgress' BY <1>3 DEF MrProgress
  <2>1. /\ MrTagged(i) /\ l = p /\ \A v \in DOMAIN p : MrHas(old, v)
    BY <1>1, <1>3 DEF MrInv, MrProgress
  <2>2. new \in Seq(MrReplicaCopy) BY <1>11, <1>12 DEF MrReplicas
  <2>3. \A v : MrHas(old, v) => MrHas(new, v) /\ MrFirst(new, v) = MrFirst(old, v)
    BY <1>2, <1>12, <2>2, MrGrowsKeeps
  <2>4. ASSUME NEW v \in DOMAIN p, v < j PROVE new[MrFirst(new, v)].tag = p[v].tag
    <3>1. MrHas(old, v) /\ MrFirst(new, v) = MrFirst(old, v) BY <2>1, <2>3
    <3>2. CASE v = i
      BY <1>11, <1>12, <2>1, <3>1, <3>2
    <3>3. CASE v # i
      <4>1. v < i BY <1>4, <1>6, <2>4, <3>3
      <4>2. old[MrFirst(old, v)].tag = p[v].tag BY <1>1, <2>1, <4>1 DEF MrTagged, MrTagIsLevel
      <4>3. /\ MrFirst(old, v) \in DOMAIN old /\ old[MrFirst(old, v)].src = v
            /\ old[f].src = i
        BY <1>2, <1>3, <1>11, <3>1, MrFirstIs
      <4>4. MrFirst(old, v) # f BY <3>3, <4>3
      <4> QED BY <1>12, <3>1, <4>2, <4>3, <4>4
    <3> QED BY <3>2, <3>3
  <2>5. MrTagged(j)' BY <1>1, <1>10, <1>11, <2>4 DEF MrTagged, MrTagIsLevel
  <2>6. \A v \in DOMAIN mrPrimary'.vers : MrHas(mrReplica'.vers, v)
    BY <1>1, <1>10, <1>11, <2>1, <2>3
  <2> QED BY <1>1, <1>8, <1>10, <2>1, <2>5, <2>6 DEF MrProgress, MrTagged
<1> QED BY <1>1, <1>2, <1>3, <1>8, <1>9, <1>11, <1>12, <1>13, <1>14, <1>15, MrSyncMoves

\* sync's last write: LIVE.
LEMMA MrSyncSetsLive ==
  ASSUME MrInv, MrSyncAliases
  PROVE  MrInv'
<1>1. /\ mrSync \in MrSyncSet /\ mrLevel \in BOOLEAN /\ MrNoSync \in MrSyncSet
      /\ mrReplica \in MrReplicas /\ mrReplica.vers \in Seq(MrReplicaCopy)
  BY MrIdleTyped DEF MrInv, MrData, MrReplicas
<1>2. PICK s : s = [MrNoSync EXCEPT !.at = "done"] OBVIOUS
<1>3. s \in MrSyncSet /\ s.at = "done" BY <1>1, <1>2 DEF MrSyncSet
<1>4. MrSyncStep(s) /\ UNCHANGED <<mrCut, mrLevel>> /\ mrSync.at = "aliases"
  BY <1>2 DEF MrSyncAliases
<1>5. mrSync' = s /\ UNCHANGED <<mrPrimary, mrMode, mrCall, mrAnswered>>
  BY <1>4 DEF MrSyncStep
<1>6. PICK a : /\ mrReplica' = [mrReplica EXCEPT !.live = a]
               /\ \/ mrSync.live # 0 /\ MrHas(mrReplica.vers, mrSync.live)
                     /\ a = MrFirst(mrReplica.vers, mrSync.live)
                  \/ mrSync.live = 0 /\ a = 0
  BY MrReplicaSide DEF MrSyncAliases, MrReplicaAlias, MrExtraAlias
<1>7. a \in Nat
  <2>1. CASE MrHas(mrReplica.vers, mrSync.live) /\ a = MrFirst(mrReplica.vers, mrSync.live)
    <3>1. a \in DOMAIN mrReplica.vers BY <1>1, <2>1, MrFirstIs
    <3> QED BY <1>1, <3>1
  <2> QED BY <1>6, <2>1
<1>8. /\ mrReplica' \in MrReplicas /\ mrReplica'.vers = mrReplica.vers /\ mrReplica'.live = a
      /\ MrGrows(mrReplica.vers, mrReplica'.vers)
  BY <1>1, <1>6, <1>7, MrReplicaAfter
<1>9. MrSourced' /\ MrAllSettled' BY <1>4, <1>5, <1>8, MrSyncSettled
<1>10. MrListed' BY <1>3, <1>5 DEF MrListed
<1>11. MrProgress'
  <2> SUFFICES ASSUME mrLevel PROVE MrProgress' BY <1>4 DEF MrProgress
  <2>1. /\ \A v \in DOMAIN mrPrimary.vers : MrHas(mrReplica.vers, v) /\ MrTagIsLevel(v)
        /\ mrSync.live = mrPrimary.live
    BY <1>4 DEF MrInv, MrProgress
  <2>2. mrReplica'.live = IF mrPrimary'.live = 0 THEN 0
                          ELSE MrFirst(mrReplica'.vers, mrPrimary'.live)
    BY <1>5, <1>6, <1>8, <2>1
  <2>3. \A v \in DOMAIN mrPrimary'.vers : MrHas(mrReplica'.vers, v) /\ MrTagIsLevel(v)'
    BY <1>5, <1>8, <2>1 DEF MrTagIsLevel
  <2> QED BY <1>3, <1>5, <2>2, <2>3 DEF MrProgress
<1> QED BY <1>1, <1>3, <1>4, <1>8, <1>9, <1>10, <1>11, MrSyncMoves

\* Two empty registries.
LEMMA MrEmpty == MrInit => MrInv
<1> SUFFICES ASSUME MrInit PROVE MrInv
  OBVIOUS
<1>1. \A c \in MrClients : mrCall[c] = MrIdle BY DEF MrInit
<1>2. MrData
  <2>1. mrPrimary.vers \in Seq(MrPrimaryVersion) /\ mrReplica.vers \in Seq(MrReplicaCopy)
    BY DEF MrInit
  <2> QED BY <2>1, MrIdleTyped DEF MrInit, MrData, MrPrimaries, MrReplicas
<1>3. \A c \in MrClients : MrCallFits(mrCall[c]) BY <1>1, MrIdleTyped
<1>4. MrSourced /\ MrAllSettled /\ MrAnswersKept
  BY DEF MrInit, MrSourced, MrAllSettled, MrAnswersKept
<1>5. MrListed /\ MrProgress BY MrIdleTyped DEF MrInit, MrListed, MrProgress
<1> QED BY <1>2, <1>3, <1>4, <1>5 DEF MrInv

\* A sync that ends, when nothing else wrote, leaves the replica naming what the
\* primary names, whatever writes, failures and broken-off syncs left before it;
\* the replica never copies what the primary does not have whole, and a copy
\* without its artifact is under way or was cut short: for any callers, versions
\* and tag values.
THEOREM MrAlwaysMirrors == MrSpec => []MrMirrors
<1>1. MrInv /\ [MrNext]_mrVars => MrInv'
  <2> SUFFICES ASSUME MrInv, [MrNext]_mrVars PROVE MrInv'
    OBVIOUS
  <2>1. CASE \E c \in MrClients : MrStep(c)
    BY <2>1, MrWrites, MrUploaded, MrReserves, MrReplicates DEF MrStep
  <2>2. CASE mrSync.at # "upload" /\ (MrSyncStart \/ MrSyncFails \/ MrSyncLook \/ MrSyncRelist
             \/ MrSyncReadAliases \/ MrSyncReturns)
    BY <2>2, MrSyncReads
  <2>3. CASE MrSyncCopy \/ MrSyncTags \/ MrSyncAliases
    BY <2>3, MrSyncReserves, MrSyncTagsOne, MrSyncSetsLive
  <2>4. CASE MrSyncUpload \/ (mrSync.at = "upload" /\ MrSyncFails)
    BY <2>4, MrSyncUploaded DEF MrSyncUpload
  <2>5. CASE UNCHANGED mrVars
    BY <2>5 DEF mrVars, MrInv, MrData, MrCallFits, MrReadyVersion, MrCopyIs, MrSourced,
                MrAllSettled, MrSettled, MrUploading, MrListed, MrAnswersKept,
                MrProgress, MrCopied, MrTagged, MrTagIsLevel
  <2>6. mrSync.at = "upload" =>
          ~(MrSyncStart \/ MrSyncLook \/ MrSyncRelist \/ MrSyncReadAliases \/ MrSyncReturns)
    BY DEF MrSyncStart, MrSyncLook, MrSyncRelist, MrSyncReadAliases, MrSyncReturns
  <2> QED BY <2>1, <2>2, <2>3, <2>4, <2>5, <2>6 DEF MrNext
<1>2. MrInv => MrMirrors
  <2> SUFFICES ASSUME MrInv PROVE MrMirrors
    OBVIOUS
  <2>1. MrSyncLevels
    BY MrReplicaSide DEF MrInv, MrProgress, MrSyncLevels, MrTagIsLevel
  <2>2. MrReplicaFollows
    <3>1. \A r \in DOMAIN mrReplica.vers :
            MrReadyVersion(mrReplica.vers[r].src) /\ MrSettled(r)
      BY DEF MrInv, MrSourced, MrAllSettled
    <3>2. mrMode = "fail" => \A v \in mrAnswered : \E r \in MrCopies(v) : mrReplica.vers[r].ready
      BY MrReplicaSide DEF MrInv, MrAnswersKept
    <3> QED BY <3>1, <3>2 DEF MrReplicaFollows, MrReadyVersion, MrSettled
  <2> QED BY <2>1, <2>2 DEF MrMirrors
<1> QED BY <1>1, <1>2, MrEmpty, PTL DEF MrSpec
=============================================================================
