---------------------------- MODULE FileRegistry ----------------------------
(***************************************************************************)
(* The filesystem registry adapter (adapters/registry/filesystem.py) over  *)
(* an artifact store (adapters/registry/artifact_stores.py), for one       *)
(* registered model.  Writers are separate processes: each write is a lock *)
(* file, a read of the JSON files, a rewrite of one of them by atomic      *)
(* rename, and the removal of the lock file.  The upload runs outside the  *)
(* lock, between the reservation of a version and its completion.          *)
(***************************************************************************)
EXTENDS Naturals, Sequences, FiniteSets

CONSTANTS FsClients,      \* the processes that use the registry
          FsMaxVersions,  \* bound: version numbers that may be reserved
          FsTags,         \* tag keys
          FsMaxCalls,     \* bound: writes that are started
          FsNobody        \* holder of a free lock

ASSUME FsAssumption ==
    /\ FsMaxVersions \in Nat /\ FsMaxCalls \in Nat
    /\ FsNobody \notin FsClients

VARIABLES fsModel,     \* model.json: the next number and the LIVE alias (0: none)
          fsFile,      \* versions/<n>/version.json of every number
          fsArtifact,  \* what the store holds under each version's key
          fsLock,      \* the holder of .lock
          fsCrashed,   \* the holder crashed and left the file behind
          fsStore,     \* the artifact store adapter behind the registry
          fsCall,      \* what each process is doing
          fsCalls,     \* writes started
          fsAnswers,   \* the versions create_version has answered
          fsTagged,    \* the tags set_version_tags has answered
          fsAliased    \* the version the last alias write named (0: deleted)

fsVars == <<fsModel, fsFile, fsArtifact, fsLock, fsCrashed, fsStore, fsCall,
            fsCalls, fsAnswers, fsTagged, fsAliased>>

FsVersions == 1 .. FsMaxVersions
FsNoFile == [status |-> "none", tags |-> {}]

\* A process at rest.  ok: no step of the call has failed; model, file: the
\* copies of the JSON files read under the lock.
FsIdle == [op |-> "none", at |-> "idle", ver |-> 0, tag |-> "none", ok |-> TRUE,
           model |-> [next |-> 1, live |-> 0], file |-> FsNoFile]

FsInit ==
    /\ fsModel = [next |-> 1, live |-> 0]
    /\ fsFile = [v \in FsVersions |-> FsNoFile]
    /\ fsArtifact = [v \in FsVersions |-> "absent"]
    /\ fsLock = FsNobody /\ fsCrashed = FALSE
    /\ fsStore \in {"filesystem", "fsspec"}
    /\ fsCall = [c \in FsClients |-> FsIdle]
    /\ fsCalls = 0 /\ fsAnswers = <<>> /\ fsTagged = {} /\ fsAliased = 0

FsHistory == <<fsAnswers, fsTagged, fsAliased>>

-----------------------------------------------------------------------------
(* The calls.  set_alias and set_version_tags look the version up before   *)
(* the lock; delete_alias returns at once when there is nothing to delete. *)

FsStart(c, op, v, t) ==
    /\ fsCall[c].at = "idle" /\ fsCalls < FsMaxCalls
    /\ fsCall' = [fsCall EXCEPT ![c] =
                     [FsIdle EXCEPT !.op = op, !.at = "lock", !.ver = v, !.tag = t]]
    /\ fsCalls' = fsCalls + 1
    /\ UNCHANGED <<fsModel, fsFile, fsArtifact, fsLock, fsCrashed, fsStore, FsHistory>>

FsRawVersion(v) == fsFile[v].status # "none"

FsCreateVersion(c) == FsStart(c, "create", 0, "none")
FsSetAlias(c, v) == FsRawVersion(v) /\ FsStart(c, "alias", v, "none")
FsDeleteAlias(c) == fsModel.live # 0 /\ FsStart(c, "unalias", 0, "none")
FsSetVersionTags(c, v, t) == FsRawVersion(v) /\ FsStart(c, "tags", v, t)

-----------------------------------------------------------------------------
(* The lock file                                                           *)

FsLockFree == fsLock = FsNobody

FsAt(c, place) == fsCall' = [fsCall EXCEPT ![c].at = place]

FsTakeLock(c) ==
    /\ fsCall[c].at \in {"lock", "relock"}
    /\ FsLockFree
    /\ fsLock' = c
    /\ FsAt(c, "read")
    /\ UNCHANGED <<fsModel, fsFile, fsArtifact, fsCrashed, fsStore, fsCalls, FsHistory>>

\* The deadline passes while somebody holds the file: RegistryUnavailableError.
\* The completion of an upload gives up in the same way, and its version
\* then stays PENDING.
FsLockTimeout(c) ==
    /\ fsCall[c].at \in {"lock", "relock"}
    /\ ~FsLockFree
    /\ fsCall' = [fsCall EXCEPT ![c] = FsIdle]
    /\ UNCHANGED <<fsModel, fsFile, fsArtifact, fsLock, fsCrashed, fsStore, fsCalls, FsHistory>>

\* The process dies: its lock file stays, and so does what it has written.
FsCrash(c) ==
    /\ fsCall[c].at # "idle"
    /\ fsCall' = [fsCall EXCEPT ![c] = FsIdle]
    /\ fsCrashed' = (fsCrashed \/ fsLock = c)
    /\ UNCHANGED <<fsModel, fsFile, fsArtifact, fsLock, fsStore, fsCalls, FsHistory>>

\* What the timeout's message asks of the operator.
FsRemoveLock ==
    /\ fsCrashed /\ fsCrashed' = FALSE /\ fsLock' = FsNobody
    /\ UNCHANGED <<fsModel, fsFile, fsArtifact, fsStore, fsCall, fsCalls, FsHistory>>

-----------------------------------------------------------------------------
(* Under the lock                                                          *)

FsRead(c) ==
    /\ fsCall[c].at = "read"
    /\ LET new == fsCall[c].op = "create"
           v == IF new THEN fsModel.next ELSE fsCall[c].ver
       IN  /\ new => v \in FsVersions
           /\ fsCall' = [fsCall EXCEPT ![c].at = "write", ![c].model = fsModel,
                            ![c].ver = v,
                            ![c].file = IF v = 0 THEN FsNoFile ELSE fsFile[v]]
    /\ UNCHANGED <<fsModel, fsFile, fsArtifact, fsLock, fsCrashed, fsStore, fsCalls, FsHistory>>

\* create_version saves model.json with the next number, then the record.
FsReserve(c) ==
    /\ fsCall[c].at = "write" /\ fsCall[c].op = "create"
    /\ fsModel' = [fsCall[c].model EXCEPT !.next = @ + 1]
    /\ FsAt(c, "record")
    /\ UNCHANGED <<fsFile, fsArtifact, fsLock, fsCrashed, fsStore, fsCalls, FsHistory>>

FsRecord(c) ==
    /\ fsCall[c].at = "record"
    /\ fsFile' = [fsFile EXCEPT ![fsCall[c].ver] = [status |-> "PENDING", tags |-> {}]]
    /\ FsAt(c, "unlock")
    /\ UNCHANGED <<fsModel, fsArtifact, fsLock, fsCrashed, fsStore, fsCalls, FsHistory>>

FsWriteAlias(c) ==
    /\ fsCall[c].at = "write" /\ fsCall[c].op \in {"alias", "unalias"}
    /\ fsModel' = [fsCall[c].model EXCEPT !.live = fsCall[c].ver]
    /\ fsAliased' = fsCall[c].ver
    /\ FsAt(c, "unlock")
    /\ UNCHANGED <<fsFile, fsArtifact, fsLock, fsCrashed, fsStore, fsCalls,
                   fsAnswers, fsTagged>>

FsWriteTags(c) ==
    /\ fsCall[c].at = "write" /\ fsCall[c].op = "tags"
    /\ fsFile' = [fsFile EXCEPT ![fsCall[c].ver] =
                     [fsCall[c].file EXCEPT !.tags = @ \cup {fsCall[c].tag}]]
    /\ FsAt(c, "unlock")
    /\ UNCHANGED <<fsModel, fsArtifact, fsLock, fsCrashed, fsStore, fsCalls, FsHistory>>

\* _finish: the status the upload earned, in the record as it is now.
FsFinish(c) ==
    /\ fsCall[c].at = "write" /\ fsCall[c].op \in {"READY", "FAILED"}
    /\ fsFile' = [fsFile EXCEPT ![fsCall[c].ver] =
                     [fsCall[c].file EXCEPT !.status = fsCall[c].op]]
    /\ FsAt(c, "unlock")
    /\ UNCHANGED <<fsModel, fsArtifact, fsLock, fsCrashed, fsStore, fsCalls, FsHistory>>

\* The volume refuses the write: the error leaves through the lock's finally.
FsWriteFails(c) ==
    /\ fsCall[c].at \in {"write", "record"}
    /\ fsCall' = [fsCall EXCEPT ![c].at = "unlock", ![c].ok = FALSE]
    /\ UNCHANGED <<fsModel, fsFile, fsArtifact, fsLock, fsCrashed, fsStore, fsCalls, FsHistory>>

\* The lock file goes; a reservation goes on to its upload, any other call
\* returns, or raises if a step of it failed.
FsUnlock(c) ==
    /\ fsCall[c].at = "unlock"
    /\ fsLock' = FsNobody
    /\ fsCall' = [fsCall EXCEPT ![c] = IF fsCall[c].op = "create" /\ fsCall[c].ok
                                       THEN [@ EXCEPT !.at = "put"] ELSE FsIdle]
    /\ fsTagged' = IF fsCall[c].op = "tags" /\ fsCall[c].ok
                   THEN fsTagged \cup {<<fsCall[c].ver, fsCall[c].tag>>} ELSE fsTagged
    /\ fsAnswers' = IF fsCall[c].op = "READY" /\ fsCall[c].ok
                    THEN Append(fsAnswers, fsCall[c].ver) ELSE fsAnswers
    /\ UNCHANGED <<fsModel, fsFile, fsArtifact, fsCrashed, fsStore, fsCalls, fsAliased>>

-----------------------------------------------------------------------------
(* The artifact store.  The directory store copies into a staging          *)
(* directory and publishes it with one rename; the object store uploads    *)
(* file by file.                                                           *)

FsPutFile(c) ==
    /\ fsCall[c].at = "put" /\ fsStore = "fsspec" /\ fsArtifact[fsCall[c].ver] = "absent"
    /\ fsArtifact' = [fsArtifact EXCEPT ![fsCall[c].ver] = "partial"]
    /\ UNCHANGED <<fsModel, fsFile, fsLock, fsCrashed, fsStore, fsCall, fsCalls, FsHistory>>

FsPutDone(c) ==
    /\ fsCall[c].at = "put"
    /\ fsStore = "fsspec" => fsArtifact[fsCall[c].ver] = "partial"
    /\ fsArtifact' = [fsArtifact EXCEPT ![fsCall[c].ver] = "whole"]
    /\ fsCall' = [fsCall EXCEPT ![c].at = "relock", ![c].op = "READY"]
    /\ UNCHANGED <<fsModel, fsFile, fsLock, fsCrashed, fsStore, fsCalls, FsHistory>>

\* Mutant: a failed upload completed like a successful one.
FsAfterFailedPutReady == "READY"

\* What the version becomes when its upload raises.
FsAfterFailedPut == "FAILED"

FsPutFails(c) ==
    /\ fsCall[c].at = "put"
    /\ fsCall' = [fsCall EXCEPT ![c].at = "relock", ![c].op = FsAfterFailedPut]
    /\ UNCHANGED <<fsModel, fsFile, fsArtifact, fsLock, fsCrashed, fsStore, fsCalls, FsHistory>>

FsStep(c) ==
    \/ FsCreateVersion(c) \/ FsDeleteAlias(c)
    \/ \E v \in FsVersions : FsSetAlias(c, v)
    \/ \E v \in FsVersions, t \in FsTags : FsSetVersionTags(c, v, t)
    \/ FsTakeLock(c) \/ FsLockTimeout(c) \/ FsCrash(c)
    \/ FsRead(c) \/ FsReserve(c) \/ FsRecord(c) \/ FsWriteAlias(c) \/ FsWriteTags(c)
    \/ FsFinish(c) \/ FsWriteFails(c) \/ FsUnlock(c)
    \/ FsPutFile(c) \/ FsPutDone(c) \/ FsPutFails(c)

FsNext == FsRemoveLock \/ \E c \in FsClients : FsStep(c)

FsSpec == FsInit /\ [][FsNext]_fsVars

-----------------------------------------------------------------------------
(* Properties                                                              *)

\* What download_artifacts would hand out: it refuses a version that is not
\* READY and copies whatever the store holds under the version's key.
FsServes(v) == fsFile[v].status = "READY"

\* A version that can be downloaded has its whole artifact in the store,
\* through crashes, failed and half-finished uploads and writers that
\* rewrite its record while the upload runs (create_version, _finish,
\* FilesystemArtifactStore.put, FsspecArtifactStore.put).
FsReadyIsWhole == \A v \in FsVersions : FsServes(v) => fsArtifact[v] = "whole"

\* Every write the registry has answered is still there although all of
\* them rewrite whole JSON files: no number is answered twice, no tag a
\* writer was told is stored disappears under _finish or another writer's
\* tags, and the alias is the one the last alias write named although
\* create_version rewrites the same model.json (_lock, _finish).
FsNoWriteLost ==
    /\ \A i, j \in 1 .. Len(fsAnswers) : fsAnswers[i] = fsAnswers[j] => i = j
    /\ \A p \in fsTagged : p[2] \in fsFile[p[1]].tags
    /\ fsModel.live = fsAliased

\* Nothing that was answered is lost or torn (filesystem.py).
FsNothingLost == FsReadyIsWhole /\ FsNoWriteLost
=============================================================================
