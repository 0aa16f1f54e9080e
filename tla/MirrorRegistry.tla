--------------------------- MODULE MirrorRegistry ---------------------------
(***************************************************************************)
(* The mirror registry adapter (adapters/registry/mirror.py): every write  *)
(* goes to the primary registry and then to a replica, which is found      *)
(* through the SOURCE_TAG of its versions, and sync levels the replica.    *)
(* One model, one alias (LIVE) and one tag.  The two registries are used   *)
(* through their port: aliases and tags in one atomic call, create_version *)
(* in the two steps of filesystem.py, the version and then its artifact.   *)
(***************************************************************************)
EXTENDS Naturals, Sequences, FiniteSets

CONSTANTS MrClients,      \* the callers of the mirror
          MrMaxVersions,  \* bound: versions in either registry
          MrTagValues,    \* values of the one tag
          MrMaxCalls      \* bound: writes that are started

ASSUME MrAssumption == MrMaxVersions \in Nat /\ MrMaxCalls \in Nat

VARIABLES mrPrimary,   \* the primary: its versions, in order, and its alias
          mrReplica,   \* the replica: each version's source as well
          mrMode,      \* on_replica_error
          mrCall,      \* what each caller is doing
          mrCalls,     \* writes started
          mrSync,      \* the sync under way
          mrAnswered,  \* the versions create_version has answered
          mrCut,       \* the versions a copy of which was cut short
          mrLevel      \* a sync has finished and no other write moved since it began

mrVars == <<mrPrimary, mrReplica, mrMode, mrCall, mrCalls, mrSync, mrAnswered, mrCut, mrLevel>>

MrIdle == [op |-> "none", at |-> "idle", ver |-> 0, tag |-> "unset", copy |-> 0]
MrNoSync == [at |-> "idle", list |-> <<>>, i |-> 0, live |-> 0, copy |-> 0]

MrInit ==
    /\ mrPrimary = [vers |-> <<>>, live |-> 0]
    /\ mrReplica = [vers |-> <<>>, live |-> 0]
    /\ mrMode \in {"fail", "log"}
    /\ mrCall = [c \in MrClients |-> MrIdle]
    /\ mrCalls = 0 /\ mrSync = MrNoSync /\ mrAnswered = {} /\ mrCut = {} /\ mrLevel = FALSE

-----------------------------------------------------------------------------
(* The replica's side                                                      *)

\* The replica versions that copy primary version v, whatever their status;
\* the first one is used.
MrCopies(v) == {r \in DOMAIN mrReplica.vers : mrReplica.vers[r].src = v}
MrReplicaVersion(v) == CHOOSE r \in MrCopies(v) : \A s \in MrCopies(v) : r <= s
MrMapped(v) == MrCopies(v) # {}

\* create_version reserves the version, with its tags, before the artifact is
\* there.
MrReplicaReserve(v, tag) ==
    /\ Len(mrReplica.vers) < MrMaxVersions
    /\ mrReplica' = [mrReplica EXCEPT !.vers = Append(@, [src |-> v, tag |-> tag, ready |-> FALSE])]
MrReplicaAlias(v) == mrReplica' = [mrReplica EXCEPT !.live = MrReplicaVersion(v)]
MrReplicaTag(v, tag) == mrReplica' = [mrReplica EXCEPT !.vers[MrReplicaVersion(v)].tag = tag]

\* The upload of copy r is done; or a copy of version v is cut short, and the
\* reserved version stays, tags and all.
MrReplicaWhole(r) ==
    /\ mrReplica' = [mrReplica EXCEPT !.vers[r].ready = TRUE]
    /\ UNCHANGED mrCut
MrReplicaCut(v) ==
    /\ mrCut' = mrCut \cup {v}
    /\ UNCHANGED mrReplica

-----------------------------------------------------------------------------
(* A write: the primary first                                              *)

MrPrimaryWrite(c, op, at, v, tag) ==
    /\ mrCall[c].at = "idle" /\ mrCalls < MrMaxCalls
    /\ mrCall' = [mrCall EXCEPT ![c] = [MrIdle EXCEPT !.op = op, !.at = at, !.ver = v, !.tag = tag]]
    /\ mrCalls' = mrCalls + 1
    /\ mrLevel' = FALSE
    /\ UNCHANGED <<mrReplica, mrMode, mrSync, mrAnswered, mrCut>>

\* The primary reserves the version, and then uploads its artifact.
MrCreateVersion(c, tag) ==
    /\ Len(mrPrimary.vers) < MrMaxVersions
    /\ mrPrimary' = [mrPrimary EXCEPT !.vers = Append(@, [ready |-> FALSE, tag |-> tag])]
    /\ MrPrimaryWrite(c, "create", "upload", Len(mrPrimary.vers) + 1, tag)

MrPrimaryWhole(v) == mrPrimary' = [mrPrimary EXCEPT !.vers[v].ready = TRUE]

MrPrimaryFinish(c, call) ==
    /\ mrCall[c].at = "upload"
    /\ mrCall' = [mrCall EXCEPT ![c] = call]
    /\ mrLevel' = FALSE
    /\ UNCHANGED <<mrReplica, mrMode, mrCalls, mrSync, mrAnswered, mrCut>>

MrUploads(c) ==
    /\ MrPrimaryFinish(c, [mrCall[c] EXCEPT !.at = "replica"])
    /\ MrPrimaryWhole(mrCall[c].ver)

\* The primary's create_version raises or dies: its version stays, without an
\* artifact unless only the answer was lost, and the replica is not written.
MrCreateFails(c) ==
    /\ MrPrimaryFinish(c, MrIdle)
    /\ UNCHANGED mrPrimary \/ MrPrimaryWhole(mrCall[c].ver)

MrSetAlias(c, v) ==
    /\ v \in DOMAIN mrPrimary.vers
    /\ mrPrimary' = [mrPrimary EXCEPT !.live = v]
    /\ MrPrimaryWrite(c, "alias", "replica", v, "unset")

MrDeleteAlias(c) ==
    /\ mrPrimary' = [mrPrimary EXCEPT !.live = 0]
    /\ MrPrimaryWrite(c, "unalias", "replica", 0, "unset")

MrSetVersionTags(c, v, tag) ==
    /\ v \in DOMAIN mrPrimary.vers
    /\ mrPrimary' = [mrPrimary EXCEPT !.vers[v].tag = tag]
    /\ MrPrimaryWrite(c, "tags", "replica", v, tag)

\* _replicate: the same write on the replica.  A copy takes two steps; alias
\* and tags need the copy.
MrReplicaStep(c, call) ==
    /\ mrCall' = [mrCall EXCEPT ![c] = call]
    /\ mrLevel' = FALSE
    /\ UNCHANGED <<mrPrimary, mrMode, mrCalls, mrSync>>

MrReplicaCreates(c) ==
    /\ mrCall[c].at = "replica" /\ mrCall[c].op = "create"
    /\ MrReplicaReserve(mrCall[c].ver, mrCall[c].tag)
    /\ MrReplicaStep(c, [mrCall[c] EXCEPT !.at = "copy", !.copy = Len(mrReplica.vers) + 1])
    /\ UNCHANGED <<mrAnswered, mrCut>>

MrReplicaUploads(c) ==
    /\ mrCall[c].at = "copy"
    /\ MrReplicaWhole(mrCall[c].copy)
    /\ mrAnswered' = mrAnswered \cup {mrCall[c].ver}
    /\ MrReplicaStep(c, MrIdle)

MrReplicate(c) ==
    LET call == mrCall[c]
    IN  /\ call.at = "replica"
        /\ \/ call.op = "alias" /\ MrMapped(call.ver) /\ MrReplicaAlias(call.ver)
           \/ call.op = "unalias" /\ mrReplica' = [mrReplica EXCEPT !.live = 0]
           \/ call.op = "tags" /\ MrMapped(call.ver) /\ MrReplicaTag(call.ver, call.tag)
        /\ MrReplicaStep(c, MrIdle)
        /\ UNCHANGED <<mrAnswered, mrCut>>

\* The caller gets an answer although the replica was not written.
MrReplicaErrorLogged == mrMode = "log"

\* The replica is down, does not have the version, or fails or dies while it
\* copies; or the copy is done and only its answer is lost.
MrReplicaFails(c) ==
    /\ \/ mrCall[c].at = "replica" /\ UNCHANGED <<mrReplica, mrCut>>
       \/ /\ mrCall[c].at = "copy"
          /\ MrReplicaCut(mrCall[c].ver) \/ MrReplicaWhole(mrCall[c].copy)
    /\ mrAnswered' = IF mrCall[c].op = "create" /\ MrReplicaErrorLogged
                     THEN mrAnswered \cup {mrCall[c].ver} ELSE mrAnswered
    /\ MrReplicaStep(c, MrIdle)

-----------------------------------------------------------------------------
(* sync.  list holds the primary's versions as they were last listed, i    *)
(* the one in hand, copy its reserved replica version.                     *)

MrSyncStep(sync) == mrSync' = sync /\ UNCHANGED <<mrPrimary, mrMode, mrCall, mrCalls, mrAnswered>>

MrSyncStart ==
    /\ mrSync.at = "idle" /\ mrPrimary.vers # <<>>
    /\ MrSyncStep([MrNoSync EXCEPT !.at = "look", !.list = mrPrimary.vers, !.i = 1])
    /\ mrLevel' = TRUE
    /\ UNCHANGED <<mrReplica, mrCut>>

\* Any call of a sync may fail, and downloading a version without an artifact
\* always does.
MrSyncFails ==
    /\ \/ mrSync.at \notin {"idle", "upload"} /\ UNCHANGED <<mrReplica, mrCut>>
       \/ /\ mrSync.at = "upload"
          /\ MrReplicaCut(mrSync.i) \/ MrReplicaWhole(mrSync.copy)
    /\ MrSyncStep(MrNoSync)
    /\ mrLevel' = FALSE

\* A version that has a copy, whatever that copy's status, is passed over; any
\* other is downloaded.
MrSyncLook ==
    /\ mrSync.at = "look" /\ mrSync.i <= Len(mrSync.list)
    /\ IF MrMapped(mrSync.i) THEN MrSyncStep([mrSync EXCEPT !.i = @ + 1])
       ELSE mrPrimary.vers[mrSync.i].ready /\ MrSyncStep([mrSync EXCEPT !.at = "copy"])
    /\ UNCHANGED <<mrReplica, mrCut, mrLevel>>

MrSyncCopy ==
    /\ mrSync.at = "copy"
    /\ MrReplicaReserve(mrSync.i, mrSync.list[mrSync.i].tag)
    /\ MrSyncStep([mrSync EXCEPT !.at = "upload", !.copy = Len(mrReplica.vers) + 1])
    /\ UNCHANGED <<mrCut, mrLevel>>

MrSyncUpload ==
    /\ mrSync.at = "upload"
    /\ MrReplicaWhole(mrSync.copy)
    /\ MrSyncStep([mrSync EXCEPT !.at = "look", !.i = @ + 1, !.copy = 0])
    /\ UNCHANGED mrLevel

MrSyncRelist ==
    /\ mrSync.at = "look" /\ mrSync.i > Len(mrSync.list)
    /\ MrSyncStep([mrSync EXCEPT !.at = "tags", !.list = mrPrimary.vers, !.i = 1])
    /\ UNCHANGED <<mrReplica, mrCut, mrLevel>>

MrSyncTags ==
    /\ mrSync.at = "tags" /\ mrSync.i <= Len(mrSync.list) /\ MrMapped(mrSync.i)
    /\ MrReplicaTag(mrSync.i, mrSync.list[mrSync.i].tag)
    /\ MrSyncStep([mrSync EXCEPT !.i = @ + 1])
    /\ UNCHANGED <<mrCut, mrLevel>>

MrSyncReadAliases ==
    /\ mrSync.at = "tags" /\ mrSync.i > Len(mrSync.list)
    /\ MrSyncStep([mrSync EXCEPT !.at = "aliases", !.live = mrPrimary.live])
    /\ UNCHANGED <<mrReplica, mrCut, mrLevel>>

\* Mutant: aliases the primary has dropped are left on the replica.
MrExtraAliasKept(live) == live

\* The replica's alias once the ones the primary does not have are removed.
MrExtraAlias(live) == 0

\* The primary's alias is set on the copy; an alias it does not have goes.
MrSyncAliases ==
    /\ mrSync.at = "aliases"
    /\ \/ mrSync.live # 0 /\ MrMapped(mrSync.live) /\ MrReplicaAlias(mrSync.live)
       \/ mrSync.live = 0 /\ mrReplica' = [mrReplica EXCEPT !.live = MrExtraAlias(@)]
    /\ MrSyncStep([MrNoSync EXCEPT !.at = "done"])
    /\ UNCHANGED <<mrCut, mrLevel>>

MrSyncReturns ==
    /\ mrSync.at = "done" /\ MrSyncStep(MrNoSync)
    /\ UNCHANGED <<mrReplica, mrCut, mrLevel>>

MrStep(c) ==
    \/ \E tag \in MrTagValues : MrCreateVersion(c, tag)
    \/ MrUploads(c) \/ MrCreateFails(c)
    \/ \E v \in 1 .. MrMaxVersions : MrSetAlias(c, v)
    \/ \E v \in 1 .. MrMaxVersions, tag \in MrTagValues : MrSetVersionTags(c, v, tag)
    \/ MrDeleteAlias(c)
    \/ MrReplicaCreates(c) \/ MrReplicaUploads(c) \/ MrReplicate(c) \/ MrReplicaFails(c)

MrNext ==
    \/ \E c \in MrClients : MrStep(c)
    \/ MrSyncStart \/ MrSyncFails \/ MrSyncLook \/ MrSyncCopy \/ MrSyncUpload \/ MrSyncRelist
    \/ MrSyncTags \/ MrSyncReadAliases \/ MrSyncAliases \/ MrSyncReturns

MrSpec == MrInit /\ [][MrNext]_mrVars

-----------------------------------------------------------------------------
(* Properties                                                              *)

\* When a sync ends and no write moved since it began, the replica names what
\* the primary names: every primary version has a copy with its tag, and LIVE
\* is on the copy of the primary's LIVE version or nowhere, whatever earlier
\* writes, failures and interrupted syncs left behind (sync: "Bring the
\* replica's copy of name level with the primary").
MrSyncLevels ==
    mrSync.at = "done" /\ mrLevel =>
        /\ \A v \in DOMAIN mrPrimary.vers :
              MrMapped(v) /\ mrReplica.vers[MrReplicaVersion(v)].tag = mrPrimary.vers[v].tag
        /\ mrReplica.live = IF mrPrimary.live = 0 THEN 0 ELSE MrReplicaVersion(mrPrimary.live)

\* A caller or the sync is uploading the artifact of copy r.
MrUploading(r) ==
    \/ \E c \in MrClients : mrCall[c].at = "copy" /\ mrCall[c].copy = r
    \/ mrSync.at = "upload" /\ mrSync.copy = r

\* The replica only copies versions the primary has whole; a copy without its
\* artifact is under way or was cut short; and with on_replica_error = fail a
\* version create_version has answered has a whole copy (_replicate,
\* replica_version, download_artifacts).
MrReplicaFollows ==
    /\ \A r \in DOMAIN mrReplica.vers :
          /\ mrReplica.vers[r].src \in DOMAIN mrPrimary.vers
          /\ mrPrimary.vers[mrReplica.vers[r].src].ready
          /\ mrReplica.vers[r].ready \/ mrReplica.vers[r].src \in mrCut \/ MrUploading(r)
    /\ mrMode = "fail" => \A v \in mrAnswered : \E r \in MrCopies(v) : mrReplica.vers[r].ready

\* The replica is what the primary is, but for artifacts whose upload was cut
\* short (mirror.py).
MrMirrors == MrSyncLevels /\ MrReplicaFollows

\* After a replica write has failed, "sync repairs the replica" (mirror.py:9):
\* once a sync has levelled it and no upload is under way, the copy that is
\* used of every version has its artifact.  The code does not: a copy that was
\* cut short carries the source tag, and sync passes it over for ever.
MrSyncRepairs ==
    mrSync.at = "done" /\ mrLevel /\ (\A c \in MrClients : mrCall[c].at = "idle") =>
        \A v \in DOMAIN mrPrimary.vers : mrReplica.vers[MrReplicaVersion(v)].ready
=============================================================================
